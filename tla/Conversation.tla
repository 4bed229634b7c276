----------------------------- MODULE Conversation -----------------------------
(***************************************************************************)
(* The chat of one phone number: the WhatsApp webhook with its business    *)
(* and role resolution, the session manager and the flow engine            *)
(* (internal/platform/whatsapp, resolver, session, flow, loyalty).         *)
(*                                                                         *)
(* The webhook starts a goroutine per message and keeps nothing in memory: *)
(* the session, the pending choice of a business and the state of a flow   *)
(* are Redis keys, each read and written whole.  A handler is a process    *)
(* that takes one step per Redis or Postgres statement.  What a finished   *)
(* flow asks for is handed to the module of a program (EarnBurn, Cashback, *)
(* Pushcard); here it is an entry of dispatched.                           *)
(***************************************************************************)
EXTENDS Integers, Sequences, FiniteSets

CONSTANTS
    Businesses,   \* active customers
    NameOf,       \* NameOf[b]: its name, trimmed and in lower case
    StaffStates,  \* StaffStates[b]: what the phone may be to b as an employee
    Commands,     \* commands the registry knows
    Steps,        \* Steps[c]: the keys a flow asks for; <<>> without a flow
    Preset,       \* Preset[c]: keys that come with the list row that begins c
    PhotoKeys,    \* keys of the steps that need a photo
    Inbox,        \* messages the phone may send
    Procs,        \* goroutines handling messages at the same time
    Nil,          \* no session
    MaxMessages,  \* bound: messages handled in a behaviour
    MaxOverlaps,  \* bound: messages that arrive while another is handled
    MaxDisturbances  \* bound: keys that lapse, changes by the admin, failing
                     \* calls and restarts of the server, together

ASSUME CommandsAssumption ==
    /\ \A c \in Commands : Steps[c] \in Seq(STRING)
    /\ Preset \in [Commands -> SUBSET STRING]
    /\ PhotoKeys \subseteq STRING
    /\ DOMAIN NameOf = Businesses
    /\ StaffStates \in [Businesses -> SUBSET {"none", "active", "inactive"}]

ASSUME BoundsAssumption == {MaxMessages, MaxOverlaps, MaxDisturbances} \subseteq Nat

VARIABLES
    session,    \* session:{phone}
    selection,  \* session:select:{phone}, {} when there is none
    flow,       \* flow:{phone}:{business}
    clients,    \* businesses that have the phone among their clients
    staff,      \* the phone's row in collaborators, by business
    programs,   \* businesses with an active program
    pc,         \* where each handler is
    job,        \* what each handler holds
    messages,   \* messages handled so far
    disturbances, \* what else has happened
    dispatched, \* history: commands handed to a module, in order
    left,       \* history: sessions the user asked to leave
    failed,     \* history: some call failed
    turnedAway, \* history: someone chose a business and got no role
    overlaps    \* history: messages that arrived while another was handled

redisVars == <<session, selection, flow>>
dbVars == <<clients, staff, programs>>
calmVars == <<disturbances, failed>>
historyVars == <<dispatched, left, turnedAway, overlaps>>
vars == <<redisVars, dbVars, pc, job, messages, calmVars, historyVars>>

-----------------------------------------------------------------------------
(* Values *)

Roles == {"client", "collaborator"}

Keys == UNION {Preset[c] \cup {Steps[c][i] : i \in DOMAIN Steps[c]} : c \in Commands}

(* UserContext.  The ids are those of the business's rows for this phone,  *)
(* so all there is to know is whether they are set; id numbers the session *)
(* by the message that created it.                                         *)
Session == [business : Businesses, role : Roles, collab : BOOLEAN,
            client : BOOLEAN, modules : BOOLEAN, id : Nat]

(* No session and no command are none of those there are. *)
ASSUME NilAssumption == Nil \notin Session \cup Commands

(* State.  begun, session and role tell in which message, session and role *)
(* the flow was begun.                                                     *)
Flow == [command : Commands, step : Nat, data : SUBSET Keys,
         begun : Nat, session : Nat, role : Roles]

NoFlow == [command |-> Nil, step |-> 0, data |-> {},
           begun |-> 0, session |-> 0, role |-> Nil]

Text == [kind |-> "text"]

(* A photo, a row of the menu or of a list of rewards, a row of the list   *)
(* of businesses, the name of one typed in, and the two forms of the link  *)
(* that joins one; an unknown id may be in a link.                         *)
Message ==
    {Text} \cup [kind : {"image", "leave", "switch"}]
           \cup [kind : {"command"}, command : Commands]
           \cup [kind : {"business", "joinId"}, business : Businesses \cup {Nil}]
           \cup [kind : {"name", "joinName"}, name : STRING]

ASSUME InboxAssumption == Inbox \subseteq Message

(* ends: the answer is the choice of a business, and nothing after it.     *)
Job == [msg : Message, number : Nat, ends : BOOLEAN, uc : Session \cup {Nil},
        business : Businesses \cup {Nil}, options : SUBSET Businesses,
        collab : BOOLEAN, client : BOOLEAN, fs : Flow \cup {NoFlow}]

NoJob == [msg |-> Text, number |-> 0, ends |-> FALSE, uc |-> Nil, business |-> Nil,
          options |-> {}, collab |-> FALSE, client |-> FALSE, fs |-> NoFlow]

PCs == {"idle", "backfill", "deleteSession", "resetLeft",
        "registerSwitch", "findSwitch", "saveRole", "resetRole",
        "getPending", "deletePending", "resolve", "savePending", "register",
        "resetFlow", "findCollaborator", "findClient", "saveSession",
        "getFlow", "saveFlow", "deleteFlow", "dispatch"}

Biz(p) == job[p].business

Goto(p, step) == pc' = [pc EXCEPT ![p] = step]

GotoWith(p, step, j) == Goto(p, step) /\ job' = [job EXCEPT ![p] = j]

Finish(p) == GotoWith(p, "idle", NoJob)

Disturb == disturbances < MaxDisturbances /\ disturbances' = disturbances + 1

(* A call fails: a return with its error, or an error nobody looks at. *)
Fail == Disturb /\ failed' = TRUE

-----------------------------------------------------------------------------
(* processMessage: the session *)

(* Where a message with a session goes once the session is complete. *)
Route(uc, m) ==
    CASE m.kind = "leave" -> "deleteSession"
      [] m.kind = "switch" -> IF uc.role = "collaborator" /\ ~uc.client
                              THEN "registerSwitch" ELSE "saveRole"
      [] OTHER -> "getFlow"

WithSession(p, uc, m) ==
    GotoWith(p, IF uc.modules THEN Route(uc, m) ELSE "backfill",
             [job[p] EXCEPT !.uc = uc, !.msg = m])

Receive(p) ==
    \E m \in Inbox :
        /\ pc[p] = "idle"
        /\ messages < MaxMessages
        /\ messages' = messages + 1
        /\ IF \A q \in Procs : pc[q] = "idle" THEN UNCHANGED overlaps
           ELSE overlaps < MaxOverlaps /\ overlaps' = overlaps + 1
        /\ LET j == [NoJob EXCEPT !.msg = m, !.number = messages + 1]
           IN  IF session = Nil THEN GotoWith(p, "getPending", j)
               ELSE GotoWith(p, IF session.modules THEN Route(session, m) ELSE "backfill",
                             [j EXCEPT !.uc = session])
        /\ UNCHANGED <<redisVars, dbVars, calmVars, dispatched, left, turnedAway>>

(* GetActiveProgramTypes *)
HasPrograms(b) == b \in programs

(* The active modules of a session that has none, and SetSession, whose    *)
(* error nobody looks at.                                                  *)
Backfill(p) ==
    LET uc == job[p].uc
        full == [uc EXCEPT !.modules = HasPrograms(uc.business)]
    IN  /\ pc[p] = "backfill"
        /\ \/ /\ session' = full
              /\ GotoWith(p, Route(full, job[p].msg), [job[p] EXCEPT !.uc = full])
              /\ UNCHANGED calmVars
           \/ /\ Fail
              /\ Goto(p, Route(uc, job[p].msg))
              /\ UNCHANGED <<session, job>>
        /\ UNCHANGED <<selection, flow, dbVars, messages, historyVars>>

(* Faulty variant: the session is kept. *)
KeepSession == UNCHANGED session

DropSession == session' = Nil

(* "cambiar_negocio": the session and the flow go, and the business is     *)
(* resolved with an empty text.                                            *)
DeleteSession(p) ==
    /\ pc[p] = "deleteSession"
    /\ \/ DropSession /\ UNCHANGED calmVars
       \/ Fail /\ UNCHANGED session
    /\ left' = left \cup {job[p].uc.id}
    /\ Goto(p, "resetLeft")
    /\ UNCHANGED <<selection, flow, dbVars, job, messages,
                   dispatched, turnedAway, overlaps>>

(* Faulty variant: the flow stays. *)
KeepFlow(b) == flow

(* Engine.ResetFlow, whose DEL may fail unnoticed. *)
WithoutFlow(b) == [flow EXCEPT ![b] = NoFlow]

ResetFlow(b) == \/ flow' = WithoutFlow(b) /\ UNCHANGED calmVars
                \/ Fail /\ UNCHANGED flow

ResetLeft(p) ==
    /\ pc[p] = "resetLeft"
    /\ ResetFlow(job[p].uc.business)
    /\ GotoWith(p, "getPending", [job[p] EXCEPT !.uc = Nil, !.ends = TRUE])
    /\ UNCHANGED <<session, selection, dbVars, messages, historyVars>>

(* "cambiar_rol", for an employee who is no client yet.  The errors of both *)
(* statements are dropped: the id may be missing for want of either.        *)
RegisterSwitch(p) ==
    /\ pc[p] = "registerSwitch"
    /\ \/ /\ clients' = clients \cup {job[p].uc.business}
          /\ UNCHANGED calmVars
       \/ Fail /\ UNCHANGED clients
    /\ Goto(p, "findSwitch")
    /\ UNCHANGED <<redisVars, staff, programs, job, messages, historyVars>>

HasClient(b) == b \in clients

FindSwitch(p) ==
    /\ pc[p] = "findSwitch"
    /\ \E found \in BOOLEAN :
         /\ IF found = HasClient(job[p].uc.business) THEN UNCHANGED calmVars
            ELSE ~found /\ Fail
         /\ GotoWith(p, "saveRole", [job[p] EXCEPT !.uc.client = found])
    /\ UNCHANGED <<redisVars, dbVars, messages, historyVars>>

Switched(uc) ==
    [uc EXCEPT !.role = IF @ = "collaborator" THEN "client"
                        ELSE IF uc.collab THEN "collaborator" ELSE @]

SaveRole(p) ==
    LET uc == Switched(job[p].uc)
    IN  /\ pc[p] = "saveRole"
        /\ \/ session' = uc /\ UNCHANGED calmVars
           \/ Fail /\ UNCHANGED session
        /\ GotoWith(p, "resetRole", [job[p] EXCEPT !.uc = uc])
        /\ UNCHANGED <<selection, flow, dbVars, messages, historyVars>>

ResetRole(p) ==
    /\ pc[p] = "resetRole"
    /\ ResetFlow(job[p].uc.business)
    /\ GotoWith(p, "getFlow", [job[p] EXCEPT !.msg = Text])
    /\ UNCHANGED <<session, selection, dbVars, messages, historyVars>>

-----------------------------------------------------------------------------
(* resolveContext: the business *)

(* The message answers the list with the id or the name of one of it. *)
Picks(m, b) == \/ m.kind = "business" /\ m.business = b
               \/ m.kind = "name" /\ m.name = NameOf[b]

GetPending(p) ==
    /\ pc[p] = "getPending"
    /\ \/ selection = {} /\ Goto(p, "resolve") /\ UNCHANGED job
       \/ \E b \in selection :
            /\ Picks(job[p].msg, b)
            /\ GotoWith(p, "deletePending", [job[p] EXCEPT !.business = b])
       \/ /\ selection # {}
          /\ \A b \in selection : ~Picks(job[p].msg, b)
          /\ Finish(p)
    /\ UNCHANGED <<redisVars, dbVars, messages, calmVars, historyVars>>

DeletePending(p) ==
    /\ pc[p] = "deletePending"
    /\ \/ selection' = {} /\ UNCHANGED calmVars
       \/ Fail /\ UNCHANGED selection
    /\ Goto(p, "resetFlow")
    /\ UNCHANGED <<session, flow, dbVars, job, messages, historyVars>>

Named(m) == {b \in Businesses : m.kind = "joinName" /\ m.name = NameOf[b]}

(* FindBusinessesByPhone *)
Mine == {b \in Businesses : b \in clients \/ staff[b] = "active"}

(* ~UserExistsInBusiness, which counts inactive employees too. *)
IsNew(b) == b \notin clients /\ staff[b] = "none"

Join(p, b) == GotoWith(p, IF IsNew(b) THEN "register" ELSE "resetFlow",
                       [job[p] EXCEPT !.business = b])

Offer(p, options) == GotoWith(p, "savePending", [job[p] EXCEPT !.options = options])

(* BusinessResolver.Resolve: a link with an id, a link with a name, or the *)
(* businesses that know the phone.                                         *)
Resolve(p) ==
    LET m == job[p].msg
    IN  /\ pc[p] = "resolve"
        /\ \/ /\ m.kind = "joinId"
              /\ IF m.business \in Businesses THEN Join(p, m.business) ELSE Finish(p)
           \/ \E b \in Named(m) : Named(m) = {b} /\ Join(p, b)
           \/ Cardinality(Named(m)) > 1 /\ Offer(p, Named(m))
           \/ /\ m.kind # "joinId" /\ Named(m) = {}
              /\ \/ Mine = {} /\ Finish(p)
                 \/ \E b \in Mine : /\ Mine = {b}
                                    /\ GotoWith(p, "resetFlow",
                                                [job[p] EXCEPT !.business = b])
                 \/ Cardinality(Mine) > 1 /\ Offer(p, Mine)
        /\ UNCHANGED <<redisVars, dbVars, messages, calmVars, historyVars>>

(* SetPendingSelection, once the list has been sent. *)
SavePending(p) ==
    /\ pc[p] = "savePending"
    /\ selection' = job[p].options
    /\ Finish(p)
    /\ UNCHANGED <<session, flow, dbVars, messages, calmVars, historyVars>>

Register(p) ==
    /\ pc[p] = "register"
    /\ clients' = clients \cup {Biz(p)}
    /\ Goto(p, "resetFlow")
    /\ UNCHANGED <<redisVars, staff, programs, job, messages, calmVars, historyVars>>

-----------------------------------------------------------------------------
(* resolveAndCreateSession: the role *)

(* Faulty variant: the flow of an earlier session is left alone. *)
SkipReset(p) ==
    /\ pc[p] = "resetFlow"
    /\ Goto(p, "findCollaborator")
    /\ UNCHANGED <<redisVars, dbVars, job, messages, calmVars, historyVars>>

ResetNew(p) ==
    /\ pc[p] = "resetFlow"
    /\ ResetFlow(Biz(p))
    /\ Goto(p, "findCollaborator")
    /\ UNCHANGED <<session, selection, dbVars, job, messages, historyVars>>

FindCollaborator(p) ==
    /\ pc[p] = "findCollaborator"
    /\ GotoWith(p, "findClient", [job[p] EXCEPT !.collab = staff[Biz(p)] = "active"])
    /\ UNCHANGED <<redisVars, dbVars, messages, calmVars, historyVars>>

(* The client's id, for its role or as the second role of an employee, in  *)
(* which case an error passes for none.                                    *)
FindClient(p) ==
    LET found == HasClient(Biz(p))
    IN  /\ pc[p] = "findClient"
        /\ \/ /\ found \/ job[p].collab
              /\ GotoWith(p, "saveSession", [job[p] EXCEPT !.client = found])
              /\ UNCHANGED <<turnedAway, calmVars>>
           \/ /\ ~found /\ ~job[p].collab
              /\ turnedAway' = TRUE
              /\ Finish(p)
              /\ UNCHANGED calmVars
           \/ /\ job[p].collab /\ Fail
              /\ Goto(p, "saveSession")
              /\ UNCHANGED <<job, turnedAway>>
        /\ UNCHANGED <<redisVars, dbVars, messages,
                       dispatched, left, overlaps>>

NewSession(p, modules) ==
    [business |-> Biz(p), role |-> IF job[p].collab THEN "collaborator" ELSE "client",
     collab |-> job[p].collab, client |-> job[p].client,
     modules |-> modules, id |-> job[p].number]

(* What is left of the message that created a session: an empty text, with *)
(* the photo if there was one.                                             *)
Rest(m) == IF m.kind = "image" THEN m ELSE Text

(* GetActiveProgramTypes, whose error leaves no modules, and SetSession.   *)
(* After "cambiar_negocio" in an earlier session that is all.              *)
SaveSession(p) ==
    /\ pc[p] = "saveSession"
    /\ \E modules \in BOOLEAN :
        /\ IF modules = HasPrograms(Biz(p)) THEN UNCHANGED calmVars
           ELSE ~modules /\ Fail
        /\ session' = NewSession(p, modules)
        /\ IF job[p].ends THEN Finish(p)
           ELSE WithSession(p, NewSession(p, modules), Rest(job[p].msg))
    /\ UNCHANGED <<selection, flow, dbVars, messages, historyVars>>

-----------------------------------------------------------------------------
(* Engine.HandleMessage: the flow *)

(* The steps whose keys came with the selection are skipped. *)
StartStep(c) ==
    CHOOSE n \in 0..Len(Steps[c]) :
        /\ \A i \in 1..n : Steps[c][i] \in Preset[c]
        /\ n < Len(Steps[c]) => Steps[c][n + 1] \notin Preset[c]

Complete(fs) == fs.step >= Len(Steps[fs.command])

(* handleMenuSelection and startFlowWithData. *)
Start(p, c) ==
    LET fs == [command |-> c, step |-> StartStep(c), data |-> Preset[c],
               begun |-> job[p].number, session |-> job[p].uc.id,
               role |-> job[p].uc.role]
    IN  GotoWith(p, IF Complete(fs) THEN "dispatch" ELSE "saveFlow",
                 [job[p] EXCEPT !.fs = fs])

(* Faulty variant: what the user sent is not kept. *)
AnsweredWithout(f, key) == [f EXCEPT !.step = @ + 1]

Answered(f, key) == [f EXCEPT !.step = @ + 1, !.data = @ \cup {key}]

(* processStep: a photo that is missing or cannot be read, and an input    *)
(* that is not valid, are asked for again; any other message is an answer. *)
Answer(p, f) ==
    LET key == Steps[f.command][f.step + 1]
        fs == Answered(f, key)
    IN  \/ Finish(p)
        \/ /\ key \in PhotoKeys => job[p].msg.kind = "image"
           /\ GotoWith(p, IF Complete(fs) THEN "deleteFlow" ELSE "saveFlow",
                       [job[p] EXCEPT !.fs = fs])

GetFlow(p) ==
    LET f == flow[job[p].uc.business]
        m == job[p].msg
    IN  /\ pc[p] = "getFlow"
        /\ \/ f # NoFlow /\ Answer(p, f)
           \/ f = NoFlow /\ m.kind = "command" /\ Start(p, m.command)
           \/ f = NoFlow /\ m.kind # "command" /\ Finish(p)
        /\ UNCHANGED <<redisVars, dbVars, messages, calmVars, historyVars>>

SaveFlow(p) ==
    /\ pc[p] = "saveFlow"
    /\ flow' = [flow EXCEPT ![job[p].uc.business] = job[p].fs]
    /\ Finish(p)
    /\ UNCHANGED <<session, selection, dbVars, messages, calmVars, historyVars>>

(* The flow ends before its command is executed. *)
DeleteFlow(p) ==
    /\ pc[p] = "deleteFlow"
    /\ ResetFlow(job[p].uc.business)
    /\ Goto(p, "dispatch")
    /\ UNCHANGED <<session, selection, dbVars, job, messages, historyVars>>

(* Registry.Dispatch *)
Dispatch(p) ==
    /\ pc[p] = "dispatch"
    /\ dispatched' = Append(dispatched,
          [fs |-> job[p].fs, session |-> job[p].uc.id, role |-> job[p].uc.role])
    /\ Finish(p)
    /\ UNCHANGED <<redisVars, dbVars, messages, calmVars,
                   left, turnedAway, overlaps>>

-----------------------------------------------------------------------------
(* What can happen at any time *)

(* A call fails and the handler returns, or the server goes down. *)
Abort(p) ==
    /\ pc[p] # "idle"
    /\ Fail
    /\ Finish(p)
    /\ UNCHANGED <<redisVars, dbVars, messages, historyVars>>

(* The TTLs.  Reading the session, or a flow, puts its TTL back to half an *)
(* hour, so neither lapses under a handler that has just read it.          *)
Expire ==
    /\ Disturb
    /\ \/ /\ session # Nil /\ \A p \in Procs : pc[p] = "idle"
          /\ session' = Nil
          /\ UNCHANGED <<selection, flow>>
       \/ /\ selection # {}
          /\ selection' = {}
          /\ UNCHANGED <<session, flow>>
       \/ \E b \in Businesses :
          /\ flow[b] # NoFlow /\ \A p \in Procs : job[p].fs = NoFlow
          /\ flow' = [flow EXCEPT ![b] = NoFlow]
          /\ UNCHANGED <<session, selection>>
    /\ UNCHANGED <<dbVars, pc, job, messages, failed, historyVars>>

(* The admin adds, suspends or takes back an employee, and turns the       *)
(* programs of a business on or off.                                       *)
Administer(b) ==
    /\ Disturb
    /\ \/ \E s \in StaffStates[b] \ {"none", staff[b]} :
            staff' = [staff EXCEPT ![b] = s] /\ UNCHANGED programs
       \/ /\ programs' = IF b \in programs THEN programs \ {b} ELSE programs \cup {b}
          /\ UNCHANGED staff
    /\ UNCHANGED <<redisVars, clients, pc, job, messages, failed, historyVars>>

-----------------------------------------------------------------------------
(* The specification *)

Init ==
    /\ session = Nil
    /\ selection = {}
    /\ flow = [b \in Businesses |-> NoFlow]
    /\ clients \in SUBSET Businesses
    /\ staff \in {f \in [Businesses -> {"none", "active", "inactive"}] :
                     \A b \in Businesses : f[b] \in StaffStates[b]}
    /\ programs = Businesses
    /\ pc = [p \in Procs |-> "idle"]
    /\ job = [p \in Procs |-> NoJob]
    /\ messages = 0 /\ disturbances = 0 /\ failed = FALSE
    /\ dispatched = <<>>
    /\ left = {}
    /\ turnedAway = FALSE
    /\ overlaps = 0

Step(p) ==
    \/ Backfill(p) \/ DeleteSession(p) \/ ResetLeft(p)
    \/ RegisterSwitch(p) \/ FindSwitch(p) \/ SaveRole(p) \/ ResetRole(p)
    \/ GetPending(p) \/ DeletePending(p) \/ Resolve(p) \/ SavePending(p)
    \/ Register(p) \/ ResetNew(p) \/ FindCollaborator(p) \/ FindClient(p)
    \/ SaveSession(p) \/ GetFlow(p) \/ SaveFlow(p) \/ DeleteFlow(p) \/ Dispatch(p)

Quiescent ==
    /\ messages = MaxMessages
    /\ \A p \in Procs : pc[p] = "idle"
    /\ UNCHANGED vars

Next == \/ \E p \in Procs : Receive(p) \/ Step(p) \/ Abort(p)
        \/ Expire
        \/ \E b \in Businesses : Administer(b)
        \/ Quiescent

Spec == Init /\ [][Next]_vars

-----------------------------------------------------------------------------
(* Properties *)

(* Every variable keeps to the values the code can write. *)
TypeOK ==
    /\ session \in Session \cup {Nil}
    /\ selection \subseteq Businesses
    /\ flow \in [Businesses -> Flow \cup {NoFlow}]
    /\ clients \subseteq Businesses
    /\ staff \in [Businesses -> {"none", "active", "inactive"}]
    /\ programs \subseteq Businesses
    /\ pc \in [Procs -> PCs]
    /\ job \in [Procs -> Job]
    /\ messages \in Nat /\ disturbances \in Nat /\ failed \in BOOLEAN
    /\ dispatched \in Seq([fs : Flow, session : Nat, role : Roles])
    /\ left \subseteq Nat
    /\ turnedAway \in BOOLEAN /\ overlaps \in Nat

(* processStep indexes flowDef.Steps with the step it read: whatever       *)
(* handlers wrote the flow in whatever order, the step is one of the flow, *)
(* and the keys of the steps before it have been collected.                *)
FlowsAreInStep ==
    \A b \in Businesses : flow[b] # NoFlow =>
        LET f == flow[b]
        IN  /\ f.step < Len(Steps[f.command])
            /\ \A i \in 1..f.step : Steps[f.command][i] \in f.data

(* Dispatch hands a module every key its flow asks for, though messages    *)
(* overlap, keys lapse and calls fail on the way.                          *)
DispatchedIsComplete ==
    \A i \in DOMAIN dispatched :
        LET fs == dispatched[i].fs
        IN  Preset[fs.command] \cup {Steps[fs.command][k] : k \in DOMAIN Steps[fs.command]}
                \subseteq fs.data

(* Nothing failed and no two messages overlapped so far. *)
Orderly == ~failed /\ overlaps = 0

(* resolveAndCreateSession and the switch of roles reset the flow: in an   *)
(* orderly conversation a command is executed in the session and in the    *)
(* role it was begun in, never in a later one.                             *)
DispatchedInItsSession ==
    Orderly => \A i \in DOMAIN dispatched :
        LET d == dispatched[i]
        IN  d.session = d.fs.session /\ d.role = d.fs.role

(* The flow is deleted before its command is executed: in an orderly       *)
(* conversation a flow executes its command once, a message delivered      *)
(* again included.                                                         *)
FlowDispatchedOnce ==
    Orderly => \A i, j \in DOMAIN dispatched :
        dispatched[i].fs.begun = dispatched[j].fs.begun => i = j

(* "cambiar_negocio": in an orderly conversation the session that was left *)
(* is never seen again, and a session acts as somebody: the id of its role *)
(* is set.                                                                 *)
LeftSessionIsOver ==
    (Orderly /\ session # Nil) =>
        /\ session.id \notin left
        /\ session.role = "client" => session.client

-----------------------------------------------------------------------------
(* What the documents say and the code does not do *)

(* resolver/business.go:94: "El IsNew se resolverá una vez que pique".     *)
(* The business picked from the list goes straight to the session, and     *)
(* nobody registers the client.                                            *)
RoleIsFound == ~turnedAway

=============================================================================
