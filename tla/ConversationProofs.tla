------------------------- MODULE ConversationProofs -------------------------
(***************************************************************************)
(* What a conversation keeps, for any number of businesses, commands,      *)
(* handlers and messages.                                                  *)
(*                                                                         *)
(* TypeInv holds whatever overlaps, lapses or fails: it adds to the types  *)
(* what a handler has set at each step (JobsOK) and that a stored flow is  *)
(* in step with its command (FlowsOK).  OrderlyInv is about orderly        *)
(* conversations: one handler is busy at most, and Held says what its job  *)
(* has to do with what Redis holds.                                        *)
(***************************************************************************)
EXTENDS Conversation, WellFoundedInduction, TLAPS

-----------------------------------------------------------------------------
(* Types *)

UserPCs == {"backfill", "deleteSession", "resetLeft", "registerSwitch", "findSwitch",
            "saveRole", "resetRole", "getFlow", "saveFlow", "deleteFlow", "dispatch"}

BusinessPCs == {"deletePending", "register", "resetFlow", "findCollaborator",
                "findClient", "saveSession"}

FlowPCs == {"saveFlow", "deleteFlow", "dispatch"}

(* A flow has the keys that came with its command and those of the steps   *)
(* before its own.                                                         *)
Collected(f) ==
    /\ f.step <= Len(Steps[f.command])
    /\ Preset[f.command] \subseteq f.data
    /\ \A i \in 1 .. f.step : Steps[f.command][i] \in f.data

(* What a handler that is at step s holds. *)
JobFits(s, j) ==
    /\ s \in UserPCs => j.uc \in Session
    /\ s \in BusinessPCs => j.business \in Businesses
    /\ s \in FlowPCs => /\ j.fs \in Flow
                        /\ Collected(j.fs)
                        /\ s = "saveFlow" <=> ~Complete(j.fs)

JobsOK == \A p \in Procs : JobFits(pc[p], job[p])

FlowsOK == \A b \in Businesses :
    flow[b] # NoFlow => Collected(flow[b]) /\ ~Complete(flow[b])

TypeInv == TypeOK /\ JobsOK /\ FlowsOK

(* One session, in one role. *)
SameUser(uc, v) == uc.id = v.id /\ uc.business = v.business /\ uc.role = v.role

LEMMA NoFlowType == NoFlow \notin Flow
BY NilAssumption DEF NoFlow, Flow

LEMMA NoJobType == NoJob \in Job /\ JobFits("idle", NoJob)
<1>1. Text \in Message
    BY DEF Message
<1>2. NoJob \in Job
    BY <1>1 DEF NoJob, Job
<1> QED BY <1>2 DEF JobFits, UserPCs, BusinessPCs, FlowPCs

LEMMA FlowFields ==
    ASSUME NEW f \in Flow
    PROVE  /\ f.command \in Commands /\ f.step \in Nat /\ f.data \in SUBSET Keys
           /\ f.begun \in Nat /\ f.session \in Nat /\ f.role \in Roles
           /\ Steps[f.command] \in Seq(STRING) /\ Len(Steps[f.command]) \in Nat
           /\ f # NoFlow
BY NoFlowType, CommandsAssumption DEF Flow

LEMMA SessionFields ==
    ASSUME NEW uc \in Session
    PROVE  /\ uc.business \in Businesses /\ uc.role \in Roles /\ uc.id \in Nat
           /\ uc.collab \in BOOLEAN /\ uc.client \in BOOLEAN /\ uc.modules \in BOOLEAN
           /\ uc # Nil
BY NilAssumption DEF Session

(* A handler that moves to a step with a job that fits it. *)
LEMMA TypeMove ==
    ASSUME TypeInv, NEW p \in Procs, NEW s \in PCs, NEW j \in Job, JobFits(s, j),
           GotoWith(p, s, j)
    PROVE  pc' \in [Procs -> PCs] /\ job' \in [Procs -> Job] /\ JobsOK'
BY DEF TypeInv, TypeOK, JobsOK, GotoWith, Goto

LEMMA TypeFinish ==
    ASSUME TypeInv, NEW p \in Procs, Finish(p)
    PROVE  pc' \in [Procs -> PCs] /\ job' \in [Procs -> Job] /\ JobsOK'
<1>1. "idle" \in PCs
    BY DEF PCs
<1> QED BY <1>1, NoJobType, TypeMove DEF Finish

LEMMA GotoIs ==
    ASSUME TypeInv, NEW p \in Procs, NEW s, Goto(p, s), UNCHANGED job
    PROVE  GotoWith(p, s, job[p])
BY DEF TypeInv, TypeOK, GotoWith

LEMMA Calm ==
    ASSUME TypeInv,
           UNCHANGED calmVars \/ Fail \/ (Disturb /\ UNCHANGED failed)
    PROVE  disturbances' \in Nat /\ failed' \in BOOLEAN
<1>1. disturbances' \in Nat
    BY DEF TypeInv, TypeOK, calmVars, Fail, Disturb
<1>2. failed' \in BOOLEAN
    BY DEF TypeInv, TypeOK, calmVars, Fail, Disturb
<1> QED BY <1>1, <1>2

(* A step that changes the session, the pending choice, the flows and the  *)
(* handlers at most.                                                       *)
LEMMA TypeRedis ==
    ASSUME TypeInv, UNCHANGED <<dbVars, messages, historyVars>>,
           UNCHANGED calmVars \/ Fail \/ (Disturb /\ UNCHANGED failed),
           session' \in Session \cup {Nil}, selection' \subseteq Businesses,
           flow' \in [Businesses -> Flow \cup {NoFlow}],
           pc' \in [Procs -> PCs], job' \in [Procs -> Job], JobsOK', FlowsOK'
    PROVE  TypeInv'
<1>1. TypeOK'
    BY Calm DEF TypeInv, TypeOK, dbVars, historyVars
<1> QED BY <1>1 DEF TypeInv

LEMMA TypeFlows ==
    ASSUME TypeInv, UNCHANGED flow
    PROVE  flow' \in [Businesses -> Flow \cup {NoFlow}] /\ FlowsOK'
BY DEF TypeInv, TypeOK, FlowsOK

LEMMA TypeResetFlow ==
    ASSUME TypeInv, NEW b \in Businesses, flow' = [flow EXCEPT ![b] = NoFlow]
    PROVE  flow' \in [Businesses -> Flow \cup {NoFlow}] /\ FlowsOK'
BY DEF TypeInv, TypeOK, FlowsOK

LEMMA TypeReset ==
    ASSUME TypeInv, NEW b \in Businesses, ResetFlow(b)
    PROVE  /\ flow' \in [Businesses -> Flow \cup {NoFlow}] /\ FlowsOK'
           /\ UNCHANGED calmVars \/ Fail
<1>1. flow' = [flow EXCEPT ![b] = NoFlow] \/ UNCHANGED flow
    BY DEF ResetFlow, WithoutFlow
<1>2. UNCHANGED calmVars \/ Fail
    BY DEF ResetFlow
<1> QED BY <1>1, <1>2, TypeFlows, TypeResetFlow

LEMMA RouteType ==
    ASSUME NEW uc, NEW m
    PROVE  Route(uc, m) \in {"deleteSession", "registerSwitch", "saveRole", "getFlow"}
BY DEF Route

LEMMA UserFits ==
    ASSUME NEW s \in UserPCs \ FlowPCs, NEW j, j.uc \in Session
    PROVE  s \in PCs /\ JobFits(s, j)
BY DEF JobFits, UserPCs, BusinessPCs, FlowPCs, PCs

LEMMA BusinessFits ==
    ASSUME NEW s \in BusinessPCs, NEW j, j.business \in Businesses
    PROVE  s \in PCs /\ JobFits(s, j)
BY DEF JobFits, UserPCs, BusinessPCs, FlowPCs, PCs

LEMMA OtherFits ==
    ASSUME NEW s \in PCs \ (UserPCs \cup BusinessPCs), NEW j
    PROVE  JobFits(s, j)
BY DEF JobFits, UserPCs, BusinessPCs, FlowPCs

LEMMA TypeReceive ==
    ASSUME TypeInv, NEW p \in Procs, Receive(p)
    PROVE  TypeInv'
<1>1. PICK m \in Message : LET j == [NoJob EXCEPT !.msg = m, !.number = messages + 1]
           IN  IF session = Nil THEN GotoWith(p, "getPending", j)
               ELSE GotoWith(p, IF session.modules THEN Route(session, m) ELSE "backfill",
                             [j EXCEPT !.uc = session])
    BY InboxAssumption DEF Receive
<1>2. /\ messages' = messages + 1 /\ overlaps' \in {overlaps, overlaps + 1}
      /\ UNCHANGED <<redisVars, dbVars, calmVars, dispatched, left, turnedAway>>
    BY DEF Receive
<1>3. messages \in Nat /\ overlaps \in Nat /\ session \in Session \cup {Nil}
    BY DEF TypeInv, TypeOK
<1>4. PICK j : j = [NoJob EXCEPT !.msg = m, !.number = messages + 1]
    OBVIOUS
<1>5. j \in Job
    <2>1. PICK n \in Nat : n = messages + 1
        BY <1>3
    <2>2. \A k \in Job : [k EXCEPT !.msg = m, !.number = n] \in Job
        BY <2>1 DEF Job
    <2> QED BY <1>4, <2>1, <2>2, NoJobType
<1>6. CASE session = Nil
    <2>1. JobFits("getPending", j) /\ "getPending" \in PCs
        BY OtherFits DEF PCs, UserPCs, BusinessPCs
    <2>2. pc' \in [Procs -> PCs] /\ job' \in [Procs -> Job] /\ JobsOK'
        BY <1>1, <1>4, <1>5, <1>6, <2>1, TypeMove
    <2>3. FlowsOK'
        BY <1>2, TypeFlows DEF redisVars
    <2>4. TypeOK'
        BY <1>2, <1>3, <2>2 DEF TypeInv, TypeOK, redisVars, dbVars, calmVars
    <2> QED BY <2>2, <2>3, <2>4 DEF TypeInv
<1>7. CASE session # Nil
    <2>1. PICK k : k = [j EXCEPT !.uc = session]
        OBVIOUS
    <2>2. k \in Job /\ k.uc \in Session
        BY <1>3, <1>5, <1>7, <2>1 DEF Job
    <2>3. PICK s \in UserPCs \ FlowPCs :
              s = IF session.modules THEN Route(session, m) ELSE "backfill"
        BY RouteType DEF UserPCs, FlowPCs
    <2>4. s \in PCs /\ JobFits(s, k)
        BY <2>2, UserFits
    <2>5. GotoWith(p, s, k)
        BY <1>1, <1>4, <1>7, <2>1, <2>3
    <2>6. pc' \in [Procs -> PCs] /\ job' \in [Procs -> Job] /\ JobsOK'
        BY <2>2, <2>4, <2>5, TypeMove
    <2>7. FlowsOK'
        BY <1>2, TypeFlows DEF redisVars
    <2>8. TypeOK'
        BY <1>2, <1>3, <2>6 DEF TypeInv, TypeOK, redisVars, dbVars, calmVars
    <2> QED BY <2>6, <2>7, <2>8 DEF TypeInv
<1> QED BY <1>6, <1>7

LEMMA FullType ==
    ASSUME NEW uc \in Session
    PROVE  \A m \in BOOLEAN : [uc EXCEPT !.modules = m] \in Session
BY DEF Session

LEMMA TypeBackfill ==
    ASSUME TypeInv, NEW p \in Procs, Backfill(p)
    PROVE  TypeInv'
<1>1. job[p] \in Job /\ job[p].uc \in Session
    BY DEF Backfill, TypeInv, TypeOK, JobsOK, JobFits, UserPCs
<1>2. PICK full : full = [job[p].uc EXCEPT !.modules = HasPrograms(job[p].uc.business)]
    OBVIOUS
<1>3. full \in Session
    <2>1. HasPrograms(job[p].uc.business) \in BOOLEAN
        BY DEF HasPrograms
    <2> QED BY <1>1, <1>2, <2>1, FullType
<1>4. UNCHANGED <<selection, flow, dbVars, messages, historyVars>>
    BY DEF Backfill
<1>5. CASE /\ session' = full
           /\ GotoWith(p, Route(full, job[p].msg), [job[p] EXCEPT !.uc = full])
           /\ UNCHANGED calmVars
    <2>1. PICK j : j = [job[p] EXCEPT !.uc = full]
        OBVIOUS
    <2>2. j \in Job /\ j.uc \in Session
        BY <1>1, <1>3, <2>1 DEF Job
    <2>3. PICK s \in UserPCs \ FlowPCs : s = Route(full, job[p].msg)
        BY RouteType DEF UserPCs, FlowPCs
    <2>4. s \in PCs /\ JobFits(s, j) /\ GotoWith(p, s, j)
        BY <1>5, <2>1, <2>2, <2>3, UserFits
    <2>5. pc' \in [Procs -> PCs] /\ job' \in [Procs -> Job] /\ JobsOK'
        BY <2>2, <2>4, TypeMove
    <2> QED BY <1>3, <1>4, <1>5, <2>5, TypeFlows, TypeRedis DEF TypeInv, TypeOK
<1>6. CASE /\ Fail
           /\ Goto(p, Route(job[p].uc, job[p].msg))
           /\ UNCHANGED <<session, job>>
    <2>1. PICK s \in UserPCs \ FlowPCs : s = Route(job[p].uc, job[p].msg)
        BY RouteType DEF UserPCs, FlowPCs
    <2>2. s \in PCs /\ JobFits(s, job[p]) /\ GotoWith(p, s, job[p])
        BY <1>1, <1>6, <2>1, UserFits, GotoIs
    <2>3. pc' \in [Procs -> PCs] /\ job' \in [Procs -> Job] /\ JobsOK'
        BY <1>1, <2>2, TypeMove
    <2> QED BY <1>4, <1>6, <2>3, TypeFlows, TypeRedis DEF TypeInv, TypeOK
<1> QED BY <1>2, <1>5, <1>6 DEF Backfill

LEMMA HandlerType ==
    ASSUME TypeInv, NEW p \in Procs
    PROVE  /\ job[p] \in Job /\ JobFits(pc[p], job[p])
           /\ session \in Session \cup {Nil} /\ selection \subseteq Businesses
           /\ flow \in [Businesses -> Flow \cup {NoFlow}] /\ clients \subseteq Businesses
BY DEF TypeInv, TypeOK, JobsOK

(* A handler that goes on with the job it has. *)
LEMMA TypeGoto ==
    ASSUME TypeInv, NEW p \in Procs, NEW s \in PCs, Goto(p, s), UNCHANGED job,
           JobFits(s, job[p])
    PROVE  pc' \in [Procs -> PCs] /\ job' \in [Procs -> Job] /\ JobsOK'
BY GotoIs, HandlerType, TypeMove

LEMMA TypeDeleteSession ==
    ASSUME TypeInv, NEW p \in Procs, DeleteSession(p)
    PROVE  TypeInv'
<1>1. job[p].uc \in Session
    BY HandlerType DEF DeleteSession, JobFits, UserPCs
<1>2. pc' \in [Procs -> PCs] /\ job' \in [Procs -> Job] /\ JobsOK'
    <2>1. "resetLeft" \in PCs /\ JobFits("resetLeft", job[p])
        BY <1>1, UserFits DEF UserPCs, FlowPCs
    <2> QED BY <2>1, TypeGoto DEF DeleteSession
<1>3. /\ UNCHANGED <<selection, flow, dbVars, messages, dispatched, turnedAway, overlaps>>
      /\ session' = Nil \/ session' = session
      /\ left' = left \cup {job[p].uc.id}
      /\ UNCHANGED calmVars \/ Fail
    BY DEF DeleteSession, DropSession
<1>4. job[p].uc.id \in Nat
    BY <1>1, SessionFields
<1>5. TypeOK'
    BY <1>2, <1>3, <1>4, Calm DEF TypeInv, TypeOK, dbVars
<1> QED BY <1>2, <1>3, <1>5, TypeFlows DEF TypeInv

LEMMA TypeResetLeft ==
    ASSUME TypeInv, NEW p \in Procs, ResetLeft(p)
    PROVE  TypeInv'
<1>1. job[p].uc \in Session /\ job[p] \in Job
    BY HandlerType DEF ResetLeft, JobFits, UserPCs
<1>2. job[p].uc.business \in Businesses
    BY <1>1, SessionFields
<1>3. PICK j : j = [job[p] EXCEPT !.uc = Nil, !.ends = TRUE]
    OBVIOUS
<1>4. j \in Job
    BY <1>1, <1>3 DEF Job
<1>5. "getPending" \in PCs /\ JobFits("getPending", j)
    BY OtherFits DEF PCs, UserPCs, BusinessPCs
<1>6. pc' \in [Procs -> PCs] /\ job' \in [Procs -> Job] /\ JobsOK'
    BY <1>3, <1>4, <1>5, TypeMove DEF ResetLeft
<1> QED BY <1>2, <1>6, HandlerType, TypeReset, TypeRedis DEF ResetLeft

LEMMA TypeRegisterSwitch ==
    ASSUME TypeInv, NEW p \in Procs, RegisterSwitch(p)
    PROVE  TypeInv'
<1>1. job[p].uc \in Session /\ job[p].uc.business \in Businesses
    BY HandlerType, SessionFields DEF RegisterSwitch, JobFits, UserPCs
<1>2. "findSwitch" \in UserPCs \ FlowPCs
    BY DEF UserPCs, FlowPCs
<1>3. pc' \in [Procs -> PCs] /\ job' \in [Procs -> Job] /\ JobsOK'
    BY <1>1, <1>2, UserFits, TypeGoto DEF RegisterSwitch
<1>4. clients' \subseteq Businesses
    BY <1>1, HandlerType DEF RegisterSwitch
<1>5. /\ UNCHANGED <<redisVars, staff, programs, messages, historyVars>>
      /\ UNCHANGED calmVars \/ Fail
    BY DEF RegisterSwitch
<1>6. TypeOK'
    BY <1>3, <1>4, <1>5, Calm DEF TypeInv, TypeOK, redisVars, historyVars
<1> QED BY <1>3, <1>5, <1>6, TypeFlows DEF TypeInv, redisVars

(* A session whose employee is found to be a client, or not. *)
LEMMA ClientSet ==
    ASSUME NEW uc \in Session, NEW found \in BOOLEAN, NEW v,
           v = [uc EXCEPT !.client = found]
    PROVE  /\ v \in Session /\ v.client = found /\ SameUser(v, uc)
BY DEF Session, SameUser

LEMMA TypeFindSwitch ==
    ASSUME TypeInv, NEW p \in Procs, FindSwitch(p)
    PROVE  TypeInv'
<1>1. job[p].uc \in Session /\ job[p] \in Job
    BY HandlerType DEF FindSwitch, JobFits, UserPCs
<1>2. PICK found \in BOOLEAN :
        /\ UNCHANGED calmVars \/ Fail
        /\ GotoWith(p, "saveRole", [job[p] EXCEPT !.uc.client = found])
    BY DEF FindSwitch
<1>3. PICK uc : uc = [job[p].uc EXCEPT !.client = found]
    OBVIOUS
<1>4. uc \in Session
    BY <1>1, <1>3, ClientSet
<1>5. PICK j : j = [job[p] EXCEPT !.uc = uc]
    OBVIOUS
<1>6. j \in Job /\ j.uc \in Session
    BY <1>1, <1>4, <1>5 DEF Job
<1>7. "saveRole" \in UserPCs \ FlowPCs /\ GotoWith(p, "saveRole", j)
    BY <1>2, <1>3, <1>5 DEF UserPCs, FlowPCs
<1>8. pc' \in [Procs -> PCs] /\ job' \in [Procs -> Job] /\ JobsOK'
    BY <1>6, <1>7, UserFits, TypeMove
<1>9. UNCHANGED <<redisVars, dbVars, messages, historyVars>>
    BY DEF FindSwitch
<1>10. TypeOK'
    BY <1>2, <1>8, <1>9, Calm DEF TypeInv, TypeOK, redisVars, dbVars, historyVars
<1> QED BY <1>8, <1>9, <1>10, TypeFlows DEF TypeInv, redisVars

LEMMA SwitchedType ==
    ASSUME NEW uc \in Session
    PROVE  /\ Switched(uc) \in Session
           /\ Switched(uc).id = uc.id /\ Switched(uc).business = uc.business
           /\ Switched(uc).client = uc.client
<1>1. PICK r : r = IF uc.role = "collaborator" THEN "client"
                   ELSE IF uc.collab THEN "collaborator" ELSE uc.role
    OBVIOUS
<1>2. r \in Roles
    BY <1>1, SessionFields DEF Roles
<1>3. Switched(uc) = [uc EXCEPT !.role = r]
    BY <1>1 DEF Switched, Session
<1> QED BY <1>2, <1>3 DEF Session, Roles

LEMMA TypeSaveRole ==
    ASSUME TypeInv, NEW p \in Procs, SaveRole(p)
    PROVE  TypeInv'
<1>1. job[p].uc \in Session /\ job[p] \in Job
    BY HandlerType DEF SaveRole, JobFits, UserPCs
<1>2. PICK uc \in Session : uc = Switched(job[p].uc)
    BY <1>1, SwitchedType
<1>3. PICK j : j = [job[p] EXCEPT !.uc = uc]
    OBVIOUS
<1>4. j \in Job /\ j.uc \in Session
    BY <1>1, <1>3 DEF Job
<1>5. "resetRole" \in UserPCs \ FlowPCs
    BY DEF UserPCs, FlowPCs
<1>6. GotoWith(p, "resetRole", j)
    BY <1>2, <1>3 DEF SaveRole
<1>7. pc' \in [Procs -> PCs] /\ job' \in [Procs -> Job] /\ JobsOK'
    BY <1>4, <1>5, <1>6, UserFits, TypeMove
<1>8. session' \in Session \cup {Nil}
    BY <1>2, HandlerType DEF SaveRole
<1> QED BY <1>7, <1>8, HandlerType, TypeFlows, TypeRedis DEF SaveRole

LEMMA TypeResetRole ==
    ASSUME TypeInv, NEW p \in Procs, ResetRole(p)
    PROVE  TypeInv'
<1>1. job[p].uc \in Session /\ job[p] \in Job
    BY HandlerType DEF ResetRole, JobFits, UserPCs
<1>2. job[p].uc.business \in Businesses
    BY <1>1, SessionFields
<1>3. PICK j : j = [job[p] EXCEPT !.msg = Text]
    OBVIOUS
<1>4. j \in Job /\ j.uc \in Session
    <2>1. Text \in Message
        BY DEF Message
    <2> QED BY <1>1, <1>3, <2>1 DEF Job
<1>5. "getFlow" \in UserPCs \ FlowPCs
    BY DEF UserPCs, FlowPCs
<1>6. GotoWith(p, "getFlow", j)
    BY <1>3 DEF ResetRole
<1>7. pc' \in [Procs -> PCs] /\ job' \in [Procs -> Job] /\ JobsOK'
    BY <1>4, <1>5, <1>6, UserFits, TypeMove
<1> QED BY <1>2, <1>7, HandlerType, TypeReset, TypeRedis DEF ResetRole

(* A step that leaves the rows and keys alone. *)
LEMMA TypeStill ==
    ASSUME TypeInv, NEW p \in Procs,
           UNCHANGED <<redisVars, dbVars, messages, calmVars, historyVars>>,
           pc' \in [Procs -> PCs], job' \in [Procs -> Job], JobsOK'
    PROVE  TypeInv'
BY HandlerType, TypeFlows, TypeRedis DEF redisVars

LEMMA TypeGetPending ==
    ASSUME TypeInv, NEW p \in Procs, GetPending(p)
    PROVE  TypeInv'
<1>1. job[p] \in Job /\ selection \subseteq Businesses
    BY HandlerType
<1>2. CASE Goto(p, "resolve") /\ UNCHANGED job
    <2>1. "resolve" \in PCs /\ JobFits("resolve", job[p])
        BY OtherFits DEF PCs, UserPCs, BusinessPCs
    <2> QED BY <1>2, <2>1, TypeGoto, TypeStill DEF GetPending
<1>3. ASSUME NEW b \in selection, GotoWith(p, "deletePending", [job[p] EXCEPT !.business = b])
      PROVE  TypeInv'
    <2>1. PICK j : j = [job[p] EXCEPT !.business = b]
        OBVIOUS
    <2>2. j \in Job /\ j.business \in Businesses
        BY <1>1, <2>1 DEF Job
    <2>3. "deletePending" \in BusinessPCs
        BY DEF BusinessPCs
    <2> QED BY <1>3, <2>1, <2>2, <2>3, BusinessFits, TypeMove, TypeStill DEF GetPending
<1>4. CASE Finish(p)
    BY <1>4, TypeFinish, TypeStill DEF GetPending
<1> QED BY <1>2, <1>3, <1>4 DEF GetPending

LEMMA TypeDeletePending ==
    ASSUME TypeInv, NEW p \in Procs, DeletePending(p)
    PROVE  TypeInv'
<1>1. job[p].business \in Businesses
    BY HandlerType DEF DeletePending, JobFits, BusinessPCs
<1>2. "resetFlow" \in BusinessPCs
    BY DEF BusinessPCs
<1>3. pc' \in [Procs -> PCs] /\ job' \in [Procs -> Job] /\ JobsOK'
    BY <1>1, <1>2, BusinessFits, TypeGoto DEF DeletePending
<1>4. /\ selection' \subseteq Businesses /\ UNCHANGED <<session, flow, dbVars, messages, historyVars>>
      /\ UNCHANGED calmVars \/ Fail
    BY HandlerType DEF DeletePending
<1> QED BY <1>3, <1>4, HandlerType, TypeFlows, TypeRedis

LEMMA TypeJoin ==
    ASSUME TypeInv, NEW p \in Procs, NEW s \in {"register", "resetFlow"}, NEW b \in Businesses,
           GotoWith(p, s, [job[p] EXCEPT !.business = b])
    PROVE  pc' \in [Procs -> PCs] /\ job' \in [Procs -> Job] /\ JobsOK'
<1>1. PICK j : j = [job[p] EXCEPT !.business = b]
    OBVIOUS
<1>2. j \in Job /\ j.business \in Businesses
    BY <1>1, HandlerType DEF Job
<1>3. s \in BusinessPCs
    BY DEF BusinessPCs
<1> QED BY <1>1, <1>2, <1>3, BusinessFits, TypeMove

LEMMA TypeOffer ==
    ASSUME TypeInv, NEW p \in Procs, NEW options \in SUBSET Businesses, Offer(p, options)
    PROVE  pc' \in [Procs -> PCs] /\ job' \in [Procs -> Job] /\ JobsOK'
<1>1. PICK j : j = [job[p] EXCEPT !.options = options]
    OBVIOUS
<1>2. j \in Job
    BY <1>1, HandlerType DEF Job
<1>3. "savePending" \in PCs /\ JobFits("savePending", j)
    BY OtherFits DEF PCs, UserPCs, BusinessPCs
<1> QED BY <1>1, <1>2, <1>3, TypeMove DEF Offer

(* What Resolve may do. *)
LEMMA ResolveSteps ==
    ASSUME NEW p \in Procs, Resolve(p)
    PROVE  \/ Finish(p)
           \/ \E options \in SUBSET Businesses : Offer(p, options)
           \/ \E s \in {"register", "resetFlow"}, b \in Businesses :
                 GotoWith(p, s, [job[p] EXCEPT !.business = b])
<1>1. Named(job[p].msg) \in SUBSET Businesses /\ Mine \in SUBSET Businesses
    BY DEF Named, Mine
<1>2. ASSUME NEW b \in Businesses, Join(p, b)
      PROVE  \E s \in {"register", "resetFlow"} : GotoWith(p, s, [job[p] EXCEPT !.business = b])
    BY <1>2 DEF Join
<1> HIDE DEF Named, Mine
<1> QED BY <1>1, <1>2 DEF Resolve

LEMMA TypeResolve ==
    ASSUME TypeInv, NEW p \in Procs, Resolve(p)
    PROVE  TypeInv'
BY ResolveSteps, TypeFinish, TypeJoin, TypeOffer, TypeStill DEF Resolve

LEMMA TypeSavePending ==
    ASSUME TypeInv, NEW p \in Procs, SavePending(p)
    PROVE  TypeInv'
<1>1. selection' \subseteq Businesses
    BY HandlerType DEF SavePending, Job
<1> QED BY <1>1, TypeFinish, HandlerType, TypeFlows, TypeRedis DEF SavePending

LEMMA TypeRegister ==
    ASSUME TypeInv, NEW p \in Procs, Register(p)
    PROVE  TypeInv'
<1>1. job[p].business \in Businesses
    BY HandlerType DEF Register, JobFits, BusinessPCs
<1>2. "resetFlow" \in BusinessPCs
    BY DEF BusinessPCs
<1>3. pc' \in [Procs -> PCs] /\ job' \in [Procs -> Job] /\ JobsOK'
    BY <1>1, <1>2, BusinessFits, TypeGoto DEF Register
<1>4. clients' \subseteq Businesses
    BY <1>1, HandlerType DEF Register, Biz
<1>5. UNCHANGED <<redisVars, staff, programs, messages, calmVars, historyVars>>
    BY DEF Register
<1>6. TypeOK'
    BY <1>3, <1>4, <1>5, Calm DEF TypeInv, TypeOK, redisVars, historyVars
<1> QED BY <1>3, <1>5, <1>6, TypeFlows DEF TypeInv, redisVars

LEMMA TypeResetNew ==
    ASSUME TypeInv, NEW p \in Procs, ResetNew(p)
    PROVE  TypeInv'
<1>1. job[p].business \in Businesses
    BY HandlerType DEF ResetNew, JobFits, BusinessPCs
<1>2. "findCollaborator" \in BusinessPCs
    BY DEF BusinessPCs
<1>3. pc' \in [Procs -> PCs] /\ job' \in [Procs -> Job] /\ JobsOK'
    BY <1>1, <1>2, BusinessFits, TypeGoto DEF ResetNew
<1> QED BY <1>1, <1>3, HandlerType, TypeReset, TypeRedis DEF ResetNew, Biz

LEMMA TypeFindCollaborator ==
    ASSUME TypeInv, NEW p \in Procs, FindCollaborator(p)
    PROVE  TypeInv'
<1>1. job[p].business \in Businesses /\ job[p] \in Job
    BY HandlerType DEF FindCollaborator, JobFits, BusinessPCs
<1>2. PICK j : j = [job[p] EXCEPT !.collab = staff[Biz(p)] = "active"]
    OBVIOUS
<1>3. j \in Job /\ j.business \in Businesses
    <2>1. (staff[Biz(p)] = "active") \in BOOLEAN
        OBVIOUS
    <2>2. \A k \in Job : \A t \in BOOLEAN :
              [k EXCEPT !.collab = t] \in Job /\ [k EXCEPT !.collab = t].business = k.business
        BY DEF Job
    <2> QED BY <1>1, <1>2, <2>1, <2>2
<1>4. "findClient" \in BusinessPCs
    BY DEF BusinessPCs
<1>5. pc' \in [Procs -> PCs] /\ job' \in [Procs -> Job] /\ JobsOK'
    BY <1>2, <1>3, <1>4, BusinessFits, TypeMove DEF FindCollaborator
<1> QED BY <1>5, TypeStill DEF FindCollaborator

LEMMA TypeFindClient ==
    ASSUME TypeInv, NEW p \in Procs, FindClient(p)
    PROVE  TypeInv'
<1>1. job[p].business \in Businesses /\ job[p] \in Job
    BY HandlerType DEF FindClient, JobFits, BusinessPCs
<1>2. "saveSession" \in BusinessPCs
    BY DEF BusinessPCs
<1>3. pc' \in [Procs -> PCs] /\ job' \in [Procs -> Job] /\ JobsOK'
    <2>1. CASE GotoWith(p, "saveSession", [job[p] EXCEPT !.client = HasClient(Biz(p))])
        <3>1. PICK j : j = [job[p] EXCEPT !.client = HasClient(Biz(p))]
            OBVIOUS
        <3>2. j \in Job /\ j.business \in Businesses
            <4>1. HasClient(Biz(p)) \in BOOLEAN
                BY DEF HasClient
            <4>2. \A k \in Job : \A t \in BOOLEAN :
                      [k EXCEPT !.client = t] \in Job /\ [k EXCEPT !.client = t].business = k.business
                BY DEF Job
            <4> QED BY <1>1, <3>1, <4>1, <4>2
        <3> QED BY <1>2, <2>1, <3>1, <3>2, BusinessFits, TypeMove
    <2>2. CASE Finish(p)
        BY <2>2, TypeFinish
    <2>3. CASE Goto(p, "saveSession") /\ UNCHANGED job
        BY <1>1, <1>2, <2>3, BusinessFits, TypeGoto
    <2> QED BY <2>1, <2>2, <2>3 DEF FindClient
<1>4. /\ UNCHANGED <<redisVars, dbVars, messages, dispatched, left, overlaps>>
      /\ UNCHANGED calmVars \/ Fail
    BY DEF FindClient
<1>5. turnedAway' \in BOOLEAN
    BY DEF FindClient, TypeInv, TypeOK
<1>6. TypeOK'
    BY <1>3, <1>4, <1>5, Calm DEF TypeInv, TypeOK, redisVars, dbVars
<1> QED BY <1>3, <1>4, <1>6, TypeFlows DEF TypeInv, redisVars

LEMMA NewSessionType ==
    ASSUME TypeInv, NEW p \in Procs, job[p].business \in Businesses
    PROVE  \A m \in BOOLEAN : /\ NewSession(p, m) \in Session
                              /\ NewSession(p, m).business = job[p].business
                              /\ NewSession(p, m).id = job[p].number
                              /\ NewSession(p, m).client = job[p].client
                              /\ NewSession(p, m).role = IF job[p].collab THEN "collaborator" ELSE "client"
<1>1. job[p].number \in Nat /\ job[p].collab \in BOOLEAN /\ job[p].client \in BOOLEAN
    BY HandlerType DEF Job
<1>2. PICK r \in Roles : r = IF job[p].collab THEN "collaborator" ELSE "client"
    BY DEF Roles
<1>3. \A m \in BOOLEAN : NewSession(p, m) =
          [business |-> job[p].business, role |-> r, collab |-> job[p].collab,
           client |-> job[p].client, modules |-> m, id |-> job[p].number]
    BY <1>2 DEF NewSession, Biz
<1> QED BY <1>1, <1>2, <1>3 DEF Session

(* A message that created a session goes on to the flow. *)
LEMMA RestIs ==
    ASSUME NEW m \in Message
    PROVE  /\ Rest(m) \in Message /\ Rest(m).kind # "leave"
           /\ \A uc : Route(uc, Rest(m)) = "getFlow"
<1>1. Rest(m) \in Message /\ Rest(m).kind \in {"text", "image"}
    BY DEF Rest, Text, Message
<1> QED BY <1>1 DEF Route

LEMMA TypeSaveSession ==
    ASSUME TypeInv, NEW p \in Procs, SaveSession(p)
    PROVE  TypeInv'
<1>1. job[p].business \in Businesses /\ job[p] \in Job
    BY HandlerType DEF SaveSession, JobFits, BusinessPCs
<1>2. PICK modules \in BOOLEAN :
        /\ UNCHANGED calmVars \/ Fail
        /\ session' = NewSession(p, modules)
        /\ IF job[p].ends THEN Finish(p)
           ELSE WithSession(p, NewSession(p, modules), Rest(job[p].msg))
    BY DEF SaveSession
<1>3. PICK uc \in Session : uc = NewSession(p, modules)
    BY <1>1, NewSessionType
<1>4. pc' \in [Procs -> PCs] /\ job' \in [Procs -> Job] /\ JobsOK'
    <2>1. CASE Finish(p)
        BY <2>1, TypeFinish
    <2>2. CASE WithSession(p, uc, Rest(job[p].msg))
        <3>1. PICK m, j : m = Rest(job[p].msg) /\ j = [job[p] EXCEPT !.uc = uc, !.msg = m]
            OBVIOUS
        <3>2. j \in Job /\ j.uc \in Session
            <4>1. m \in Message
                BY <1>1, <3>1, RestIs DEF Job
            <4> QED BY <1>1, <3>1, <4>1 DEF Job
        <3>3. PICK s \in UserPCs \ FlowPCs :
                  s = IF uc.modules THEN Route(uc, m) ELSE "backfill"
            BY RouteType DEF UserPCs, FlowPCs
        <3>4. GotoWith(p, s, j)
            BY <2>2, <3>1, <3>3 DEF WithSession
        <3> QED BY <3>2, <3>3, <3>4, UserFits, TypeMove
    <2> QED BY <1>2, <1>3, <2>1, <2>2
<1>5. UNCHANGED <<selection, flow, dbVars, messages, historyVars>>
    BY DEF SaveSession
<1>6. session' \in Session \cup {Nil}
    BY <1>2, <1>3
<1> QED BY <1>2, <1>4, <1>5, <1>6, HandlerType, TypeFlows, TypeRedis

(* A set of naturals that is not empty has a least element. *)
LEMMA LeastNatural ==
    ASSUME NEW S, S \subseteq Nat, S # {}
    PROVE  \E n \in S : \A m \in S : n <= m
<1>1. PICK n \in S : \A m \in S : ~ (<<m, n>> \in OpToRel(<, Nat))
    BY NatLessThanWellFounded, WFMin
<1>2. \A m \in S : ~ (m < n)
    BY <1>1 DEF OpToRel
<1> QED BY <1>2

(* Engine.HandleMessage. *)
LEMMA StartStepIs ==
    ASSUME NEW c \in Commands
    PROVE  /\ StartStep(c) \in 0 .. Len(Steps[c])
           /\ \A i \in 1 .. StartStep(c) : Steps[c][i] \in Preset[c]
<1> DEFINE L == Len(Steps[c])
           S == {n \in Nat : n >= L \/ Steps[c][n + 1] \notin Preset[c]}
           Fits(n) == /\ \A i \in 1 .. n : Steps[c][i] \in Preset[c]
                      /\ n < L => Steps[c][n + 1] \notin Preset[c]
<1>1. L \in Nat
    BY CommandsAssumption
<1>2. L \in S /\ S \in SUBSET Nat
    BY <1>1
<1>3. PICK n \in S : \A m \in S : n <= m
    <2> HIDE DEF S
    <2> QED BY <1>2, LeastNatural
<1>4. n \in 0 .. L
    BY <1>1, <1>2, <1>3
<1>5. ASSUME NEW i \in 1 .. n PROVE Steps[c][i] \in Preset[c]
    <2>1. PICK k \in Nat : k = i - 1 /\ i = k + 1 /\ k < n /\ k < L
        BY <1>1, <1>4
    <2>2. k \notin S
        BY <1>1, <1>3, <2>1
    <2> QED BY <1>1, <2>1, <2>2
<1>6. n < L => Steps[c][n + 1] \notin Preset[c]
    BY <1>1, <1>3
<1>7. Fits(n)
    BY <1>5, <1>6
<1>8. StartStep(c) = CHOOSE k \in 0 .. L : Fits(k)
    BY DEF StartStep
<1> HIDE DEF Fits
<1>9. StartStep(c) \in 0 .. L /\ Fits(StartStep(c))
    BY <1>4, <1>7, <1>8
<1> QED BY <1>9 DEF Fits

LEMMA KeysHold ==
    ASSUME NEW c \in Commands
    PROVE  /\ Preset[c] \in SUBSET Keys
           /\ \A i \in DOMAIN Steps[c] : Steps[c][i] \in Keys
BY DEF Keys

(* The flow a command begins, and where its handler goes. *)
Begun(p, c, fs) ==
    /\ fs.command = c /\ fs.begun = job[p].number
    /\ fs.session = job[p].uc.id /\ fs.role = job[p].uc.role

LEMMA StartSteps ==
    ASSUME TypeInv, NEW p \in Procs, NEW c \in Commands, job[p].uc \in Session, Start(p, c)
    PROVE  \E fs \in Flow, s \in {"dispatch", "saveFlow"} :
              /\ Begun(p, c, fs) /\ Collected(fs) /\ (s = "saveFlow" <=> ~Complete(fs))
              /\ GotoWith(p, s, [job[p] EXCEPT !.fs = fs])
<1>1. /\ job[p].number \in Nat /\ job[p].uc.id \in Nat /\ job[p].uc.role \in Roles
    BY HandlerType, SessionFields DEF Job
<1>2. PICK n \in Nat : n = StartStep(c) /\ n <= Len(Steps[c])
    BY StartStepIs, CommandsAssumption
<1>3. PICK fs : fs = [command |-> c, step |-> n, data |-> Preset[c],
                      begun |-> job[p].number, session |-> job[p].uc.id,
                      role |-> job[p].uc.role]
    OBVIOUS
<1>4. fs \in Flow /\ Begun(p, c, fs) /\ fs.step = n /\ fs.data = Preset[c]
    BY <1>1, <1>3, KeysHold DEF Flow, Begun
<1>5. Collected(fs)
    BY <1>2, <1>4, StartStepIs DEF Collected, Begun
<1>6. PICK s \in {"dispatch", "saveFlow"} : s = IF Complete(fs) THEN "dispatch" ELSE "saveFlow"
    OBVIOUS
<1>7. GotoWith(p, s, [job[p] EXCEPT !.fs = fs])
    BY <1>2, <1>3, <1>6 DEF Start
<1>8. s = "saveFlow" <=> ~Complete(fs)
    BY <1>6
<1> QED BY <1>4, <1>5, <1>7, <1>8

(* The flow an answer leads to. *)
LEMMA AnswerSteps ==
    ASSUME TypeInv, NEW p \in Procs, NEW f \in Flow, Collected(f), ~Complete(f), Answer(p, f)
    PROVE  \/ Finish(p)
           \/ \E fs \in Flow, s \in {"deleteFlow", "saveFlow"} :
                /\ fs.begun = f.begun /\ fs.session = f.session /\ fs.role = f.role
                /\ Collected(fs) /\ (s = "saveFlow" <=> ~Complete(fs))
                /\ GotoWith(p, s, [job[p] EXCEPT !.fs = fs])
<1>1. PICK c \in Commands, n \in Nat, L \in Nat :
        /\ c = f.command /\ n = f.step /\ L = Len(Steps[c])
        /\ Steps[c] \in Seq(STRING) /\ n < L
    BY FlowFields DEF Complete
<1>2. PICK key \in Keys : key = Steps[c][n + 1]
    <2>1. n + 1 \in DOMAIN Steps[c]
        BY <1>1
    <2> QED BY <2>1, KeysHold
<1>3. PICK fs : fs = Answered(f, key)
    OBVIOUS
<1>4. /\ fs \in Flow /\ fs.command = c /\ fs.step = n + 1 /\ fs.data = f.data \cup {key}
      /\ fs.begun = f.begun /\ fs.session = f.session /\ fs.role = f.role
    <2>0. f.data \cup {key} \in SUBSET Keys
        BY <1>2, FlowFields
    <2>4. PICK m \in Nat : m = n + 1
        OBVIOUS
    <2>5. PICK D \in SUBSET Keys : D = f.data \cup {key}
        BY <2>0, Zenon
    <2>1. m = n + 1 /\ D = f.data \cup {key}
        BY <2>4, <2>5
    <2>2. fs = [f EXCEPT !.step = m, !.data = D]
        BY <1>1, <1>2, <1>3, <2>1 DEF Answered
    <2>3. \A x \in Flow : LET y == [x EXCEPT !.step = m, !.data = D]
                          IN  /\ y \in Flow /\ y.command = x.command /\ y.step = m
                              /\ y.data = D /\ y.begun = x.begun
                              /\ y.session = x.session /\ y.role = x.role
        BY DEF Flow
    <2> QED BY <1>1, <2>1, <2>2, <2>3
<1>5. Collected(fs)
    <2>1. \A i \in 1 .. n + 1 : i \in 1 .. n \/ i = n + 1
        BY <1>1
    <2> QED BY <1>1, <1>2, <1>4, <2>1 DEF Collected
<1>6. PICK s \in {"deleteFlow", "saveFlow"} : s = IF Complete(fs) THEN "deleteFlow" ELSE "saveFlow"
    OBVIOUS
<1>7. Finish(p) \/ GotoWith(p, s, [job[p] EXCEPT !.fs = fs])
    BY <1>1, <1>2, <1>3, <1>6 DEF Answer
<1>8. s = "saveFlow" <=> ~Complete(fs)
    BY <1>6
<1> QED BY <1>4, <1>5, <1>7, <1>8

(* What GetFlow may do. *)
LEMMA GetFlowSteps ==
    ASSUME TypeInv, NEW p \in Procs, GetFlow(p)
    PROVE  /\ job[p].uc \in Session
           /\ \/ Finish(p)
              \/ \E c \in Commands, fs \in Flow, s \in {"dispatch", "saveFlow"} :
                    /\ Begun(p, c, fs) /\ Collected(fs) /\ (s = "saveFlow" <=> ~Complete(fs))
                    /\ GotoWith(p, s, [job[p] EXCEPT !.fs = fs])
              \/ \E fs \in Flow, s \in {"deleteFlow", "saveFlow"} :
                    /\ flow[job[p].uc.business] # NoFlow
                    /\ fs.begun = flow[job[p].uc.business].begun
                    /\ fs.session = flow[job[p].uc.business].session
                    /\ fs.role = flow[job[p].uc.business].role
                    /\ Collected(fs) /\ (s = "saveFlow" <=> ~Complete(fs))
                    /\ GotoWith(p, s, [job[p] EXCEPT !.fs = fs])
<1>1. job[p].uc \in Session /\ job[p] \in Job
    BY HandlerType DEF GetFlow, JobFits, UserPCs
<1>2. job[p].uc.business \in Businesses
    BY <1>1, SessionFields
<1>3. PICK f \in Flow \cup {NoFlow} : f = flow[job[p].uc.business]
    BY <1>2, HandlerType
<1>4. CASE f # NoFlow /\ Answer(p, f)
    <2>1. Collected(f) /\ ~Complete(f)
        BY <1>2, <1>3, <1>4 DEF TypeInv, FlowsOK
    <2> QED BY <1>1, <1>3, <1>4, <2>1, AnswerSteps
<1>5. CASE job[p].msg.kind = "command" /\ Start(p, job[p].msg.command)
    <2>1. job[p].msg.command \in Commands
        <3>1. PICK m \in Message : m = job[p].msg /\ m.kind = "command"
            BY <1>1, <1>5 DEF Job
        <3>2. m.command \in Commands
            BY <3>1 DEF Message, Text
        <3> QED BY <3>1, <3>2
    <2> QED BY <1>1, <1>5, <2>1, StartSteps
<1>6. CASE Finish(p)
    BY <1>1, <1>6
<1> QED BY <1>3, <1>4, <1>5, <1>6 DEF GetFlow

LEMMA TypeFlowJob ==
    ASSUME TypeInv, NEW p \in Procs, NEW s \in FlowPCs, NEW fs \in Flow, job[p].uc \in Session,
           Collected(fs), s = "saveFlow" <=> ~Complete(fs),
           GotoWith(p, s, [job[p] EXCEPT !.fs = fs])
    PROVE  pc' \in [Procs -> PCs] /\ job' \in [Procs -> Job] /\ JobsOK'
<1>1. PICK j : j = [job[p] EXCEPT !.fs = fs]
    OBVIOUS
<1>2. j \in Job /\ j.uc \in Session /\ j.fs = fs
    BY <1>1, HandlerType DEF Job
<1>3. s \in PCs /\ JobFits(s, j)
    BY <1>2 DEF PCs, FlowPCs, JobFits, BusinessPCs
<1> QED BY <1>1, <1>2, <1>3, TypeMove

LEMMA TypeGetFlow ==
    ASSUME TypeInv, NEW p \in Procs, GetFlow(p)
    PROVE  TypeInv'
<1>1. {"dispatch", "saveFlow", "deleteFlow"} \subseteq FlowPCs
    BY DEF FlowPCs
<1>2. pc' \in [Procs -> PCs] /\ job' \in [Procs -> Job] /\ JobsOK'
    BY <1>1, GetFlowSteps, TypeFlowJob, TypeFinish
<1> QED BY <1>2, TypeStill DEF GetFlow

LEMMA TypeSaveFlow ==
    ASSUME TypeInv, NEW p \in Procs, SaveFlow(p)
    PROVE  TypeInv'
<1>1. /\ job[p].uc \in Session /\ job[p].fs \in Flow
      /\ Collected(job[p].fs) /\ ~Complete(job[p].fs)
    BY HandlerType DEF SaveFlow, JobFits, UserPCs, FlowPCs
<1>2. job[p].uc.business \in Businesses
    BY <1>1, SessionFields
<1>3. PICK b \in Businesses, fs \in Flow :
        /\ b = job[p].uc.business /\ fs = job[p].fs /\ Collected(fs) /\ ~Complete(fs)
    BY <1>1, <1>2
<1>4. flow' = [flow EXCEPT ![b] = fs]
    BY <1>3 DEF SaveFlow
<1>5. flow' \in [Businesses -> Flow \cup {NoFlow}]
    BY <1>4, HandlerType
<1>6. FlowsOK'
    BY <1>3, <1>4, HandlerType DEF TypeInv, FlowsOK, Collected, Complete
<1> QED BY <1>5, <1>6, TypeFinish, HandlerType, TypeRedis DEF SaveFlow

LEMMA TypeDeleteFlow ==
    ASSUME TypeInv, NEW p \in Procs, DeleteFlow(p)
    PROVE  TypeInv'
<1>1. job[p].uc \in Session /\ JobFits("deleteFlow", job[p])
    BY HandlerType DEF DeleteFlow, JobFits, UserPCs
<1>2. job[p].uc.business \in Businesses
    BY <1>1, SessionFields
<1>3. "dispatch" \in PCs /\ JobFits("dispatch", job[p])
    BY <1>1 DEF PCs, JobFits, UserPCs, FlowPCs, BusinessPCs
<1>4. pc' \in [Procs -> PCs] /\ job' \in [Procs -> Job] /\ JobsOK'
    BY <1>3, TypeGoto DEF DeleteFlow
<1> QED BY <1>2, <1>4, HandlerType, TypeReset, TypeRedis DEF DeleteFlow

(* What a dispatch hands over. *)
Handed(p) == [fs |-> job[p].fs, session |-> job[p].uc.id, role |-> job[p].uc.role]

LEMMA DispatchedEntry ==
    ASSUME TypeInv, NEW p \in Procs, Dispatch(p)
    PROVE  /\ job[p].uc \in Session /\ job[p].fs \in Flow
           /\ Collected(job[p].fs) /\ Complete(job[p].fs)
           /\ Handed(p) \in [fs : Flow, session : Nat, role : Roles]
           /\ dispatched' = Append(dispatched, Handed(p))
           /\ dispatched \in Seq([fs : Flow, session : Nat, role : Roles])
           /\ dispatched' \in Seq([fs : Flow, session : Nat, role : Roles])
<1>1. /\ job[p].uc \in Session /\ job[p].fs \in Flow
      /\ Collected(job[p].fs) /\ Complete(job[p].fs)
    BY HandlerType DEF Dispatch, JobFits, UserPCs, FlowPCs
<1>2. Handed(p) \in [fs : Flow, session : Nat, role : Roles]
    BY <1>1, SessionFields DEF Handed
<1>3. dispatched' = Append(dispatched, Handed(p))
    BY DEF Dispatch, Handed
<1>4. dispatched \in Seq([fs : Flow, session : Nat, role : Roles])
    BY DEF TypeInv, TypeOK
<1>5. dispatched' \in Seq([fs : Flow, session : Nat, role : Roles])
    <2>1. PICK T : T = [fs : Flow, session : Nat, role : Roles]
        OBVIOUS
    <2>2. Append(dispatched, Handed(p)) \in Seq(T)
        BY <1>2, <1>4, <2>1
    <2> QED BY <1>3, <2>1, <2>2
<1> QED BY <1>1, <1>2, <1>3, <1>4, <1>5

LEMMA TypeDispatch ==
    ASSUME TypeInv, NEW p \in Procs, Dispatch(p)
    PROVE  TypeInv'
<1>1. pc' \in [Procs -> PCs] /\ job' \in [Procs -> Job] /\ JobsOK'
    BY TypeFinish DEF Dispatch
<1>2. dispatched' \in Seq([fs : Flow, session : Nat, role : Roles])
    BY DispatchedEntry
<1>3. UNCHANGED <<redisVars, dbVars, messages, calmVars, left, turnedAway, overlaps>>
    BY DEF Dispatch
<1>4. TypeOK'
    BY <1>1, <1>2, <1>3 DEF TypeInv, TypeOK, redisVars, dbVars, calmVars
<1> QED BY <1>1, <1>3, <1>4, TypeFlows DEF TypeInv, redisVars

LEMMA TypeAbort ==
    ASSUME TypeInv, NEW p \in Procs, Abort(p)
    PROVE  TypeInv'
<1>1. UNCHANGED <<session, selection, flow>>
    BY DEF Abort, redisVars
<1> QED BY <1>1, TypeFinish, HandlerType, TypeFlows, TypeRedis DEF Abort

(* What can happen at any time. *)
LEMMA TypeSameHandlers ==
    ASSUME TypeInv, UNCHANGED <<pc, job>>
    PROVE  pc' \in [Procs -> PCs] /\ job' \in [Procs -> Job] /\ JobsOK'
BY DEF TypeInv, TypeOK, JobsOK

LEMMA TypeExpire ==
    ASSUME TypeInv, Expire
    PROVE  TypeInv'
<1>1. /\ Disturb /\ UNCHANGED <<dbVars, pc, job, messages, failed, historyVars>>
    BY DEF Expire
<1>2. \/ UNCHANGED flow
      \/ \E b \in Businesses : flow' = [flow EXCEPT ![b] = NoFlow]
    BY DEF Expire
<1>3. session' \in Session \cup {Nil} /\ selection' \subseteq Businesses
    BY DEF Expire, TypeInv, TypeOK
<1> QED BY <1>1, <1>2, <1>3, TypeFlows, TypeResetFlow, TypeSameHandlers, TypeRedis

LEMMA TypeAdminister ==
    ASSUME TypeInv, NEW b \in Businesses, Administer(b)
    PROVE  TypeInv'
<1>1. /\ Disturb /\ UNCHANGED <<redisVars, clients, pc, job, messages, failed, historyVars>>
    BY DEF Administer
<1>2. disturbances' \in Nat /\ failed' \in BOOLEAN
    BY <1>1, Calm
<1>3. staff' \in [Businesses -> {"none", "active", "inactive"}]
    BY CommandsAssumption DEF Administer, TypeInv, TypeOK
<1>4. programs' \subseteq Businesses
    BY DEF Administer, TypeInv, TypeOK
<1>5. TypeOK'
    BY <1>1, <1>2, <1>3, <1>4 DEF TypeInv, TypeOK, redisVars, historyVars
<1> QED BY <1>1, <1>5, TypeFlows, TypeSameHandlers DEF TypeInv, redisVars

LEMMA TypeStutter ==
    ASSUME TypeInv, UNCHANGED vars
    PROVE  TypeInv'
<1>1. TypeOK'
    BY DEF TypeInv, TypeOK, vars, redisVars, dbVars, calmVars, historyVars
<1> QED BY <1>1, TypeFlows, TypeSameHandlers DEF TypeInv, vars, redisVars

LEMMA TypeStep ==
    ASSUME TypeInv, NEW p \in Procs, Step(p)
    PROVE  TypeInv'
BY TypeBackfill, TypeDeleteSession, TypeResetLeft, TypeRegisterSwitch, TypeFindSwitch, TypeSaveRole,
   TypeResetRole, TypeGetPending, TypeDeletePending, TypeResolve, TypeSavePending,
   TypeRegister, TypeResetNew, TypeFindCollaborator, TypeFindClient, TypeSaveSession,
   TypeGetFlow, TypeSaveFlow, TypeDeleteFlow, TypeDispatch DEF Step

LEMMA TypeNext == TypeInv /\ [Next]_vars => TypeInv'
BY TypeReceive, TypeStep, TypeAbort, TypeExpire, TypeAdminister, TypeStutter
   DEF Next, Quiescent

LEMMA TypeInit == Init => TypeInv
<1> SUFFICES ASSUME Init PROVE TypeInv
    OBVIOUS
<1>1. pc \in [Procs -> PCs] /\ job \in [Procs -> Job] /\ JobsOK
    BY NoJobType DEF Init, PCs, JobsOK
<1>2. session \in Session \cup {Nil} /\ selection \subseteq Businesses
    BY DEF Init
<1>3. flow \in [Businesses -> Flow \cup {NoFlow}]
    BY DEF Init
<1>4. clients \subseteq Businesses /\ programs \subseteq Businesses
    BY DEF Init
<1>5. staff \in [Businesses -> {"none", "active", "inactive"}]
    BY DEF Init
<1>6. messages \in Nat /\ disturbances \in Nat /\ overlaps \in Nat /\ left \subseteq Nat
    BY DEF Init
<1>7. failed \in BOOLEAN /\ turnedAway \in BOOLEAN
    BY DEF Init
<1>8. dispatched \in Seq([fs : Flow, session : Nat, role : Roles])
    BY DEF Init
<1>9. TypeOK
    BY <1>1, <1>2, <1>3, <1>4, <1>5, <1>6, <1>7, <1>8 DEF TypeOK
<1> QED BY <1>1, <1>9 DEF Init, TypeInv, FlowsOK

LEMMA TypeInvariance == Spec => []TypeInv
BY TypeInit, TypeNext, PTL DEF Spec

(* Every variable keeps to the values the code can write. *)
THEOREM TypeCorrect == Spec => []TypeOK
<1>1. TypeInv => TypeOK
    BY DEF TypeInv
<1> QED BY <1>1, TypeInvariance, PTL

(* processStep never indexes beyond the steps of a flow: whatever handlers *)
(* wrote a flow in whatever order, its step is one of its command's, and   *)
(* the keys of the steps before it have been collected.                    *)
THEOREM FlowsCorrect == Spec => []FlowsAreInStep
<1>1. ASSUME TypeInv PROVE FlowsAreInStep
    <2> SUFFICES ASSUME NEW b \in Businesses, flow[b] # NoFlow
                 PROVE  /\ flow[b].step < Len(Steps[flow[b].command])
                        /\ \A i \in 1 .. flow[b].step :
                               Steps[flow[b].command][i] \in flow[b].data
        BY DEF FlowsAreInStep
    <2>1. flow[b] \in Flow /\ Collected(flow[b]) /\ ~Complete(flow[b])
        BY <1>1 DEF TypeInv, TypeOK, FlowsOK
    <2> QED BY <2>1, FlowFields DEF Collected, Complete
<1> QED BY <1>1, TypeInvariance, PTL

LEMMA CompleteStep ==
    ASSUME TypeInv, DispatchedIsComplete, [Next]_vars
    PROVE  DispatchedIsComplete'
<1>1. CASE UNCHANGED dispatched
    BY <1>1 DEF DispatchedIsComplete
<1>2. ASSUME NEW p \in Procs, Dispatch(p) PROVE DispatchedIsComplete'
    <2>1. PICK fs \in Flow : fs = job[p].fs /\ Collected(fs) /\ Complete(fs)
        BY <1>2, DispatchedEntry
    <2>2. /\ dispatched' = Append(dispatched, Handed(p))
          /\ dispatched \in Seq([fs : Flow, session : Nat, role : Roles])
          /\ Handed(p).fs = fs
        BY <1>2, <2>1, DispatchedEntry DEF Handed
    <2>3. Preset[fs.command] \cup {Steps[fs.command][k] : k \in DOMAIN Steps[fs.command]}
              \subseteq fs.data
        <3>1. DOMAIN Steps[fs.command] \subseteq 1 .. fs.step
            BY <2>1, FlowFields DEF Collected, Complete
        <3> QED BY <2>1, <3>1 DEF Collected
    <2>4. \A i \in DOMAIN dispatched' :
              \/ i \in DOMAIN dispatched /\ dispatched'[i] = dispatched[i]
              \/ dispatched'[i] = Handed(p)
        BY <2>2
    <2>5. \A i \in DOMAIN dispatched' :
              Preset[dispatched'[i].fs.command]
                \cup {Steps[dispatched'[i].fs.command][k] :
                          k \in DOMAIN Steps[dispatched'[i].fs.command]}
                \subseteq dispatched'[i].fs.data
        <3> SUFFICES ASSUME NEW i \in DOMAIN dispatched'
                     PROVE  Preset[dispatched'[i].fs.command]
                              \cup {Steps[dispatched'[i].fs.command][k] :
                                        k \in DOMAIN Steps[dispatched'[i].fs.command]}
                              \subseteq dispatched'[i].fs.data
            OBVIOUS
        <3>1. CASE i \in DOMAIN dispatched /\ dispatched'[i] = dispatched[i]
            BY <3>1 DEF DispatchedIsComplete
        <3>2. CASE dispatched'[i] = Handed(p)
            <4>1. dispatched'[i].fs = fs
                BY <2>2, <3>2
            <4> QED BY <2>3, <4>1
        <3> QED BY <2>4, <3>1, <3>2
    <2> QED BY <2>5 DEF DispatchedIsComplete
<1>3. UNCHANGED dispatched \/ \E p \in Procs : Dispatch(p)
    BY DEF Next, Receive, Step, Abort, Expire, Administer, Quiescent, vars, historyVars,
           Backfill, DeleteSession, ResetLeft, RegisterSwitch, FindSwitch, SaveRole, ResetRole,
           GetPending, DeletePending, Resolve, SavePending, Register, ResetNew,
           FindCollaborator, FindClient, SaveSession, GetFlow, SaveFlow, DeleteFlow
<1> QED BY <1>1, <1>2, <1>3

(* Dispatch hands a module every key its flow asks for, though messages    *)
(* overlap, keys lapse and calls fail on the way.                          *)
THEOREM DispatchCorrect == Spec => []DispatchedIsComplete
<1>1. TypeInv /\ DispatchedIsComplete /\ [Next]_vars => DispatchedIsComplete'
    BY CompleteStep
<1>2. Init => DispatchedIsComplete
    BY DEF Init, DispatchedIsComplete
<1> QED BY <1>1, <1>2, TypeInvariance, PTL DEF Spec

-----------------------------------------------------------------------------
(* Orderly conversations *)

(* Steps of a handler that found no session, or has dropped it. *)
NewPCs == {"resetLeft", "getPending", "resolve", "savePending"} \cup BusinessPCs

(* Once the flow of the business has been reset. *)
ResetPCs == {"findCollaborator", "findClient", "saveSession"}

OfSession(f, uc) == f.session = uc.id /\ f.role = uc.role

(* The id of the role is set. *)
Acts(uc) == uc.role = "client" => uc.client

(* Message n came before the one that the handler, at step s, is at. *)
Before(s, n) == IF s = "idle" THEN n <= messages ELSE n < messages

(* The flow of the business of the session belongs to the session, but     *)
(* while the role is being switched.                                       *)
FlowOfSession(s) ==
    session # Nil /\ s # "resetRole" /\ flow[session.business] # NoFlow
        => OfSession(flow[session.business], session)

(* No two flows, stored or executed, were begun by the same message. *)
FlowsApart(s) ==
    \A b \in Businesses : flow[b] # NoFlow =>
        /\ Before(s, flow[b].begun)
        /\ \A i \in DOMAIN dispatched : dispatched[i].fs.begun # flow[b].begun
        /\ \A c \in Businesses \ {b} : flow[c] # NoFlow => flow[c].begun # flow[b].begun

DispatchedApart(s) ==
    \A i \in DOMAIN dispatched :
        /\ OfSession(dispatched[i].fs, [id |-> dispatched[i].session, role |-> dispatched[i].role])
        /\ Before(s, dispatched[i].fs.begun)
        /\ \A k \in DOMAIN dispatched : dispatched[i].fs.begun = dispatched[k].fs.begun => i = k

SessionLasts(s) ==
    /\ \A n \in left : Before(s, n)
    /\ session # Nil => session.id <= messages /\ session.id \notin left /\ Acts(session)

(* What Redis holds while the only busy handler, if any, is at step s. *)
Kept(s) == FlowOfSession(s) /\ FlowsApart(s) /\ DispatchedApart(s) /\ SessionLasts(s)

(* What that handler's job j has to do with it. *)
HeldSession(s, j) ==
    /\ s # "idle" => j.number = messages
    /\ s \in UserPCs \ {"resetLeft"} => session # Nil /\ SameUser(session, j.uc)
    /\ s \in NewPCs => session = Nil
    /\ s \in ResetPCs => flow[j.business] = NoFlow
    /\ s \in UserPCs => Acts(j.uc)
    /\ s = "findSwitch" => HasClient(j.uc.business)
    /\ s = "saveRole" => j.uc.client
    /\ s = "saveSession" => j.collab \/ j.client
    /\ s = "deleteSession" \/ (s = "backfill" /\ j.msg.kind = "leave") => j.uc.id < messages

(* The flow in hand is in Redis as that of the session at most, and when   *)
(* its command is dispatched it is gone and was not dispatched before.     *)
HeldFlow(s, j) ==
    s \in FlowPCs =>
        /\ OfSession(j.fs, j.uc)
        /\ j.fs.begun <= messages
        /\ \A b \in Businesses : flow[b] # NoFlow /\ flow[b].begun = j.fs.begun
                => s # "dispatch" /\ b = j.uc.business
        /\ \A i \in DOMAIN dispatched : dispatched[i].fs.begun # j.fs.begun

Held(s, j) == Kept(s) /\ HeldSession(s, j) /\ HeldFlow(s, j)

Only(p) == \A q \in Procs \ {p} : pc[q] = "idle"

OrderlyInv == Orderly =>
    /\ \A p \in Procs : pc[p] # "idle" => Only(p) /\ Held(pc[p], job[p])
    /\ (\A p \in Procs : pc[p] = "idle") => Kept("idle")

LEMMA OrderlyMove ==
    ASSUME TypeInv, NEW p \in Procs, Only(p), NEW s, NEW j, GotoWith(p, s, j), Held(s, j)'
    PROVE  OrderlyInv'
<1>1. \A q \in Procs : /\ pc'[q] = IF q = p THEN s ELSE "idle"
                       /\ q = p => job'[q] = j
    BY DEF TypeInv, TypeOK, GotoWith, Goto, Only
<1>2. ASSUME NEW q \in Procs, pc'[q] # "idle"
      PROVE  Only(q)' /\ Held(pc[q], job[q])'
    <2>1. q = p /\ pc'[q] = s /\ job'[q] = j
        BY <1>1, <1>2
    <2>2. Only(q)'
        BY <1>1, <2>1 DEF Only
    <2>3. Kept(pc[q])'
        BY <2>1 DEF Held, Kept, FlowOfSession, FlowsApart, DispatchedApart, SessionLasts, Before
    <2>4. HeldSession(pc[q], job[q])'
        BY <2>1 DEF Held, HeldSession
    <2>5. HeldFlow(pc[q], job[q])'
        BY <2>1 DEF Held, HeldFlow
    <2> QED BY <2>2, <2>3, <2>4, <2>5 DEF Held
<1>3. ASSUME \A q \in Procs : pc'[q] = "idle"
      PROVE  Kept("idle")'
    <2>1. s = "idle"
        BY <1>1, <1>3
    <2> QED BY <2>1 DEF Held, Kept, FlowOfSession, FlowsApart, DispatchedApart,
                        SessionLasts, Before
<1> QED BY <1>2, <1>3 DEF OrderlyInv

LEMMA DispatchedType ==
    ASSUME TypeInv, NEW i \in DOMAIN dispatched
    PROVE  /\ dispatched[i].fs \in Flow /\ dispatched[i].fs.begun \in Nat
           /\ dispatched[i].session \in Nat /\ dispatched[i].role \in Roles
<1>1. dispatched[i] \in [fs : Flow, session : Nat, role : Roles]
    <2>1. PICK T : T = [fs : Flow, session : Nat, role : Roles]
        OBVIOUS
    <2>2. dispatched \in Seq(T)
        BY <2>1 DEF TypeInv, TypeOK
    <2>3. dispatched[i] \in T
        BY <2>2
    <2> QED BY <2>1, <2>3
<1> QED BY <1>1, FlowFields

LEMMA FlowType ==
    ASSUME TypeInv, NEW b \in Businesses, flow[b] # NoFlow
    PROVE  flow[b] \in Flow /\ flow[b].begun \in Nat
BY FlowFields DEF TypeInv, TypeOK

(* What a step keeps of Redis and of the history, part by part. *)
LEMMA FlowsMove ==
    ASSUME TypeInv, NEW s, NEW t, s = "idle" => t = "idle", FlowsApart(s),
           UNCHANGED <<messages, dispatched>>,
           UNCHANGED flow \/ \E b \in Businesses : flow' = [flow EXCEPT ![b] = NoFlow]
    PROVE  FlowsApart(t)'
<1>1. \A b \in Businesses : flow'[b] # NoFlow => flow[b] # NoFlow /\ flow'[b] = flow[b]
    BY DEF TypeInv, TypeOK
<1>2. ASSUME NEW b \in Businesses, flow'[b] # NoFlow
      PROVE  /\ Before(t, flow[b].begun)'
             /\ \A i \in DOMAIN dispatched' : dispatched'[i].fs.begun # flow'[b].begun
             /\ \A c \in Businesses \ {b} : flow'[c] # NoFlow => flow'[c].begun # flow'[b].begun
    <2>1. flow[b].begun \in Nat /\ Before(s, flow[b].begun)
        BY <1>1, <1>2, FlowType DEF FlowsApart
    <2>2. Before(t, flow[b].begun)'
        BY <1>1, <1>2, <2>1 DEF TypeInv, TypeOK, Before
    <2> QED BY <1>1, <1>2, <2>2 DEF FlowsApart
<1> QED BY <1>2 DEF FlowsApart

LEMMA DispatchedMove ==
    ASSUME TypeInv, NEW s, NEW t, s = "idle" => t = "idle", DispatchedApart(s),
           UNCHANGED <<messages, dispatched>>
    PROVE  DispatchedApart(t)'
<1>1. \A i \in DOMAIN dispatched : Before(s, dispatched[i].fs.begun) /\ dispatched[i].fs.begun \in Nat
    BY DispatchedType DEF DispatchedApart
<1>2. \A i \in DOMAIN dispatched : Before(t, dispatched[i].fs.begun)'
    BY <1>1 DEF TypeInv, TypeOK, Before
<1> QED BY <1>2 DEF DispatchedApart

LEMMA LeftMove ==
    ASSUME TypeInv, NEW s, NEW t, s = "idle" => t = "idle", SessionLasts(s),
           UNCHANGED <<messages, left>>, session' \in {session, Nil}
    PROVE  SessionLasts(t)'
<1>1. \A n \in left : n \in Nat /\ Before(s, n)
    BY DEF TypeInv, TypeOK, SessionLasts
<1>2. \A n \in left' : Before(t, n)'
    BY <1>1 DEF TypeInv, TypeOK, Before
<1> QED BY <1>2 DEF SessionLasts

LEMMA KeptMove ==
    ASSUME TypeInv, NEW s, NEW t, s = "idle" => t = "idle", s = "resetRole" => t = "resetRole",
           Kept(s), UNCHANGED <<session, flow, messages, dispatched, left>>
    PROVE  Kept(t)'
<1>1. FlowOfSession(t)'
    BY DEF Kept, FlowOfSession
<1> QED BY <1>1, FlowsMove, DispatchedMove, LeftMove DEF Kept

(* The only busy handler goes on, or ends, and nothing is written. *)
LEMMA QuietMove ==
    ASSUME TypeInv, NEW p \in Procs, Only(p), NEW s, s \notin {"idle", "resetRole"},
           NEW k, Held(s, k),
           UNCHANGED <<session, flow, messages, dispatched, left>>,
           NEW t, NEW j, GotoWith(p, t, j), HeldSession(t, j)', HeldFlow(t, j)'
    PROVE  OrderlyInv'
<1>1. Kept(t)'
    BY KeptMove DEF Held
<1> QED BY <1>1, OrderlyMove DEF Held

LEMMA QuietFinish ==
    ASSUME TypeInv, NEW p \in Procs, Only(p), NEW s, s \notin {"idle", "resetRole"},
           NEW k, Held(s, k),
           UNCHANGED <<session, flow, messages, dispatched, left>>, Finish(p)
    PROVE  OrderlyInv'
<1>1. HeldSession("idle", NoJob)' /\ HeldFlow("idle", NoJob)'
    BY DEF HeldSession, HeldFlow, UserPCs, NewPCs, BusinessPCs, ResetPCs, FlowPCs
<1> QED BY <1>1, QuietMove DEF Finish

(* A call that fails ends the order. *)
LEMMA FailEnds ==
    ASSUME TypeInv, Fail
    PROVE  ~Orderly'
BY DEF Fail, Orderly

LEMMA RedisIs ==
    ASSUME TypeInv, NEW p \in Procs
    PROVE  /\ session \in Session \cup {Nil} /\ messages \in Nat /\ left \subseteq Nat
           /\ job[p] \in Job /\ JobFits(pc[p], job[p])
           /\ flow \in [Businesses -> Flow \cup {NoFlow}]
BY DEF TypeInv, TypeOK, JobsOK

(* Where a message with a session goes. *)
LEMMA RouteIs ==
    ASSUME NEW uc \in Session, NEW m, Acts(uc)
    PROVE  /\ Route(uc, m) = "saveRole" => uc.client
           /\ Route(uc, m) = "deleteSession" => m.kind = "leave"
           /\ Route(uc, m) \in {"deleteSession", "registerSwitch", "saveRole", "getFlow"}
<1>1. Route(uc, m) = "deleteSession" => m.kind = "leave"
    BY DEF Route
<1>2. Route(uc, m) = "saveRole" => ~(uc.role = "collaborator" /\ ~uc.client)
    BY DEF Route
<1> QED BY <1>1, <1>2, RouteType, SessionFields DEF Acts, Roles

LEMMA OrderlyReceive ==
    ASSUME TypeInv, OrderlyInv, Orderly, NEW p \in Procs, Receive(p), Orderly'
    PROVE  OrderlyInv'
<1>1. PICK m \in Message : LET j == [NoJob EXCEPT !.msg = m, !.number = messages + 1]
           IN  IF session = Nil THEN GotoWith(p, "getPending", j)
               ELSE GotoWith(p, IF session.modules THEN Route(session, m) ELSE "backfill",
                             [j EXCEPT !.uc = session])
    BY InboxAssumption DEF Receive
<1>2. /\ messages' = messages + 1
      /\ UNCHANGED <<session, flow, dispatched, left>>
    BY DEF Receive, redisVars
<1>3. \A q \in Procs : pc[q] = "idle"
    <2>1. overlaps \in Nat /\ overlaps' = 0
        BY DEF TypeInv, TypeOK, Orderly
    <2> QED BY <2>1 DEF Receive
<1>4. Only(p) /\ Kept("idle")
    BY <1>3 DEF Only, OrderlyInv
<1>5. messages \in Nat /\ session \in Session \cup {Nil}
    BY RedisIs
<1>6. ASSUME NEW t, t \notin {"idle", "resetRole"} PROVE Kept(t)'
    <2>1. FlowOfSession(t)'
        BY <1>2, <1>4, <1>6 DEF Kept, FlowOfSession
    <2>2. \A n \in Nat : Before("idle", n) => Before(t, n)'
        BY <1>2, <1>5, <1>6 DEF Before
    <2>3. FlowsApart(t)'
        <3>1. \A b \in Businesses : flow[b] # NoFlow =>
                  flow[b].begun \in Nat /\ Before("idle", flow[b].begun)
            BY <1>4, FlowType DEF Kept, FlowsApart
        <3>2. \A b \in Businesses : flow[b] # NoFlow => Before(t, flow[b].begun)'
            BY <1>2, <2>2, <3>1 DEF Before
        <3> QED BY <1>2, <1>4, <3>2 DEF Kept, FlowsApart
    <2>4. DispatchedApart(t)'
        <3>1. \A i \in DOMAIN dispatched :
                  dispatched[i].fs.begun \in Nat /\ Before("idle", dispatched[i].fs.begun)
            BY <1>4, DispatchedType DEF Kept, DispatchedApart
        <3>2. \A i \in DOMAIN dispatched : Before(t, dispatched[i].fs.begun)'
            BY <1>2, <2>2, <3>1 DEF Before
        <3> QED BY <1>2, <1>4, <3>2 DEF Kept, DispatchedApart
    <2>5. SessionLasts(t)'
        <3>1. \A n \in left' : Before(t, n)'
            BY <1>2, <1>4, <2>2, RedisIs DEF Kept, SessionLasts, Before
        <3>2. session # Nil => session.id <= messages'
            BY <1>2, <1>4, <1>5, SessionFields DEF Kept, SessionLasts
        <3> QED BY <1>2, <1>4, <3>1, <3>2 DEF Kept, SessionLasts
    <2> QED BY <2>1, <2>3, <2>4, <2>5 DEF Kept
<1>7. PICK j : j = [NoJob EXCEPT !.msg = m, !.number = messages + 1]
    OBVIOUS
<1>8. j.number = messages' /\ j.msg = m
    BY <1>2, <1>7 DEF NoJob
<1>9. CASE session = Nil
    <2>1. HeldSession("getPending", j)' /\ HeldFlow("getPending", j)'
        BY <1>2, <1>8, <1>9 DEF HeldSession, HeldFlow, UserPCs, NewPCs, ResetPCs, FlowPCs
    <2>2. Held("getPending", j)'
        BY <1>6, <2>1 DEF Held
    <2> QED BY <1>1, <1>4, <1>7, <1>9, <2>2, OrderlyMove
<1>10. CASE session # Nil
    <2>1. PICK k : k = [j EXCEPT !.uc = session]
        OBVIOUS
    <2>2. k.uc = session /\ k.number = messages' /\ k.msg = m
        BY <1>7, <1>8, <2>1 DEF NoJob
    <2>3. PICK s : s = IF session.modules THEN Route(session, m) ELSE "backfill"
        OBVIOUS
    <2>4. GotoWith(p, s, k)
        BY <1>1, <1>7, <1>10, <2>1, <2>3
    <2>5. Acts(session) /\ session.id < messages'
        BY <1>2, <1>4, <1>5, <1>10, SessionFields DEF Kept, SessionLasts
    <2>6. s \in {"backfill", "deleteSession", "registerSwitch", "saveRole", "getFlow"}
          /\ (s = "saveRole" => session.client)
        BY <1>5, <1>10, <2>3, <2>5, RouteIs
    <2>7. HeldSession(s, k)' /\ HeldFlow(s, k)'
        BY <1>2, <1>10, <2>2, <2>5, <2>6
           DEF HeldSession, HeldFlow, SameUser, UserPCs, NewPCs, BusinessPCs, ResetPCs, FlowPCs
    <2>8. Held(s, k)'
        BY <1>6, <2>6, <2>7 DEF Held
    <2> QED BY <1>4, <2>4, <2>8, OrderlyMove
<1> QED BY <1>9, <1>10

(* What the only busy handler may rely on. *)
LEMMA HeldIs ==
    ASSUME TypeInv, NEW p \in Procs, NEW s, pc[p] = s, s \in UserPCs, Held(pc[p], job[p])
    PROVE  /\ job[p].uc \in Session /\ job[p].uc.business \in Businesses /\ Acts(job[p].uc)
           /\ Held(s, job[p]) /\ job[p].number = messages
           /\ s # "resetLeft" => session # Nil /\ session \in Session /\ SameUser(session, job[p].uc)
<1>1. job[p].uc \in Session /\ Held(s, job[p])
    BY RedisIs DEF JobFits
<1>2. s # "idle"
    BY DEF UserPCs
<1> QED BY <1>1, <1>2, RedisIs, SessionFields DEF Held, HeldSession

LEMMA OrderlyBackfill ==
    ASSUME TypeInv, NEW p \in Procs, Only(p), Held(pc[p], job[p]), Backfill(p), Orderly'
    PROVE  OrderlyInv'
<1>1. pc[p] = "backfill" /\ "backfill" \in UserPCs
    BY DEF Backfill, UserPCs
<1>2. /\ job[p].uc \in Session /\ job[p].uc.business \in Businesses /\ Acts(job[p].uc)
      /\ Held("backfill", job[p]) /\ job[p].number = messages
      /\ session # Nil /\ session \in Session /\ SameUser(session, job[p].uc)
    BY <1>1, HeldIs
<1>3. PICK full : full = [job[p].uc EXCEPT !.modules = HasPrograms(job[p].uc.business)]
    OBVIOUS
<1>4. full \in Session /\ SameUser(full, job[p].uc) /\ full.client = job[p].uc.client
    <2>1. \A uc \in Session : \A m \in BOOLEAN :
            LET y == [uc EXCEPT !.modules = m]
            IN  /\ y \in Session /\ y.id = uc.id /\ y.business = uc.business
                /\ y.role = uc.role /\ y.client = uc.client
        BY DEF Session
    <2>2. HasPrograms(job[p].uc.business) \in BOOLEAN
        BY DEF HasPrograms
    <2> QED BY <1>2, <1>3, <2>1, <2>2 DEF SameUser
<1>5. /\ session' = full
      /\ GotoWith(p, Route(full, job[p].msg), [job[p] EXCEPT !.uc = full])
      /\ UNCHANGED <<flow, messages, dispatched, left>>
    BY <1>3, FailEnds DEF Backfill, historyVars
<1>6. Acts(full)
    BY <1>2, <1>4 DEF Acts, SameUser
<1>7. PICK j : j = [job[p] EXCEPT !.uc = full]
    OBVIOUS
<1>8. j.uc = full /\ j.number = job[p].number /\ j.msg = job[p].msg
    BY <1>7, RedisIs DEF Job
<1>9. PICK s : s = Route(full, job[p].msg)
    OBVIOUS
<1>10. /\ s \in {"deleteSession", "registerSwitch", "saveRole", "getFlow"}
       /\ s = "saveRole" => full.client
       /\ s = "deleteSession" => job[p].msg.kind = "leave"
    BY <1>4, <1>6, <1>9, RouteIs
<1>11. Kept(s)'
    <2>1. FlowOfSession(s)'
        BY <1>2, <1>4, <1>5 DEF Held, Kept, FlowOfSession, SameUser, OfSession
    <2>2. FlowsApart(s)' /\ DispatchedApart(s)'
        BY <1>2, <1>5, FlowsMove, DispatchedMove DEF Held, Kept
    <2>3. SessionLasts(s)'
        <3>1. full # Nil /\ full.id = session.id
            BY <1>2, <1>4, SessionFields DEF SameUser
        <3>2. \A n \in left' : Before(s, n)'
            BY <1>2, <1>5, <1>10 DEF Held, Kept, SessionLasts, Before
        <3> QED BY <1>2, <1>5, <1>6, <3>1, <3>2 DEF Held, Kept, SessionLasts
    <2> QED BY <2>1, <2>2, <2>3 DEF Kept
<1>12. HeldSession(s, j)' /\ HeldFlow(s, j)'
    <2>1. s = "deleteSession" => job[p].uc.id < messages
        BY <1>2, <1>10 DEF Held, HeldSession
    <2>2. full # Nil
        BY <1>4, SessionFields
    <2> QED BY <1>2, <1>4, <1>5, <1>6, <1>8, <1>10, <2>1, <2>2
         DEF HeldSession, HeldFlow, SameUser, UserPCs, NewPCs, BusinessPCs, ResetPCs, FlowPCs
<1> QED BY <1>5, <1>7, <1>9, <1>11, <1>12, OrderlyMove DEF Held

LEMMA OrderlyDeleteSession ==
    ASSUME TypeInv, NEW p \in Procs, Only(p), Held(pc[p], job[p]), DeleteSession(p), Orderly'
    PROVE  OrderlyInv'
<1>1. pc[p] = "deleteSession" /\ "deleteSession" \in UserPCs
    BY DEF DeleteSession, UserPCs
<1>2. /\ job[p].uc \in Session /\ Acts(job[p].uc) /\ Held("deleteSession", job[p])
      /\ job[p].number = messages
    BY <1>1, HeldIs
<1>3. /\ session' = Nil /\ left' = left \cup {job[p].uc.id}
      /\ GotoWith(p, "resetLeft", job[p])
      /\ UNCHANGED <<flow, messages, dispatched>>
    BY FailEnds, GotoIs DEF DeleteSession, DropSession
<1>4. Kept("resetLeft")'
    <2>1. FlowOfSession("resetLeft")'
        BY <1>3 DEF FlowOfSession
    <2>2. FlowsApart("resetLeft")' /\ DispatchedApart("resetLeft")'
        BY <1>2, <1>3, FlowsMove, DispatchedMove DEF Held, Kept
    <2>3. SessionLasts("resetLeft")'
        BY <1>2, <1>3 DEF Held, HeldSession, Kept, SessionLasts, Before
    <2> QED BY <2>1, <2>2, <2>3 DEF Kept
<1>5. PICK j : j = job[p]
    OBVIOUS
<1>6. HeldSession("resetLeft", j)' /\ HeldFlow("resetLeft", j)'
    BY <1>2, <1>3, <1>5
       DEF HeldSession, HeldFlow, UserPCs, NewPCs, BusinessPCs, ResetPCs, FlowPCs
<1> QED BY <1>3, <1>4, <1>5, <1>6, OrderlyMove DEF Held

LEMMA ResetIs ==
    ASSUME TypeInv, NEW b \in Businesses, ResetFlow(b), Orderly'
    PROVE  flow' = [flow EXCEPT ![b] = NoFlow] /\ flow'[b] = NoFlow
<1>1. flow' = [flow EXCEPT ![b] = NoFlow]
    BY FailEnds DEF ResetFlow, WithoutFlow
<1> QED BY <1>1 DEF TypeInv, TypeOK

(* The flow of the session's business is reset. *)
LEMMA KeptReset ==
    ASSUME TypeInv, NEW b \in Businesses, flow' = [flow EXCEPT ![b] = NoFlow],
           NEW s, NEW t, s = "idle" => t = "idle",
           s = "resetRole" /\ session # Nil => b = session.business,
           Kept(s), UNCHANGED <<session, messages, dispatched, left>>
    PROVE  Kept(t)'
<1>1. \A c \in Businesses : flow'[c] # NoFlow => flow'[c] = flow[c] /\ c # b
    BY DEF TypeInv, TypeOK
<1>2. FlowOfSession(t)'
    <2>1. session # Nil => session.business \in Businesses
        BY SessionFields DEF TypeInv, TypeOK
    <2> QED BY <1>1, <2>1 DEF Kept, FlowOfSession
<1>3. FlowsApart(t)' /\ DispatchedApart(t)' /\ SessionLasts(t)'
    BY FlowsMove, DispatchedMove, LeftMove DEF Kept
<1> QED BY <1>2, <1>3 DEF Kept

LEMMA OrderlyResetLeft ==
    ASSUME TypeInv, NEW p \in Procs, Only(p), Held(pc[p], job[p]), ResetLeft(p), Orderly'
    PROVE  OrderlyInv'
<1>1. pc[p] = "resetLeft" /\ "resetLeft" \in UserPCs
    BY DEF ResetLeft, UserPCs
<1>2. /\ job[p].uc.business \in Businesses /\ Held("resetLeft", job[p])
      /\ job[p].number = messages
    BY <1>1, HeldIs
<1>3. PICK b \in Businesses : b = job[p].uc.business
    BY <1>2
<1>4. PICK j : j = [job[p] EXCEPT !.uc = Nil, !.ends = TRUE]
    OBVIOUS
<1>5. /\ flow' = [flow EXCEPT ![b] = NoFlow]
      /\ GotoWith(p, "getPending", j)
      /\ UNCHANGED <<session, messages, dispatched, left>>
    BY <1>3, <1>4, ResetIs DEF ResetLeft, historyVars
<1>6. Kept("getPending")'
    BY <1>2, <1>5, KeptReset DEF Held
<1>7. j.number = job[p].number
    BY <1>4, RedisIs DEF Job
<1>8. HeldSession("getPending", j)' /\ HeldFlow("getPending", j)'
    BY <1>2, <1>5, <1>7
       DEF Held, HeldSession, HeldFlow, UserPCs, NewPCs, BusinessPCs, ResetPCs, FlowPCs
<1> QED BY <1>5, <1>6, <1>8, OrderlyMove DEF Held

LEMMA OrderlyRegisterSwitch ==
    ASSUME TypeInv, NEW p \in Procs, Only(p), Held(pc[p], job[p]), RegisterSwitch(p), Orderly'
    PROVE  OrderlyInv'
<1>1. pc[p] = "registerSwitch" /\ "registerSwitch" \in UserPCs
    BY DEF RegisterSwitch, UserPCs
<1>2. /\ Held("registerSwitch", job[p]) /\ Acts(job[p].uc)
      /\ job[p].number = messages /\ session # Nil /\ SameUser(session, job[p].uc)
    BY <1>1, HeldIs
<1>3. PICK j : j = job[p]
    OBVIOUS
<1>4. /\ GotoWith(p, "findSwitch", j)
      /\ UNCHANGED <<session, flow, messages, dispatched, left>>
    BY <1>3, GotoIs DEF RegisterSwitch, redisVars, historyVars
<1>5. HasClient(j.uc.business)'
    <2>1. clients' = clients \cup {job[p].uc.business}
        BY FailEnds DEF RegisterSwitch
    <2> QED BY <1>3, <2>1 DEF HasClient
<1>6. HeldSession("findSwitch", j)' /\ HeldFlow("findSwitch", j)'
    BY <1>2, <1>3, <1>4, <1>5 DEF HeldSession, HeldFlow, SameUser,
       UserPCs, NewPCs, BusinessPCs, ResetPCs, FlowPCs
<1> QED BY <1>2, <1>4, <1>6, QuietMove

LEMMA OrderlyFindSwitch ==
    ASSUME TypeInv, NEW p \in Procs, Only(p), Held(pc[p], job[p]), FindSwitch(p), Orderly'
    PROVE  OrderlyInv'
<1>1. pc[p] = "findSwitch" /\ "findSwitch" \in UserPCs
    BY DEF FindSwitch, UserPCs
<1>2. /\ job[p].uc \in Session /\ Held("findSwitch", job[p])
      /\ job[p].number = messages /\ session # Nil /\ SameUser(session, job[p].uc)
    BY <1>1, HeldIs
<1>3. HasClient(job[p].uc.business)
    BY <1>2 DEF Held, HeldSession
<1>4. /\ GotoWith(p, "saveRole", [job[p] EXCEPT !.uc.client = TRUE])
      /\ UNCHANGED <<session, flow, messages, dispatched, left>>
    BY <1>3, FailEnds DEF FindSwitch, redisVars, historyVars
<1>5. PICK uc : uc = [job[p].uc EXCEPT !.client = TRUE]
    OBVIOUS
<1>6. SameUser(uc, job[p].uc) /\ uc.client
    BY <1>2, <1>5, ClientSet
<1>7. PICK j : j = [job[p] EXCEPT !.uc = uc]
    OBVIOUS
<1>8. j.uc = uc /\ j.number = job[p].number /\ GotoWith(p, "saveRole", j)
    BY <1>4, <1>5, <1>7, RedisIs DEF Job
<1>9. HeldSession("saveRole", j)' /\ HeldFlow("saveRole", j)'
    BY <1>2, <1>4, <1>6, <1>8 DEF HeldSession, HeldFlow, SameUser, Acts,
       UserPCs, NewPCs, BusinessPCs, ResetPCs, FlowPCs
<1> QED BY <1>2, <1>4, <1>8, <1>9, QuietMove

LEMMA SwitchedIs ==
    ASSUME NEW uc \in Session, uc.client
    PROVE  /\ Switched(uc) \in Session /\ Acts(Switched(uc))
           /\ Switched(uc).id = uc.id /\ Switched(uc).business = uc.business
<1>1. PICK r \in Roles : r = IF uc.role = "collaborator" THEN "client"
                             ELSE IF uc.collab THEN "collaborator" ELSE uc.role
    BY SessionFields DEF Roles
<1>2. Switched(uc) = [uc EXCEPT !.role = r]
    BY <1>1 DEF Switched
<1>3. \A v \in Session : LET y == [v EXCEPT !.role = r]
                         IN  /\ y \in Session /\ y.id = v.id /\ y.business = v.business
                             /\ y.client = v.client
    BY DEF Session
<1> QED BY <1>2, <1>3 DEF Acts

LEMMA OrderlySaveRole ==
    ASSUME TypeInv, NEW p \in Procs, Only(p), Held(pc[p], job[p]), SaveRole(p), Orderly'
    PROVE  OrderlyInv'
<1>1. pc[p] = "saveRole" /\ "saveRole" \in UserPCs
    BY DEF SaveRole, UserPCs
<1>2. /\ job[p].uc \in Session /\ Held("saveRole", job[p]) /\ job[p].number = messages
      /\ session # Nil /\ SameUser(session, job[p].uc)
    BY <1>1, HeldIs
<1>3. job[p].uc.client
    BY <1>2 DEF Held, HeldSession
<1>4. PICK uc \in Session : /\ uc = Switched(job[p].uc) /\ Acts(uc)
                            /\ uc.id = job[p].uc.id /\ uc.business = job[p].uc.business
    BY <1>2, <1>3, SwitchedIs
<1>5. PICK j : j = [job[p] EXCEPT !.uc = uc]
    OBVIOUS
<1>6. j.uc = uc /\ j.number = job[p].number
    BY <1>5, RedisIs DEF Job
<1>7. /\ session' = uc /\ GotoWith(p, "resetRole", j)
      /\ UNCHANGED <<flow, messages, dispatched, left>>
    BY <1>4, <1>5, FailEnds DEF SaveRole, historyVars
<1>8. Kept("resetRole")'
    <2>1. FlowOfSession("resetRole")'
        BY DEF FlowOfSession
    <2>2. FlowsApart("resetRole")' /\ DispatchedApart("resetRole")'
        BY <1>2, <1>7, FlowsMove, DispatchedMove DEF Held, Kept
    <2>3. SessionLasts("resetRole")'
        BY <1>2, <1>4, <1>7 DEF Held, Kept, SessionLasts, SameUser, Before
    <2> QED BY <2>1, <2>2, <2>3 DEF Kept
<1>9. HeldSession("resetRole", j)' /\ HeldFlow("resetRole", j)'
    BY <1>2, <1>4, <1>6, <1>7, SessionFields DEF HeldSession, HeldFlow, SameUser,
       UserPCs, NewPCs, BusinessPCs, ResetPCs, FlowPCs
<1> QED BY <1>7, <1>8, <1>9, OrderlyMove DEF Held

LEMMA OrderlyResetRole ==
    ASSUME TypeInv, NEW p \in Procs, Only(p), Held(pc[p], job[p]), ResetRole(p), Orderly'
    PROVE  OrderlyInv'
<1>1. pc[p] = "resetRole" /\ "resetRole" \in UserPCs
    BY DEF ResetRole, UserPCs
<1>2. /\ job[p].uc.business \in Businesses /\ Acts(job[p].uc) /\ Held("resetRole", job[p])
      /\ job[p].number = messages /\ session # Nil /\ SameUser(session, job[p].uc)
    BY <1>1, HeldIs
<1>3. PICK b \in Businesses : b = job[p].uc.business
    BY <1>2
<1>4. PICK j : j = [job[p] EXCEPT !.msg = Text]
    OBVIOUS
<1>5. /\ flow' = [flow EXCEPT ![b] = NoFlow]
      /\ GotoWith(p, "getFlow", j)
      /\ UNCHANGED <<session, messages, dispatched, left>>
    BY <1>3, <1>4, ResetIs DEF ResetRole, historyVars
<1>6. Kept("getFlow")'
    BY <1>2, <1>3, <1>5, KeptReset DEF Held, SameUser
<1>7. j.number = job[p].number /\ j.uc = job[p].uc
    BY <1>4, RedisIs DEF Job
<1>8. HeldSession("getFlow", j)' /\ HeldFlow("getFlow", j)'
    BY <1>2, <1>5, <1>7
       DEF Held, HeldSession, HeldFlow, UserPCs, NewPCs, BusinessPCs, ResetPCs, FlowPCs
<1> QED BY <1>5, <1>6, <1>8, OrderlyMove DEF Held

(* The steps that find the business and the role write nothing the session *)
(* and its flow depend on, and the session is not there.                   *)
LEMMA NewIs ==
    ASSUME TypeInv, NEW p \in Procs, NEW s, pc[p] = s, s \in NewPCs \ {"resetLeft"},
           Held(pc[p], job[p])
    PROVE  /\ Held(s, job[p]) /\ job[p].number = messages /\ session = Nil
           /\ s \in BusinessPCs => job[p].business \in Businesses
           /\ s \notin {"idle", "resetRole"}
<1>1. s \notin {"idle", "resetRole"}
    BY DEF NewPCs, BusinessPCs
<1>2. s \in BusinessPCs => job[p].business \in Businesses
    BY RedisIs DEF JobFits
<1> QED BY <1>1, <1>2 DEF Held, HeldSession

LEMMA NewMove ==
    ASSUME TypeInv, NEW p \in Procs, Only(p), NEW s, pc[p] = s,
           s \in NewPCs \ {"resetLeft"}, Held(pc[p], job[p]),
           UNCHANGED <<session, flow, messages, dispatched, left>>,
           NEW t \in NewPCs \ {"resetLeft"}, NEW j, GotoWith(p, t, j), j.number = job[p].number,
           t \in ResetPCs => flow[j.business] = NoFlow,
           t = "saveSession" => j.collab \/ j.client
    PROVE  OrderlyInv'
<1>1. /\ Held(s, job[p]) /\ job[p].number = messages /\ session = Nil
      /\ s \notin {"idle", "resetRole"}
    BY NewIs
<1>2. HeldSession(t, j)' /\ HeldFlow(t, j)'
    BY <1>1 DEF HeldSession, HeldFlow, UserPCs, NewPCs, BusinessPCs, ResetPCs, FlowPCs
<1> QED BY <1>1, <1>2, QuietMove

LEMMA NewFinish ==
    ASSUME TypeInv, NEW p \in Procs, Only(p), NEW s, pc[p] = s,
           s \in NewPCs \ {"resetLeft"}, Held(pc[p], job[p]),
           UNCHANGED <<session, flow, messages, dispatched, left>>, Finish(p)
    PROVE  OrderlyInv'
BY NewIs, QuietFinish

LEMMA OrderlyGetPending ==
    ASSUME TypeInv, NEW p \in Procs, Only(p), Held(pc[p], job[p]), GetPending(p), Orderly'
    PROVE  OrderlyInv'
<1>1. /\ pc[p] = "getPending" /\ "getPending" \in NewPCs \ {"resetLeft"}
      /\ UNCHANGED <<session, flow, messages, dispatched, left>>
    BY DEF GetPending, NewPCs, redisVars, historyVars
<1>2. CASE Goto(p, "resolve") /\ UNCHANGED job
    <2>1. PICK j : j = job[p]
        OBVIOUS
    <2>2. GotoWith(p, "resolve", j) /\ "resolve" \in NewPCs \ {"resetLeft"}
          /\ "resolve" \notin ResetPCs
        BY <1>2, <2>1, GotoIs DEF NewPCs, ResetPCs
    <2> QED BY <1>1, <2>1, <2>2, NewMove
<1>3. ASSUME NEW b, GotoWith(p, "deletePending", [job[p] EXCEPT !.business = b])
      PROVE  OrderlyInv'
    <2>1. PICK j : j = [job[p] EXCEPT !.business = b]
        OBVIOUS
    <2>2. j.number = job[p].number
        BY <2>1, RedisIs DEF Job
    <2>3. "deletePending" \in NewPCs \ {"resetLeft"} /\ "deletePending" \notin ResetPCs
        BY DEF NewPCs, BusinessPCs, ResetPCs
    <2> QED BY <1>1, <1>3, <2>1, <2>2, <2>3, NewMove
<1>4. CASE Finish(p)
    BY <1>1, <1>4, NewFinish
<1> QED BY <1>2, <1>3, <1>4 DEF GetPending

LEMMA OrderlyDeletePending ==
    ASSUME TypeInv, NEW p \in Procs, Only(p), Held(pc[p], job[p]), DeletePending(p), Orderly'
    PROVE  OrderlyInv'
<1>1. /\ pc[p] = "deletePending" /\ "deletePending" \in NewPCs \ {"resetLeft"}
      /\ UNCHANGED <<session, flow, messages, dispatched, left>>
    BY DEF DeletePending, NewPCs, BusinessPCs, historyVars
<1>2. PICK j : j = job[p]
    OBVIOUS
<1>3. GotoWith(p, "resetFlow", j) /\ "resetFlow" \in NewPCs \ {"resetLeft"}
      /\ "resetFlow" \notin ResetPCs
    BY <1>2, GotoIs DEF DeletePending, NewPCs, BusinessPCs, ResetPCs
<1> QED BY <1>1, <1>2, <1>3, NewMove

LEMMA OrderlyResolve ==
    ASSUME TypeInv, NEW p \in Procs, Only(p), Held(pc[p], job[p]), Resolve(p), Orderly'
    PROVE  OrderlyInv'
<1>1. /\ pc[p] = "resolve" /\ "resolve" \in NewPCs \ {"resetLeft"}
      /\ UNCHANGED <<session, flow, messages, dispatched, left>>
    BY DEF Resolve, NewPCs, redisVars, historyVars
<1>2. ASSUME NEW b, NEW s, s \in {"register", "resetFlow"},
             GotoWith(p, s, [job[p] EXCEPT !.business = b])
      PROVE  OrderlyInv'
    <2>1. PICK j : j = [job[p] EXCEPT !.business = b]
        OBVIOUS
    <2>2. j.number = job[p].number
        BY <2>1, RedisIs DEF Job
    <2>3. s \in NewPCs \ {"resetLeft"} /\ s \notin ResetPCs
        BY <1>2 DEF NewPCs, BusinessPCs, ResetPCs
    <2> QED BY <1>1, <1>2, <2>1, <2>2, <2>3, NewMove DEF ResetPCs
<1>3. ASSUME NEW options, Offer(p, options) PROVE OrderlyInv'
    <2>1. PICK j : j = [job[p] EXCEPT !.options = options]
        OBVIOUS
    <2>2. j.number = job[p].number
        BY <2>1, RedisIs DEF Job
    <2>3. "savePending" \in NewPCs \ {"resetLeft"} /\ "savePending" \notin ResetPCs
        BY DEF NewPCs, ResetPCs
    <2> QED BY <1>1, <1>3, <2>1, <2>2, <2>3, NewMove DEF Offer
<1>4. CASE Finish(p)
    BY <1>1, <1>4, NewFinish
<1>5. ASSUME NEW b, Join(p, b) PROVE OrderlyInv'
    BY <1>2, <1>5 DEF Join
<1> QED BY <1>2, <1>3, <1>4, <1>5 DEF Resolve

LEMMA OrderlySavePending ==
    ASSUME TypeInv, NEW p \in Procs, Only(p), Held(pc[p], job[p]), SavePending(p), Orderly'
    PROVE  OrderlyInv'
<1>1. /\ pc[p] = "savePending" /\ "savePending" \in NewPCs \ {"resetLeft"} /\ Finish(p)
      /\ UNCHANGED <<session, flow, messages, dispatched, left>>
    BY DEF SavePending, NewPCs, historyVars
<1> QED BY <1>1, NewFinish

LEMMA OrderlyRegister ==
    ASSUME TypeInv, NEW p \in Procs, Only(p), Held(pc[p], job[p]), Register(p), Orderly'
    PROVE  OrderlyInv'
<1>1. /\ pc[p] = "register" /\ "register" \in NewPCs \ {"resetLeft"}
      /\ UNCHANGED <<session, flow, messages, dispatched, left>>
    BY DEF Register, NewPCs, BusinessPCs, redisVars, historyVars
<1>2. PICK j : j = job[p]
    OBVIOUS
<1>3. GotoWith(p, "resetFlow", j) /\ "resetFlow" \in NewPCs \ {"resetLeft"}
      /\ "resetFlow" \notin ResetPCs
    BY <1>2, GotoIs DEF Register, NewPCs, BusinessPCs, ResetPCs
<1> QED BY <1>1, <1>2, <1>3, NewMove

LEMMA OrderlyResetNew ==
    ASSUME TypeInv, NEW p \in Procs, Only(p), Held(pc[p], job[p]), ResetNew(p), Orderly'
    PROVE  OrderlyInv'
<1>1. pc[p] = "resetFlow" /\ "resetFlow" \in NewPCs \ {"resetLeft"} /\ "resetFlow" \in BusinessPCs
    BY DEF ResetNew, NewPCs, BusinessPCs
<1>2. /\ Held("resetFlow", job[p]) /\ job[p].number = messages /\ session = Nil
      /\ job[p].business \in Businesses
    BY <1>1, NewIs
<1>3. PICK b, j : b \in Businesses /\ b = job[p].business /\ j = job[p]
    BY <1>2
<1>4. /\ flow' = [flow EXCEPT ![b] = NoFlow] /\ flow'[b] = NoFlow
      /\ GotoWith(p, "findCollaborator", j)
      /\ UNCHANGED <<session, messages, dispatched, left>>
    BY <1>3, ResetIs, GotoIs DEF ResetNew, Biz, historyVars
<1>5. Kept("findCollaborator")'
    BY <1>2, <1>3, <1>4, KeptReset DEF Held
<1>6. HeldSession("findCollaborator", j)' /\ HeldFlow("findCollaborator", j)'
    BY <1>2, <1>3, <1>4
       DEF HeldSession, HeldFlow, UserPCs, NewPCs, BusinessPCs, ResetPCs, FlowPCs
<1> QED BY <1>4, <1>5, <1>6, OrderlyMove DEF Held

LEMMA OrderlyFindCollaborator ==
    ASSUME TypeInv, NEW p \in Procs, Only(p), Held(pc[p], job[p]), FindCollaborator(p), Orderly'
    PROVE  OrderlyInv'
<1>1. /\ pc[p] = "findCollaborator" /\ "findCollaborator" \in NewPCs \ {"resetLeft"}
      /\ UNCHANGED <<session, flow, messages, dispatched, left>>
    BY DEF FindCollaborator, NewPCs, BusinessPCs, redisVars, historyVars
<1>2. flow[job[p].business] = NoFlow
    BY <1>1 DEF Held, HeldSession, ResetPCs
<1>3. PICK j : j = [job[p] EXCEPT !.collab = staff[Biz(p)] = "active"]
    OBVIOUS
<1>4. j.number = job[p].number /\ j.business = job[p].business
    BY <1>3, RedisIs DEF Job
<1>5. GotoWith(p, "findClient", j) /\ "findClient" \in NewPCs \ {"resetLeft"}
      /\ "findClient" # "saveSession"
    BY <1>3 DEF FindCollaborator, NewPCs, BusinessPCs
<1> QED BY <1>1, <1>2, <1>4, <1>5, NewMove

LEMMA OrderlyFindClient ==
    ASSUME TypeInv, NEW p \in Procs, Only(p), Held(pc[p], job[p]), FindClient(p), Orderly'
    PROVE  OrderlyInv'
<1>1. /\ pc[p] = "findClient" /\ "findClient" \in NewPCs \ {"resetLeft"}
      /\ UNCHANGED <<session, flow, messages, dispatched, left>>
    BY DEF FindClient, NewPCs, BusinessPCs, redisVars
<1>2. flow[job[p].business] = NoFlow
    BY <1>1 DEF Held, HeldSession, ResetPCs
<1>3. CASE /\ HasClient(Biz(p)) \/ job[p].collab
           /\ GotoWith(p, "saveSession", [job[p] EXCEPT !.client = HasClient(Biz(p))])
    <2>1. PICK j : j = [job[p] EXCEPT !.client = HasClient(Biz(p))]
        OBVIOUS
    <2>2. /\ j.number = job[p].number /\ j.business = job[p].business
          /\ j.collab = job[p].collab /\ j.client = HasClient(Biz(p))
        BY <2>1, RedisIs DEF Job
    <2>3. GotoWith(p, "saveSession", j) /\ "saveSession" \in NewPCs \ {"resetLeft"}
        BY <1>3, <2>1 DEF NewPCs, BusinessPCs
    <2>4. j.collab \/ j.client
        BY <1>3, <2>2
    <2> QED BY <1>1, <1>2, <2>2, <2>3, <2>4, NewMove
<1>4. CASE Finish(p)
    BY <1>1, <1>4, NewFinish
<1> QED BY <1>3, <1>4, FailEnds DEF FindClient

LEMMA OrderlySaveSession ==
    ASSUME TypeInv, NEW p \in Procs, Only(p), Held(pc[p], job[p]), SaveSession(p), Orderly'
    PROVE  OrderlyInv'
<1>1. pc[p] = "saveSession" /\ "saveSession" \in NewPCs \ {"resetLeft"}
      /\ "saveSession" \in BusinessPCs /\ "saveSession" \in ResetPCs
    BY DEF SaveSession, NewPCs, BusinessPCs, ResetPCs
<1>2. /\ Held("saveSession", job[p]) /\ job[p].number = messages /\ session = Nil
      /\ job[p].business \in Businesses
    BY <1>1, NewIs
<1>3. flow[job[p].business] = NoFlow /\ (job[p].collab \/ job[p].client)
    BY <1>1, <1>2 DEF Held, HeldSession
<1>4. PICK modules \in BOOLEAN :
        /\ session' = NewSession(p, modules)
        /\ IF job[p].ends THEN Finish(p)
           ELSE WithSession(p, NewSession(p, modules), Rest(job[p].msg))
    BY DEF SaveSession
<1>5. UNCHANGED <<flow, messages, dispatched, left>>
    BY DEF SaveSession, historyVars
<1>6. PICK uc \in Session :
        /\ uc = NewSession(p, modules) /\ uc.business = job[p].business /\ uc.id = messages
        /\ Acts(uc)
    BY <1>2, <1>3, NewSessionType DEF Acts
<1>7. session' = uc /\ session' # Nil /\ session'.id = messages
    BY <1>4, <1>6, SessionFields
<1>8. ASSUME NEW t, t # "resetRole" PROVE Kept(t)'
    <2>1. FlowOfSession(t)'
        BY <1>3, <1>5, <1>6, <1>7 DEF FlowOfSession
    <2>2. FlowsApart(t)' /\ DispatchedApart(t)'
        BY <1>2, <1>5, FlowsMove, DispatchedMove DEF Held, Kept
    <2>3. SessionLasts(t)'
        <3>1. messages \in Nat /\ left \subseteq Nat /\ \A n \in left : n < messages
            BY <1>2, RedisIs DEF Held, Kept, SessionLasts, Before
        <3>2. \A n \in left' : Before(t, n)'
            BY <1>5, <3>1 DEF Before
        <3>3. session'.id <= messages' /\ session'.id \notin left' /\ Acts(session')
            BY <1>5, <1>6, <1>7, <3>1
        <3> QED BY <3>2, <3>3 DEF SessionLasts, Acts
    <2> QED BY <2>1, <2>2, <2>3 DEF Kept
<1>9. CASE Finish(p)
    <2>1. HeldSession("idle", NoJob)' /\ HeldFlow("idle", NoJob)'
        BY DEF HeldSession, HeldFlow, UserPCs, NewPCs, BusinessPCs, ResetPCs, FlowPCs
    <2> QED BY <1>8, <1>9, <2>1, OrderlyMove DEF Held, Finish
<1>10. CASE WithSession(p, uc, Rest(job[p].msg))
    <2>1. PICK m, j : m = Rest(job[p].msg) /\ j = [job[p] EXCEPT !.uc = uc, !.msg = m]
        OBVIOUS
    <2>2. j.uc = uc /\ j.number = job[p].number /\ j.msg = m /\ m.kind # "leave"
        BY <2>1, RedisIs, RestIs DEF Job
    <2>3. PICK s : s = IF uc.modules THEN Route(uc, m) ELSE "backfill"
        OBVIOUS
    <2>4. s \in {"backfill", "getFlow"}
        BY <2>1, <2>3, RedisIs, RestIs DEF Job
    <2>5. GotoWith(p, s, j)
        BY <1>10, <2>1, <2>3 DEF WithSession
    <2>6. HeldSession(s, j)' /\ HeldFlow(s, j)'
        BY <1>2, <1>5, <1>6, <1>7, <2>2, <2>4
           DEF HeldSession, HeldFlow, SameUser, UserPCs, NewPCs, BusinessPCs, ResetPCs, FlowPCs
    <2>7. Kept(s)'
        BY <1>8, <2>4
    <2> QED BY <2>5, <2>6, <2>7, OrderlyMove DEF Held
<1> QED BY <1>4, <1>6, <1>9, <1>10
(* A handler with a flow in hand goes on with it. *)
LEMMA OrderlyFlowJob ==
    ASSUME TypeInv, NEW p \in Procs, Only(p), Held("getFlow", job[p]), job[p].uc \in Session,
           session # Nil, SameUser(session, job[p].uc), job[p].number = messages,
           NEW fs \in Flow, NEW s \in FlowPCs, GotoWith(p, s, [job[p] EXCEPT !.fs = fs]),
           UNCHANGED <<session, flow, messages, dispatched, left>>,
           OfSession(fs, job[p].uc), fs.begun <= messages,
           \A b \in Businesses : flow[b] # NoFlow /\ flow[b].begun = fs.begun
               => s # "dispatch" /\ b = job[p].uc.business,
           \A i \in DOMAIN dispatched : dispatched[i].fs.begun # fs.begun
    PROVE  OrderlyInv'
<1>1. PICK j : j = [job[p] EXCEPT !.fs = fs]
    OBVIOUS
<1>2. j.uc = job[p].uc /\ j.number = job[p].number /\ j.fs = fs
    BY <1>1, RedisIs DEF Job
<1>3. Acts(job[p].uc)
    BY DEF Held, HeldSession, UserPCs
<1>4. HeldSession(s, j)'
    BY <1>2, <1>3 DEF HeldSession, UserPCs, NewPCs, BusinessPCs, ResetPCs, FlowPCs
<1>5. HeldFlow(s, j)'
    BY <1>2 DEF HeldFlow
<1> QED BY <1>1, <1>4, <1>5, QuietMove

LEMMA OrderlyGetFlow ==
    ASSUME TypeInv, NEW p \in Procs, Only(p), Held(pc[p], job[p]), GetFlow(p), Orderly'
    PROVE  OrderlyInv'
<1>1. /\ pc[p] = "getFlow" /\ "getFlow" \in UserPCs
      /\ UNCHANGED <<session, flow, messages, dispatched, left>>
    BY DEF GetFlow, UserPCs, redisVars, historyVars
<1>2. /\ job[p].uc \in Session /\ job[p].uc.business \in Businesses
      /\ Held("getFlow", job[p]) /\ job[p].number = messages
      /\ session # Nil /\ SameUser(session, job[p].uc)
    BY <1>1, HeldIs
<1>3. messages \in Nat
    BY RedisIs
<1>4. {"dispatch", "saveFlow", "deleteFlow"} \subseteq FlowPCs
    BY DEF FlowPCs
<1>5. CASE Finish(p)
    BY <1>1, <1>2, <1>5, QuietFinish
<1>6. ASSUME NEW c \in Commands, NEW fs \in Flow, NEW s \in {"dispatch", "saveFlow"},
             Begun(p, c, fs), GotoWith(p, s, [job[p] EXCEPT !.fs = fs])
      PROVE  OrderlyInv'
    <2>1. fs.begun = messages /\ OfSession(fs, job[p].uc)
        BY <1>2, <1>6 DEF Begun, OfSession
    <2>2. \A b \in Businesses : flow[b] # NoFlow => flow[b].begun # fs.begun
        BY <1>2, <1>3, <2>1, FlowType DEF Held, Kept, FlowsApart, Before
    <2>3. \A i \in DOMAIN dispatched : dispatched[i].fs.begun # fs.begun
        <3> SUFFICES ASSUME NEW i \in DOMAIN dispatched PROVE dispatched[i].fs.begun # fs.begun
            OBVIOUS
        <3>1. dispatched[i].fs.begun \in Nat /\ Before("getFlow", dispatched[i].fs.begun)
            BY <1>2, DispatchedType DEF Held, Kept, DispatchedApart
        <3> QED BY <1>3, <2>1, <3>1 DEF Before
    <2>4. fs.begun <= messages
        BY <1>3, <2>1
    <2> QED BY <1>1, <1>2, <1>4, <1>6, <2>1, <2>2, <2>3, <2>4, OrderlyFlowJob
<1>7. ASSUME NEW fs \in Flow, NEW s \in {"deleteFlow", "saveFlow"},
             flow[job[p].uc.business] # NoFlow,
             fs.begun = flow[job[p].uc.business].begun,
             fs.session = flow[job[p].uc.business].session,
             fs.role = flow[job[p].uc.business].role,
             GotoWith(p, s, [job[p] EXCEPT !.fs = fs])
      PROVE  OrderlyInv'
    <2>1. PICK b \in Businesses : b = job[p].uc.business /\ b = session.business
        BY <1>2 DEF SameUser
    <2>2. OfSession(fs, job[p].uc)
        BY <1>2, <1>7, <2>1 DEF Held, Kept, FlowOfSession, OfSession, SameUser
    <2>3. \A c \in Businesses : flow[c] # NoFlow /\ flow[c].begun = fs.begun => c = b
        BY <1>2, <1>7, <2>1 DEF Held, Kept, FlowsApart
    <2>4. \A i \in DOMAIN dispatched : dispatched[i].fs.begun # fs.begun
        BY <1>2, <1>7, <2>1 DEF Held, Kept, FlowsApart
    <2>5. fs.begun <= messages
        <3>1. flow[b].begun \in Nat /\ flow[b].begun < messages
            BY <1>2, <1>7, <2>1, FlowType DEF Held, Kept, FlowsApart, Before
        <3> QED BY <1>3, <1>7, <2>1, <3>1
    <2> QED BY <1>1, <1>2, <1>4, <1>7, <2>1, <2>2, <2>3, <2>4, <2>5, OrderlyFlowJob
<1> QED BY <1>5, <1>6, <1>7, GetFlowSteps

(* What a handler with a flow in hand may rely on. *)
LEMMA FlowIs ==
    ASSUME TypeInv, NEW p \in Procs, NEW s \in FlowPCs, pc[p] = s, Held(pc[p], job[p])
    PROVE  /\ job[p].uc \in Session /\ job[p].uc.business \in Businesses /\ Acts(job[p].uc)
           /\ Held(s, job[p]) /\ job[p].number = messages
           /\ session # Nil /\ SameUser(session, job[p].uc)
           /\ job[p].fs \in Flow /\ job[p].fs.begun \in Nat /\ messages \in Nat
           /\ OfSession(job[p].fs, job[p].uc) /\ job[p].fs.begun <= messages
           /\ \A b \in Businesses : flow[b] # NoFlow /\ flow[b].begun = job[p].fs.begun
                  => s # "dispatch" /\ b = job[p].uc.business
           /\ \A i \in DOMAIN dispatched : dispatched[i].fs.begun # job[p].fs.begun
<1>1. s \in UserPCs /\ s # "resetLeft"
    BY DEF UserPCs, FlowPCs
<1>2. job[p].fs \in Flow /\ job[p].fs.begun \in Nat /\ messages \in Nat
    BY RedisIs, FlowFields DEF JobFits
<1>3. HeldFlow(s, job[p])
    BY DEF Held
<1> QED BY <1>1, <1>2, <1>3, HeldIs DEF HeldFlow

LEMMA OrderlySaveFlow ==
    ASSUME TypeInv, NEW p \in Procs, Only(p), Held(pc[p], job[p]), SaveFlow(p), Orderly'
    PROVE  OrderlyInv'
<1>1. pc[p] = "saveFlow" /\ "saveFlow" \in FlowPCs
    BY DEF SaveFlow, FlowPCs
<1>2. /\ job[p].uc.business \in Businesses /\ Held("saveFlow", job[p])
      /\ session # Nil /\ SameUser(session, job[p].uc)
      /\ job[p].fs \in Flow /\ job[p].fs.begun \in Nat /\ messages \in Nat
      /\ OfSession(job[p].fs, job[p].uc) /\ job[p].fs.begun <= messages
      /\ \A b \in Businesses : flow[b] # NoFlow /\ flow[b].begun = job[p].fs.begun
             => b = job[p].uc.business
      /\ \A i \in DOMAIN dispatched : dispatched[i].fs.begun # job[p].fs.begun
    BY <1>1, FlowIs
<1>3. PICK b \in Businesses, fs \in Flow : b = job[p].uc.business /\ fs = job[p].fs
    BY <1>2
<1>4. /\ flow' = [flow EXCEPT ![b] = fs]
      /\ Finish(p) /\ UNCHANGED <<session, messages, dispatched, left>>
    BY <1>3 DEF SaveFlow, historyVars
<1>5. \A c \in Businesses : flow'[c] = IF c = b THEN fs ELSE flow[c]
    BY <1>4 DEF TypeInv, TypeOK
<1>6. FlowOfSession("idle")'
    BY <1>2, <1>3, <1>4, <1>5 DEF FlowOfSession, OfSession, SameUser
<1>7. FlowsApart("idle")'
    <2>1. ASSUME NEW c \in Businesses, flow'[c] # NoFlow
          PROVE  /\ Before("idle", flow[c].begun)'
                 /\ \A i \in DOMAIN dispatched' : dispatched'[i].fs.begun # flow'[c].begun
                 /\ \A d \in Businesses \ {c} : flow'[d] # NoFlow => flow'[d].begun # flow'[c].begun
        <3>1. CASE c = b
            BY <1>2, <1>3, <1>4, <1>5, <3>1 DEF Before
        <3>2. CASE c # b
            <4>1. flow'[c] = flow[c] /\ flow[c] # NoFlow /\ flow[c].begun \in Nat
                  /\ flow[c].begun # fs.begun
                BY <1>2, <1>3, <1>5, <2>1, <3>2, FlowType
            <4>2. Before("saveFlow", flow[c].begun)
                BY <1>2, <4>1 DEF Held, Kept, FlowsApart
            <4>3. Before("idle", flow[c].begun)'
                BY <1>2, <1>4, <4>1, <4>2 DEF Before
            <4>4. \A i \in DOMAIN dispatched' : dispatched'[i].fs.begun # flow'[c].begun
                BY <1>2, <1>4, <4>1 DEF Held, Kept, FlowsApart
            <4>5. \A d \in Businesses \ {c} : flow'[d] # NoFlow => flow'[d].begun # flow'[c].begun
                BY <1>2, <1>5, <4>1 DEF Held, Kept, FlowsApart
            <4> QED BY <4>3, <4>4, <4>5
        <3> QED BY <3>1, <3>2
    <2> QED BY <2>1 DEF FlowsApart
<1>8. DispatchedApart("idle")' /\ SessionLasts("idle")'
    BY <1>2, <1>4, DispatchedMove, LeftMove DEF Held, Kept
<1>9. HeldSession("idle", NoJob)' /\ HeldFlow("idle", NoJob)'
    BY DEF HeldSession, HeldFlow, UserPCs, NewPCs, BusinessPCs, ResetPCs, FlowPCs
<1> QED BY <1>4, <1>6, <1>7, <1>8, <1>9, OrderlyMove DEF Held, Kept, Finish

LEMMA OrderlyDeleteFlow ==
    ASSUME TypeInv, NEW p \in Procs, Only(p), Held(pc[p], job[p]), DeleteFlow(p), Orderly'
    PROVE  OrderlyInv'
<1>1. pc[p] = "deleteFlow" /\ "deleteFlow" \in FlowPCs
    BY DEF DeleteFlow, FlowPCs
<1>2. /\ job[p].uc \in Session /\ job[p].uc.business \in Businesses /\ Acts(job[p].uc)
      /\ Held("deleteFlow", job[p]) /\ job[p].number = messages
      /\ session # Nil /\ SameUser(session, job[p].uc)
      /\ OfSession(job[p].fs, job[p].uc) /\ job[p].fs.begun <= messages
      /\ \A b \in Businesses : flow[b] # NoFlow /\ flow[b].begun = job[p].fs.begun
             => b = job[p].uc.business
      /\ \A i \in DOMAIN dispatched : dispatched[i].fs.begun # job[p].fs.begun
    BY <1>1, FlowIs
<1>3. PICK b, j : b \in Businesses /\ b = job[p].uc.business /\ j = job[p]
    BY <1>2
<1>4. /\ flow' = [flow EXCEPT ![b] = NoFlow] /\ GotoWith(p, "dispatch", j)
      /\ UNCHANGED <<session, messages, dispatched, left>>
    BY <1>3, ResetIs, GotoIs DEF DeleteFlow, historyVars
<1>5. Kept("dispatch")'
    BY <1>2, <1>3, <1>4, KeptReset DEF Held
<1>6. HeldSession("dispatch", j)'
    BY <1>2, <1>3, <1>4 DEF HeldSession, UserPCs, NewPCs, BusinessPCs, ResetPCs, FlowPCs
<1>7. \A c \in Businesses : flow'[c] # NoFlow => flow'[c] = flow[c] /\ c # b
    BY <1>3, <1>4 DEF TypeInv, TypeOK
<1>8. HeldFlow("dispatch", j)'
    BY <1>2, <1>3, <1>4, <1>7 DEF HeldFlow
<1> QED BY <1>4, <1>5, <1>6, <1>8, OrderlyMove DEF Held

LEMMA OrderlyDispatch ==
    ASSUME TypeInv, NEW p \in Procs, Only(p), Held(pc[p], job[p]), Dispatch(p), Orderly'
    PROVE  OrderlyInv'
<1>1. pc[p] = "dispatch" /\ "dispatch" \in FlowPCs
    BY DEF Dispatch, FlowPCs
<1>2. /\ Held("dispatch", job[p])
      /\ job[p].fs \in Flow /\ job[p].fs.begun \in Nat /\ messages \in Nat
      /\ OfSession(job[p].fs, job[p].uc) /\ job[p].fs.begun <= messages
      /\ \A b \in Businesses : flow[b] # NoFlow => flow[b].begun # job[p].fs.begun
      /\ \A i \in DOMAIN dispatched : dispatched[i].fs.begun # job[p].fs.begun
    BY <1>1, FlowIs
<1>3. PICK d : d = Handed(p)
    OBVIOUS
<1>4. /\ d.fs = job[p].fs /\ d.session = job[p].uc.id /\ d.role = job[p].uc.role
      /\ dispatched' = Append(dispatched, d)
      /\ dispatched \in Seq([fs : Flow, session : Nat, role : Roles])
    BY <1>3, DispatchedEntry DEF Handed
<1>5. PICK f \in Flow : f = job[p].fs /\ f = d.fs
    BY <1>2, <1>4
<1>6. Finish(p) /\ UNCHANGED <<session, flow, messages, left>>
    BY DEF Dispatch, redisVars
<1>7. \A i \in DOMAIN dispatched' :
          \/ i \in DOMAIN dispatched /\ dispatched'[i] = dispatched[i]
          \/ i = Len(dispatched) + 1 /\ dispatched'[i] = d
    BY <1>4
<1>8. FlowOfSession("idle")'
    BY <1>2, <1>6 DEF Held, Kept, FlowOfSession
<1>9. FlowsApart("idle")'
    <2>1. ASSUME NEW b \in Businesses, flow[b] # NoFlow
          PROVE  /\ Before("idle", flow[b].begun)'
                 /\ \A i \in DOMAIN dispatched' : dispatched'[i].fs.begun # flow[b].begun
        <3>1. Before("dispatch", flow[b].begun) /\ flow[b].begun \in Nat
            BY <1>2, <2>1, FlowType DEF Held, Kept, FlowsApart
        <3>2. Before("idle", flow[b].begun)'
            BY <1>2, <1>6, <3>1 DEF Before
        <3>3. \A i \in DOMAIN dispatched : dispatched[i].fs.begun # flow[b].begun
            BY <1>2, <2>1 DEF Held, Kept, FlowsApart
        <3> QED BY <1>2, <1>4, <1>7, <2>1, <3>2, <3>3
    <2> QED BY <1>2, <1>6, <2>1 DEF Held, Kept, FlowsApart
<1>10. DispatchedApart("idle")'
    <2>1. ASSUME NEW i \in DOMAIN dispatched'
          PROVE  /\ OfSession(dispatched'[i].fs,
                              [id |-> dispatched'[i].session, role |-> dispatched'[i].role])
                 /\ Before("idle", dispatched[i].fs.begun)'
        <3>1. CASE i \in DOMAIN dispatched /\ dispatched'[i] = dispatched[i]
            <4>1. /\ Before("dispatch", dispatched[i].fs.begun) /\ dispatched[i].fs.begun \in Nat
                  /\ OfSession(dispatched[i].fs,
                               [id |-> dispatched[i].session, role |-> dispatched[i].role])
                BY <1>2, <3>1, DispatchedType DEF Held, Kept, DispatchedApart
            <4> QED BY <1>2, <1>6, <3>1, <4>1 DEF Before
        <3>2. CASE dispatched'[i] = d
            BY <1>2, <1>4, <1>6, <3>2 DEF Before, OfSession
        <3> QED BY <1>7, <3>1, <3>2
    <2>2. ASSUME NEW i \in DOMAIN dispatched', NEW k \in DOMAIN dispatched',
                 dispatched'[i].fs.begun = dispatched'[k].fs.begun
          PROVE  i = k
        <3>1. \A m \in DOMAIN dispatched : dispatched[m].fs.begun # d.fs.begun
            BY <1>2, <1>4
        <3>2. \A m, n \in DOMAIN dispatched :
                  dispatched[m].fs.begun = dispatched[n].fs.begun => m = n
            BY <1>2 DEF Held, Kept, DispatchedApart
        <3> QED BY <1>7, <2>2, <3>1, <3>2
    <2> QED BY <2>1, <2>2 DEF DispatchedApart
<1>11. SessionLasts("idle")'
    BY <1>2, <1>6, LeftMove DEF Held, Kept
<1>12. HeldSession("idle", NoJob)' /\ HeldFlow("idle", NoJob)'
    BY DEF HeldSession, HeldFlow, UserPCs, NewPCs, BusinessPCs, ResetPCs, FlowPCs
<1> QED BY <1>6, <1>8, <1>9, <1>10, <1>11, <1>12, OrderlyMove DEF Held, Kept, Finish

LEMMA OrderlyStep ==
    ASSUME TypeInv, NEW p \in Procs, Only(p), Held(pc[p], job[p]), Step(p), Orderly'
    PROVE  OrderlyInv'
BY OrderlyBackfill, OrderlyDeleteSession, OrderlyResetLeft, OrderlyRegisterSwitch, OrderlyFindSwitch,
   OrderlySaveRole, OrderlyResetRole, OrderlyGetPending, OrderlyDeletePending,
   OrderlyResolve, OrderlySavePending, OrderlyRegister, OrderlyResetNew,
   OrderlyFindCollaborator, OrderlyFindClient, OrderlySaveSession, OrderlyGetFlow,
   OrderlySaveFlow, OrderlyDeleteFlow, OrderlyDispatch DEF Step

LEMMA StepIsBusy ==
    ASSUME TypeInv, NEW p \in Procs, Step(p)
    PROVE  pc[p] # "idle"
BY DEF Step, Backfill, DeleteSession, ResetLeft, RegisterSwitch, FindSwitch, SaveRole, ResetRole,
       GetPending, DeletePending, Resolve, SavePending, Register, ResetNew,
       FindCollaborator, FindClient, SaveSession, GetFlow, SaveFlow, DeleteFlow, Dispatch

(* What lapses, and what the admin changes, leaves the handlers where they *)
(* are.                                                                    *)
LEMMA OrderlyLapse ==
    ASSUME TypeInv, OrderlyInv, Orderly,
           UNCHANGED <<clients, pc, job, messages, dispatched, left>>,
           \/ UNCHANGED session
           \/ session' = Nil /\ \A p \in Procs : pc[p] = "idle",
           UNCHANGED flow \/ \E b \in Businesses : flow' = [flow EXCEPT ![b] = NoFlow]
    PROVE  OrderlyInv'
<1>1. \A b \in Businesses : flow'[b] # NoFlow => flow'[b] = flow[b]
    BY DEF TypeInv, TypeOK
<1>2. ASSUME NEW s, Kept(s) PROVE Kept(s)'
    <2>1. FlowOfSession(s)'
        <3>1. session' # Nil => session' = session /\ session.business \in Businesses
            BY SessionFields DEF TypeInv, TypeOK
        <3> QED BY <1>1, <1>2, <3>1 DEF Kept, FlowOfSession
    <2> QED BY <1>2, <2>1, FlowsMove, DispatchedMove, LeftMove DEF Kept
<1>3. ASSUME NEW p \in Procs, pc[p] # "idle" PROVE Held(pc[p], job[p])'
    <2>1. PICK s, j : s = pc[p] /\ j = job[p]
        OBVIOUS
    <2>2. Held(s, j) /\ UNCHANGED session /\ JobFits(s, j)
        BY <1>3, <2>1, RedisIs DEF OrderlyInv
    <2>3. s \in ResetPCs => j.business \in Businesses
        BY <2>2 DEF JobFits, BusinessPCs, ResetPCs
    <2>4. s \in ResetPCs => flow'[j.business] = NoFlow
        <3>1. s \in ResetPCs => flow[j.business] = NoFlow
            BY <2>2 DEF Held, HeldSession
        <3> QED BY <2>3, <3>1 DEF TypeInv, TypeOK
    <2>5. HeldSession(s, j)'
        BY <2>2, <2>4 DEF Held, HeldSession, HasClient
    <2>6. HeldFlow(s, j)'
        BY <1>1, <2>2 DEF Held, HeldFlow
    <2>7. Kept(s)'
        BY <1>2, <2>2 DEF Held
    <2>8. pc'[p] = s /\ job'[p] = j
        BY <2>1
    <2>9. Kept(pc[p])'
        BY <2>7, <2>8 DEF Kept, FlowOfSession, FlowsApart, DispatchedApart, SessionLasts, Before
    <2>10. HeldSession(pc[p], job[p])' /\ HeldFlow(pc[p], job[p])'
        BY <2>5, <2>6, <2>8 DEF HeldSession, HeldFlow, HasClient
    <2> QED BY <2>9, <2>10 DEF Held
<1>4. \A p \in Procs : pc'[p] # "idle" => Only(p)'
    BY DEF OrderlyInv, Only
<1>5. (\A p \in Procs : pc'[p] = "idle") => Kept("idle")'
    BY <1>2 DEF OrderlyInv
<1> QED BY <1>3, <1>4, <1>5 DEF OrderlyInv

LEMMA OrderlyExpire ==
    ASSUME TypeInv, OrderlyInv, Orderly, Expire
    PROVE  OrderlyInv'
<1>1. UNCHANGED <<clients, pc, job, messages, dispatched, left>>
    BY DEF Expire, dbVars, historyVars
<1>2. \/ UNCHANGED session
      \/ session' = Nil /\ \A p \in Procs : pc[p] = "idle"
    BY DEF Expire
<1>3. UNCHANGED flow \/ \E b \in Businesses : flow' = [flow EXCEPT ![b] = NoFlow]
    BY DEF Expire
<1> QED BY <1>1, <1>2, <1>3, OrderlyLapse

(* Order once lost does not come back. *)
LEMMA OrderlyBefore ==
    ASSUME TypeInv, [Next]_vars, Orderly'
    PROVE  Orderly
<1>1. failed \in BOOLEAN /\ overlaps \in Nat
    BY DEF TypeInv, TypeOK
<1>2. UNCHANGED failed \/ failed' = TRUE
    BY DEF Next, Receive, Step, Abort, Expire, Administer, Quiescent, vars, calmVars, Fail,
           ResetFlow, Backfill, DeleteSession, ResetLeft, RegisterSwitch, FindSwitch,
           SaveRole, ResetRole,
           GetPending, DeletePending, Resolve, SavePending, Register, ResetNew,
           FindCollaborator, FindClient, SaveSession, GetFlow, SaveFlow, DeleteFlow, Dispatch
<1>3. UNCHANGED overlaps \/ overlaps' = overlaps + 1
    BY DEF Next, Receive, Step, Abort, Expire, Administer, Quiescent, vars, historyVars,
           Backfill, DeleteSession, ResetLeft, RegisterSwitch, FindSwitch, SaveRole, ResetRole,
           GetPending, DeletePending, Resolve, SavePending, Register, ResetNew,
           FindCollaborator, FindClient, SaveSession, GetFlow, SaveFlow, DeleteFlow, Dispatch
<1> QED BY <1>1, <1>2, <1>3 DEF Orderly

LEMMA OrderlyNext ==
    ASSUME TypeInv, OrderlyInv, [Next]_vars
    PROVE  OrderlyInv'
<1> SUFFICES ASSUME Orderly' PROVE OrderlyInv'
    BY DEF OrderlyInv
<1>1. Orderly
    BY OrderlyBefore
<1>2. ASSUME NEW p \in Procs, Receive(p) PROVE OrderlyInv'
    BY <1>1, <1>2, OrderlyReceive
<1>3. ASSUME NEW p \in Procs, Step(p) PROVE OrderlyInv'
    <2>1. Only(p) /\ Held(pc[p], job[p])
        BY <1>1, <1>3, StepIsBusy DEF OrderlyInv
    <2> QED BY <1>3, <2>1, OrderlyStep
<1>4. ASSUME NEW p \in Procs, Abort(p) PROVE OrderlyInv'
    BY <1>4, FailEnds DEF Abort
<1>5. CASE Expire
    BY <1>1, <1>5, OrderlyExpire
<1>6. ASSUME NEW b \in Businesses, Administer(b) PROVE OrderlyInv'
    <2>1. UNCHANGED <<session, flow, clients, pc, job, messages, dispatched, left>>
        BY <1>6 DEF Administer, redisVars, historyVars
    <2> QED BY <1>1, <2>1, OrderlyLapse
<1>7. CASE UNCHANGED vars
    <2>1. UNCHANGED <<session, flow, clients, pc, job, messages, dispatched, left>>
        BY <1>7 DEF vars, redisVars, dbVars, historyVars
    <2> QED BY <1>1, <2>1, OrderlyLapse
<1> QED BY <1>2, <1>3, <1>4, <1>5, <1>6, <1>7 DEF Next, Quiescent

LEMMA OrderlyInit == Init => OrderlyInv
<1> SUFFICES ASSUME Init PROVE OrderlyInv
    OBVIOUS
<1>1. \A p \in Procs : pc[p] = "idle"
    BY DEF Init
<1>2. session = Nil /\ left = {} /\ dispatched = <<>> /\ \A b \in Businesses : flow[b] = NoFlow
    BY DEF Init
<1>3. DOMAIN dispatched = {}
    BY <1>2
<1>4. Kept("idle")
    BY <1>2, <1>3 DEF Kept, FlowOfSession, FlowsApart, DispatchedApart, SessionLasts
<1> QED BY <1>1, <1>4 DEF OrderlyInv

LEMMA OrderlyInvariance == Spec => []OrderlyInv
<1>1. TypeInv /\ OrderlyInv /\ [Next]_vars => OrderlyInv'
    BY OrderlyNext
<1> QED BY <1>1, OrderlyInit, TypeInvariance, PTL DEF Spec

(* Whether a handler is busy or none is, Redis is as it should be. *)
LEMMA OrderlyKept ==
    ASSUME OrderlyInv, Orderly
    PROVE  \E s : Kept(s)
BY DEF OrderlyInv, Held

(* resolveAndCreateSession and the switch of roles reset the flow: in an   *)
(* orderly conversation a command is executed in the session and in the    *)
(* role it was begun in, never in a later one.                             *)
THEOREM SessionCorrect == Spec => []DispatchedInItsSession
<1>1. ASSUME OrderlyInv PROVE DispatchedInItsSession
    <2> SUFFICES ASSUME Orderly, NEW i \in DOMAIN dispatched
                 PROVE  /\ dispatched[i].session = dispatched[i].fs.session
                        /\ dispatched[i].role = dispatched[i].fs.role
        BY DEF DispatchedInItsSession
    <2>1. PICK s : DispatchedApart(s)
        BY <1>1, OrderlyKept DEF Kept
    <2> QED BY <2>1 DEF DispatchedApart, OfSession
<1> QED BY <1>1, OrderlyInvariance, PTL

(* The flow is deleted before its command is executed: in an orderly       *)
(* conversation a flow executes its command once, a message delivered      *)
(* again included.                                                         *)
THEOREM OnceCorrect == Spec => []FlowDispatchedOnce
<1>1. ASSUME OrderlyInv PROVE FlowDispatchedOnce
    <2>1. Orderly => \E s : DispatchedApart(s)
        BY <1>1, OrderlyKept DEF Kept
    <2> QED BY <2>1 DEF DispatchedApart, FlowDispatchedOnce
<1> QED BY <1>1, OrderlyInvariance, PTL

(* "cambiar_negocio": in an orderly conversation the session that was left *)
(* is never seen again, and a session acts as somebody: the id of its role *)
(* is set.                                                                 *)
THEOREM LeftCorrect == Spec => []LeftSessionIsOver
<1>1. ASSUME OrderlyInv PROVE LeftSessionIsOver
    <2>1. Orderly => \E s : SessionLasts(s)
        BY <1>1, OrderlyKept DEF Kept
    <2> QED BY <2>1 DEF SessionLasts, LeftSessionIsOver, Acts
<1> QED BY <1>1, OrderlyInvariance, PTL

=============================================================================
