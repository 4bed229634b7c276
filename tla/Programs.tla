------------------------------ MODULE Programs -------------------------------
(***************************************************************************)
(* The programs of a business: the row of customer_sisfi that links it     *)
(* with a system and the config row of that system, as the tabs of the     *)
(* admin panel and other clients of the API create and edit them.  A tab   *)
(* edits the page it has loaded and sends every field back, since an       *)
(* update clears what is left out; a client of the API sends what it likes. *)
(* A request takes one step per statement; those of a transaction are seen *)
(* when it commits, and hold the row of customer_sisfi until then.         *)
(***************************************************************************)
EXTENDS Naturals, FiniteSets

CONSTANTS
    Systems,      \* the systems the business may take
    Tabs,         \* open tabs of the panel, and clients of the API
    Names, Limits,
    Ratios,       \* points_ratio, cashback_rate, card_slots
    Null,         \* NULL, a field that is left out
    MaxRequests,  \* bound: requests that write, in a behaviour
    MaxBroken     \* bound: requests that fail halfway

ASSUME ProgramsAssumption ==
    /\ Systems \subseteq {"earn_burn", "cashback", "pushcard"}
    /\ Null \notin Names \cup Limits \cup Ratios \cup BOOLEAN
    /\ {MaxRequests, MaxBroken} \subseteq Nat

VARIABLES
    link,        \* customer_sisfi: the row of each system
    config,      \* config_earnburn, config_cashback, pushcard_config
    stage,       \* where the request of each tab is
    call,        \* what it holds
    page,        \* the program each tab shows, as it was loaded
    requests, broken,
    half,        \* history: systems linked by POST /customer-sisfi, not configured since
    asked,       \* history: what an admin last asked of each field
    outdated,    \* history: tabs whose page, or row, was changed since they read it
    overlapped   \* history: systems written from what was outdated

rows == <<link, config>>
counts == <<requests, broken>>
programHistory == <<half, asked, outdated, overlapped>>
programVars == <<rows, stage, call, page, counts, programHistory>>

-----------------------------------------------------------------------------
(* Rows and requests *)

LinkRows == [name : Names, active : BOOLEAN]
NoLink == [name |-> Null, active |-> Null]

(* limit: the columns an update replaces (expiry_days, min_ticket_amount,  *)
(* the caps, card_expiry_days).                                            *)
ConfigRows == [ratio : Ratios, limit : Limits \cup {Null}]
NoConfig == [ratio |-> Null, limit |-> Null]

Fields == {"name", "active", "ratio", "limit"}

Values == [name : Names \cup {Null}, active : BOOLEAN \cup {Null},
           ratio : Ratios \cup {Null}, limit : Limits \cup {Null}]
NoValues == [name |-> Null, active |-> Null, ratio |-> Null, limit |-> Null]

(* row: the row of customer_sisfi the request is about to write.           *)
Call == [system : Systems \cup {Null}, in : Values, edits : SUBSET Fields,
         row : LinkRows \cup {NoLink}]
NoCall == [system |-> Null, in |-> NoValues, edits |-> {}, row |-> NoLink]

Page == [system : Systems, link : LinkRows, config : ConfigRows]
NoPage == [system |-> Null, link |-> NoLink, config |-> NoConfig]

Stages == {"idle", "insert_link", "insert_config", "link", "upsert_config",
           "update_link", "update_config", "sisfi_update"}

Proceed(p, step, j) == /\ stage' = [stage EXCEPT ![p] = step]
                       /\ call' = [call EXCEPT ![p] = j]

Answer(p) == Proceed(p, "idle", NoCall)

(* A transaction is between its two statements: whoever needs the row, or  *)
(* its place in the unique index, waits.                                   *)
Held(s) == \E q \in Tabs : /\ stage[q] \in {"insert_config", "update_config"}
                           /\ call[q].system = s

Free(s) == ~Held(s) /\ link[s] = NoLink

(* COALESCE *)
Coalesce(new, old) == IF new = Null THEN old ELSE new

Request(p) == /\ stage[p] = "idle"
              /\ requests < MaxRequests
              /\ requests' = requests + 1
              /\ UNCHANGED broken

Leave(p) == /\ page' = [page EXCEPT ![p] = NoPage]
            /\ outdated' = outdated \ {p}

(* What a committed write of p to s does to the history.                   *)
Wrote(p, s) ==
    /\ asked' = [asked EXCEPT ![s] =
                    [f \in Fields |-> IF f \in call[p].edits THEN call[p].in[f] ELSE @[f]]]
    /\ overlapped' = IF p \in outdated THEN overlapped \cup {s} ELSE overlapped
    /\ outdated' = (outdated \ {p}) \cup
           {q \in Tabs \ {p} : \/ page[q].system = s
                               \/ stage[q] = "sisfi_update" /\ call[q].system = s}

-----------------------------------------------------------------------------
(* Creating a program *)

(* POST /programs and /cashback-programs: name and ratio are required, the *)
(* limits are left for later.                                              *)
CreateProgram(p, s) ==
    /\ s # "pushcard"
    /\ Request(p)
    /\ \E n \in Names, r \in Ratios :
         Proceed(p, "insert_link",
                 [NoCall EXCEPT !.system = s, !.edits = Fields,
                                !.in = [name |-> n, active |-> TRUE, ratio |-> r, limit |-> Null]])
    /\ Leave(p)
    /\ UNCHANGED <<rows, half, asked, overlapped>>

NewRow(p) == [name |-> call[p].in.name, active |-> TRUE]

(* Faulty variant: the link is committed on its own.                       *)
InsertLinkAtOnce(p) ==
    LET s == call[p].system
    IN /\ stage[p] = "insert_link" /\ ~Held(s)
       /\ IF Free(s)
          THEN /\ Proceed(p, "insert_config", [call[p] EXCEPT !.row = NewRow(p)])
               /\ link' = [link EXCEPT ![s] = NewRow(p)]
          ELSE Answer(p) /\ UNCHANGED link
       /\ UNCHANGED <<config, page, counts, programHistory>>

(* UNIQUE (customer_id, sisfi_id): a second program ends in an error.      *)
InsertLink(p) ==
    LET s == call[p].system
    IN /\ stage[p] = "insert_link" /\ ~Held(s)
       /\ IF Free(s) THEN Proceed(p, "insert_config", [call[p] EXCEPT !.row = NewRow(p)])
          ELSE Answer(p)
       /\ UNCHANGED <<rows, page, counts, programHistory>>

InsertConfig(p) ==
    LET s == call[p].system
    IN /\ stage[p] = "insert_config"
       /\ link' = [link EXCEPT ![s] = call[p].row]
       /\ config' = [config EXCEPT ![s] = [ratio |-> call[p].in.ratio, limit |-> call[p].in.limit]]
       /\ Wrote(p, s)
       /\ Answer(p)
       /\ UNCHANGED <<page, counts, half>>

(* POST /customer-sisfi links any system, without a config.                *)
LinkSystem(p, s) ==
    /\ Request(p)
    /\ \E n \in Names :
         Proceed(p, "link", [NoCall EXCEPT !.system = s, !.edits = {"name", "active"},
                                           !.in = [NoValues EXCEPT !.name = n, !.active = TRUE]])
    /\ Leave(p)
    /\ UNCHANGED <<rows, half, asked, overlapped>>

(* After it the panel configures the stamp card, in a request of its own;  *)
(* an error ends both.                                                     *)
SisfiCreate(p) ==
    LET s == call[p].system
    IN /\ stage[p] = "link" /\ ~Held(s)
       /\ \/ /\ Free(s)
             /\ link' = [link EXCEPT ![s] = NewRow(p)]
             /\ half' = half \cup {s}
             /\ Wrote(p, s)
             /\ IF s = "pushcard"
                THEN \E r \in Ratios :
                       Proceed(p, "upsert_config",
                               [NoCall EXCEPT !.system = s, !.edits = {"ratio", "limit"},
                                              !.in = [NoValues EXCEPT !.ratio = r]])
                ELSE Answer(p)
          \/ /\ ~Free(s)
             /\ Answer(p)
             /\ UNCHANGED <<link, programHistory>>
       /\ UNCHANGED <<config, page, counts>>

(* PUT /pushcard/programs/:id/config: all columns, new row or not.         *)
UpsertConfig(p) ==
    LET s == call[p].system
    IN /\ stage[p] = "upsert_config"
       /\ config' = [config EXCEPT ![s] = [ratio |-> call[p].in.ratio, limit |-> call[p].in.limit]]
       /\ half' = half \ {s}
       /\ Wrote(p, s)
       /\ page' = [page EXCEPT ![p] = NoPage]
       /\ Answer(p)
       /\ UNCHANGED <<link, counts>>

-----------------------------------------------------------------------------
(* Showing and editing one *)

(* GetProgram and ListPrograms join the two rows and want the link active. *)
Listed(s) == link[s].active = TRUE /\ config[s] # NoConfig

OpenPage(p, s) ==
    /\ stage[p] = "idle"
    /\ page' = [page EXCEPT ![p] = IF Listed(s)
                                   THEN [system |-> s, link |-> link[s], config |-> config[s]]
                                   ELSE NoPage]
    /\ outdated' = outdated \ {p}
    /\ UNCHANGED <<rows, stage, call, counts, half, asked, overlapped>>

(* Faulty variant: active is sent back like the rest.                      *)
ShownWithActive(p) == [name |-> page[p].link.name, active |-> page[p].link.active,
                       ratio |-> page[p].config.ratio, limit |-> page[p].config.limit]

Shown(p) == [name |-> page[p].link.name, active |-> Null,
             ratio |-> page[p].config.ratio, limit |-> page[p].config.limit]

(* The form sends the page with the field that was edited, the switch      *)
(* sends it with active negated, which is FALSE, since only active ones    *)
(* are shown; the page of the stamp card has the config only.              *)
Save(p) ==
    LET s == page[p].system
        Send(f, v) == Proceed(p, IF s = "pushcard" THEN "upsert_config" ELSE "update_link",
                              [NoCall EXCEPT !.system = s, !.edits = {f},
                                             !.in = [Shown(p) EXCEPT ![f] = v]])
    IN /\ page[p] # NoPage
       /\ Request(p)
       /\ \/ \E r \in Ratios : Send("ratio", r)
          \/ \E m \in Limits \cup {Null} : Send("limit", m)
          \/ s # "pushcard" /\ \E n \in Names : Send("name", n)
          \/ s # "pushcard" /\ Send("active", ~page[p].link.active)
       /\ UNCHANGED <<rows, page, programHistory>>

Given(in) == {f \in Fields : in[f] # Null}

(* A client of the API: PUT /programs/:id and /cashback-programs/:id with  *)
(* any fields, of which an absent limit is NULL, or the config of a stamp  *)
(* card.                                                                   *)
PutProgram(p, s) ==
    /\ link[s] # NoLink
    /\ Request(p)
    /\ \E in \in Values :
         \/ /\ s # "pushcard"
            /\ Proceed(p, "update_link", [NoCall EXCEPT !.system = s, !.in = in,
                                                       !.edits = Given(in) \cup {"limit"}])
         \/ /\ s = "pushcard"
            /\ in.name = Null /\ in.active = Null /\ in.ratio # Null
            /\ Proceed(p, "upsert_config", [NoCall EXCEPT !.system = s, !.in = in,
                                                         !.edits = {"ratio", "limit"}])
    /\ Leave(p)
    /\ UNCHANGED <<rows, half, asked, overlapped>>

UpdateLink(p) ==
    LET s == call[p].system
    IN /\ stage[p] = "update_link" /\ ~Held(s)
       /\ Proceed(p, "update_config",
                  [call[p] EXCEPT !.row = [name |-> Coalesce(call[p].in.name, link[s].name),
                                           active |-> Coalesce(call[p].in.active, link[s].active)]])
       /\ UNCHANGED <<rows, page, counts, programHistory>>

(* Faulty variant: a limit that is left out is kept.                       *)
ConfigKept(in, old) == [ratio |-> Coalesce(in.ratio, old.ratio), limit |-> Coalesce(in.limit, old.limit)]

Replaced(in, old) == [ratio |-> Coalesce(in.ratio, old.ratio), limit |-> in.limit]

(* The commit; the panel loads the page again.  A program without a config *)
(* has no row to update.                                                   *)
UpdateConfig(p) ==
    LET s == call[p].system
    IN /\ stage[p] = "update_config"
       /\ link' = [link EXCEPT ![s] = call[p].row]
       /\ config' = [config EXCEPT ![s] = IF @ = NoConfig THEN @ ELSE Replaced(call[p].in, @)]
       /\ Wrote(p, s)
       /\ page' = [page EXCEPT ![p] = NoPage]
       /\ Answer(p)
       /\ UNCHANGED <<counts, half>>

(* PUT /customer-sisfi/:id reads the row and, in another statement, writes *)
(* it back with the fields of the request.                                 *)
SisfiGet(p, s) ==
    /\ link[s] # NoLink
    /\ Request(p)
    /\ \E n \in Names \cup {Null}, a \in BOOLEAN \cup {Null} :
         Proceed(p, "sisfi_update",
                 [NoCall EXCEPT !.system = s,
                                !.in = [NoValues EXCEPT !.name = n, !.active = a],
                                !.edits = {f \in {"name", "active"} :
                                             IF f = "name" THEN n # Null ELSE a # Null},
                                !.row = [name |-> Coalesce(n, link[s].name),
                                         active |-> Coalesce(a, link[s].active)]])
    /\ Leave(p)
    /\ UNCHANGED <<rows, half, asked, overlapped>>

SisfiUpdate(p) ==
    LET s == call[p].system
    IN /\ stage[p] = "sisfi_update" /\ ~Held(s)
       /\ link' = [link EXCEPT ![s] = call[p].row]
       /\ Wrote(p, s)
       /\ Answer(p)
       /\ UNCHANGED <<config, page, counts, half>>

-----------------------------------------------------------------------------
(* A statement fails, or the tab is closed: a transaction is rolled back.  *)
BreakOff(p) ==
    /\ stage[p] # "idle"
    /\ broken < MaxBroken
    /\ broken' = broken + 1
    /\ Answer(p)
    /\ UNCHANGED <<rows, page, requests, programHistory>>

(* No more requests within the bound. *)
AllAnswered ==
    /\ requests = MaxRequests
    /\ \A p \in Tabs : stage[p] = "idle"
    /\ UNCHANGED programVars

ProgramsInit ==
    /\ link = [s \in Systems |-> NoLink]
    /\ config = [s \in Systems |-> NoConfig]
    /\ stage = [p \in Tabs |-> "idle"]
    /\ call = [p \in Tabs |-> NoCall]
    /\ page = [p \in Tabs |-> NoPage]
    /\ requests = 0 /\ broken = 0
    /\ half = {}
    /\ asked = [s \in Systems |-> NoValues]
    /\ outdated = {} /\ overlapped = {}

BeginRequest(p) == \/ Save(p)
                   \/ \E s \in Systems : \/ CreateProgram(p, s) \/ LinkSystem(p, s)
                                         \/ OpenPage(p, s) \/ SisfiGet(p, s) \/ PutProgram(p, s)

Step(p) == \/ InsertLink(p) \/ InsertConfig(p) \/ SisfiCreate(p) \/ UpsertConfig(p)
           \/ UpdateLink(p) \/ UpdateConfig(p) \/ SisfiUpdate(p)

ProgramsNext == \/ \E p \in Tabs : BeginRequest(p) \/ Step(p) \/ BreakOff(p)
                \/ AllAnswered

ProgramsSpec == ProgramsInit /\ [][ProgramsNext]_programVars

-----------------------------------------------------------------------------
(* Properties *)

ProgramsTypeOK ==
    /\ link \in [Systems -> LinkRows \cup {NoLink}]
    /\ config \in [Systems -> ConfigRows \cup {NoConfig}]
    /\ stage \in [Tabs -> Stages]
    /\ call \in [Tabs -> Call]
    /\ page \in [Tabs -> Page \cup {NoPage}]
    /\ half \subseteq Systems
    /\ asked \in [Systems -> Values]
    /\ outdated \subseteq Tabs /\ overlapped \subseteq Systems

(* Repository.CreateProgram: the menus offer what GetActiveProgramTypes    *)
(* returns, and the commands look for the config with it: a program that   *)
(* is offered and not found is one whose link was made on its own.         *)
OfferedProgramsAnswer ==
    /\ \A s \in Systems : config[s] # NoConfig => link[s] # NoLink
    /\ \A s \in Systems : link[s].active = TRUE => Listed(s) \/ s \in half

(* updateProgram (LG-1), sisfi.Update: although each update sends back all *)
(* that the page showed, a field is what an admin last asked for, unless   *)
(* the program was written from a page, or a row, that had been changed    *)
(* since.                                                                  *)
FieldsAreAsAsked ==
    \A s \in Systems \ overlapped :
        /\ link[s] # NoLink =>
             link[s].name = asked[s].name /\ link[s].active = asked[s].active
        /\ config[s] # NoConfig =>
             config[s].ratio = asked[s].ratio /\ config[s].limit = asked[s].limit

(* A program that was switched off is on again only when a request names    *)
(* active among the fields it changes and asks for it, or when              *)
(* PUT /customer-sisfi/:id writes back a row it had read before: a form      *)
(* that is saved from a page loaded before the switch does not bring the    *)
(* program back, although it sends every field the page shows.              *)
ReactivatedOnlyWhenAsked ==
    [][\A s \in Systems :
          link[s].active = FALSE /\ link'[s].active = TRUE =>
              \E p \in Tabs :
                  /\ call[p].system = s /\ stage'[p] = "idle"
                  /\ \/ /\ stage[p] \in {"update_config", "sisfi_update"}
                        /\ "active" \in call[p].edits /\ call[p].in.active = TRUE
                     \/ stage[p] = "sisfi_update" /\ p \in outdated]_programVars

=============================================================================
