---------------------------- MODULE FeatureFlags -----------------------------
(***************************************************************************)
(* internal/featureflags: flags in Postgres, read through a cache in Redis *)
(* that an update invalidates and a TTL empties.  A lookup and an update   *)
(* take one step per call.  An error of the cache is swallowed, one of the *)
(* database makes a lookup answer "disabled" and ends an update.           *)
(***************************************************************************)
EXTENDS Naturals, FiniteSets

CONSTANTS
    Keys, Customers, Procs,
    Nil,           \* no customer, no key, a field an update leaves alone
    MaxUpdates,    \* bound: updates begun in a behaviour
    MaxFailures    \* bound: failing calls in a behaviour

ASSUME FlagsAssumption == /\ Nil \notin Keys \cup Customers \cup BOOLEAN
                          /\ {MaxUpdates, MaxFailures} \subseteq Nat

VARIABLES
    flags,       \* table feature_flags
    cache,       \* ff:{key}
    pc,          \* where each call is
    job,         \* what each call holds
    updates,     \* updates begun
    failures,    \* calls that have failed
    asked,       \* history: what each field was last set to by an update
    overlapped,  \* history: flags written by two updates that overlapped
    stale        \* history: flags whose cache entry was stored by a lookup
                 \* older than the row, or outlived a failing delete

vars == <<flags, cache, pc, job, updates, failures, asked, overlapped, stale>>

-----------------------------------------------------------------------------
(* Values *)

(* The customers with an override, and its value. *)
Overrides == UNION {[D -> BOOLEAN] : D \in SUBSET Customers}

NoOverrides == [c \in {} |-> FALSE]

Flag == [enabledGlobally : BOOLEAN, defaultValue : BOOLEAN, customerOverrides : Overrides]

NewFlag == [enabledGlobally |-> FALSE, defaultValue |-> FALSE,
            customerOverrides |-> NoOverrides]

(* No row, and no cache entry. *)
NoFlag == [enabledGlobally |-> Nil, defaultValue |-> Nil, customerOverrides |-> NoOverrides]

UpdateInput == [enabledGlobally : BOOLEAN \cup {Nil}, defaultValue : BOOLEAN \cup {Nil},
                customerOverrides : Overrides \cup {Nil}]

NoInput == [enabledGlobally |-> Nil, defaultValue |-> Nil, customerOverrides |-> Nil]

(* "old": the row held has been overwritten since it was read; "quiet":    *)
(* nothing has happened that the answer could depend on.                   *)
NoJob == [key |-> Nil, customer |-> Nil, in |-> NoInput, row |-> NoFlag,
          old |-> FALSE, quiet |-> FALSE, answer |-> FALSE]

Job == [key : Keys \cup {Nil}, customer : Customers \cup {Nil}, in : UpdateInput \cup {NoInput},
        row : Flag \cup {NoFlag}, old : BOOLEAN, quiet : BOOLEAN, answer : BOOLEAN]

Reading == {"cacheGet", "repoGet", "cacheSet", "answer"}
Updating == {"upsertGet", "upsert", "cacheDelete"}

GotoWith(p, step, j) == /\ pc' = [pc EXCEPT ![p] = step]
                        /\ job' = [job EXCEPT ![p] = j]

Finish(p) == GotoWith(p, "idle", NoJob)

Fail == /\ failures < MaxFailures
        /\ failures' = failures + 1

Key(p) == job[p].key

(* The calls on a flag that are at one of the steps. *)
At(k, steps) == {p \in Procs : pc[p] \in steps /\ Key(p) = k}

-----------------------------------------------------------------------------
(* Enabled *)

(* Faulty variant: the global switch comes before the override. *)
ResolveGlobalFirst(f, c) ==
    \/ f.enabledGlobally
    \/ IF c \in DOMAIN f.customerOverrides THEN f.customerOverrides[c] ELSE f.defaultValue

Resolve(f, c) ==
    IF c \in DOMAIN f.customerOverrides THEN f.customerOverrides[c]
    ELSE f.enabledGlobally \/ f.defaultValue

Disturbed(k) ==
    \/ k \in stale
    \/ At(k, Updating) # {}
    \/ \E p \in At(k, Reading) : job[p].old

Enabled(p) ==
    /\ pc[p] = "idle"
    /\ \E k \in Keys, c \in Customers :
         GotoWith(p, "cacheGet", [NoJob EXCEPT !.key = k, !.customer = c,
                                               !.quiet = ~Disturbed(k)])
    /\ UNCHANGED <<flags, cache, updates, failures, asked, overlapped, stale>>

Answer(p, value, quiet) ==
    GotoWith(p, "answer", [NoJob EXCEPT !.key = Key(p), !.customer = job[p].customer,
                                        !.quiet = quiet, !.answer = value])

(* An error counts as a miss. *)
CacheGet(p) ==
    /\ pc[p] = "cacheGet"
    /\ \/ /\ cache[Key(p)] # NoFlag
          /\ Answer(p, Resolve(cache[Key(p)], job[p].customer), job[p].quiet)
          /\ UNCHANGED failures
       \/ cache[Key(p)] = NoFlag /\ GotoWith(p, "repoGet", job[p]) /\ UNCHANGED failures
       \/ cache[Key(p)] # NoFlag /\ GotoWith(p, "repoGet", job[p]) /\ Fail
    /\ UNCHANGED <<flags, cache, updates, asked, overlapped, stale>>

(* An unknown flag is disabled and is not cached. *)
RepoGet(p) ==
    LET row == flags[Key(p)]
    IN /\ pc[p] = "repoGet"
       /\ \/ row = NoFlag /\ Answer(p, FALSE, job[p].quiet) /\ UNCHANGED failures
          \/ /\ row # NoFlag
             /\ GotoWith(p, "cacheSet", [job[p] EXCEPT !.row = row])
             /\ UNCHANGED failures
          \/ Answer(p, FALSE, FALSE) /\ Fail
       /\ UNCHANGED <<flags, cache, updates, asked, overlapped, stale>>

CacheSet(p) ==
    LET k == Key(p)
    IN /\ pc[p] = "cacheSet"
       /\ \/ /\ cache' = [cache EXCEPT ![k] = job[p].row]
             /\ stale' = IF job[p].old THEN stale \cup {k} ELSE stale \ {k}
             /\ UNCHANGED failures
          \/ Fail /\ UNCHANGED <<cache, stale>>
       /\ Answer(p, Resolve(job[p].row, job[p].customer), job[p].quiet)
       /\ UNCHANGED <<flags, updates, asked, overlapped>>

Return(p) ==
    /\ pc[p] = "answer"
    /\ Finish(p)
    /\ UNCHANGED <<flags, cache, updates, failures, asked, overlapped, stale>>

-----------------------------------------------------------------------------
(* Update *)

Update(p) ==
    /\ pc[p] = "idle" /\ updates < MaxUpdates
    /\ updates' = updates + 1
    /\ \E k \in Keys, in \in UpdateInput :
         GotoWith(p, "upsertGet", [NoJob EXCEPT !.key = k, !.in = in])
    /\ UNCHANGED <<flags, cache, failures, asked, overlapped, stale>>

(* Faulty variant: a boolean left out of the input is false. *)
MergedWithZero(row, in) ==
    [f \in DOMAIN row |-> IF in[f] # Nil THEN in[f]
                          ELSE IF f = "customerOverrides" THEN row[f] ELSE FALSE]

(* The fields of the input that are not nil, over the row. *)
Merged(row, in) == [f \in DOMAIN row |-> IF in[f] = Nil THEN row[f] ELSE in[f]]

(* Upsert reads the row, or starts from an empty one... *)
UpsertGet(p) ==
    LET current == IF flags[Key(p)] = NoFlag THEN NewFlag ELSE flags[Key(p)]
    IN /\ pc[p] = "upsertGet"
       /\ \/ /\ GotoWith(p, "upsert", [job[p] EXCEPT !.row = current])
             /\ UNCHANGED failures
          \/ Fail /\ Finish(p)
       /\ UNCHANGED <<flags, cache, updates, asked, overlapped, stale>>

(* What the other calls hold gets old. *)
Aged(q, k) == IF Key(q) # k THEN job[q]
              ELSE [job[q] EXCEPT !.quiet = FALSE,
                                  !.old = @ \/ pc[q] \in {"cacheSet", "upsert"}]

(* ... and writes it back whole. *)
Upsert(p) ==
    LET k == Key(p)
    IN /\ pc[p] = "upsert"
       /\ \/ /\ flags' = [flags EXCEPT ![k] = Merged(job[p].row, job[p].in)]
             /\ asked' = [asked EXCEPT ![k] = [f \in DOMAIN NewFlag |->
                             IF job[p].in[f] = Nil THEN @[f] ELSE job[p].in[f]]]
             /\ overlapped' = IF job[p].old THEN overlapped \cup {k} ELSE overlapped
             /\ pc' = [pc EXCEPT ![p] = "cacheDelete"]
             /\ job' = [q \in Procs |-> IF q = p THEN [NoJob EXCEPT !.key = k] ELSE Aged(q, k)]
             /\ UNCHANGED failures
          \/ Fail /\ Finish(p) /\ UNCHANGED <<flags, asked, overlapped>>
       /\ UNCHANGED <<cache, updates, stale>>

(* Faulty variant: the entry is left to its TTL. *)
KeepEntry(k) == UNCHANGED cache

Delete(k) == cache' = [cache EXCEPT ![k] = NoFlag]

CacheDelete(p) ==
    LET k == Key(p)
    IN /\ pc[p] = "cacheDelete"
       /\ \/ Delete(k) /\ stale' = stale \ {k} /\ UNCHANGED failures
          \/ /\ UNCHANGED cache
             /\ stale' = IF cache[k] # NoFlag THEN stale \cup {k} ELSE stale
             /\ Fail
       /\ Finish(p)
       /\ UNCHANGED <<flags, updates, asked, overlapped>>

-----------------------------------------------------------------------------
(* Faulty variant: entries are stored without a TTL. *)
NeverLapses(k) == FALSE

Lapses(k) == cache[k] # NoFlag

(* cacheTTL *)
Expire(k) ==
    /\ Lapses(k)
    /\ cache' = [cache EXCEPT ![k] = NoFlag]
    /\ stale' = stale \ {k}
    /\ UNCHANGED <<flags, pc, job, updates, failures, asked, overlapped>>

Init == /\ flags = [k \in Keys |-> NoFlag]
        /\ cache = [k \in Keys |-> NoFlag]
        /\ pc = [p \in Procs |-> "idle"]
        /\ job = [p \in Procs |-> NoJob]
        /\ updates = 0
        /\ failures = 0
        /\ asked = [k \in Keys |-> NewFlag]
        /\ overlapped = {}
        /\ stale = {}

Lookup(p) == Enabled(p) \/ CacheGet(p) \/ RepoGet(p) \/ CacheSet(p) \/ Return(p)

Next == \/ \E p \in Procs : \/ Lookup(p)
                            \/ Update(p) \/ UpsertGet(p) \/ Upsert(p) \/ CacheDelete(p)
        \/ \E k \in Keys : Expire(k)

Spec == Init /\ [][Next]_vars

(* Redis empties an entry that nobody stores again, and a call that has    *)
(* begun goes on.                                                          *)
Fairness == /\ \A k \in Keys : WF_vars(Expire(k))
            /\ \A p \in Procs : /\ WF_vars(CacheGet(p)) /\ WF_vars(RepoGet(p))
                                /\ WF_vars(CacheSet(p)) /\ WF_vars(Return(p))
                                /\ WF_vars(UpsertGet(p)) /\ WF_vars(Upsert(p))
                                /\ WF_vars(CacheDelete(p))

FairSpec == Spec /\ Fairness

-----------------------------------------------------------------------------
(* Properties *)

TypeOK ==
    /\ flags \in [Keys -> Flag \cup {NoFlag}]
    /\ cache \in [Keys -> Flag \cup {NoFlag}]
    /\ pc \in [Procs -> Reading \cup Updating \cup {"idle"}]
    /\ job \in [Procs -> Job]
    /\ updates \in 0..MaxUpdates
    /\ failures \in 0..MaxFailures
    /\ asked \in [Keys -> Flag]
    /\ {overlapped, stale} \subseteq SUBSET Keys

(* The cache answers as the table does, but for the moment between an      *)
(* update's write and its delete, and for an entry that a slow lookup      *)
(* stored after the delete or that a failing delete left.                  *)
CacheIsCurrent ==
    \A k \in Keys \ stale :
        \/ cache[k] \in {NoFlag, flags[k]}
        \/ At(k, {"cacheDelete"}) # {}

(* A lookup no update came near of answers what the row says: a customer's *)
(* override, else the global switch, else the default.                     *)
QuietAnswerIsRight ==
    \A p \in Procs : pc[p] = "answer" /\ job[p].quiet =>
        LET row == flags[Key(p)]
            c == job[p].customer
        IN job[p].answer <=>
             /\ row # NoFlag
             /\ c \in DOMAIN row.customerOverrides => row.customerOverrides[c]
             /\ \/ c \in DOMAIN row.customerOverrides
                \/ row.enabledGlobally
                \/ row.defaultValue

(* Each field has the value the last update that named it gave it, unless  *)
(* two updates of the flag overlapped.                                     *)
FieldsAreAsAsked ==
    \A k \in Keys \ overlapped :
        flags[k] # NoFlag => flags[k] = asked[k]

(* However it got stale, an entry does not stay so for good. *)
StaleEntryGoes ==
    \A k \in Keys :
        cache[k] \notin {NoFlag, flags[k]} ~> cache[k] \in {NoFlag, flags[k]}

-----------------------------------------------------------------------------
(* What the documents say and the code does not do *)

(* featureflags/service.go:98: an update invalidates the entry "so the     *)
(* next resolution picks up the change immediately (no waiting for the     *)
(* TTL)".  With no call failing, a lookup that read the row before the     *)
(* update stores it after the delete.                                      *)
UpdateShowsAtOnce ==
    \A k \in Keys :
        failures = 0 /\ At(k, Updating) = {} => cache[k] \in {NoFlag, flags[k]}

(* featureflags/repository.go:83: "a partial update only touches the       *)
(* fields the caller provided".  Two that overlap write each other's       *)
(* fields back.                                                            *)
PartialUpdateKeepsOtherFields ==
    \A k \in Keys : flags[k] # NoFlag => flags[k] = asked[k]

=============================================================================
