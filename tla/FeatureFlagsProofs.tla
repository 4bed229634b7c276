------------------------- MODULE FeatureFlagsProofs --------------------------
(***************************************************************************)
(* Proofs about FeatureFlags, for any number of flags, customers and calls *)
(* and any bounds.                                                         *)
(*                                                                         *)
(* What a call holds is as old as its history says: HeldInv relates the    *)
(* row, and the quiet, of every job to the table, the cache and the other  *)
(* calls.  The properties of the cache, of the fields and of the answers   *)
(* follow from it.                                                         *)
(***************************************************************************)
EXTENDS FeatureFlags, TLAPS

-----------------------------------------------------------------------------
(* Types *)

Busy == Reading \cup Updating

PCs == Busy \cup {"idle"}

(* The fields of a job that are set where a call is. *)
JobOK(step, j) ==
    /\ step \in Busy => j.key \in Keys
    /\ step \in Reading => j.customer \in Customers
    /\ step \in {"upsertGet", "upsert"} => j.in \in UpdateInput
    /\ step \in {"cacheSet", "upsert"} => j.row \in Flag

JobsOK == \A p \in Procs : JobOK(pc[p], job[p])

TypeInv == TypeOK /\ JobsOK

LEMMA NoFlagIsNoFlag == NoFlag \notin Flag
BY FlagsAssumption DEF NoFlag, Flag

LEMMA NewFlagType == NewFlag \in Flag /\ NoOverrides \in Overrides
<1>1. NoOverrides \in [{} -> BOOLEAN]
    BY DEF NoOverrides
<1>2. NoOverrides \in Overrides
    BY <1>1 DEF Overrides
<1> QED
    BY <1>2 DEF NewFlag, Flag

LEMMA NoJobType == NoJob \in Job
BY DEF NoJob, Job

(* The jobs the actions make, field by field. *)
Calling(k, c, quiet) == [NoJob EXCEPT !.key = k, !.customer = c, !.quiet = quiet]

Answered(k, c, quiet, value) ==
    [NoJob EXCEPT !.key = k, !.customer = c, !.quiet = quiet, !.answer = value]

Asking(k, in) == [NoJob EXCEPT !.key = k, !.in = in]

Written(k) == [NoJob EXCEPT !.key = k]

WithRow(j, row) == [j EXCEPT !.row = row]

LEMMA CallingJob ==
    \A k \in Keys, c \in Customers, quiet \in BOOLEAN :
        LET j == Calling(k, c, quiet)
        IN  /\ j \in Job /\ j.key = k /\ j.customer = c /\ j.quiet = quiet
            /\ j.old = FALSE
<1> TAKE k \in Keys, c \in Customers, quiet \in BOOLEAN
<1> QED
    BY DEF Calling, NoJob, Job

LEMMA AnsweredJob ==
    \A k \in Keys, c \in Customers, quiet \in BOOLEAN, value \in BOOLEAN :
        LET j == Answered(k, c, quiet, value)
        IN  /\ j \in Job /\ j.key = k /\ j.customer = c /\ j.quiet = quiet
            /\ j.answer = value /\ j.old = FALSE
<1> TAKE k \in Keys, c \in Customers, quiet \in BOOLEAN, value \in BOOLEAN
<1> QED
    BY DEF Answered, NoJob, Job

LEMMA AskingJob ==
    ASSUME NEW k \in Keys, NEW in \in UpdateInput
    PROVE  LET j == Asking(k, in)
           IN  /\ j \in Job /\ j.key = k /\ j.in = in
               /\ j.quiet = FALSE /\ j.old = FALSE
BY DEF Asking, NoJob, Job

LEMMA WrittenJob ==
    ASSUME NEW k \in Keys
    PROVE  LET j == Written(k)
           IN  j \in Job /\ j.key = k /\ j.quiet = FALSE /\ j.old = FALSE
BY DEF Written, NoJob, Job

LEMMA RowJob ==
    ASSUME NEW j \in Job, NEW row \in Flag
    PROVE  LET n == WithRow(j, row)
           IN  /\ n \in Job /\ n.row = row /\ n.key = j.key
               /\ n.customer = j.customer /\ n.in = j.in /\ n.old = j.old
               /\ n.quiet = j.quiet
BY DEF WithRow, Job

LEMMA AgedJob ==
    ASSUME TypeOK, NEW q \in Procs, NEW k
    PROVE  /\ Aged(q, k) \in Job
           /\ Aged(q, k).key = Key(q)
           /\ Aged(q, k).customer = job[q].customer
           /\ Aged(q, k).in = job[q].in
           /\ Aged(q, k).row = job[q].row
           /\ Aged(q, k).answer = job[q].answer
           /\ Key(q) # k => Aged(q, k) = job[q]
           /\ Key(q) = k => /\ ~Aged(q, k).quiet
                            /\ Aged(q, k).old <=>
                                   job[q].old \/ pc[q] \in {"cacheSet", "upsert"}
<1>1. job[q] \in Job
    BY DEF TypeOK
<1>2. CASE Key(q) # k
    BY <1>1, <1>2 DEF Aged, Job, Key
<1>3. CASE Key(q) = k
    <2> DEFINE b == job[q].old \/ pc[q] \in {"cacheSet", "upsert"}
    <2>1. Aged(q, k) = [job[q] EXCEPT !.quiet = FALSE, !.old = b]
        BY <1>3 DEF Aged
    <2>2. b \in BOOLEAN
        OBVIOUS
    <2> HIDE DEF b
    <2>3. LET n == [job[q] EXCEPT !.quiet = FALSE, !.old = b]
          IN  /\ n \in Job /\ n.key = job[q].key /\ n.customer = job[q].customer
              /\ n.in = job[q].in /\ n.row = job[q].row /\ n.answer = job[q].answer
              /\ n.quiet = FALSE /\ n.old = b
        BY <1>1, <2>2 DEF Job
    <2> QED
        BY <1>3, <2>1, <2>3 DEF b, Key
<1> QED
    BY <1>2, <1>3

(* Resolve and Merged on rows. *)
LEMMA ResolveType ==
    ASSUME NEW f \in Flag, NEW c PROVE Resolve(f, c) \in BOOLEAN
<1>1. PICK D \in SUBSET Customers : f.customerOverrides \in [D -> BOOLEAN]
    BY DEF Flag, Overrides
<1> QED
    BY <1>1 DEF Resolve, Flag

LEMMA MergedType ==
    ASSUME NEW row \in Flag, NEW in \in UpdateInput PROVE Merged(row, in) \in Flag
BY DEF Merged, Flag, UpdateInput


LEMMA TypeInit == Init => TypeInv
<1> SUFFICES ASSUME Init PROVE TypeInv
    OBVIOUS
<1>1. TypeOK
    BY FlagsAssumption, NoJobType, NewFlagType DEF Init, TypeOK
<1>2. JobsOK
    BY DEF Init, JobsOK, JobOK, Busy, Reading, Updating
<1> QED
    BY <1>1, <1>2 DEF TypeInv

(* A call that goes to a step with a job that suits it. *)
LEMMA TypeGoto ==
    ASSUME TypeInv, NEW p \in Procs, NEW step \in PCs, NEW j \in Job,
           GotoWith(p, step, j), JobOK(step, j)
    PROVE  /\ pc' \in [Procs -> PCs] /\ job' \in [Procs -> Job]
           /\ JobsOK'
BY DEF TypeInv, TypeOK, JobsOK, JobOK, GotoWith, PCs, Busy

LEMMA TypeStep == ASSUME TypeInv, [Next]_vars PROVE TypeInv'
<1> USE DEF TypeInv
<1> DEFINE CallsOK == /\ pc' \in [Procs -> PCs] /\ job' \in [Procs -> Job]
                      /\ JobsOK'
<1>f. Fail => failures' \in 0..MaxFailures
    BY FlagsAssumption DEF Fail, TypeOK
<1>j. \A p \in Procs : JobOK(pc[p], job[p])
    BY DEF JobsOK
<1>k. \A p \in Procs : /\ pc[p] # "idle" => Key(p) \in Keys
                       /\ pc[p] \in Reading => job[p].customer \in Customers
    BY <1>j DEF TypeOK, JobOK, Busy, Key
<1>q. \A p \in Procs : job[p] \in Job /\ job[p].quiet \in BOOLEAN
    BY DEF TypeOK, Job
<1>i. ASSUME NEW p \in Procs, Finish(p) PROVE CallsOK
    <2>1. JobOK("idle", NoJob) /\ "idle" \in PCs
        BY DEF JobOK, PCs, Busy, Reading, Updating
    <2> QED
        BY <1>i, <2>1, NoJobType, TypeGoto DEF Finish
<1>a. ASSUME NEW p \in Procs, NEW value, NEW quiet, {value, quiet} \subseteq BOOLEAN,
             pc[p] \in Reading, Answer(p, value, quiet)
      PROVE  CallsOK
    <2> DEFINE j == Answered(Key(p), job[p].customer, quiet, value)
    <2>1. Key(p) \in Keys /\ job[p].customer \in Customers
        BY <1>a, <1>k DEF Reading
    <2>2. j \in Job /\ j.key = Key(p) /\ j.customer = job[p].customer
        <3> DEFINE k == Key(p)
                   c == job[p].customer
        <3>1. k \in Keys /\ c \in Customers
            BY <2>1
        <3> HIDE DEF k, c
        <3>2. LET n == Answered(k, c, quiet, value)
              IN  n \in Job /\ n.key = k /\ n.customer = c
            BY <1>a, <3>1, AnsweredJob
        <3> QED
            BY <3>2 DEF k, c
    <2>3. GotoWith(p, "answer", j)
        BY <1>a DEF Answer, Answered
    <2>4. JobOK("answer", j) /\ "answer" \in PCs
        BY <2>1, <2>2 DEF JobOK, PCs, Busy, Reading
    <2> QED
        BY <2>2, <2>3, <2>4, TypeGoto
<1>1. ASSUME NEW p \in Procs, Enabled(p) PROVE TypeInv'
    <2> DEFINE quiet(k) == ~Disturbed(k)
    <2>1. PICK k \in Keys, c \in Customers :
              GotoWith(p, "cacheGet", Calling(k, c, quiet(k)))
        BY <1>1 DEF Enabled, Calling
    <2>2. quiet(k) \in BOOLEAN
        OBVIOUS
    <2> HIDE DEF quiet
    <2>3. LET j == Calling(k, c, quiet(k))
          IN  j \in Job /\ j.key \in Keys /\ j.customer \in Customers
        BY <2>2, CallingJob
    <2>4. JobOK("cacheGet", Calling(k, c, quiet(k))) /\ "cacheGet" \in PCs
        BY <2>3 DEF JobOK, PCs, Busy, Reading
    <2>5. CallsOK
        BY <2>1, <2>3, <2>4, TypeGoto
    <2> QED
        BY <1>1, <2>5 DEF Enabled, TypeOK, PCs, Busy
<1>2. ASSUME NEW p \in Procs, CacheGet(p) PROVE TypeInv'
    <2>1. CASE /\ cache[Key(p)] # NoFlag
               /\ Answer(p, Resolve(cache[Key(p)], job[p].customer), job[p].quiet)
               /\ UNCHANGED failures
        <3>1. cache[Key(p)] \in Flag
            BY <1>2, <1>k, <2>1 DEF CacheGet, TypeOK
        <3>2. Resolve(cache[Key(p)], job[p].customer) \in BOOLEAN
            BY <3>1, ResolveType
        <3>3. CallsOK
            BY <1>2, <1>a, <1>q, <2>1, <3>2 DEF CacheGet, Reading
        <3> QED
            BY <1>2, <2>1, <3>3 DEF CacheGet, TypeOK, PCs, Busy
    <2>2. CASE GotoWith(p, "repoGet", job[p]) /\ (Fail \/ UNCHANGED failures)
        <3>1. JobOK("repoGet", job[p]) /\ "repoGet" \in PCs
            BY <1>2, <1>j DEF CacheGet, JobOK, PCs, Busy, Reading
        <3>2. CallsOK
            BY <1>q, <2>2, <3>1, TypeGoto
        <3> QED
            BY <1>2, <1>f, <2>2, <3>2 DEF CacheGet, TypeOK, PCs, Busy
    <2> QED
        BY <1>2, <2>1, <2>2 DEF CacheGet
<1>3. ASSUME NEW p \in Procs, RepoGet(p) PROVE TypeInv'
    <2> DEFINE row == flags[Key(p)]
    <2>1. CallsOK
        <3>1. CASE Answer(p, FALSE, job[p].quiet) \/ Answer(p, FALSE, FALSE)
            BY <1>3, <1>a, <1>q, <3>1 DEF RepoGet, Reading
        <3>2. CASE row # NoFlag /\ GotoWith(p, "cacheSet", WithRow(job[p], row))
            <4>1. Key(p) \in Keys /\ job[p].customer \in Customers
                BY <1>3, <1>k DEF RepoGet, Reading
            <4>2. row \in Flag
                BY <3>2, <4>1 DEF TypeOK
            <4> HIDE DEF row
            <4>3. LET j == WithRow(job[p], row)
                  IN  /\ j \in Job /\ j.row \in Flag
                      /\ j.key \in Keys /\ j.customer \in Customers
                BY <1>q, <4>1, <4>2, RowJob DEF Key
            <4>4. JobOK("cacheSet", WithRow(job[p], row)) /\ "cacheSet" \in PCs
                BY <4>3 DEF JobOK, PCs, Busy, Reading
            <4> QED
                BY <3>2, <4>3, <4>4, TypeGoto
        <3> QED
            BY <1>3, <3>1, <3>2 DEF RepoGet, WithRow
    <2>2. failures' \in 0..MaxFailures
        BY <1>3, <1>f DEF RepoGet, TypeOK
    <2> QED
        BY <1>3, <2>1, <2>2 DEF RepoGet, TypeOK, PCs, Busy
<1>4. ASSUME NEW p \in Procs, CacheSet(p) PROVE TypeInv'
    <2>1. Key(p) \in Keys /\ job[p].row \in Flag
        BY <1>4, <1>j, <1>k DEF CacheSet, JobOK
    <2>2. Resolve(job[p].row, job[p].customer) \in BOOLEAN
        BY <2>1, ResolveType
    <2>3. CallsOK
        BY <1>4, <1>a, <1>q, <2>2 DEF CacheSet, Reading
    <2>4. cache' \in [Keys -> Flag \cup {NoFlag}] /\ stale' \subseteq Keys
        BY <1>4, <2>1 DEF CacheSet, TypeOK
    <2>5. failures' \in 0..MaxFailures
        BY <1>4, <1>f DEF CacheSet, TypeOK
    <2> QED
        BY <1>4, <2>3, <2>4, <2>5 DEF CacheSet, TypeOK, PCs, Busy
<1>5. ASSUME NEW p \in Procs, Return(p) PROVE TypeInv'
    BY <1>5, <1>i DEF Return, TypeOK, PCs, Busy
<1>6. ASSUME NEW p \in Procs, Update(p) PROVE TypeInv'
    <2>1. PICK k \in Keys, in \in UpdateInput : GotoWith(p, "upsertGet", Asking(k, in))
        BY <1>6 DEF Update, Asking
    <2>2. LET j == Asking(k, in) IN j \in Job /\ j.key \in Keys /\ j.in \in UpdateInput
        BY AskingJob
    <2>3. JobOK("upsertGet", Asking(k, in)) /\ "upsertGet" \in PCs
        BY <2>2 DEF JobOK, PCs, Busy, Reading, Updating
    <2>4. CallsOK
        BY <2>1, <2>2, <2>3, TypeGoto
    <2>5. updates' \in 0..MaxUpdates
        BY <1>6, FlagsAssumption DEF Update, TypeOK
    <2> QED
        BY <1>6, <2>4, <2>5 DEF Update, TypeOK, PCs, Busy
<1>7. ASSUME NEW p \in Procs, UpsertGet(p) PROVE TypeInv'
    <2> DEFINE current == IF flags[Key(p)] = NoFlag THEN NewFlag ELSE flags[Key(p)]
    <2>1. CallsOK
        <3>1. CASE Finish(p)
            BY <1>i, <3>1
        <3>2. CASE GotoWith(p, "upsert", WithRow(job[p], current))
            <4>1. Key(p) \in Keys /\ job[p].in \in UpdateInput
                BY <1>7, <1>j, <1>k DEF UpsertGet, JobOK
            <4>2. current \in Flag
                BY <4>1, NewFlagType DEF TypeOK
            <4> HIDE DEF current
            <4>3. LET j == WithRow(job[p], current)
                  IN  /\ j \in Job /\ j.row \in Flag
                      /\ j.key \in Keys /\ j.in \in UpdateInput
                BY <1>q, <4>1, <4>2, RowJob DEF Key
            <4>4. JobOK("upsert", WithRow(job[p], current)) /\ "upsert" \in PCs
                BY <4>3 DEF JobOK, PCs, Busy, Reading, Updating
            <4> QED
                BY <3>2, <4>3, <4>4, TypeGoto
        <3> QED
            BY <1>7, <3>1, <3>2 DEF UpsertGet, WithRow
    <2>2. failures' \in 0..MaxFailures
        BY <1>7, <1>f DEF UpsertGet, TypeOK
    <2> QED
        BY <1>7, <2>1, <2>2 DEF UpsertGet, TypeOK, PCs, Busy
<1>8. ASSUME NEW p \in Procs, Upsert(p) PROVE TypeInv'
    <2> DEFINE k == Key(p)
    <2>1. k \in Keys /\ job[p].in \in UpdateInput /\ job[p].row \in Flag
        BY <1>8, <1>j, <1>k DEF Upsert, JobOK
    <2>2. CASE Fail /\ Finish(p) /\ UNCHANGED <<flags, asked, overlapped>>
        BY <1>8, <1>f, <1>i, <2>2 DEF Upsert, TypeOK, PCs, Busy
    <2>3. CASE /\ flags' = [flags EXCEPT ![k] = Merged(job[p].row, job[p].in)]
               /\ asked' = [asked EXCEPT ![k] = [f \in DOMAIN NewFlag |->
                             IF job[p].in[f] = Nil THEN @[f] ELSE job[p].in[f]]]
               /\ overlapped' = IF job[p].old THEN overlapped \cup {k} ELSE overlapped
               /\ pc' = [pc EXCEPT ![p] = "cacheDelete"]
               /\ job' = [q \in Procs |-> IF q = p THEN Written(k) ELSE Aged(q, k)]
               /\ UNCHANGED failures
        <3>1. flags' \in [Keys -> Flag \cup {NoFlag}]
            BY <2>1, <2>3, MergedType DEF TypeOK
        <3>2. asked' \in [Keys -> Flag]
            <4>1. asked[k] \in Flag
                BY <2>1 DEF TypeOK
            <4>2. asked'[k] = Merged(asked[k], job[p].in)
                BY <2>1, <2>3, <4>1 DEF Merged, TypeOK, Flag, NewFlag
            <4>3. Merged(asked[k], job[p].in) \in Flag
                BY <2>1, <4>1, MergedType
            <4> QED
                BY <2>1, <2>3, <4>2, <4>3 DEF TypeOK
        <3>3. \A q \in Procs : job'[q] \in Job
            BY <2>1, <2>3, WrittenJob, AgedJob
        <3>4. \A q \in Procs : JobOK(pc'[q], job'[q])
            <4>1. JobOK("cacheDelete", Written(k))
                BY <2>1, WrittenJob DEF JobOK, Reading
            <4>2. \A q \in Procs : JobOK(pc[q], Aged(q, k))
                BY <1>j, AgedJob DEF JobOK, Key
            <4> QED
                BY <2>3, <4>1, <4>2 DEF TypeOK
        <3>5. pc' \in [Procs -> PCs] /\ job' \in [Procs -> Job]
            BY <2>3, <3>3 DEF TypeOK, PCs, Busy, Updating
        <3>6. {overlapped', stale'} \subseteq SUBSET Keys
            BY <1>8, <2>1, <2>3 DEF Upsert, TypeOK
        <3> QED
            BY <1>8, <2>3, <3>1, <3>2, <3>4, <3>5, <3>6
               DEF Upsert, TypeOK, JobsOK, PCs, Busy
    <2> QED
        BY <1>8, <2>2, <2>3 DEF Upsert, Written
<1>9. ASSUME NEW p \in Procs, CacheDelete(p) PROVE TypeInv'
    <2>1. Key(p) \in Keys
        BY <1>9, <1>k DEF CacheDelete
    <2>2. cache' \in [Keys -> Flag \cup {NoFlag}] /\ stale' \subseteq Keys
        BY <1>9, <2>1 DEF CacheDelete, Delete, TypeOK
    <2>3. CallsOK
        BY <1>9, <1>i DEF CacheDelete
    <2>4. failures' \in 0..MaxFailures
        BY <1>9, <1>f DEF CacheDelete, TypeOK
    <2> QED
        BY <1>9, <2>2, <2>3, <2>4 DEF CacheDelete, TypeOK, PCs, Busy
<1>10. ASSUME NEW k \in Keys, Expire(k) PROVE TypeInv'
    BY <1>10 DEF Expire, TypeOK, JobsOK
<1>11. ASSUME UNCHANGED vars PROVE TypeInv'
    BY <1>11 DEF vars, TypeOK, JobsOK
<1> QED
    BY <1>1, <1>2, <1>3, <1>4, <1>5, <1>6, <1>7, <1>8, <1>9, <1>10, <1>11
       DEF Next, Lookup

(* Every variable keeps to its type. *)
THEOREM TypeCorrect == Spec => []TypeOK
<1>1. Spec => []TypeInv
    BY TypeInit, TypeStep, PTL DEF Spec
<1>2. TypeInv => TypeOK
    BY DEF TypeInv
<1> QED
    BY <1>1, <1>2, PTL

-----------------------------------------------------------------------------
(* What the calls hold *)

(* The row an update starts from, and what a lookup should answer. *)
Current(k) == IF flags[k] = NoFlag THEN NewFlag ELSE flags[k]

Says(k, c) == flags[k] # NoFlag /\ Resolve(flags[k], c)

(* Only a row read before an update's write is old, and the one held is    *)
(* the table's until it is.                                                *)
RowOK(step, j) ==
    /\ j.old => step \in {"cacheSet", "upsert"}
    /\ step = "cacheSet" /\ ~j.old => j.row = flags[j.key]
    /\ step = "upsert" /\ ~j.old => j.row = Current(j.key)

Undisturbed(k) ==
    /\ k \notin stale
    /\ \A q \in Procs : Key(q) = k => pc[q] # "cacheDelete" /\ ~job[q].old

(* While a lookup is quiet, nothing can make the cache of its flag stale:  *)
(* an update that could has to write first, and that ends the quiet.       *)
QuietOK(step, j) ==
    j.quiet => /\ step \in Reading
               /\ Undisturbed(j.key)
               /\ step = "answer" => (j.answer <=> Says(j.key, j.customer))

HeldInv == \A p \in Procs : RowOK(pc[p], job[p]) /\ QuietOK(pc[p], job[p])

(* FieldsAreAsAsked, for a flag that has no row as well. *)
FieldsInv == \A k \in Keys \ overlapped : Current(k) = asked[k]

Inv == TypeInv /\ HeldInv /\ FieldsInv /\ CacheIsCurrent

LEMMA InvInit == Init => Inv
<1> SUFFICES ASSUME Init PROVE Inv
    OBVIOUS
<1>1. TypeInv
    BY TypeInit
<1>2. HeldInv
    BY DEF Init, HeldInv, RowOK, QuietOK, NoJob
<1>3. FieldsInv
    BY DEF Init, FieldsInv, Current
<1>4. CacheIsCurrent
    BY DEF Init, CacheIsCurrent
<1> QED
    BY <1>1, <1>2, <1>3, <1>4 DEF Inv

(* A call that goes to a step with a job that is not old, while the table  *)
(* stays as it is.                                                         *)
LEMMA HeldGoto ==
    ASSUME Inv, NEW p \in Procs, NEW step, NEW j \in Job,
           GotoWith(p, step, j), flags' = flags,
           step # "cacheDelete", ~j.old,
           step = "cacheSet" => j.row = flags[j.key],
           step = "upsert" => j.row = Current(j.key),
           QuietOK(step, j),
           \A k : Undisturbed(k) => k \notin stale'
    PROVE  HeldInv'
<1>1. /\ pc'[p] = step /\ job'[p] = j
      /\ \A q \in Procs \ {p} : pc'[q] = pc[q] /\ job'[q] = job[q]
    BY DEF Inv, TypeInv, TypeOK, GotoWith
<1>2. \A k : Undisturbed(k) => Undisturbed(k)'
    BY <1>1 DEF Undisturbed, Key
<1>3. \A k, c : Says(k, c)' <=> Says(k, c)
    BY DEF Says, Resolve
<1>4. \A k : Current(k)' = Current(k)
    BY DEF Current
<1> SUFFICES ASSUME NEW q \in Procs
             PROVE  RowOK(pc[q], job[q])' /\ QuietOK(pc[q], job[q])'
    BY DEF HeldInv
<1>5. CASE q = p
    <2>1. RowOK(pc[q], job[q])'
        BY <1>1, <1>4, <1>5 DEF RowOK
    <2>2. QuietOK(pc[q], job[q])'
        BY <1>1, <1>2, <1>3, <1>5 DEF QuietOK
    <2> QED
        BY <2>1, <2>2
<1>6. CASE q # p
    <2>1. RowOK(pc[q], job[q]) /\ QuietOK(pc[q], job[q])
        BY DEF Inv, HeldInv
    <2>2. RowOK(pc[q], job[q])'
        BY <1>1, <1>4, <1>6, <2>1 DEF RowOK
    <2>3. QuietOK(pc[q], job[q])'
        BY <1>1, <1>2, <1>3, <1>6, <2>1 DEF QuietOK
    <2> QED
        BY <2>2, <2>3
<1> QED
    BY <1>5, <1>6

(* A call that ends. *)
LEMMA HeldFinish ==
    ASSUME Inv, NEW p \in Procs, Finish(p), flags' = flags,
           \A k : Undisturbed(k) => k \notin stale'
    PROVE  HeldInv'
BY NoJobType, HeldGoto DEF Finish, NoJob, QuietOK

(* A lookup of flag k that is answered.  If it is to be quiet, it was, and *)
(* the value is what the row says.                                         *)
LEMMA HeldAnswer ==
    ASSUME Inv, NEW p \in Procs, pc[p] \in Reading,
           NEW value, value \in BOOLEAN, NEW quiet, quiet \in BOOLEAN,
           Answer(p, value, quiet), flags' = flags,
           quiet => job[p].quiet /\ (value <=> Says(Key(p), job[p].customer)),
           \A k : Undisturbed(k) => k \notin stale'
    PROVE  HeldInv'
<1> DEFINE k == Key(p)
           c == job[p].customer
           j == Answered(k, c, quiet, value)
<1>1. k \in Keys /\ c \in Customers
    BY DEF Inv, TypeInv, JobsOK, JobOK, Busy, Key
<1>2. GotoWith(p, "answer", j)
    BY DEF Answer, Answered
<1>3. job[p].quiet => Undisturbed(k)
    BY DEF Inv, HeldInv, QuietOK, Key
<1> HIDE DEF k, c
<1>4. /\ j \in Job /\ j.key = k /\ j.customer = c /\ j.quiet = quiet
      /\ j.answer = value /\ j.old = FALSE
    BY <1>1, AnsweredJob
<1>5. QuietOK("answer", j)
    BY <1>3, <1>4 DEF QuietOK, Reading, k, c
<1> QED
    BY <1>2, <1>4, <1>5, HeldGoto

LEMMA HeldStep == ASSUME Inv, [Next]_vars PROVE HeldInv'
<1>h. \A p \in Procs : RowOK(pc[p], job[p]) /\ QuietOK(pc[p], job[p])
    BY DEF Inv, HeldInv
<1>t. \A p \in Procs : /\ job[p] \in Job
                       /\ job[p].quiet \in BOOLEAN /\ job[p].old \in BOOLEAN
                       /\ JobOK(pc[p], job[p])
    BY DEF Inv, TypeInv, TypeOK, JobsOK, Job
<1>1. ASSUME NEW p \in Procs, Enabled(p) PROVE HeldInv'
    <2> DEFINE quiet(k) == ~Disturbed(k)
    <2>1. PICK k \in Keys, c \in Customers :
              GotoWith(p, "cacheGet", Calling(k, c, quiet(k)))
        BY <1>1 DEF Enabled, Calling
    <2>2. quiet(k) => Undisturbed(k)
        BY <1>h, <1>t DEF Disturbed, Undisturbed, At, RowOK, Updating, Reading, Key
    <2>3. quiet(k) \in BOOLEAN
        OBVIOUS
    <2> HIDE DEF quiet
    <2> DEFINE j == Calling(k, c, quiet(k))
    <2>4. j \in Job /\ j.key = k /\ j.quiet = quiet(k) /\ j.old = FALSE
        BY <2>3, CallingJob
    <2>5. QuietOK("cacheGet", j)
        BY <2>2, <2>4 DEF QuietOK, Reading
    <2>6. flags' = flags /\ stale' = stale
        BY <1>1 DEF Enabled
    <2> HIDE DEF j
    <2>7. GotoWith(p, "cacheGet", j)
        BY <2>1 DEF j
    <2> QED
        BY <2>4, <2>5, <2>6, <2>7, HeldGoto DEF Undisturbed
<1>2. ASSUME NEW p \in Procs, CacheGet(p) PROVE HeldInv'
    <2> DEFINE k == Key(p)
    <2>1. k \in Keys /\ pc[p] \in Reading
        BY <1>2, <1>t DEF CacheGet, JobOK, Busy, Reading, Key
    <2>2. flags' = flags /\ \A f : Undisturbed(f) => f \notin stale'
        BY <1>2 DEF CacheGet, Undisturbed
    <2>3. CASE /\ cache[k] # NoFlag
               /\ Answer(p, Resolve(cache[k], job[p].customer), job[p].quiet)
        <3>1. Resolve(cache[k], job[p].customer) \in BOOLEAN
            <4>1. cache[k] \in Flag
                BY <2>1, <2>3 DEF Inv, TypeInv, TypeOK
            <4> QED
                BY <4>1, ResolveType
        <3>2. job[p].quiet => cache[k] = flags[k]
            <4>1. job[p].quiet => Undisturbed(k)
                BY <1>h DEF QuietOK, Key
            <4> QED
                BY <2>1, <2>3, <4>1 DEF Inv, CacheIsCurrent, Undisturbed, At
        <3>3. job[p].quiet =>
                  (Resolve(cache[k], job[p].customer) <=> Says(k, job[p].customer))
            BY <2>3, <3>2 DEF Says
        <3> QED
            BY <1>t, <2>1, <2>2, <2>3, <3>1, <3>3, HeldAnswer
    <2>4. CASE GotoWith(p, "repoGet", job[p])
        <3>1. ~job[p].old
            BY <1>2, <1>h DEF RowOK, CacheGet
        <3>2. QuietOK("repoGet", job[p])
            BY <1>h DEF QuietOK, Reading
        <3> QED
            BY <1>t, <2>2, <2>4, <3>1, <3>2, HeldGoto
    <2> QED
        BY <1>2, <2>3, <2>4 DEF CacheGet
<1>3. ASSUME NEW p \in Procs, RepoGet(p) PROVE HeldInv'
    <2> DEFINE k == Key(p)
               row == flags[k]
    <2>1. k \in Keys /\ pc[p] \in Reading
        BY <1>3, <1>t DEF RepoGet, JobOK, Busy, Reading, Key
    <2>2. flags' = flags /\ \A f : Undisturbed(f) => f \notin stale'
        BY <1>3 DEF RepoGet, Undisturbed
    <2>3. CASE row = NoFlag /\ Answer(p, FALSE, job[p].quiet)
        <3>1. ~Says(k, job[p].customer)
            BY <2>3 DEF Says
        <3> QED
            BY <1>t, <2>1, <2>2, <2>3, <3>1, HeldAnswer
    <2>4. CASE Answer(p, FALSE, FALSE)
        BY <2>1, <2>2, <2>4, HeldAnswer
    <2>5. CASE row # NoFlag /\ GotoWith(p, "cacheSet", WithRow(job[p], row))
        <3>1. row \in Flag
            BY <2>1, <2>5 DEF Inv, TypeInv, TypeOK
        <3>2. ~job[p].old
            BY <1>3, <1>h DEF RowOK, RepoGet
        <3> DEFINE j == WithRow(job[p], row)
        <3> HIDE DEF row
        <3>3. /\ j \in Job /\ j.row = row /\ j.key = k
              /\ j.quiet = job[p].quiet /\ j.old = job[p].old
            BY <1>t, <3>1, RowJob DEF Key
        <3>4. QuietOK("cacheSet", j)
            BY <1>h, <3>3 DEF QuietOK, Reading, Key
        <3>5. GotoWith(p, "cacheSet", j)
            BY <2>5
        <3> HIDE DEF j
        <3>6. j.row = flags[j.key]
            BY <3>3 DEF row
        <3> QED
            BY <2>2, <3>2, <3>3, <3>4, <3>5, <3>6, HeldGoto
    <2> QED
        BY <1>3, <2>3, <2>4, <2>5 DEF RepoGet, WithRow
<1>4. ASSUME NEW p \in Procs, CacheSet(p) PROVE HeldInv'
    <2> DEFINE k == Key(p)
    <2>1. k \in Keys /\ job[p].row \in Flag /\ pc[p] \in Reading
        BY <1>4, <1>t DEF CacheSet, JobOK, Busy, Reading, Key
    <2>2. Resolve(job[p].row, job[p].customer) \in BOOLEAN
        BY <2>1, ResolveType
    <2>3. job[p].quiet =>
              (Resolve(job[p].row, job[p].customer) <=> Says(k, job[p].customer))
        <3>1. job[p].quiet => ~job[p].old
            BY <1>h DEF QuietOK, Undisturbed, Key
        <3>2. ~job[p].old => job[p].row = flags[k]
            BY <1>4, <1>h DEF CacheSet, RowOK, Key
        <3> QED
            BY <2>1, <3>1, <3>2, NoFlagIsNoFlag DEF Says
    <2>4. ASSUME NEW f, Undisturbed(f) PROVE f \notin stale'
        BY <1>4, <2>4 DEF CacheSet, Undisturbed
    <2>5. /\ Answer(p, Resolve(job[p].row, job[p].customer), job[p].quiet)
          /\ flags' = flags
        BY <1>4 DEF CacheSet
    <2> QED
        BY <1>t, <2>1, <2>2, <2>3, <2>4, <2>5, HeldAnswer
<1>5. ASSUME NEW p \in Procs, Return(p) PROVE HeldInv'
    BY <1>5, HeldFinish DEF Return, Undisturbed
<1>6. ASSUME NEW p \in Procs, Update(p) PROVE HeldInv'
    <2>1. PICK k \in Keys, in \in UpdateInput : GotoWith(p, "upsertGet", Asking(k, in))
        BY <1>6 DEF Update, Asking
    <2> DEFINE j == Asking(k, in)
    <2>2. j \in Job /\ j.quiet = FALSE /\ j.old = FALSE
        BY AskingJob
    <2>3. GotoWith(p, "upsertGet", j)
        BY <2>1
    <2> HIDE DEF j
    <2>4. QuietOK("upsertGet", j)
        BY <2>2 DEF QuietOK
    <2>5. flags' = flags /\ \A f : Undisturbed(f) => f \notin stale'
        BY <1>6 DEF Update, Undisturbed
    <2> QED
        BY <2>2, <2>3, <2>4, <2>5, HeldGoto
<1>7. ASSUME NEW p \in Procs, UpsertGet(p) PROVE HeldInv'
    <2> DEFINE row == Current(Key(p))
    <2>1. flags' = flags /\ \A f : Undisturbed(f) => f \notin stale'
        BY <1>7 DEF UpsertGet, Undisturbed
    <2>2. CASE Finish(p)
        BY <2>1, <2>2, HeldFinish
    <2>3. CASE GotoWith(p, "upsert", WithRow(job[p], row))
        <3>1. row \in Flag
            <4>1. Key(p) \in Keys
                BY <1>7, <1>t DEF UpsertGet, JobOK, Busy, Updating, Key
            <4> QED
                BY <4>1, NewFlagType DEF Current, Inv, TypeInv, TypeOK
        <3>2. ~job[p].old /\ ~job[p].quiet
            BY <1>7, <1>h DEF RowOK, QuietOK, UpsertGet, Reading
        <3> DEFINE j == WithRow(job[p], row)
        <3> HIDE DEF row
        <3>3. /\ j \in Job /\ j.row = row /\ j.key = Key(p)
              /\ j.quiet = job[p].quiet /\ j.old = job[p].old
            BY <1>t, <3>1, RowJob DEF Key
        <3>4. GotoWith(p, "upsert", j)
            BY <2>3
        <3> HIDE DEF j
        <3>5. j.row = Current(j.key)
            BY <3>3 DEF row
        <3>6. QuietOK("upsert", j)
            BY <3>2, <3>3 DEF QuietOK
        <3> QED
            BY <2>1, <3>2, <3>3, <3>4, <3>5, <3>6, HeldGoto
    <2> QED
        BY <1>7, <2>2, <2>3 DEF UpsertGet, WithRow, Current
<1>8. ASSUME NEW p \in Procs, Upsert(p) PROVE HeldInv'
    <2> DEFINE k == Key(p)
    <2>1. k \in Keys
        BY <1>8, <1>t DEF Upsert, JobOK, Busy, Updating, Key
    <2>2. CASE Finish(p) /\ UNCHANGED flags
        BY <1>8, <2>2, HeldFinish DEF Upsert, Undisturbed
    <2>3. CASE /\ flags' = [flags EXCEPT ![k] = Merged(job[p].row, job[p].in)]
               /\ pc' = [pc EXCEPT ![p] = "cacheDelete"]
               /\ job' = [q \in Procs |-> IF q = p THEN Written(k) ELSE Aged(q, k)]
        <3>1. pc'[p] = "cacheDelete" /\ \A q \in Procs \ {p} : pc'[q] = pc[q]
            BY <2>3 DEF Inv, TypeInv, TypeOK
        <3>2. job'[p].key = k /\ job'[p].quiet = FALSE /\ job'[p].old = FALSE
            BY <2>1, <2>3, WrittenJob
        <3>3. ASSUME NEW q \in Procs, q # p, Key(q) = k
              PROVE  /\ job'[q].key = k /\ ~job'[q].quiet
                     /\ job'[q].old <=> job[q].old \/ pc[q] \in {"cacheSet", "upsert"}
            BY <2>3, <3>3, AgedJob DEF Inv, TypeInv
        <3>4. ASSUME NEW q \in Procs, q # p, Key(q) # k PROVE job'[q] = job[q]
            BY <2>3, <3>4, AgedJob DEF Inv, TypeInv
        <3>5. \A f \in Keys : f # k => flags'[f] = flags[f]
            BY <2>3 DEF Inv, TypeInv, TypeOK
        <3>6. ASSUME NEW f, f # k, Undisturbed(f) PROVE Undisturbed(f)'
            <4>1. stale' = stale
                BY <1>8 DEF Upsert
            <4>2. ASSUME NEW q \in Procs, Key(q)' = f
                  PROVE  pc'[q] # "cacheDelete" /\ ~job'[q].old
                <5>1. q # p
                    BY <3>2, <3>6, <4>2 DEF Key
                <5>2. Key(q) # k
                    BY <3>3, <3>6, <4>2, <5>1 DEF Key
                <5>3. job'[q] = job[q] /\ pc'[q] = pc[q]
                    BY <3>1, <3>4, <5>1, <5>2
                <5> QED
                    BY <3>6, <4>2, <5>3 DEF Undisturbed, Key
            <4> QED
                BY <3>6, <4>1, <4>2 DEF Undisturbed
        <3> SUFFICES ASSUME NEW q \in Procs
                     PROVE  RowOK(pc[q], job[q])' /\ QuietOK(pc[q], job[q])'
            BY DEF HeldInv
        <3>7. CASE q = p
            BY <3>1, <3>2, <3>7 DEF RowOK, QuietOK
        <3>8. CASE q # p /\ Key(q) = k
            <4>1. RowOK(pc[q], job[q])
                BY <1>h
            <4> QED
                BY <3>1, <3>3, <3>8, <4>1 DEF RowOK, QuietOK
        <3>9. CASE q # p /\ Key(q) # k
            <4>1. job'[q] = job[q] /\ pc'[q] = pc[q]
                BY <3>1, <3>4, <3>9
            <4>2. RowOK(pc[q], job[q]) /\ QuietOK(pc[q], job[q])
                BY <1>h
            <4>3. pc[q] \in Busy => flags'[job[q].key] = flags[job[q].key]
                BY <1>t, <3>5, <3>9 DEF JobOK, Key
            <4>4. RowOK(pc[q], job[q])'
                BY <4>1, <4>2, <4>3 DEF RowOK, Current, Busy, Reading, Updating
            <4>5. Undisturbed(job[q].key) => Undisturbed(job[q].key)'
                BY <3>6, <3>9, <4>1 DEF Key
            <4>6. pc[q] = "answer" =>
                      (Says(job[q].key, job[q].customer)' <=>
                       Says(job[q].key, job[q].customer))
                BY <4>1, <4>3 DEF Says, Resolve, Busy, Reading
            <4>7. QuietOK(pc[q], job[q])'
                BY <4>1, <4>2, <4>5, <4>6 DEF QuietOK
            <4> QED
                BY <4>4, <4>7
        <3> QED
            BY <3>7, <3>8, <3>9
    <2> QED
        BY <1>8, <2>2, <2>3 DEF Upsert, Written
<1>9. ASSUME NEW p \in Procs, CacheDelete(p) PROVE HeldInv'
    <2>1. ASSUME NEW f, Undisturbed(f) PROVE f \notin stale'
        BY <1>9, <2>1 DEF CacheDelete, Undisturbed
    <2> QED
        BY <1>9, <2>1, HeldFinish DEF CacheDelete
<1>10. ASSUME NEW k \in Keys, Expire(k) PROVE HeldInv'
    <2>1. /\ pc' = pc /\ job' = job /\ flags' = flags
          /\ \A f : Undisturbed(f) => Undisturbed(f)'
        BY <1>10 DEF Expire, Undisturbed, Key
    <2> QED
        BY <1>h, <2>1 DEF HeldInv, RowOK, QuietOK, Current, Says, Resolve
<1>11. ASSUME UNCHANGED vars PROVE HeldInv'
    BY <1>h, <1>11
       DEF vars, HeldInv, RowOK, QuietOK, Current, Says, Resolve, Undisturbed, Key
<1> QED
    BY <1>1, <1>2, <1>3, <1>4, <1>5, <1>6, <1>7, <1>8, <1>9, <1>10, <1>11
       DEF Next, Lookup


-----------------------------------------------------------------------------
(* The fields, and the cache *)

LEMMA FieldsStep == ASSUME Inv, [Next]_vars PROVE FieldsInv'
<1>1. ASSUME NEW p \in Procs, Upsert(p) PROVE FieldsInv'
    <2> DEFINE k == Key(p)
               in == job[p].in
    <2>1. k \in Keys /\ in \in UpdateInput /\ job[p].row \in Flag
        BY <1>1 DEF Inv, TypeInv, JobsOK, JobOK, Upsert, Busy, Updating, Key
    <2>2. CASE UNCHANGED <<flags, asked, overlapped>>
        BY <2>2 DEF Inv, FieldsInv, Current
    <2>3. CASE /\ flags' = [flags EXCEPT ![k] = Merged(job[p].row, in)]
               /\ asked' = [asked EXCEPT ![k] = [f \in DOMAIN NewFlag |->
                             IF in[f] = Nil THEN @[f] ELSE in[f]]]
               /\ overlapped' = IF job[p].old THEN overlapped \cup {k} ELSE overlapped
        <3> SUFFICES ASSUME NEW f \in Keys, f \notin overlapped'
                     PROVE  Current(f)' = asked'[f]
            BY DEF FieldsInv
        <3>1. f \notin overlapped /\ Current(f) = asked[f]
            BY <2>3 DEF Inv, FieldsInv
        <3>2. CASE f # k
            BY <2>3, <3>1, <3>2 DEF Current, Inv, TypeInv, TypeOK
        <3>3. CASE f = k
            <4>1. ~job[p].old
                BY <2>3, <3>3
            <4>2. job[p].row = asked[k]
                BY <1>1, <3>1, <3>3, <4>1 DEF Inv, HeldInv, RowOK, Upsert, Key
            <4>3. asked[k] \in Flag /\ asked'[k] = Merged(asked[k], in)
                BY <2>1, <2>3 DEF Merged, Inv, TypeInv, TypeOK, Flag, NewFlag
            <4>4. flags'[k] = Merged(asked[k], in) /\ flags'[k] \in Flag
                BY <2>1, <2>3, <4>2, <4>3, MergedType DEF Inv, TypeInv, TypeOK
            <4> QED
                BY <3>3, <4>3, <4>4, NoFlagIsNoFlag DEF Current
        <3> QED
            BY <3>2, <3>3
    <2> QED
        BY <1>1, <2>2, <2>3 DEF Upsert
<1>2. CASE UNCHANGED <<flags, asked, overlapped>>
    BY <1>2 DEF Inv, FieldsInv, Current
<1> QED
    BY <1>1, <1>2 DEF Next, Lookup, Enabled, CacheGet, RepoGet, CacheSet, Return,
                      Update, UpsertGet, CacheDelete, Expire, vars

(* A call that is not deleting the entry moves, and the table stays. *)
LEMMA CacheKept ==
    ASSUME Inv, NEW p \in Procs, pc[p] # "cacheDelete",
           NEW step, NEW j, GotoWith(p, step, j),
           flags' = flags, cache' = cache, stale' = stale
    PROVE  CacheIsCurrent'
<1>1. \A q \in Procs : pc[q] = "cacheDelete" => pc'[q] = pc[q] /\ job'[q] = job[q]
    BY DEF GotoWith, Inv, TypeInv, TypeOK
<1> QED
    BY <1>1 DEF Inv, CacheIsCurrent, At, Key

LEMMA CacheStep == ASSUME Inv, [Next]_vars PROVE CacheIsCurrent'
<1>c. ASSUME NEW k \in Keys, k \notin stale
      PROVE  \/ cache[k] \in {NoFlag, flags[k]}
             \/ \E q \in Procs : pc[q] = "cacheDelete" /\ Key(q) = k
    BY <1>c DEF Inv, CacheIsCurrent, At
<1>1. ASSUME NEW p \in Procs, Enabled(p) \/ Return(p) PROVE CacheIsCurrent'
    BY <1>1, CacheKept DEF Enabled, Return, Finish
<1>2. ASSUME NEW p \in Procs, CacheGet(p) PROVE CacheIsCurrent'
    BY <1>2, CacheKept DEF CacheGet, Answer
<1>3. ASSUME NEW p \in Procs, RepoGet(p) PROVE CacheIsCurrent'
    BY <1>3, CacheKept DEF RepoGet, Answer
<1>4. ASSUME NEW p \in Procs, CacheSet(p) PROVE CacheIsCurrent'
    <2> DEFINE k == Key(p)
    <2>1. CASE UNCHANGED <<cache, stale>>
        BY <1>4, <2>1, CacheKept DEF CacheSet, Answer
    <2>2. CASE /\ cache' = [cache EXCEPT ![k] = job[p].row]
               /\ stale' = IF job[p].old THEN stale \cup {k} ELSE stale \ {k}
        <3> SUFFICES ASSUME NEW f \in Keys, f \notin stale'
                     PROVE  \/ cache'[f] \in {NoFlag, flags'[f]}
                            \/ \E q \in Procs : pc'[q] = "cacheDelete" /\ Key(q)' = f
            BY DEF CacheIsCurrent, At
        <3>1. flags' = flags
            BY <1>4 DEF CacheSet
        <3>2. \A q \in Procs : pc[q] = "cacheDelete" => pc'[q] = pc[q] /\ job'[q] = job[q]
            BY <1>4 DEF CacheSet, Answer, GotoWith, Inv, TypeInv, TypeOK
        <3>3. CASE f = k
            <4>1. ~job[p].old
                BY <2>2, <3>3
            <4>2. job[p].row = flags[k]
                BY <1>4, <4>1 DEF CacheSet, Inv, HeldInv, RowOK, Key
            <4> QED
                BY <2>2, <3>1, <3>3, <4>2 DEF Inv, TypeInv, TypeOK
        <3>4. CASE f # k
            <4>1. f \notin stale /\ cache'[f] = cache[f]
                BY <2>2, <3>4 DEF Inv, TypeInv, TypeOK
            <4> QED
                BY <1>c, <3>1, <3>2, <4>1 DEF Key
        <3> QED
            BY <3>3, <3>4
    <2> QED
        BY <1>4, <2>1, <2>2 DEF CacheSet
<1>5. ASSUME NEW p \in Procs, Update(p) PROVE CacheIsCurrent'
    BY <1>5, CacheKept DEF Update
<1>6. ASSUME NEW p \in Procs, UpsertGet(p) PROVE CacheIsCurrent'
    BY <1>6, CacheKept DEF UpsertGet, Finish
<1>7. ASSUME NEW p \in Procs, Upsert(p) PROVE CacheIsCurrent'
    <2> DEFINE k == Key(p)
    <2>1. CASE Finish(p) /\ UNCHANGED flags
        BY <1>7, <2>1, CacheKept DEF Upsert, Finish
    <2>2. CASE /\ flags' = [flags EXCEPT ![k] = Merged(job[p].row, job[p].in)]
               /\ pc' = [pc EXCEPT ![p] = "cacheDelete"]
               /\ job' = [q \in Procs |-> IF q = p THEN Written(k) ELSE Aged(q, k)]
        <3>1. k \in Keys
            BY <1>7 DEF Inv, TypeInv, JobsOK, JobOK, Upsert, Busy, Updating, Key
        <3> SUFFICES ASSUME NEW f \in Keys, f \notin stale'
                     PROVE  \/ cache'[f] \in {NoFlag, flags'[f]}
                            \/ \E q \in Procs : pc'[q] = "cacheDelete" /\ Key(q)' = f
            BY DEF CacheIsCurrent, At
        <3>2. CASE f = k
            <4>1. pc'[p] = "cacheDelete" /\ Key(p)' = k
                BY <2>2, <3>1, WrittenJob DEF Key, Inv, TypeInv, TypeOK
            <4> QED
                BY <3>2, <4>1
        <3>3. CASE f # k
            <4>1. f \notin stale /\ cache' = cache /\ flags'[f] = flags[f]
                BY <1>7, <2>2, <3>3 DEF Upsert, Inv, TypeInv, TypeOK
            <4>2. ASSUME NEW q \in Procs, pc[q] = "cacheDelete"
                  PROVE  pc'[q] = "cacheDelete" /\ Key(q)' = Key(q)
                <5>1. q # p
                    BY <1>7, <4>2 DEF Upsert
                <5>2. job'[q].key = Key(q)
                    BY <2>2, <5>1, AgedJob DEF Inv, TypeInv
                <5> QED
                    BY <2>2, <4>2, <5>1, <5>2 DEF Key, Inv, TypeInv, TypeOK
            <4> QED
                BY <1>c, <4>1, <4>2
        <3> QED
            BY <3>2, <3>3
    <2> QED
        BY <1>7, <2>1, <2>2 DEF Upsert, Written
<1>8. ASSUME NEW p \in Procs, CacheDelete(p) PROVE CacheIsCurrent'
    <2> DEFINE k == Key(p)
    <2>1. k \in Keys
        BY <1>8 DEF Inv, TypeInv, JobsOK, JobOK, CacheDelete, Busy, Updating, Key
    <2> SUFFICES ASSUME NEW f \in Keys, f \notin stale'
                 PROVE  \/ cache'[f] \in {NoFlag, flags'[f]}
                        \/ \E q \in Procs : pc'[q] = "cacheDelete" /\ Key(q)' = f
        BY DEF CacheIsCurrent, At
    <2>2. CASE f = k
        BY <1>8, <2>1, <2>2 DEF CacheDelete, Delete, Inv, TypeInv, TypeOK
    <2>3. CASE f # k
        <3>1. f \notin stale /\ cache'[f] = cache[f] /\ flags' = flags
            BY <1>8, <2>1, <2>3 DEF CacheDelete, Delete, Inv, TypeInv, TypeOK
        <3>2. \A q \in Procs \ {p} : pc'[q] = pc[q] /\ job'[q] = job[q]
            BY <1>8 DEF CacheDelete, Finish, GotoWith, Inv, TypeInv, TypeOK
        <3> QED
            BY <1>c, <2>3, <3>1, <3>2 DEF Key
    <2> QED
        BY <2>2, <2>3
<1>9. ASSUME NEW k \in Keys, Expire(k) PROVE CacheIsCurrent'
    <2>1. /\ pc' = pc /\ job' = job /\ flags' = flags
          /\ cache' = [cache EXCEPT ![k] = NoFlag] /\ stale' = stale \ {k}
        BY <1>9 DEF Expire
    <2> QED
        BY <1>c, <2>1 DEF CacheIsCurrent, At, Key, Inv, TypeInv, TypeOK
<1>10. ASSUME UNCHANGED vars PROVE CacheIsCurrent'
    BY <1>10 DEF vars, Inv, CacheIsCurrent, At, Key
<1> QED
    BY <1>1, <1>2, <1>3, <1>4, <1>5, <1>6, <1>7, <1>8, <1>9, <1>10 DEF Next, Lookup

LEMMA InvStep == Inv /\ [Next]_vars => Inv'
BY TypeStep, HeldStep, FieldsStep, CacheStep DEF Inv

LEMMA InvCorrect == Spec => []Inv
BY InvInit, InvStep, PTL DEF Spec

-----------------------------------------------------------------------------
(* Theorems *)

(* The cache answers as the table does, but between an update's write and  *)
(* its delete, and for the entries the history names.                      *)
THEOREM CacheCorrect == Spec => []CacheIsCurrent
<1>1. Inv => CacheIsCurrent
    BY DEF Inv
<1> QED
    BY <1>1, InvCorrect, PTL

(* Updates of a flag that do not overlap leave each field as the last one  *)
(* that named it set it.                                                   *)
THEOREM FieldsCorrect == Spec => []FieldsAreAsAsked
<1>1. Inv => FieldsAreAsAsked
    BY DEF Inv, FieldsInv, FieldsAreAsAsked, Current
<1> QED
    BY <1>1, InvCorrect, PTL

(* A lookup no update came near of answers what the row says. *)
THEOREM AnswersCorrect == Spec => []QuietAnswerIsRight
<1>1. ASSUME Inv PROVE QuietAnswerIsRight
    <2> SUFFICES ASSUME NEW p \in Procs, pc[p] = "answer", job[p].quiet
                 PROVE  LET row == flags[Key(p)]
                            c == job[p].customer
                        IN job[p].answer <=>
                             /\ row # NoFlag
                             /\ c \in DOMAIN row.customerOverrides => row.customerOverrides[c]
                             /\ \/ c \in DOMAIN row.customerOverrides
                                \/ row.enabledGlobally
                                \/ row.defaultValue
        BY DEF QuietAnswerIsRight
    <2>1. job[p].answer <=> Says(Key(p), job[p].customer)
        BY <1>1 DEF Inv, HeldInv, QuietOK, Key
    <2> QED
        BY <2>1 DEF Says, Resolve
<1> QED
    BY <1>1, InvCorrect, PTL


=============================================================================
