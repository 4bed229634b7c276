------------------------- MODULE IdentityCodesProofs -------------------------
(***************************************************************************)
(* Proofs about IdentityCodes, for any number of programs, clients, codes  *)
(* and handlers and any bound on failures.                                 *)
(*                                                                         *)
(* OwnInv says for whom the code a tracker names, or a request holds, was  *)
(* drawn; what a request may take away follows from it.  AloneInv follows  *)
(* a request that nothing disturbs: what it may assume of the codes that   *)
(* work at each of its steps.                                              *)
(***************************************************************************)
EXTENDS IdentityCodes, TLAPS

-----------------------------------------------------------------------------
(* Types *)

(* The fields of a job that are set where a request is. *)
JobsOK ==
    \A p \in Procs :
        /\ pc[p] # "idle" => Holder(p) \in Holders
        /\ pc[p] = "deleteOld" => job[p].old \in Codes
        /\ pc[p] = "setTracker" => job[p].code \in Codes

TypeInv == TypeOK /\ JobsOK

LEMMA NilIsApart == Nil \notin Codes
BY CodesAssumption

LEMMA HoldersArePairs == ASSUME NEW h \in Holders
                         PROVE  Identity(h) \in OTPData /\ Identity(h) # NoOTP
BY DEF Identity, OTPData, NoOTP

LEMMA TypeInit == Init => TypeInv
<1> SUFFICES ASSUME Init PROVE TypeInv
    OBVIOUS
<1>1. TypeOK
    BY CodesAssumption DEF Init, TypeOK, PCs, Job, NoJob
<1>2. JobsOK
    BY DEF Init, JobsOK
<1> QED
    BY <1>1, <1>2 DEF TypeInv

RequestJob(h, old) == [NoJob EXCEPT !.holder = h, !.old = old]

LEMMA RequestJobFields ==
    ASSUME NEW h \in Holders, NEW old \in Codes \cup {Nil}
    PROVE  /\ RequestJob(h, old) \in Job
           /\ RequestJob(h, old).holder = h
           /\ RequestJob(h, old).old = old
           /\ RequestJob(h, old).code = Nil
BY DEF RequestJob, NoJob, Job

(* What RequestIdentityOTP does, with the holder and the old code named.   *)
Requested(p, h, old) ==
    /\ pc[p] = "idle"
    /\ old \in {tracker[h], Nil}
    /\ pc' = [pc EXCEPT ![p] = IF old = Nil THEN "setCode" ELSE "deleteOld"]
    /\ job' = [job EXCEPT ![p] = RequestJob(h, old)]
    /\ crossed' \in {crossed, crossed \cup {h}}
    /\ Busy(h) \/ old # tracker[h] => h \in crossed'
    /\ failures' \in 0..MaxFailures
    /\ UNCHANGED <<otp, tracker, drawVars, told>>

LEMMA RequestStep ==
    ASSUME TypeOK, NEW p \in Procs, RequestIdentityOTP(p)
    PROVE  \E h \in Holders, old \in Codes \cup {Nil} : Requested(p, h, old)
<1>1. PICK h \in Holders : \E old \in {tracker[h], Nil} :
          /\ pc[p] = "idle"
          /\ GotoWith(p, IF old = Nil THEN "setCode" ELSE "deleteOld",
                      [NoJob EXCEPT !.holder = h, !.old = old])
          /\ IF old # tracker[h] THEN Fail(h)
             ELSE /\ IF Busy(h) THEN Cross(h) ELSE UNCHANGED crossed
                  /\ UNCHANGED failures
          /\ UNCHANGED <<otp, tracker, drawVars, told>>
    BY DEF RequestIdentityOTP, TrackerKey
<1>2. PICK old \in {tracker[h], Nil} :
          /\ pc[p] = "idle"
          /\ GotoWith(p, IF old = Nil THEN "setCode" ELSE "deleteOld",
                      [NoJob EXCEPT !.holder = h, !.old = old])
          /\ IF old # tracker[h] THEN Fail(h)
             ELSE /\ IF Busy(h) THEN Cross(h) ELSE UNCHANGED crossed
                  /\ UNCHANGED failures
          /\ UNCHANGED <<otp, tracker, drawVars, told>>
    BY <1>1
<1>3. old \in Codes \cup {Nil}
    BY DEF TypeOK
<1>4. /\ failures' \in 0..MaxFailures
      /\ crossed' \in {crossed, crossed \cup {h}}
      /\ Busy(h) \/ old # tracker[h] => h \in crossed'
    BY <1>2, CodesAssumption DEF TypeOK, Fail, Cross
<1>5. Requested(p, h, old)
    BY <1>2, <1>4 DEF Requested, RequestJob, GotoWith
<1> QED
    BY <1>3, <1>5

LEMMA TypeStep == ASSUME TypeInv, [Next]_vars PROVE TypeInv'
<1> USE DEF TypeInv, TypeOK, JobsOK
<1>1. ASSUME NEW p \in Procs, RequestIdentityOTP(p) PROVE TypeInv'
    <2>1. PICK h \in Holders, old \in Codes \cup {Nil} : Requested(p, h, old)
        BY <1>1, RequestStep DEF TypeInv
    <2> QED
        BY <2>1, RequestJobFields DEF Requested, PCs, Holder, drawVars
<1>2. ASSUME NEW p \in Procs, DeleteOld(p) PROVE TypeInv'
    <2>1. otp' \in [Codes -> OTPData \cup {NoOTP}]
        BY <1>2 DEF DeleteOld, Delete
    <2>2. crossed' \subseteq Holders /\ failures' \in 0..MaxFailures
        BY <1>2, CodesAssumption DEF DeleteOld, Fail, Cross, Succeed
    <2> QED
        BY <1>2, <2>1, <2>2 DEF DeleteOld, GotoWith, PCs, Holder, drawVars
<1>3. ASSUME NEW p \in Procs, DeleteTracker(p) PROVE TypeInv'
    <2>1. tracker' \in [Holders -> Codes \cup {Nil}] /\ renewed' \subseteq Holders
        BY <1>3 DEF DeleteTracker, Track, TrackerKey
    <2>2. crossed' \subseteq Holders /\ failures' \in 0..MaxFailures
        BY <1>3, CodesAssumption DEF DeleteTracker, Fail, Cross, Succeed
    <2> QED
        BY <1>3, <2>1, <2>2 DEF DeleteTracker, GotoWith, PCs, Holder
<1>4. ASSUME NEW p \in Procs, SetCode(p) PROVE TypeInv'
    <2>0. Holder(p) \in Holders
        BY <1>4 DEF SetCode
    <2>1. CASE \E k \in Codes :
                 /\ otp' = [otp EXCEPT ![k] = Identity(Holder(p))]
                 /\ renewed' = IF tracker[Holder(p)] = k
                               THEN renewed \cup {Holder(p)} ELSE renewed
                 /\ drawnFor' = [drawnFor EXCEPT ![k] = @ \cup {Holder(p)}]
                 /\ GotoWith(p, "setTracker", [job[p] EXCEPT !.code = k])
                 /\ Succeed
        <3>1. PICK k \in Codes :
                 /\ otp' = [otp EXCEPT ![k] = Identity(Holder(p))]
                 /\ renewed' = IF tracker[Holder(p)] = k
                               THEN renewed \cup {Holder(p)} ELSE renewed
                 /\ drawnFor' = [drawnFor EXCEPT ![k] = @ \cup {Holder(p)}]
                 /\ GotoWith(p, "setTracker", [job[p] EXCEPT !.code = k])
                 /\ Succeed
            BY <2>1
        <3>2. otp' \in [Codes -> OTPData \cup {NoOTP}]
            BY <2>0, <3>1, HoldersArePairs
        <3>2a. /\ renewed' \subseteq Holders /\ draws' \in Nat
               /\ drawnFor' \in [Codes -> SUBSET Holders]
            BY <1>4, <2>0, <3>1 DEF SetCode
        <3>3. [job[p] EXCEPT !.code = k] \in Job
            BY DEF Job
        <3>4. [job[p] EXCEPT !.code = k].holder = Holder(p)
              /\ [job[p] EXCEPT !.code = k].code = k
            BY DEF Holder, Job
        <3> QED
            BY <1>4, <2>0, <3>1, <3>2, <3>2a, <3>3, <3>4
               DEF SetCode, GotoWith, PCs, Holder, Succeed
    <2>2. CASE /\ GotoWith(p, "idle", NoJob)
               /\ Fail(Holder(p))
               /\ UNCHANGED <<otp, renewed, drawnFor>>
        <3>1. crossed' \subseteq Holders /\ failures' \in 0..MaxFailures
            BY <2>0, <2>2, CodesAssumption DEF Fail, Cross
        <3> QED
            BY <1>4, <2>2, <3>1 DEF SetCode, GotoWith, PCs, Holder, NoJob, Job
    <2> QED
        BY <1>4, <2>1, <2>2 DEF SetCode
<1>5. ASSUME NEW p \in Procs, SetTracker(p) PROVE TypeInv'
    <2>1. tracker' \in [Holders -> Codes \cup {Nil}] /\ renewed' \subseteq Holders
        BY <1>5 DEF SetTracker, Track, TrackerKey
    <2>2. crossed' \subseteq Holders /\ failures' \in 0..MaxFailures
        BY <1>5, CodesAssumption DEF SetTracker, Fail, Cross, Succeed
    <2> QED
        BY <1>5, <2>1, <2>2 DEF SetTracker, GotoWith, PCs, Holder, NoJob, Job
<1>6. ASSUME NEW h \in Holders, IssueOther(h) PROVE TypeInv'
    BY <1>6 DEF IssueOther, OTPData, Holder
<1>7. ASSUME NEW h \in Holders, ExpireTracker(h) PROVE TypeInv'
    BY <1>7 DEF ExpireTracker, Holder
<1>8. ASSUME NEW k \in Codes, ConsumeOTP(k) PROVE TypeInv'
    BY <1>8 DEF ConsumeOTP, Delete, Holder, drawVars
<1>9. ASSUME NEW k \in Codes, ExpireOTP(k) PROVE TypeInv'
    BY <1>9 DEF ExpireOTP, Holder, drawVars
<1>10. ASSUME UNCHANGED vars PROVE TypeInv'
    BY <1>10 DEF vars, Holder
<1> QED
    BY <1>1, <1>2, <1>3, <1>4, <1>5, <1>6, <1>7, <1>8, <1>9, <1>10
       DEF Next, Quiescent

(* Every variable keeps to its type. *)
THEOREM TypeCorrect == Spec => []TypeOK
<1>1. Spec => []TypeInv
    BY TypeInit, TypeStep, PTL DEF Spec
<1>2. TypeInv => TypeOK
    BY DEF TypeInv
<1> QED
    BY <1>1, <1>2, PTL


-----------------------------------------------------------------------------
(* For whom the code a tracker names or a request holds was drawn *)

OwnCode(k, h) == k # Nil => h \in drawnFor[k]

OwnInv ==
    /\ \A h \in Holders : OwnCode(tracker[h], h)
    /\ \A p \in Procs : pc[p] # "idle" => /\ OwnCode(job[p].old, Holder(p))
                                          /\ OwnCode(job[p].code, Holder(p))

(* What was drawn for somebody stays so. *)
DrawsGrow == \A k \in Codes : drawnFor[k] \subseteq drawnFor'[k]

LEMMA OwnInit == Init => OwnInv
BY DEF Init, OwnInv, OwnCode

LEMMA DrawsOnlyGrow == ASSUME TypeInv, [Next]_vars PROVE DrawsGrow
<1> USE DEF TypeInv, TypeOK, DrawsGrow
<1>1. ASSUME NEW p \in Procs, SetCode(p) PROVE DrawsGrow
    BY <1>1 DEF SetCode
<1>2. ASSUME UNCHANGED drawnFor PROVE DrawsGrow
    BY <1>2
<1> QED
    BY <1>1, <1>2
       DEF Next, Quiescent, vars, drawVars, RequestIdentityOTP, DeleteOld,
           DeleteTracker, SetTracker, IssueOther, ConsumeOTP, ExpireOTP, ExpireTracker

LEMMA OwnStep == ASSUME TypeInv, OwnInv, [Next]_vars PROVE OwnInv'
<1> USE DEF TypeInv, TypeOK, JobsOK
<1>a. \A k \in Codes \cup {Nil}, h \in Holders : OwnCode(k, h) => OwnCode(k, h)'
    BY DrawsOnlyGrow DEF OwnCode, DrawsGrow
<1>b. \A p \in Procs : job[p].old \in Codes \cup {Nil} /\ job[p].code \in Codes \cup {Nil}
    BY DEF Job
<1>c. \A h \in Holders : OwnCode(Nil, h)'
    BY DEF OwnCode
<1> DEFINE Same(q) == pc'[q] = pc[q] /\ job'[q] = job[q]
           Kept(h) == tracker'[h] = tracker[h]
<1>d. \A h \in Holders : Kept(h) => OwnCode(tracker[h], h)'
    BY <1>a DEF OwnInv, OwnCode
<1>e. \A q \in Procs : (Same(q) /\ pc[q] # "idle") =>
          OwnCode(job[q].old, Holder(q))' /\ OwnCode(job[q].code, Holder(q))'
    BY <1>a, <1>b DEF OwnInv, OwnCode, Holder
<1>1. ASSUME NEW p \in Procs, RequestIdentityOTP(p) PROVE OwnInv'
    <2>1. PICK h \in Holders, old \in Codes \cup {Nil} : Requested(p, h, old)
        BY <1>1, RequestStep
    <2>2. OwnCode(old, h)'
        BY <1>a, <1>c, <2>1 DEF Requested, OwnInv, OwnCode
    <2>3. Holder(p)' = h /\ job'[p].old = old /\ job'[p].code = Nil
        BY <2>1, RequestJobFields DEF Requested, Holder
    <2>4. \A q \in Procs : q = p \/ Same(q)
        BY <2>1 DEF Requested
    <2>5. \A g \in Holders : Kept(g)
        BY <2>1 DEF Requested
    <2> QED
        BY <1>c, <1>d, <1>e, <2>2, <2>3, <2>4, <2>5 DEF OwnInv, OwnCode
<1>2. ASSUME NEW p \in Procs, DeleteOld(p) \/ DeleteTracker(p) PROVE OwnInv'
    <2>1. pc[p] # "idle" /\ job' = job
        BY <1>2 DEF DeleteOld, DeleteTracker, GotoWith
    <2>2. \A q \in Procs : q = p \/ Same(q)
        BY <1>2, <2>1 DEF DeleteOld, DeleteTracker, GotoWith
    <2>3. \A g \in Holders : Kept(g) \/ tracker'[g] = Nil
        BY <1>2 DEF DeleteOld, DeleteTracker, Track, TrackerKey
    <2>4. OwnCode(job[p].old, Holder(p))' /\ OwnCode(job[p].code, Holder(p))'
        BY <1>a, <1>b, <2>1 DEF OwnInv, OwnCode, Holder
    <2> QED
        BY <1>c, <1>d, <1>e, <2>2, <2>3, <2>4 DEF OwnInv, OwnCode
<1>3. ASSUME NEW p \in Procs, SetCode(p) PROVE OwnInv'
    <2>1. pc[p] # "idle" /\ Holder(p) \in Holders
        BY <1>3 DEF SetCode
    <2>2. \A q \in Procs : q = p \/ Same(q)
        BY <1>3 DEF SetCode, GotoWith
    <2>3. \A g \in Holders : Kept(g)
        BY <1>3 DEF SetCode
    <2>4. pc'[p] # "idle" =>
              OwnCode(job[p].old, Holder(p))' /\ OwnCode(job[p].code, Holder(p))'
        <3>1. SUFFICES ASSUME pc'[p] # "idle"
                       PROVE  OwnCode(job[p].old, Holder(p))'
                              /\ OwnCode(job[p].code, Holder(p))'
            OBVIOUS
        <3>2. PICK k \in Codes :
                 /\ otp' = [otp EXCEPT ![k] = Identity(Holder(p))]
                 /\ renewed' = IF tracker[Holder(p)] = k
                               THEN renewed \cup {Holder(p)} ELSE renewed
                 /\ drawnFor' = [drawnFor EXCEPT ![k] = @ \cup {Holder(p)}]
                 /\ GotoWith(p, "setTracker", [job[p] EXCEPT !.code = k])
            BY <1>3, <3>1 DEF SetCode, GotoWith
        <3>3. /\ job'[p].old = job[p].old /\ job'[p].code = k
              /\ Holder(p)' = Holder(p)
            BY <3>2 DEF GotoWith, Holder, Job
        <3>4. OwnCode(k, Holder(p))'
            BY <3>2, <3>3 DEF OwnCode
        <3>5. OwnCode(job[p].old, Holder(p))'
            BY <1>a, <1>b, <2>1, <3>3 DEF OwnInv, OwnCode
        <3> QED
            BY <3>3, <3>4, <3>5 DEF OwnCode
    <2> QED
        BY <1>d, <1>e, <2>2, <2>3, <2>4 DEF OwnInv, OwnCode
<1>4. ASSUME NEW p \in Procs, SetTracker(p) PROVE OwnInv'
    <2>1. pc[p] = "setTracker" /\ pc'[p] = "idle" /\ Holder(p) \in Holders
        BY <1>4 DEF SetTracker, GotoWith
    <2>2. \A q \in Procs : q = p \/ Same(q)
        BY <1>4 DEF SetTracker, GotoWith
    <2>3. \A g \in Holders : Kept(g) \/ (g = Holder(p) /\ tracker'[g] = job[p].code)
        BY <1>4, <2>1 DEF SetTracker, Track, TrackerKey
    <2>4. OwnCode(job[p].code, Holder(p)) /\ job[p].code \in Codes \cup {Nil}
        BY <1>b, <2>1 DEF OwnInv
    <2>5. \A g \in Holders : OwnCode(tracker[g], g)'
        BY <1>a, <1>d, <2>1, <2>3, <2>4 DEF OwnCode
    <2> QED
        BY <1>e, <2>1, <2>2, <2>5 DEF OwnInv
<1>5. ASSUME NEW h \in Holders, ExpireTracker(h) PROVE OwnInv'
    <2>1. \A q \in Procs : Same(q)
        BY <1>5 DEF ExpireTracker
    <2>2. \A g \in Holders : Kept(g) \/ tracker'[g] = Nil
        BY <1>5 DEF ExpireTracker
    <2> QED
        BY <1>c, <1>d, <1>e, <2>1, <2>2 DEF OwnInv, OwnCode
<1>6. ASSUME UNCHANGED <<tracker, pc, job>> PROVE OwnInv'
    BY <1>6, <1>d, <1>e DEF OwnInv
<1> QED
    BY <1>1, <1>2, <1>3, <1>4, <1>5, <1>6
       DEF Next, Quiescent, vars, IssueOther, ConsumeOTP, ExpireOTP

(* A tracker names a code that was drawn as an identity code of its own    *)
(* client for its own program, however requests overlap, lapse and fail.   *)
THEOREM TrackerCorrect == Spec => []TrackedCodeWasDrawnForIt
<1>1. Spec => [](TypeInv /\ OwnInv)
    BY TypeInit, TypeStep, OwnInit, OwnStep, PTL DEF Spec
<1>2. OwnInv => TrackedCodeWasDrawnForIt
    BY DEF OwnInv, OwnCode, TrackedCodeWasDrawnForIt
<1> QED
    BY <1>1, <1>2, PTL

(* RequestIdentityOTP deletes the code its tracker named when it looked.   *)
(* Whose code that is by then, it was drawn for the request's own client   *)
(* and program: a code of somebody else's goes only if it was drawn again. *)
THEOREM RedrawnCodesCorrect == Spec => OthersLoseRedrawnCodesOnly
<1>1. Spec => [](TypeInv /\ OwnInv)
    BY TypeInit, TypeStep, OwnInit, OwnStep, PTL DEF Spec
<1>2. ASSUME TypeInv, OwnInv, NEW p \in Procs, DeleteOld(p),
             NEW k \in Codes, otp'[k] # otp[k]
      PROVE  Holder(p) \in drawnFor[k]
    <2>1. k = job[p].old /\ pc[p] = "deleteOld"
        BY <1>2 DEF DeleteOld, Delete, TypeInv, TypeOK
    <2> QED
        BY <1>2, <2>1, NilIsApart DEF OwnInv, OwnCode
<1>3. TypeInv /\ OwnInv /\ [Next]_vars =>
          [\A p \in Procs : DeleteOld(p) =>
               \A k \in Codes : otp'[k] # otp[k] => Holder(p) \in drawnFor[k]]_vars
    BY <1>2
<1> QED
    BY <1>1, <1>3, PTL DEF Spec, OthersLoseRedrawnCodesOnly

-----------------------------------------------------------------------------
(* A request nothing disturbs *)

Serves(p, h) == pc[p] # "idle" /\ Holder(p) = h

(* No identity code of h works but x, which may be none. *)
OnlyLive(h, x) == \A k \in Codes : otp[k] = Identity(h) => k = x

(* What a request may assume of its client's codes at each of its steps.   *)
KnowsCodes(p, h) ==
    /\ pc[p] = "deleteOld" => OnlyLive(h, job[p].old)
    /\ pc[p] \in {"deleteTracker", "setCode"} => OnlyLive(h, Nil)
    /\ pc[p] = "setCode" => tracker[h] = Nil
    /\ pc[p] = "setTracker" => OnlyLive(h, job[p].code)
    /\ pc[p] # "setTracker" => OnlyLive(h, told[h])

Alone(h) ==
    /\ \A p, q \in Procs : Serves(p, h) /\ Serves(q, h) => p = q
    /\ \A p \in Procs : Serves(p, h) => KnowsCodes(p, h)
    /\ ~Busy(h) => OnlyLive(h, tracker[h]) /\ OnlyLive(h, told[h])
    /\ h \notin renewed

AloneInv == \A h \in Holders \ crossed : Alone(h)

LEMMA AloneInit == Init => AloneInv
BY DEF Init, AloneInv, Alone, Serves, OnlyLive, Identity, NoOTP

(* A step that brings h no code, touches no request of h's, and leaves the *)
(* tracker alone or finds that it points nowhere.                          *)
LEMMA AloneStays ==
    ASSUME TypeInv, NEW h \in Holders, Alone(h),
           \A k \in Codes : otp'[k] = Identity(h) => otp[k] = Identity(h),
           \A q \in Procs : \/ pc'[q] = pc[q] /\ job'[q] = job[q]
                            \/ ~Serves(q, h) /\ ~Serves(q, h)',
           told'[h] = told[h],
           h \notin renewed',
           tracker'[h] \in {tracker[h], Nil},
           (tracker'[h] # tracker[h] /\ ~Busy(h)) => OnlyLive(h, Nil)
    PROVE  Alone(h)'
<1>1. \A q \in Procs : Serves(q, h)' <=> Serves(q, h)
    BY DEF Serves, Holder
<1>2. \A x : OnlyLive(h, x) => \A k \in Codes : otp'[k] = Identity(h) => k = x
    BY DEF OnlyLive
<1>3. ASSUME NEW p \in Procs, Serves(p, h)' PROVE KnowsCodes(p, h)'
    <2>1. Serves(p, h) /\ pc'[p] = pc[p] /\ job'[p] = job[p] /\ KnowsCodes(p, h)
        BY <1>1, <1>3 DEF Alone
    <2> QED
        BY <1>2, <2>1 DEF KnowsCodes, OnlyLive
<1>4. ASSUME ~Busy(h)' PROVE (OnlyLive(h, tracker[h]) /\ OnlyLive(h, told[h]))'
    <2>1. ~Busy(h)
        BY <1>1, <1>4 DEF Busy, Serves
    <2>2. OnlyLive(h, tracker[h]) /\ OnlyLive(h, told[h])
        BY <2>1 DEF Alone
    <2> QED
        BY <1>2, <2>1, <2>2, NilIsApart DEF OnlyLive
<1> QED
    BY <1>1, <1>3, <1>4 DEF Alone

(* A step of the only request h has.                                       *)
LEMMA AloneMoves ==
    ASSUME NEW h \in Holders, Alone(h), NEW p \in Procs,
           \A q \in Procs : Serves(q, h) => q = p,
           \A q \in Procs \ {p} : pc'[q] = pc[q] /\ job'[q] = job[q],
           h \notin renewed',
           Serves(p, h)' => KnowsCodes(p, h)',
           ~Serves(p, h)' => (OnlyLive(h, tracker[h]) /\ OnlyLive(h, told[h]))'
    PROVE  Alone(h)'
<1>1. \A q \in Procs : Serves(q, h)' => q = p
    BY DEF Serves, Holder
<1>2. ~Busy(h)' => ~Serves(p, h)'
    BY DEF Busy, Serves
<1> QED
    BY <1>1, <1>2 DEF Alone

LEMMA AloneStep == ASSUME TypeInv, AloneInv, [Next]_vars PROVE AloneInv'
<1> USE DEF TypeInv, TypeOK, JobsOK
<1> SUFFICES ASSUME NEW h \in Holders, h \notin crossed' PROVE Alone(h)'
    BY DEF AloneInv
<1> DEFINE Same(q) == pc'[q] = pc[q] /\ job'[q] = job[q]
<1>a. crossed \subseteq crossed' => Alone(h)
    BY DEF AloneInv
<1>1. ASSUME NEW p \in Procs, RequestIdentityOTP(p) PROVE Alone(h)'
    <2>1. PICK g \in Holders, old \in Codes \cup {Nil} : Requested(p, g, old)
        BY <1>1, RequestStep
    <2>2. Alone(h) /\ h \notin renewed' /\ \A q \in Procs \ {p} : Same(q)
        BY <1>a, <2>1 DEF Requested, Alone, drawVars
    <2>3. pc[p] = "idle" /\ Holder(p)' = g /\ job'[p].old = old
        BY <2>1, RequestJobFields DEF Requested, Holder
    <2>4. CASE g = h
        <3>1. ~Busy(h) /\ old = tracker[h]
            BY <2>1, <2>4 DEF Requested
        <3>2. OnlyLive(h, tracker[h]) /\ OnlyLive(h, told[h])
            BY <2>2, <3>1 DEF Alone
        <3>3. \A q \in Procs : ~Serves(q, h)
            BY <3>1 DEF Busy, Serves
        <3>4. pc'[p] = IF old = Nil THEN "setCode" ELSE "deleteOld"
            BY <2>1 DEF Requested
        <3>5. KnowsCodes(p, h)' /\ Serves(p, h)'
            BY <2>1, <2>3, <2>4, <3>1, <3>2, <3>4
               DEF Requested, KnowsCodes, OnlyLive, Serves
        <3> QED
            BY <2>2, <3>3, <3>5, AloneMoves
    <2>5. CASE g # h
        <3>1. ~Serves(p, h) /\ ~Serves(p, h)'
            BY <2>3, <2>5 DEF Serves
        <3> QED
            BY <2>1, <2>2, <3>1, AloneStays DEF Requested, TypeInv
    <2> QED
        BY <2>4, <2>5
<1>2. ASSUME NEW p \in Procs, DeleteOld(p) PROVE Alone(h)'
    <2>1. /\ Alone(h) /\ Holder(p)' = Holder(p) /\ pc'[p] = "deleteTracker"
          /\ h \notin renewed'
          /\ \A q \in Procs \ {p} : Same(q)
        BY <1>2, <1>a
           DEF DeleteOld, GotoWith, Fail, Succeed, Cross, Holder, Alone, drawVars
    <2>2. \A k \in Codes : otp'[k] = Identity(h) => otp[k] = Identity(h)
        BY <1>2 DEF DeleteOld, Delete, Identity, NoOTP
    <2>3. CASE Holder(p) = h
        <3>1. Serves(p, h) /\ OnlyLive(h, job[p].old) /\ OnlyLive(h, told[h])
            BY <1>2, <2>1, <2>3 DEF DeleteOld, Serves, Alone, KnowsCodes
        <3>2. otp' = [otp EXCEPT ![job[p].old] = NoOTP]
            BY <1>2, <2>3 DEF DeleteOld, Delete, Fail, Cross
        <3>3. OnlyLive(h, Nil)'
            BY <1>2, <2>2, <3>1, <3>2 DEF DeleteOld, OnlyLive, Identity, NoOTP
        <3>4. KnowsCodes(p, h)' /\ Serves(p, h)'
            BY <1>2, <2>1, <2>2, <2>3, <3>1, <3>3
               DEF DeleteOld, KnowsCodes, OnlyLive, Serves
        <3>5. \A q \in Procs : Serves(q, h) => q = p
            BY <2>1, <3>1 DEF Alone
        <3> QED
            BY <2>1, <3>4, <3>5, AloneMoves
    <2>4. CASE Holder(p) # h
        <3>1. ~Serves(p, h) /\ ~Serves(p, h)'
            BY <2>1, <2>4 DEF Serves
        <3> QED
            BY <1>2, <2>1, <2>2, <3>1, AloneStays DEF DeleteOld
    <2> QED
        BY <2>3, <2>4
<1>3. ASSUME NEW p \in Procs, DeleteTracker(p) PROVE Alone(h)'
    <2>0. Alone(h) /\ renewed' \subseteq renewed
        BY <1>3, <1>a DEF DeleteTracker, Fail, Succeed, Cross, Track
    <2>1. /\ Alone(h) /\ Holder(p)' = Holder(p) /\ pc'[p] = "setCode"
          /\ h \notin renewed'
          /\ \A q \in Procs \ {p} : Same(q)
        BY <1>3, <2>0 DEF DeleteTracker, GotoWith, Holder, Alone
    <2>2. CASE Holder(p) = h
        <3>1. Serves(p, h) /\ OnlyLive(h, Nil) /\ OnlyLive(h, told[h])
            BY <1>3, <2>1, <2>2 DEF DeleteTracker, Serves, Alone, KnowsCodes
        <3>1a. tracker'[h] = Nil
            BY <1>3, <2>2 DEF DeleteTracker, Track, TrackerKey, Fail, Cross
        <3>2. KnowsCodes(p, h)' /\ Serves(p, h)'
            BY <1>3, <2>1, <2>2, <3>1, <3>1a
               DEF DeleteTracker, KnowsCodes, OnlyLive, Serves
        <3>3. \A q \in Procs : Serves(q, h) => q = p
            BY <2>1, <3>1 DEF Alone
        <3> QED
            BY <2>1, <3>2, <3>3, AloneMoves
    <2>3. CASE Holder(p) # h
        <3>1. ~Serves(p, h) /\ ~Serves(p, h)'
            BY <2>1, <2>3 DEF Serves
        <3>2. tracker'[h] = tracker[h]
            BY <1>3, <2>3 DEF DeleteTracker, Track, TrackerKey
        <3> QED
            BY <1>3, <2>1, <3>1, <3>2, AloneStays DEF DeleteTracker
    <2> QED
        BY <2>2, <2>3
<1>4. ASSUME NEW p \in Procs, SetCode(p) PROVE Alone(h)'
    <2>1. /\ Alone(h) /\ pc[p] = "setCode" /\ told' = told /\ tracker' = tracker
          /\ \A q \in Procs \ {p} : Same(q)
        BY <1>4, <1>a DEF SetCode, GotoWith, Fail, Succeed, Cross
    <2>2. CASE \E k \in Codes :
                 /\ otp' = [otp EXCEPT ![k] = Identity(Holder(p))]
                 /\ renewed' = IF tracker[Holder(p)] = k
                               THEN renewed \cup {Holder(p)} ELSE renewed
                 /\ GotoWith(p, "setTracker", [job[p] EXCEPT !.code = k])
        <3>1. PICK k \in Codes :
                 /\ otp' = [otp EXCEPT ![k] = Identity(Holder(p))]
                 /\ renewed' = IF tracker[Holder(p)] = k
                               THEN renewed \cup {Holder(p)} ELSE renewed
                 /\ GotoWith(p, "setTracker", [job[p] EXCEPT !.code = k])
            BY <2>2
        <3>2. /\ pc'[p] = "setTracker" /\ job'[p].code = k
              /\ Holder(p)' = Holder(p)
            BY <3>1 DEF GotoWith, Holder, Job
        <3>3. CASE Holder(p) = h
            <4>1. Serves(p, h) /\ OnlyLive(h, Nil) /\ tracker[h] = Nil
                BY <2>1, <3>3 DEF Serves, Alone, KnowsCodes
            <4>1a. h \notin renewed'
                BY <2>1, <3>1, <3>3, <4>1, NilIsApart DEF Alone
            <4>2. OnlyLive(h, k)'
                BY <3>1, <4>1, NilIsApart DEF OnlyLive
            <4>3. KnowsCodes(p, h)' /\ Serves(p, h)'
                BY <3>2, <3>3, <4>2 DEF KnowsCodes, OnlyLive, Serves
            <4>4. \A q \in Procs : Serves(q, h) => q = p
                BY <2>1, <4>1 DEF Alone
            <4> QED
                BY <2>1, <4>1a, <4>3, <4>4, AloneMoves
        <3>4. CASE Holder(p) # h
            <4>1. ~Serves(p, h) /\ ~Serves(p, h)'
                BY <3>2, <3>4 DEF Serves
            <4>2. \A j \in Codes : otp'[j] = Identity(h) => otp[j] = Identity(h)
                BY <3>1, <3>4 DEF Identity
            <4>3. h \notin renewed'
                BY <2>1, <3>1, <3>4 DEF Alone
            <4> QED
                BY <2>1, <4>1, <4>2, <4>3, AloneStays DEF TypeInv
        <3> QED
            BY <3>3, <3>4
    <2>3. CASE /\ GotoWith(p, "idle", NoJob) /\ Fail(Holder(p))
               /\ UNCHANGED <<otp, renewed>>
        <3>1. Holder(p) # h
            BY <2>3 DEF Fail, Cross
        <3>2. ~Serves(p, h) /\ ~Serves(p, h)'
            BY <2>3, <3>1 DEF GotoWith, Serves
        <3> QED
            BY <2>1, <2>3, <3>2, AloneStays DEF Alone
    <2> QED
        BY <1>4, <2>2, <2>3 DEF SetCode
<1>5. ASSUME NEW p \in Procs, SetTracker(p) PROVE Alone(h)'
    <2>0. Alone(h) /\ renewed' \subseteq renewed
        BY <1>5, <1>a DEF SetTracker, Fail, Succeed, Cross, Track
    <2>1. /\ Alone(h) /\ pc[p] = "setTracker" /\ pc'[p] = "idle" /\ otp' = otp
          /\ h \notin renewed'
          /\ \A q \in Procs \ {p} : Same(q)
        BY <1>5, <2>0 DEF SetTracker, GotoWith, Alone
    <2>2. CASE Holder(p) = h
        <3>1. Serves(p, h) /\ OnlyLive(h, job[p].code)
            BY <2>1, <2>2 DEF Serves, Alone, KnowsCodes
        <3>2. tracker'[h] = job[p].code /\ told'[h] = job[p].code
            BY <1>5, <2>2 DEF SetTracker, Track, TrackerKey, Fail, Cross
        <3>3. (OnlyLive(h, tracker[h]) /\ OnlyLive(h, told[h]))'
            BY <2>1, <3>1, <3>2 DEF OnlyLive
        <3>4. ~Serves(p, h)'
            BY <2>1 DEF Serves
        <3>5. \A q \in Procs : Serves(q, h) => q = p
            BY <2>1, <3>1 DEF Alone
        <3> QED
            BY <2>1, <3>3, <3>4, <3>5, AloneMoves
    <2>3. CASE Holder(p) # h
        <3>1. ~Serves(p, h) /\ ~Serves(p, h)'
            BY <2>1, <2>3 DEF Serves
        <3>2. tracker'[h] = tracker[h] /\ told'[h] = told[h]
            BY <1>5, <2>3 DEF SetTracker, Track, TrackerKey
        <3> QED
            BY <2>1, <3>1, <3>2, AloneStays
    <2> QED
        BY <2>2, <2>3
<1>6. ASSUME NEW g \in Holders, IssueOther(g) PROVE Alone(h)'
    <2>1. \A k \in Codes : otp'[k] = Identity(h) => otp[k] = Identity(h)
        BY <1>6 DEF IssueOther, Identity
    <2> QED
        BY <1>6, <1>a, <2>1, AloneStays DEF IssueOther, Alone
<1>7. ASSUME NEW g \in Holders, ExpireTracker(g) PROVE Alone(h)'
    <2>1. Alone(h) /\ h \notin renewed /\ h \notin renewed'
        BY <1>7, <1>a DEF ExpireTracker, Alone
    <2>2. (tracker'[h] # tracker[h] /\ ~Busy(h)) => OnlyLive(h, Nil)
        <3>1. SUFFICES ASSUME tracker'[h] # tracker[h], ~Busy(h)
                       PROVE  OnlyLive(h, Nil)
            OBVIOUS
        <3>2. otp[tracker[h]] # Identity(h)
            BY <1>7, <2>1, <3>1 DEF ExpireTracker
        <3>3. OnlyLive(h, tracker[h])
            BY <2>1, <3>1 DEF Alone
        <3> QED
            BY <3>2, <3>3 DEF OnlyLive
    <2> QED
        BY <1>7, <2>1, <2>2, AloneStays DEF ExpireTracker
<1>8. ASSUME NEW k \in Codes, ConsumeOTP(k) \/ ExpireOTP(k) PROVE Alone(h)'
    <2>1. \A j \in Codes : otp'[j] = Identity(h) => otp[j] = Identity(h)
        BY <1>8 DEF ConsumeOTP, ExpireOTP, Delete, Identity, NoOTP
    <2> QED
        BY <1>8, <1>a, <2>1, AloneStays DEF ConsumeOTP, ExpireOTP, Alone, drawVars
<1>9. ASSUME UNCHANGED vars PROVE Alone(h)'
    BY <1>9, <1>a, AloneStays DEF vars, Alone
<1> QED
    BY <1>1, <1>2, <1>3, <1>4, <1>5, <1>6, <1>7, <1>8, <1>9 DEF Next, Quiescent

(* RequestIdentityOTP replaces the code before: unless requests of one     *)
(* client for one program overlapped, or a call of one failed, the only    *)
(* identity code that works is the one just drawn or the one told last.    *)
THEOREM OldCodesCorrect == Spec => []OldCodesAreDead
<1>1. Spec => [](TypeInv /\ AloneInv)
    BY TypeInit, TypeStep, AloneInit, AloneStep, PTL DEF Spec
<1>2. TypeInv /\ AloneInv => OldCodesAreDead
    <2> SUFFICES ASSUME AloneInv, NEW h \in Holders \ crossed
                 PROVE  LET drawing == {job[p].code : p \in {q \in Procs :
                                           pc[q] = "setTracker" /\ Holder(q) = h}}
                        IN \/ LiveCodes(h) \subseteq drawing
                           \/ drawing = {} /\ LiveCodes(h) \subseteq {told[h]}
        BY DEF OldCodesAreDead
    <2> DEFINE drawing == {job[p].code : p \in {q \in Procs :
                               pc[q] = "setTracker" /\ Holder(q) = h}}
    <2>1. Alone(h)
        BY DEF AloneInv
    <2>2. ASSUME NEW p \in Procs, pc[p] = "setTracker", Holder(p) = h
          PROVE  LiveCodes(h) \subseteq drawing
        BY <2>1, <2>2 DEF Alone, Serves, KnowsCodes, OnlyLive, LiveCodes
    <2>3. ASSUME \A p \in Procs : ~(pc[p] = "setTracker" /\ Holder(p) = h)
          PROVE  drawing = {} /\ LiveCodes(h) \subseteq {told[h]}
        <3>1. OnlyLive(h, told[h])
            BY <2>1, <2>3 DEF Alone, Busy, Serves, KnowsCodes
        <3> QED
            BY <2>3, <3>1 DEF OnlyLive, LiveCodes
    <2> QED
        BY <2>2, <2>3
<1> QED
    BY <1>1, <1>2, PTL

=============================================================================
