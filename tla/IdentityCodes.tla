---------------------------- MODULE IdentityCodes ----------------------------
(***************************************************************************)
(* The codes in Redis that programs and employees share: otp:{code} of     *)
(* internal/modules/earnburn and internal/modules/cashback, and for each   *)
(* program the tracker of a client's active identity code (otp:active:,    *)
(* cb:identity:).                                                          *)
(*                                                                         *)
(* A client shows an identity code, which may be used many times; asking   *)
(* for a new one is to invalidate the one before.  The programs keep       *)
(* trackers of their own and draw from one space of codes, at random, with *)
(* replacement and without asking whether a code is in use.  A request     *)
(* takes one step per Redis call; calls whose error nobody looks at may    *)
(* fail.                                                                   *)
(***************************************************************************)
EXTENDS Naturals, FiniteSets

CONSTANTS
    Programs,     \* the programs that identify clients by code
    Clients,      \* their clients
    Codes,        \* codes generateCode may draw
    Procs,        \* goroutines handling messages at the same time
    Nil,          \* no code, no client
    MaxFailures,  \* bound: failing Redis calls in a behaviour
    MaxDraws      \* bound: codes drawn in a behaviour

ASSUME CodesAssumption == /\ Nil \notin Codes \cup Clients
                          /\ {MaxFailures, MaxDraws} \subseteq Nat

VARIABLES
    otp,       \* otp:{code}
    tracker,   \* the active identity code of a client of a program
    pc,        \* where each request is
    job,       \* what each request holds
    renewed,   \* holders whose tracked code was set again after the tracker
    draws,     \* codes drawn so far
    failures,  \* Redis calls that have failed
    told,      \* history: the code each client was told last
    drawnFor,  \* history: the holders each code was an identity code of
    crossed    \* history: clients two of whose requests overlapped, or one of
               \* whose calls failed

vars == <<otp, tracker, pc, job, renewed, draws, failures, told, drawnFor, crossed>>

drawVars == <<renewed, draws, drawnFor>>

-----------------------------------------------------------------------------
(* Values *)

Holders == Programs \X Clients

NoOTP == [type |-> "none", holder |-> Nil]

(* Redemption and load codes are codes another handler consumes. *)
OTPData == [type : {"identity", "other"}, holder : Holders]

Identity(h) == [type |-> "identity", holder |-> h]

NoJob == [holder |-> Nil, old |-> Nil, code |-> Nil]

Job == [holder : Holders \cup {Nil}, old : Codes \cup {Nil},
        code : Codes \cup {Nil}]

PCs == {"idle", "deleteOld", "deleteTracker", "setCode", "setTracker"}

GotoWith(p, step, j) == /\ pc' = [pc EXCEPT ![p] = step]
                        /\ job' = [job EXCEPT ![p] = j]

Holder(p) == job[p].holder

Cross(h) == crossed' = crossed \cup {h}

(* A call of the handler fails. *)
Fail(h) == /\ failures < MaxFailures
           /\ failures' = failures + 1
           /\ Cross(h)

Succeed == UNCHANGED <<failures, crossed>>

-----------------------------------------------------------------------------
(* RequestIdentityOTP *)

Busy(h) == \E q \in Procs : pc[q] # "idle" /\ Holder(q) = h

(* Bound: a request begins when it may draw a code. *)
DrawsLeft == draws + Cardinality({q \in Procs : pc[q] # "idle"}) < MaxDraws

(* Faulty variant: the programs track a client under one key. *)
ClientKey(h) == CHOOSE g \in Holders : g[2] = h[2]

(* activeIdentityKey, cbActiveIdentityKey *)
TrackerKey(h) == h

Track(h, k) == /\ tracker' = [tracker EXCEPT ![TrackerKey(h)] = k]
               /\ renewed' = renewed \ {TrackerKey(h)}

(* GetActiveIdentity; a failing one counts as no code. *)
RequestIdentityOTP(p) ==
    \E h \in Holders : \E old \in {tracker[TrackerKey(h)], Nil} :
        /\ pc[p] = "idle" /\ DrawsLeft
        /\ GotoWith(p, IF old = Nil THEN "setCode" ELSE "deleteOld",
                    [NoJob EXCEPT !.holder = h, !.old = old])
        /\ IF old # tracker[TrackerKey(h)] THEN Fail(h)
           ELSE /\ IF Busy(h) THEN Cross(h) ELSE UNCHANGED crossed
                /\ UNCHANGED failures
        /\ UNCHANGED <<otp, tracker, drawVars, told>>

(* Faulty variant: the old code is left to lapse. *)
LeaveOld(k) == UNCHANGED otp

(* DeleteOTP *)
Delete(k) == otp' = [otp EXCEPT ![k] = NoOTP]

DeleteOld(p) ==
    /\ pc[p] = "deleteOld"
    /\ \/ Delete(job[p].old) /\ Succeed
       \/ UNCHANGED otp /\ Fail(Holder(p))
    /\ GotoWith(p, "deleteTracker", job[p])
    /\ UNCHANGED <<tracker, drawVars, told>>

DeleteTracker(p) ==
    /\ pc[p] = "deleteTracker"
    /\ \/ Track(Holder(p), Nil) /\ Succeed
       \/ UNCHANGED <<tracker, renewed>> /\ Fail(Holder(p))
    /\ GotoWith(p, "setCode", job[p])
    /\ UNCHANGED <<otp, draws, drawnFor, told>>

(* generateCode takes any code, and SetOTP overwrites what it was for; when *)
(* it fails the client is told so.                                          *)
SetCode(p) ==
    LET h == Holder(p)
    IN
    /\ pc[p] = "setCode"
    /\ \/ \E k \in Codes :
            /\ otp' = [otp EXCEPT ![k] = Identity(h)]
            /\ renewed' = IF tracker[h] = k THEN renewed \cup {h} ELSE renewed
            /\ drawnFor' = [drawnFor EXCEPT ![k] = @ \cup {h}]
            /\ GotoWith(p, "setTracker", [job[p] EXCEPT !.code = k])
            /\ Succeed
       \/ /\ GotoWith(p, "idle", NoJob)
          /\ Fail(h)
          /\ UNCHANGED <<otp, renewed, drawnFor>>
    /\ draws' = draws + 1
    /\ UNCHANGED <<tracker, told>>

(* SetActiveIdentity, whose error is logged, and the answer. *)
SetTracker(p) ==
    /\ pc[p] = "setTracker"
    /\ \/ Track(Holder(p), job[p].code) /\ Succeed
       \/ UNCHANGED <<tracker, renewed>> /\ Fail(Holder(p))
    /\ told' = [told EXCEPT ![Holder(p)] = job[p].code]
    /\ GotoWith(p, "idle", NoJob)
    /\ UNCHANGED <<otp, draws, drawnFor>>

-----------------------------------------------------------------------------
(* The rest of the key space *)

(* Redemption and load-points codes are drawn from the same codes. *)
IssueOther(h) ==
    /\ DrawsLeft
    /\ \E k \in Codes : otp' = [otp EXCEPT ![k] = [type |-> "other", holder |-> h]]
    /\ draws' = draws + 1
    /\ UNCHANGED <<tracker, pc, job, renewed, failures, told, drawnFor, crossed>>

(* ConfirmRedemption and ValidateLoadPointsCode take any code typed for what *)
(* they expect: GETDEL comes before the type is looked at.                   *)
ConsumeOTP(k) ==
    /\ otp[k] # NoOTP
    /\ Delete(k)
    /\ UNCHANGED <<tracker, pc, job, drawVars, failures, told, crossed>>

ExpireOTP(k) ==
    /\ otp[k] # NoOTP
    /\ otp' = [otp EXCEPT ![k] = NoOTP]
    /\ UNCHANGED <<tracker, pc, job, drawVars, failures, told, crossed>>

(* A tracker is set after its code and for as long, so it outlives it but  *)
(* where the code was drawn again.                                         *)
ExpireTracker(h) ==
    /\ tracker[h] # Nil
    /\ otp[tracker[h]] # Identity(h) \/ h \in renewed
    /\ tracker' = [tracker EXCEPT ![h] = Nil]
    /\ renewed' = renewed \ {h}
    /\ UNCHANGED <<otp, pc, job, draws, failures, told, drawnFor, crossed>>

Quiescent == /\ \A p \in Procs : pc[p] = "idle"
             /\ UNCHANGED vars

-----------------------------------------------------------------------------
Init == /\ otp = [k \in Codes |-> NoOTP]
        /\ tracker = [h \in Holders |-> Nil]
        /\ pc = [p \in Procs |-> "idle"]
        /\ job = [p \in Procs |-> NoJob]
        /\ renewed = {}
        /\ draws = 0
        /\ failures = 0
        /\ told = [h \in Holders |-> Nil]
        /\ drawnFor = [k \in Codes |-> {}]
        /\ crossed = {}

Next == \/ \E p \in Procs : \/ RequestIdentityOTP(p)
                            \/ DeleteOld(p)
                            \/ DeleteTracker(p)
                            \/ SetCode(p)
                            \/ SetTracker(p)
        \/ \E h \in Holders : IssueOther(h) \/ ExpireTracker(h)
        \/ \E k \in Codes : ConsumeOTP(k) \/ ExpireOTP(k)
        \/ Quiescent

Spec == Init /\ [][Next]_vars

-----------------------------------------------------------------------------
(* Properties *)

TypeOK ==
    /\ otp \in [Codes -> OTPData \cup {NoOTP}]
    /\ tracker \in [Holders -> Codes \cup {Nil}]
    /\ pc \in [Procs -> PCs]
    /\ job \in [Procs -> Job]
    /\ renewed \subseteq Holders
    /\ draws \in Nat
    /\ failures \in 0..MaxFailures
    /\ told \in [Holders -> Codes \cup {Nil}]
    /\ drawnFor \in [Codes -> SUBSET Holders]
    /\ crossed \subseteq Holders

LiveCodes(h) == {k \in Codes : otp[k] = Identity(h)}

(* What the trackers are for: as long as no two requests of a client for a *)
(* program overlapped and no Redis call of one failed, every identity code *)
(* that still works is the one just drawn or, once the request is over,    *)
(* the one the client was told last; codes shown before do not work.       *)
OldCodesAreDead ==
    \A h \in Holders \ crossed :
        LET drawing == {job[p].code : p \in {q \in Procs :
                            pc[q] = "setTracker" /\ Holder(q) = h}}
        IN \/ LiveCodes(h) \subseteq drawing
           \/ drawing = {} /\ LiveCodes(h) \subseteq {told[h]}

(* Whatever overlaps, lapses and fails, a tracker names a code that was     *)
(* drawn as an identity code of its own client for its own program.         *)
TrackedCodeWasDrawnForIt ==
    \A h \in Holders : tracker[h] # Nil => h \in drawnFor[tracker[h]]

(* A request deletes the code a tracker named some calls before.  What it   *)
(* takes away is a code that was drawn for its own client and program: when *)
(* it works for somebody else by then, or waits for a redemption or a load, *)
(* that is because it lapsed, was consumed or was overwritten, and has been *)
(* drawn again.                                                             *)
OthersLoseRedrawnCodesOnly ==
    [][\A p \in Procs : DeleteOld(p) =>
         \A k \in Codes : otp'[k] # otp[k] => Holder(p) \in drawnFor[k]]_vars

-----------------------------------------------------------------------------
(* What the documents say and the code does not do *)

(* earnburn/cache.go:32: the tracker "ensures only one identity OTP per    *)
(* client".  Two requests that overlap each draw one, and the tracker      *)
(* remembers the last: the other works until it lapses.                    *)
OneIdentityCode == \A h \in Holders : Cardinality(LiveCodes(h)) <= 1

-----------------------------------------------------------------------------
(* What nothing in the code rules out *)

(* A request takes away a code of its own client and program, or none.  A  *)
(* tracker outlives a code that was consumed; when the code is drawn for    *)
(* somebody else in the meantime, the next request deletes it.             *)
RequestKeepsOtherCodes ==
    [][\A p \in Procs : DeleteOld(p) =>
         \A k \in Codes : otp'[k] # otp[k] => otp[k] = Identity(Holder(p))]_vars

=============================================================================
