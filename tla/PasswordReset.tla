---------------------------- MODULE PasswordReset ----------------------------
(***************************************************************************)
(* "Forgot my password" of internal/admin: a link with a token is mailed   *)
(* to the admin who asks for it, and whoever has the link sets a password. *)
(* A request takes one step per statement; ConsumePasswordReset is a       *)
(* transaction whose first statement locks the row of the admin, and what  *)
(* it writes shows when it commits.  Every statement, and the mail, can    *)
(* fail.  A password stands for the request that set it.                   *)
(***************************************************************************)
EXTENDS RateLimiter

CONSTANTS
    Admins, Addresses, Tokens, IPs, Procs,
    Lower,          \* an address in lower case
    AddressOf,      \* the address each admin registered with
    Nil,            \* no token, no admin
    ResetTokenTTL,
    ForgotLimit, ResetLimit,
    MaxTime,        \* bound: the clock
    MaxFailures     \* bound: failing statements and mails in a behaviour

ASSUME ResetAssumption ==
    /\ Lower \in [Addresses -> Addresses]
    /\ AddressOf \in [Admins -> Addresses]
    /\ \A a, b \in Admins : AddressOf[a] = AddressOf[b] => a = b   \* UNIQUE
    /\ Nil \notin Tokens \cup Admins
    /\ {ResetTokenTTL, ForgotLimit, ResetLimit} \subseteq Nat \ {0}
    /\ {MaxTime, MaxFailures} \subseteq Nat

VARIABLES
    tokens,      \* table password_reset_tokens
    forgotLimit, resetLimit,
    pc,          \* where each request is
    job,         \* what each request holds
    clock,
    failures,    \* statements and mails that have failed
    mailed,      \* history: tokens whose link may be in a mailbox
    allowed,     \* history: the calls each limiter has allowed in the window
                 \* that ends now, by key
    uses,        \* history: passwords set with each token
    spent,       \* history: tokens a reset that succeeded found
    overlapped   \* history: tokens two requests held at a time

vars == <<tokens, forgotLimit, resetLimit, pc, job, clock, failures,
          mailed, allowed, uses, spent, overlapped>>

limiters == <<forgotLimit, resetLimit, allowed>>
history == <<mailed, uses, spent, overlapped>>

-----------------------------------------------------------------------------
(* Values *)

NoToken == [admin |-> Nil, expiresAt |-> 0, used |-> FALSE]

PasswordResetToken == [admin : Admins \cup {Nil}, expiresAt : Nat, used : BOOLEAN]

NoJob == [admin |-> Nil, token |-> Nil, marked |-> {}, found |-> {}]

Job == [admin : Admins \cup {Nil}, token : Tokens \cup {Nil},
        marked : SUBSET Tokens, found : SUBSET Tokens]

PCs == {"idle", "createToken", "send", "getToken", "updatePassword",
        "markUsed", "invalidateOthers", "commit"}

GotoWith(p, step, j) == /\ pc' = [pc EXCEPT ![p] = step]
                        /\ job' = [job EXCEPT ![p] = j]

Finish(p) == GotoWith(p, "idle", NoJob)

Fail == /\ failures < MaxFailures
        /\ failures' = failures + 1

Rows(a) == {t \in Tokens : tokens[t].admin = a}

InTx == {"markUsed", "invalidateOthers", "commit"}

(* The row lock on an admin. *)
Locked(a) == \E q \in Procs : pc[q] \in InTx /\ job[q].admin = a

-----------------------------------------------------------------------------
(* ForgotPassword *)

Requester(email) == {a \in Admins : AddressOf[a] = email}

(* The address is lower-cased before it is counted and looked up. *)
ForgotPassword(p) ==
    \E typed \in Addresses :
        LET email == Lower[typed]
            ok == Allows(forgotLimit, email, ForgotLimit, clock)
        IN /\ pc[p] = "idle"
           /\ forgotLimit' = AfterAllow(forgotLimit, email, ForgotLimit, clock)
           /\ IF ok
              THEN allowed' = [allowed EXCEPT !.forgot[email] = Appended(@, clock)]
              ELSE UNCHANGED allowed
           /\ IF ok /\ Requester(email) # {}
              THEN \E a \in Requester(email) :
                     GotoWith(p, "createToken", [NoJob EXCEPT !.admin = a])
              ELSE UNCHANGED <<pc, job>>
           /\ UNCHANGED <<tokens, resetLimit, clock, failures, history>>

CreatePasswordResetToken(p) ==
    /\ pc[p] = "createToken"
    /\ \/ \E t \in Tokens :
            /\ tokens[t] = NoToken
            /\ tokens' = [tokens EXCEPT ![t] = [admin |-> job[p].admin,
                             expiresAt |-> clock + ResetTokenTTL, used |-> FALSE]]
            /\ GotoWith(p, "send", [job[p] EXCEPT !.token = t])
            /\ UNCHANGED failures
       \/ Fail /\ Finish(p) /\ UNCHANGED tokens
       \/ /\ NoToken \notin {tokens[t] : t \in Tokens}   \* bound: no token left
          /\ Finish(p)
          /\ UNCHANGED <<tokens, failures>>
    /\ UNCHANGED <<limiters, clock, history>>

(* A mail that is reported as failed may have left all the same. *)
Send(p) ==
    /\ pc[p] = "send"
    /\ \/ mailed' = mailed \cup {job[p].token} /\ UNCHANGED failures
       \/ mailed' \in {mailed, mailed \cup {job[p].token}} /\ Fail
    /\ Finish(p)
    /\ UNCHANGED <<tokens, limiters, clock, uses, spent, overlapped>>

-----------------------------------------------------------------------------
(* ResetPassword *)

(* The limiter comes first, then the length of the password. *)
ResetPassword(p) ==
    \E ip \in IPs, t \in mailed, tooShort \in BOOLEAN :
        LET ok == Allows(resetLimit, ip, ResetLimit, clock)
        IN /\ pc[p] = "idle"
           /\ resetLimit' = AfterAllow(resetLimit, ip, ResetLimit, clock)
           /\ IF ok
              THEN allowed' = [allowed EXCEPT !.reset[ip] = Appended(@, clock)]
              ELSE UNCHANGED allowed
           /\ IF ok /\ ~tooShort
              THEN GotoWith(p, "getToken", [NoJob EXCEPT !.token = t])
              ELSE UNCHANGED <<pc, job>>
           /\ UNCHANGED <<tokens, forgotLimit, clock, failures, history>>

(* Faulty variant: used_at is not looked at. *)
UsableWhileFresh(t) == clock <= tokens[t].expiresAt

Usable(t) == ~tokens[t].used /\ clock <= tokens[t].expiresAt

HeldBy(q, t) == pc[q] \in InTx \cup {"updatePassword"} /\ job[q].token = t

GetPasswordResetToken(p) ==
    LET t == job[p].token
    IN /\ pc[p] = "getToken"
       /\ \/ /\ Usable(t)
             /\ GotoWith(p, "updatePassword", [job[p] EXCEPT !.admin = tokens[t].admin])
             /\ overlapped' = IF \E q \in Procs : HeldBy(q, t)
                              THEN overlapped \cup {t} ELSE overlapped
             /\ UNCHANGED failures
          \/ ~Usable(t) /\ Finish(p) /\ UNCHANGED <<overlapped, failures>>
          \/ Fail /\ Finish(p) /\ UNCHANGED overlapped
       /\ UNCHANGED <<tokens, limiters, clock, mailed, uses, spent>>

(* BEGIN; UPDATE admins waits for the lock of the row. *)
UpdatePassword(p) ==
    /\ pc[p] = "updatePassword"
    /\ \/ /\ ~Locked(job[p].admin)
          /\ GotoWith(p, "markUsed", [job[p] EXCEPT !.found = Rows(job[p].admin)])
          /\ UNCHANGED failures
       \/ Fail /\ Finish(p)
    /\ UNCHANGED <<tokens, limiters, clock, history>>

(* Whatever used_at says by now. *)
MarkUsed(p) ==
    /\ pc[p] = "markUsed"
    /\ \/ /\ GotoWith(p, "invalidateOthers", [job[p] EXCEPT !.marked = {job[p].token}])
          /\ UNCHANGED failures
       \/ Fail /\ Finish(p)
    /\ UNCHANGED <<tokens, limiters, clock, history>>

(* Faulty variant: the other links are left as they are. *)
NoOthers(j) == {}

Others(j) == {t \in Rows(j.admin) \ {j.token} : ~tokens[t].used}

InvalidateOthers(p) ==
    /\ pc[p] = "invalidateOthers"
    /\ \/ /\ GotoWith(p, "commit", [job[p] EXCEPT !.marked = @ \cup Others(job[p])])
          /\ UNCHANGED failures
       \/ Fail /\ Finish(p)
    /\ UNCHANGED <<tokens, limiters, clock, history>>

(* Faulty variant: the row is marked with nothing. *)
KeepUnused(row) == row

Used(row) == [row EXCEPT !.used = TRUE]

Commit(p) ==
    /\ pc[p] = "commit"
    /\ \/ /\ tokens' = [t \in Tokens |-> IF t \in job[p].marked THEN Used(tokens[t])
                                         ELSE tokens[t]]
          /\ uses' = [uses EXCEPT ![job[p].token] = @ + 1]
          /\ spent' = spent \cup job[p].found
          /\ UNCHANGED failures
       \/ Fail /\ UNCHANGED <<tokens, uses, spent>>
    /\ Finish(p)
    /\ UNCHANGED <<limiters, clock, mailed, overlapped>>

-----------------------------------------------------------------------------
(* Time passes between statements too. *)
Tick == /\ clock < MaxTime
        /\ clock' = clock + 1
        /\ allowed' = [forgot |-> [e \in Addresses |-> Kept(allowed.forgot[e], clock')],
                       reset |-> [i \in IPs |-> Kept(allowed.reset[i], clock')]]
        /\ UNCHANGED <<tokens, forgotLimit, resetLimit, pc, job, failures, history>>

Quiescent == /\ \A p \in Procs : pc[p] = "idle"
             /\ UNCHANGED vars

Init == /\ tokens = [t \in Tokens |-> NoToken]
        /\ forgotLimit = NewMemoryRateLimiter
        /\ resetLimit = NewMemoryRateLimiter
        /\ pc = [p \in Procs |-> "idle"]
        /\ job = [p \in Procs |-> NoJob]
        /\ clock = 0
        /\ failures = 0
        /\ mailed = {}
        /\ allowed = [forgot |-> [e \in Addresses |-> {}], reset |-> [i \in IPs |-> {}]]
        /\ uses = [t \in Tokens |-> 0]
        /\ spent = {}
        /\ overlapped = {}

Next == \/ \E p \in Procs : \/ ForgotPassword(p)
                            \/ CreatePasswordResetToken(p)
                            \/ Send(p)
                            \/ ResetPassword(p)
                            \/ GetPasswordResetToken(p)
                            \/ UpdatePassword(p)
                            \/ MarkUsed(p)
                            \/ InvalidateOthers(p)
                            \/ Commit(p)
        \/ Tick
        \/ Quiescent

Spec == Init /\ [][Next]_vars

-----------------------------------------------------------------------------
(* Properties *)

Times == 0..MaxTime

TypeOK ==
    /\ tokens \in [Tokens -> PasswordResetToken]
    /\ IsLimiter(forgotLimit, Addresses, Times)
    /\ IsLimiter(resetLimit, IPs, Times)
    /\ pc \in [Procs -> PCs]
    /\ job \in [Procs -> Job]
    /\ clock \in Times
    /\ failures \in 0..MaxFailures
    /\ mailed \subseteq Tokens
    /\ allowed \in [forgot : [Addresses -> SUBSET Hit(Times)],
                   reset : [IPs -> SUBSET Hit(Times)]]
    /\ uses \in [Tokens -> Nat]
    /\ {spent, overlapped} \subseteq SUBSET Tokens

(* A reset that succeeds ends every link that existed when it began: the   *)
(* one it used, older ones that were never followed, and those another     *)
(* request is about to follow.                                             *)
EarlierLinksAreDead == \A t \in spent : tokens[t].used

(* A link sets a second password only when the two requests had both found *)
(* it unused before either was done.                                       *)
UsedTwiceOnlyByOverlap == \A t \in Tokens : uses[t] > 1 => t \in overlapped

(* No window holds more than the limit of allowed calls of one key, *)
(* whatever the limiter forgot on the way.                          *)
NoBurstBeyondLimit ==
    /\ \A e \in Addresses : Cardinality(allowed.forgot[e]) <= ForgotLimit
    /\ \A i \in IPs : Cardinality(allowed.reset[i]) <= ResetLimit

(* Pruning and sweeping cost no key a hit that still counts, and keep none *)
(* that was not allowed: nobody is refused for calls of another key, or    *)
(* for calls that were themselves refused.                                 *)
LiveHitsAreRemembered ==
    /\ \A e \in Addresses : Kept(HitsOf(forgotLimit, e), clock) = allowed.forgot[e]
    /\ \A i \in IPs : Kept(HitsOf(resetLimit, i), clock) = allowed.reset[i]

-----------------------------------------------------------------------------
(* What the documents say and the code does not do *)

(* migrations/000024: "Tokens de un solo uso".  used_at is looked at before *)
(* the transaction, and marked in it whatever it says by then.             *)
LinkIsUsedOnce == \A t \in Tokens : uses[t] <= 1

=============================================================================
