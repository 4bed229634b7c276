------------------------- MODULE PasswordResetProofs -------------------------
(***************************************************************************)
(* Proofs about reset links and the limiters before them: for any number   *)
(* of admins, addresses, links and requests, any limits, and whatever      *)
(* fails.  The links do not depend on the limiters: whatever those let     *)
(* through, the links stay as they are here.                               *)
(***************************************************************************)
EXTENDS PasswordReset, FiniteSetTheorems, TLAPS

-----------------------------------------------------------------------------
(* Types, and what each request knows about its link *)

(* The links that were created, and those that are used. *)
Issued == {t \in Tokens : tokens[t].admin \in Admins}

UsedTokens == {t \in Tokens : tokens[t].used}

HolderPCs == InTx \cup {"updatePassword"}

TokenPCs == HolderPCs \cup {"send", "getToken"}

(* The rows and the requests keep to what the code can write. *)
RowTypes ==
    /\ tokens \in [Tokens -> PasswordResetToken]
    /\ uses \in [Tokens -> Nat]
    /\ clock \in Nat
    /\ pc \in [Procs -> PCs]
    /\ job \in [Procs -> Job]
    /\ mailed \subseteq Issued
    /\ UsedTokens \subseteq Issued

(* A request at step s that holds j is about a link that was created, and  *)
(* a transaction has found links of its own admin: those it will not mark  *)
(* when it commits are used already.                                       *)
JobFits(s, j) ==
    /\ s = "createToken" => j.admin \in Admins
    /\ s \in TokenPCs => j.token \in Issued
    /\ s \in HolderPCs => tokens[j.token].admin = j.admin
    /\ s \in InTx => j.found \subseteq Rows(j.admin)
    /\ s \in {"invalidateOthers", "commit"} => j.token \in j.marked /\ j.marked \subseteq Issued
    /\ s = "commit" => j.found \subseteq j.marked \cup UsedTokens

JobsOK == \A p \in Procs : JobFits(pc[p], job[p])

TypeInv == RowTypes /\ JobsOK

(* How a step may change the links: it may create some and use others, and *)
(* no link changes hands.                                                  *)
LinksMove ==
    /\ tokens' \in [Tokens -> PasswordResetToken]
    /\ \A t \in Issued : tokens'[t].admin = tokens[t].admin
    /\ UsedTokens \subseteq UsedTokens'
    /\ UsedTokens' \subseteq Issued'

LEMMA NoJobType == NoJob \in Job /\ NoToken \in PasswordResetToken
BY DEF NoJob, Job, NoToken, PasswordResetToken

LEMMA IdleFits == ASSUME NEW j PROVE JobFits("idle", j)
BY DEF JobFits, TokenPCs, HolderPCs, InTx

LEMMA SameLinksMove ==
    ASSUME RowTypes, UNCHANGED tokens
    PROVE  LinksMove
BY DEF LinksMove, RowTypes, Issued, UsedTokens

LEMMA LinksStay ==
    ASSUME LinksMove
    PROVE  /\ Issued \subseteq Issued'
           /\ \A a \in Admins : Rows(a) \subseteq Rows(a)'
BY DEF LinksMove, Issued, Rows

(* What a request knows stays true while others create and use links. *)
LEMMA FitsMove ==
    ASSUME RowTypes, LinksMove, NEW s, NEW j, JobFits(s, j)
    PROVE  JobFits(s, j)'
<1>1. Issued \subseteq Issued' /\ UsedTokens \subseteq UsedTokens'
    BY LinksStay DEF LinksMove
<1>2. s \in TokenPCs => j.token \in Issued'
    BY <1>1 DEF JobFits
<1>3. s \in HolderPCs => tokens'[j.token].admin = j.admin /\ j.admin \in Admins
    BY DEF JobFits, LinksMove, TokenPCs, Issued
<1>4. s \in InTx => j.found \subseteq Rows(j.admin)'
    <2> SUFFICES ASSUME s \in InTx PROVE j.found \subseteq Rows(j.admin)'
        OBVIOUS
    <2>1. j.admin \in Admins /\ j.found \subseteq Rows(j.admin)
        BY <1>3 DEF HolderPCs, JobFits
    <2>2. PICK a : a = j.admin
        OBVIOUS
    <2>3. Rows(a) \subseteq Rows(a)'
        BY <2>1, <2>2, LinksStay
    <2>4. Rows(a)' = Rows(j.admin)'
        BY <2>2 DEF Rows
    <2> QED BY <2>1, <2>2, <2>3, <2>4
<1>5. s = "commit" => j.found \subseteq j.marked \cup UsedTokens'
    BY <1>1 DEF JobFits
<1>6. s \in {"invalidateOthers", "commit"} => j.token \in j.marked /\ j.marked \subseteq Issued'
    BY <1>1 DEF JobFits
<1>7. s = "createToken" => j.admin \in Admins
    BY DEF JobFits
<1> QED BY <1>2, <1>3, <1>4, <1>5, <1>6, <1>7 DEF JobFits

LEMMA OthersStay ==
    ASSUME RowTypes, NEW p \in Procs, NEW s, NEW j, GotoWith(p, s, j)
    PROVE  /\ pc'[p] = s /\ job'[p] = j
           /\ \A q \in Procs \ {p} : pc'[q] = pc[q] /\ job'[q] = job[q]
BY DEF RowTypes, GotoWith

(* One request goes on with a job that fits. *)
LEMMA JobsMove ==
    ASSUME TypeInv, LinksMove, NEW p \in Procs, NEW s \in PCs, NEW j \in Job,
           GotoWith(p, s, j), JobFits(s, j)'
    PROVE  pc' \in [Procs -> PCs] /\ job' \in [Procs -> Job] /\ JobsOK'
<1>1. pc' \in [Procs -> PCs] /\ job' \in [Procs -> Job]
    BY DEF TypeInv, RowTypes, GotoWith
<1>2. ASSUME NEW q \in Procs PROVE JobFits(pc[q], job[q])'
    <2>1. CASE q = p
        <3>1. pc'[q] = s /\ job'[q] = j
            BY <2>1, OthersStay DEF TypeInv
        <3> QED BY <3>1 DEF JobFits, Rows
    <2>2. CASE q # p
        <3>1. pc'[q] = pc[q] /\ job'[q] = job[q]
            BY <2>2, OthersStay DEF TypeInv
        <3>2. PICK t, k : t = pc[q] /\ k = job[q]
            OBVIOUS
        <3>3. JobFits(t, k)
            BY <3>2 DEF TypeInv, JobsOK
        <3>4. JobFits(t, k)'
            BY <3>3, FitsMove DEF TypeInv
        <3> QED BY <3>1, <3>2, <3>4 DEF JobFits, Rows
    <2> QED BY <2>1, <2>2
<1> QED BY <1>1, <1>2 DEF JobsOK

(* A step of one request that leaves the links alone. *)
LEMMA MoveStep ==
    ASSUME TypeInv, NEW p \in Procs, NEW s \in PCs, NEW j \in Job,
           GotoWith(p, s, j), JobFits(s, j), UNCHANGED <<tokens, uses, clock, mailed>>
    PROVE  TypeInv' /\ LinksMove
<1>1. LinksMove
    BY SameLinksMove DEF TypeInv
<1>2. JobFits(s, j)'
    BY <1>1, FitsMove DEF TypeInv
<1>3. pc' \in [Procs -> PCs] /\ job' \in [Procs -> Job] /\ JobsOK'
    BY <1>1, <1>2, JobsMove
<1>4. RowTypes'
    BY <1>3 DEF TypeInv, RowTypes, Issued, UsedTokens
<1> QED BY <1>1, <1>3, <1>4 DEF TypeInv

LEMMA FinishStep ==
    ASSUME TypeInv, NEW p \in Procs, Finish(p), UNCHANGED <<tokens, uses, clock, mailed>>
    PROVE  TypeInv' /\ LinksMove
<1>1. GotoWith(p, "idle", NoJob) /\ "idle" \in PCs
    BY DEF Finish, PCs
<1> QED BY <1>1, NoJobType, IdleFits, MoveStep

LEMMA StayStep ==
    ASSUME TypeInv, UNCHANGED <<tokens, uses, mailed, pc, job>>, clock' \in Nat
    PROVE  TypeInv' /\ LinksMove
<1>1. LinksMove
    BY SameLinksMove DEF TypeInv
<1>2. JobsOK'
    <2> SUFFICES ASSUME NEW p \in Procs PROVE JobFits(pc[p], job[p])'
        BY DEF JobsOK
    <2>1. JobFits(pc[p], job[p])
        BY DEF TypeInv, JobsOK
    <2> QED BY <2>1 DEF JobFits, Issued, UsedTokens, Rows
<1>3. RowTypes'
    BY DEF TypeInv, RowTypes, Issued, UsedTokens
<1> QED BY <1>1, <1>2, <1>3 DEF TypeInv

LEMMA JobOf ==
    ASSUME TypeInv, NEW p \in Procs
    PROVE  job[p] \in Job /\ JobFits(pc[p], job[p])
BY DEF TypeInv, RowTypes, JobsOK

(* Records of a request, one field changed. *)
LEMMA JobWith ==
    /\ \A a \in Admins : [NoJob EXCEPT !.admin = a] \in Job
    /\ \A t \in Tokens : [NoJob EXCEPT !.token = t] \in Job
    /\ \A j \in Job :
          /\ \A a \in Admins : [j EXCEPT !.admin = a] \in Job
          /\ \A t \in Tokens : [j EXCEPT !.token = t] \in Job
          /\ \A S \in SUBSET Tokens : [j EXCEPT !.found = S] \in Job
          /\ \A S \in SUBSET Tokens : [j EXCEPT !.marked = S] \in Job
BY DEF Job, NoJob

-----------------------------------------------------------------------------
(* The actions *)

LEMMA TypeForgotPassword ==
    ASSUME TypeInv, NEW p \in Procs, ForgotPassword(p)
    PROVE  TypeInv' /\ LinksMove
<1>1. UNCHANGED <<tokens, uses, clock, mailed>>
    BY DEF ForgotPassword, history
<1>2. CASE UNCHANGED <<pc, job>>
    BY <1>1, <1>2, StayStep DEF TypeInv, RowTypes
<1>3. CASE ~UNCHANGED <<pc, job>>
    <2>1. PICK a \in Admins : GotoWith(p, "createToken", [NoJob EXCEPT !.admin = a])
        BY <1>3 DEF ForgotPassword, Requester
    <2>2. PICK j : j = [NoJob EXCEPT !.admin = a]
        OBVIOUS
    <2>3. j \in Job /\ j.admin = a /\ "createToken" \in PCs
        BY <2>2, JobWith DEF NoJob, PCs
    <2>4. JobFits("createToken", j)
        BY <2>3 DEF JobFits, TokenPCs, HolderPCs, InTx
    <2> QED BY <1>1, <2>1, <2>2, <2>3, <2>4, MoveStep
<1> QED BY <1>2, <1>3

(* A link takes a row nobody has. *)
LEMMA TypeCreate ==
    ASSUME TypeInv, NEW p \in Procs, CreatePasswordResetToken(p)
    PROVE  TypeInv' /\ LinksMove
<1>1. pc[p] = "createToken" /\ UNCHANGED <<uses, clock, mailed>>
    BY DEF CreatePasswordResetToken, history
<1>2. job[p] \in Job /\ job[p].admin \in Admins
    BY <1>1, JobOf DEF JobFits
<1>3. CASE Finish(p) /\ UNCHANGED tokens
    BY <1>1, <1>3, FinishStep
<1>4. CASE ~(Finish(p) /\ UNCHANGED tokens)
    <2>1. PICK t \in Tokens :
              /\ tokens[t] = NoToken
              /\ tokens' = [tokens EXCEPT ![t] = [admin |-> job[p].admin,
                               expiresAt |-> clock + ResetTokenTTL, used |-> FALSE]]
              /\ GotoWith(p, "send", [job[p] EXCEPT !.token = t])
        BY <1>4 DEF CreatePasswordResetToken
    <2>2. PICK row : row = [admin |-> job[p].admin,
                            expiresAt |-> clock + ResetTokenTTL, used |-> FALSE]
        OBVIOUS
    <2>3. row \in PasswordResetToken /\ row.admin \in Admins /\ row.used = FALSE
        <3>1. clock + ResetTokenTTL \in Nat
            BY ResetAssumption DEF TypeInv, RowTypes
        <3> QED BY <1>2, <2>2, <3>1 DEF PasswordResetToken
    <2>4. tokens' = [tokens EXCEPT ![t] = row] /\ tokens \in [Tokens -> PasswordResetToken]
        BY <2>1, <2>2 DEF TypeInv, RowTypes
    <2>5. t \notin Issued /\ t \notin UsedTokens
        BY <2>1, ResetAssumption DEF Issued, UsedTokens, NoToken
    <2>6. tokens' \in [Tokens -> PasswordResetToken]
        BY <2>3, <2>4
    <2>7. tokens'[t] = row /\ \A u \in Tokens \ {t} : tokens'[u] = tokens[u]
        BY <2>4
    <2>8. LinksMove
        <3>1. \A u \in Issued : tokens'[u].admin = tokens[u].admin
            BY <2>5, <2>7 DEF Issued
        <3>2. UsedTokens \subseteq UsedTokens'
            BY <2>5, <2>7 DEF UsedTokens
        <3>3. UsedTokens' \subseteq UsedTokens
            BY <2>3, <2>7 DEF UsedTokens
        <3>4. Issued \subseteq Issued'
            BY <2>5, <2>7 DEF Issued
        <3> QED BY <2>6, <3>1, <3>2, <3>3, <3>4 DEF LinksMove, TypeInv, RowTypes
    <2>9. PICK j : j = [job[p] EXCEPT !.token = t]
        OBVIOUS
    <2>10. j \in Job /\ j.token = t /\ "send" \in PCs
        BY <1>2, <2>9, JobWith DEF Job, PCs
    <2>11. JobFits("send", j)'
        <3>1. t \in Issued'
            BY <2>3, <2>7 DEF Issued
        <3> QED BY <2>10, <3>1 DEF JobFits, HolderPCs, InTx
    <2>12. GotoWith(p, "send", j)
        BY <2>1, <2>9
    <2>13. pc' \in [Procs -> PCs] /\ job' \in [Procs -> Job] /\ JobsOK'
        BY <2>8, <2>10, <2>11, <2>12, JobsMove
    <2>14. mailed' \subseteq Issued'
        BY <1>1, <2>8, LinksStay DEF TypeInv, RowTypes
    <2>15. RowTypes'
        BY <1>1, <2>6, <2>8, <2>13, <2>14 DEF TypeInv, RowTypes, LinksMove
    <2> QED BY <2>8, <2>13, <2>15 DEF TypeInv
<1> QED BY <1>3, <1>4

LEMMA TypeSend ==
    ASSUME TypeInv, NEW p \in Procs, Send(p)
    PROVE  TypeInv' /\ LinksMove
<1>1. /\ pc[p] = "send" /\ Finish(p) /\ UNCHANGED <<tokens, uses, clock>>
      /\ mailed' \in {mailed, mailed \cup {job[p].token}}
    BY DEF Send
<1>2. LinksMove
    BY <1>1, SameLinksMove DEF TypeInv
<1>3. job[p].token \in Issued
    BY <1>1, JobOf DEF JobFits, TokenPCs
<1>4. pc' \in [Procs -> PCs] /\ job' \in [Procs -> Job] /\ JobsOK'
    <2>1. GotoWith(p, "idle", NoJob) /\ "idle" \in PCs
        BY <1>1 DEF Finish, PCs
    <2>2. JobFits("idle", NoJob)'
        BY DEF JobFits, TokenPCs, HolderPCs, InTx
    <2> QED BY <1>2, <2>1, <2>2, NoJobType, JobsMove
<1>5. mailed' \subseteq Issued
    BY <1>1, <1>3 DEF TypeInv, RowTypes
<1>6. RowTypes'
    BY <1>1, <1>4, <1>5 DEF TypeInv, RowTypes, Issued, UsedTokens
<1> QED BY <1>2, <1>4, <1>6 DEF TypeInv

LEMMA TypeResetPassword ==
    ASSUME TypeInv, NEW p \in Procs, ResetPassword(p)
    PROVE  TypeInv' /\ LinksMove
<1>1. UNCHANGED <<tokens, uses, clock, mailed>>
    BY DEF ResetPassword, history
<1>2. CASE UNCHANGED <<pc, job>>
    BY <1>1, <1>2, StayStep DEF TypeInv, RowTypes
<1>3. CASE ~UNCHANGED <<pc, job>>
    <2>1. PICK t \in mailed : GotoWith(p, "getToken", [NoJob EXCEPT !.token = t])
        BY <1>3 DEF ResetPassword
    <2>2. PICK j : j = [NoJob EXCEPT !.token = t]
        OBVIOUS
    <2>3. t \in Issued /\ t \in Tokens
        BY <2>1 DEF TypeInv, RowTypes, Issued
    <2>4. j \in Job /\ j.token = t /\ "getToken" \in PCs
        BY <2>2, <2>3, JobWith DEF NoJob, PCs
    <2>5. JobFits("getToken", j)
        BY <2>3, <2>4 DEF JobFits, HolderPCs, InTx
    <2> QED BY <1>1, <2>1, <2>2, <2>4, <2>5, MoveStep
<1> QED BY <1>2, <1>3

LEMMA TypeGetToken ==
    ASSUME TypeInv, NEW p \in Procs, GetPasswordResetToken(p)
    PROVE  TypeInv' /\ LinksMove
<1>1. pc[p] = "getToken" /\ UNCHANGED <<tokens, uses, clock, mailed>>
    BY DEF GetPasswordResetToken
<1>2. CASE Finish(p)
    BY <1>1, <1>2, FinishStep
<1>3. CASE ~Finish(p)
    <2>1. PICK t : t = job[p].token
        OBVIOUS
    <2>2. GotoWith(p, "updatePassword", [job[p] EXCEPT !.admin = tokens[t].admin])
        BY <1>3, <2>1 DEF GetPasswordResetToken
    <2>3. job[p] \in Job /\ t \in Issued
        BY <1>1, <2>1, JobOf DEF JobFits, TokenPCs
    <2>4. PICK a \in Admins : a = tokens[t].admin
        BY <2>3 DEF Issued
    <2>5. PICK j : j = [job[p] EXCEPT !.admin = a]
        OBVIOUS
    <2>6. j \in Job /\ j.token = t /\ j.admin = a
        BY <2>1, <2>3, <2>5, JobWith DEF Job
    <2>7. JobFits("updatePassword", j)
        BY <2>3, <2>4, <2>6 DEF JobFits, InTx
    <2>8. "updatePassword" \in PCs
        BY DEF PCs
    <2> QED BY <1>1, <2>2, <2>4, <2>5, <2>6, <2>7, <2>8, MoveStep
<1> QED BY <1>2, <1>3

(* The transaction finds the links of the admin. *)
LEMMA TypeUpdatePassword ==
    ASSUME TypeInv, NEW p \in Procs, UpdatePassword(p)
    PROVE  TypeInv' /\ LinksMove
<1>1. pc[p] = "updatePassword" /\ UNCHANGED <<tokens, uses, clock, mailed>>
    BY DEF UpdatePassword, history
<1>2. CASE Finish(p)
    BY <1>1, <1>2, FinishStep
<1>3. CASE ~Finish(p)
    <2>1. PICK S : S = Rows(job[p].admin)
        OBVIOUS
    <2>2. GotoWith(p, "markUsed", [job[p] EXCEPT !.found = S])
        BY <1>3, <2>1 DEF UpdatePassword
    <2>3. /\ job[p] \in Job /\ job[p].token \in Issued
          /\ tokens[job[p].token].admin = job[p].admin
        BY <1>1, JobOf DEF JobFits, TokenPCs, HolderPCs
    <2>4. PICK j : j = [job[p] EXCEPT !.found = S]
        OBVIOUS
    <2>5. /\ j \in Job /\ j.found = S
          /\ j.token = job[p].token /\ j.admin = job[p].admin
        <3>1. S \in SUBSET Tokens
            BY <2>1 DEF Rows
        <3> QED BY <2>3, <2>4, <3>1, JobWith DEF Job
    <2>6. JobFits("markUsed", j)
        BY <2>1, <2>3, <2>5 DEF JobFits
    <2>7. "markUsed" \in PCs
        BY DEF PCs
    <2> QED BY <1>1, <2>2, <2>4, <2>5, <2>6, <2>7, MoveStep
<1> QED BY <1>2, <1>3

LEMMA TypeMarkUsed ==
    ASSUME TypeInv, NEW p \in Procs, MarkUsed(p)
    PROVE  TypeInv' /\ LinksMove
<1>1. pc[p] = "markUsed" /\ UNCHANGED <<tokens, uses, clock, mailed>>
    BY DEF MarkUsed, history
<1>2. CASE Finish(p)
    BY <1>1, <1>2, FinishStep
<1>3. CASE ~Finish(p)
    <2>1. PICK S : S = {job[p].token}
        OBVIOUS
    <2>2. GotoWith(p, "invalidateOthers", [job[p] EXCEPT !.marked = S])
        BY <1>3, <2>1 DEF MarkUsed
    <2>3. /\ job[p] \in Job /\ job[p].token \in Issued
          /\ tokens[job[p].token].admin = job[p].admin
          /\ job[p].found \subseteq Rows(job[p].admin)
        BY <1>1, JobOf DEF JobFits, TokenPCs, HolderPCs, InTx
    <2>4. PICK j : j = [job[p] EXCEPT !.marked = S]
        OBVIOUS
    <2>5. /\ j \in Job /\ j.marked = S
          /\ j.token = job[p].token /\ j.admin = job[p].admin /\ j.found = job[p].found
        <3>1. S \in SUBSET Tokens
            BY <2>1, <2>3 DEF Issued
        <3> QED BY <2>3, <2>4, <3>1, JobWith DEF Job
    <2>6. JobFits("invalidateOthers", j)
        BY <2>1, <2>3, <2>5 DEF JobFits
    <2>7. "invalidateOthers" \in PCs
        BY DEF PCs
    <2> QED BY <1>1, <2>2, <2>4, <2>5, <2>6, <2>7, MoveStep
<1> QED BY <1>2, <1>3

(* What the transaction found and does not mark is used already. *)
LEMMA TypeInvalidateOthers ==
    ASSUME TypeInv, NEW p \in Procs, InvalidateOthers(p)
    PROVE  TypeInv' /\ LinksMove
<1>1. pc[p] = "invalidateOthers" /\ UNCHANGED <<tokens, uses, clock, mailed>>
    BY DEF InvalidateOthers, history
<1>2. CASE Finish(p)
    BY <1>1, <1>2, FinishStep
<1>3. CASE ~Finish(p)
    <2>1. PICK S : S = job[p].marked \cup Others(job[p])
        OBVIOUS
    <2>2. GotoWith(p, "commit", [job[p] EXCEPT !.marked = S])
        BY <1>3, <2>1 DEF InvalidateOthers
    <2>3. /\ job[p] \in Job /\ job[p].token \in Issued
          /\ tokens[job[p].token].admin = job[p].admin
          /\ job[p].found \subseteq Rows(job[p].admin)
          /\ job[p].token \in job[p].marked /\ job[p].marked \subseteq Issued
        BY <1>1, JobOf DEF JobFits, TokenPCs, HolderPCs, InTx
    <2>4. PICK j : j = [job[p] EXCEPT !.marked = S]
        OBVIOUS
    <2>5. /\ j \in Job /\ j.marked = S
          /\ j.token = job[p].token /\ j.admin = job[p].admin /\ j.found = job[p].found
        <3>1. S \in SUBSET Tokens
            BY <2>1, <2>3 DEF Others, Rows, Job
        <3> QED BY <2>3, <2>4, <3>1, JobWith DEF Job
    <2>6. j.found \subseteq S \cup UsedTokens
        <3>1. ASSUME NEW t \in j.found, t \notin UsedTokens PROVE t \in S
            <4>1. t \in Rows(job[p].admin) /\ t \in Tokens
                BY <2>3, <2>5, <3>1 DEF Rows
            <4>2. ~tokens[t].used
                BY <3>1, <4>1 DEF UsedTokens
            <4>3. t = job[p].token \/ t \in Others(job[p])
                BY <4>1, <4>2 DEF Others
            <4> QED BY <2>1, <2>3, <4>3
        <3> QED BY <3>1
    <2>7. JobFits("commit", j)
        <3>1. S \subseteq Issued
            BY <2>1, <2>3 DEF Others, Rows, Issued
        <3> QED BY <2>1, <2>3, <2>5, <2>6, <3>1 DEF JobFits
    <2>8. "commit" \in PCs
        BY DEF PCs
    <2> QED BY <1>1, <2>2, <2>4, <2>5, <2>7, <2>8, MoveStep
<1> QED BY <1>2, <1>3

(* The commit uses the links that were marked. *)
LEMMA CommitMarks ==
    ASSUME TypeInv, NEW p \in Procs, pc[p] = "commit",
           tokens' = [t \in Tokens |-> IF t \in job[p].marked THEN Used(tokens[t])
                                       ELSE tokens[t]]
    PROVE  /\ LinksMove /\ Issued' = Issued
           /\ UsedTokens' = UsedTokens \cup job[p].marked
<1>1. /\ job[p] \in Job /\ job[p].marked \subseteq Issued
      /\ tokens \in [Tokens -> PasswordResetToken] /\ UsedTokens \subseteq Issued
    BY JobOf DEF JobFits, TypeInv, RowTypes
<1>2. ASSUME NEW row \in PasswordResetToken
      PROVE  /\ Used(row) \in PasswordResetToken
             /\ Used(row).admin = row.admin /\ Used(row).used = TRUE
    BY DEF Used, PasswordResetToken
<1>3. \A t \in Tokens :
          /\ tokens'[t] \in PasswordResetToken /\ tokens'[t].admin = tokens[t].admin
          /\ t \in job[p].marked => tokens'[t].used = TRUE
          /\ t \notin job[p].marked => tokens'[t].used = tokens[t].used
    BY <1>1, <1>2
<1>4. tokens' \in [Tokens -> PasswordResetToken]
    BY <1>3
<1>5. Issued' = Issued
    BY <1>3 DEF Issued
<1>6. UsedTokens' = UsedTokens \cup job[p].marked
    BY <1>1, <1>3 DEF UsedTokens, Issued
<1>7. \A t \in Issued : tokens'[t].admin = tokens[t].admin
    BY <1>3 DEF Issued
<1>8. LinksMove
    BY <1>1, <1>4, <1>5, <1>6, <1>7 DEF LinksMove
<1> QED BY <1>5, <1>6, <1>8

(* What a commit that goes through does. *)
Commits(p) ==
    /\ tokens' = [t \in Tokens |-> IF t \in job[p].marked THEN Used(tokens[t])
                                   ELSE tokens[t]]
    /\ uses' = [uses EXCEPT ![job[p].token] = @ + 1]
    /\ spent' = spent \cup job[p].found

LEMMA CommitCases ==
    ASSUME NEW p, Commit(p)
    PROVE  /\ pc[p] = "commit" /\ Finish(p) /\ UNCHANGED <<clock, mailed, overlapped>>
           /\ Commits(p) \/ UNCHANGED <<tokens, uses, spent>>
BY DEF Commit, Commits

LEMMA TypeCommit ==
    ASSUME TypeInv, NEW p \in Procs, Commit(p)
    PROVE  TypeInv' /\ LinksMove
<1>1. pc[p] = "commit" /\ Finish(p) /\ UNCHANGED <<clock, mailed>>
    BY CommitCases
<1>2. CASE UNCHANGED <<tokens, uses>>
    BY <1>1, <1>2, FinishStep
<1>3. CASE Commits(p)
    <2>1. LinksMove /\ Issued' = Issued
        BY <1>1, <1>3, CommitMarks DEF Commits
    <2>2. uses' \in [Tokens -> Nat]
        <3>1. PICK t : t = job[p].token
            OBVIOUS
        <3>2. uses' = [uses EXCEPT ![t] = uses[t] + 1] /\ uses \in [Tokens -> Nat]
            BY <1>3, <3>1 DEF Commits, TypeInv, RowTypes
        <3>3. t \in Tokens
            BY <1>1, <3>1, JobOf DEF JobFits, TokenPCs, HolderPCs, InTx, Issued
        <3>4. uses[t] + 1 \in Nat
            BY <3>2, <3>3
        <3> QED BY <3>2, <3>4
    <2>3. pc' \in [Procs -> PCs] /\ job' \in [Procs -> Job] /\ JobsOK'
        <3>1. GotoWith(p, "idle", NoJob) /\ "idle" \in PCs
            BY <1>1 DEF Finish, PCs
        <3>2. JobFits("idle", NoJob)'
            BY DEF JobFits, TokenPCs, HolderPCs, InTx
        <3> QED BY <2>1, <3>1, <3>2, NoJobType, JobsMove
    <2>4. RowTypes'
        BY <1>1, <2>1, <2>2, <2>3 DEF TypeInv, RowTypes, LinksMove
    <2> QED BY <2>1, <2>3, <2>4 DEF TypeInv
<1> QED BY <1>2, <1>3, CommitCases

LEMMA TypeInit == Init => TypeInv
<1> SUFFICES ASSUME Init PROVE TypeInv
    OBVIOUS
<1>1. RowTypes
    BY NoJobType DEF Init, RowTypes, PCs, Issued, UsedTokens, NoToken
<1>2. JobsOK
    BY IdleFits DEF Init, JobsOK
<1> QED BY <1>1, <1>2 DEF TypeInv

LEMMA TypeNext == TypeInv /\ [Next]_vars => TypeInv' /\ LinksMove
<1> SUFFICES ASSUME TypeInv, [Next]_vars PROVE TypeInv' /\ LinksMove
    OBVIOUS
<1>1. CASE Tick
    <2>1. clock' \in Nat
        BY <1>1 DEF Tick, TypeInv, RowTypes
    <2> QED BY <1>1, <2>1, StayStep DEF Tick, history
<1>2. CASE Quiescent \/ UNCHANGED vars
    BY <1>2, StayStep DEF Quiescent, vars, TypeInv, RowTypes
<1> QED BY <1>1, <1>2, TypeForgotPassword, TypeCreate, TypeSend, TypeResetPassword,
           TypeGetToken, TypeUpdatePassword, TypeMarkUsed, TypeInvalidateOthers,
           TypeCommit DEF Next

LEMMA TypeInvariance == Spec => []TypeInv
<1>1. TypeInv /\ [Next]_vars => TypeInv'
    BY TypeNext
<1> QED BY <1>1, TypeInit, PTL DEF Spec

(* Every link that is mailed, held or used belongs to the admin it was     *)
(* created for, and a transaction is about links of one admin, whatever    *)
(* the limiters let through and whichever statements fail.                 *)
THEOREM LinksCorrect == Spec => [](RowTypes /\ JobsOK)
BY TypeInvariance, PTL DEF TypeInv

-----------------------------------------------------------------------------
(* Links that are dead *)

(* Every step but a commit leaves what was set and found with a link. *)
LEMMA OnlyCommits ==
    ASSUME [Next]_vars
    PROVE  \/ UNCHANGED <<uses, spent>>
           \/ \E p \in Procs : Commit(p) /\ Commits(p)
<1>1. ASSUME NEW p \in Procs,
             \/ ForgotPassword(p) \/ CreatePasswordResetToken(p) \/ Send(p)
             \/ ResetPassword(p) \/ GetPasswordResetToken(p) \/ UpdatePassword(p)
             \/ MarkUsed(p) \/ InvalidateOthers(p)
      PROVE  UNCHANGED <<uses, spent>>
    BY <1>1 DEF ForgotPassword, CreatePasswordResetToken, Send, ResetPassword,
       GetPasswordResetToken, UpdatePassword, MarkUsed, InvalidateOthers, history
<1>2. CASE Tick \/ Quiescent \/ UNCHANGED vars
    BY <1>2 DEF Tick, Quiescent, vars, history
<1> QED BY <1>1, <1>2, CommitCases DEF Next

DeadInv == spent \subseteq UsedTokens

LEMMA DeadNext == TypeInv /\ DeadInv /\ [Next]_vars => DeadInv'
<1> SUFFICES ASSUME TypeInv, DeadInv, [Next]_vars PROVE DeadInv'
    OBVIOUS
<1>1. CASE UNCHANGED spent
    BY <1>1, TypeNext DEF DeadInv, LinksMove
<1>2. ASSUME NEW p \in Procs, Commit(p), Commits(p) PROVE DeadInv'
    <2>1. pc[p] = "commit"
        BY <1>2, CommitCases
    <2>2. UsedTokens' = UsedTokens \cup job[p].marked
        BY <1>2, <2>1, CommitMarks DEF Commits
    <2>3. job[p].found \subseteq job[p].marked \cup UsedTokens
        BY <2>1, JobOf DEF JobFits
    <2> QED BY <1>2, <2>2, <2>3 DEF DeadInv, Commits
<1> QED BY <1>1, <1>2, OnlyCommits

(***************************************************************************)
(* A reset ends every link that existed when it began, whatever other      *)
(* requests have created, followed or invalidated since: what the          *)
(* transaction found and does not mark when it commits was used by then.   *)
(***************************************************************************)
THEOREM EarlierLinksCorrect == Spec => []EarlierLinksAreDead
<1>1. Init => DeadInv
    BY DEF Init, DeadInv
<1>2. DeadInv => EarlierLinksAreDead
    BY DEF DeadInv, EarlierLinksAreDead, UsedTokens
<1> QED BY <1>1, <1>2, DeadNext, TypeInvariance, PTL DEF Spec

-----------------------------------------------------------------------------
(* Links that set a password.  A link is found unused or not held again,   *)
(* so a link no two requests have held has one holder, who is the first to *)
(* set a password with it.                                                 *)

HoldersApart == \A t \in Tokens \ overlapped :
    /\ \A p, q \in Procs : HeldBy(p, t) /\ HeldBy(q, t) => p = q
    /\ \A p \in Procs : HeldBy(p, t) => uses[t] = 0
    /\ uses[t] <= 1

UsesShow == \A t \in Tokens : uses[t] > 0 => t \in UsedTokens

HolderInv == HoldersApart /\ UsesShow

LEMMA HeldMove ==
    ASSUME RowTypes, NEW p \in Procs, NEW s, NEW j, GotoWith(p, s, j), NEW t
    PROVE  /\ HeldBy(p, t)' <=> s \in HolderPCs /\ j.token = t
           /\ \A q \in Procs \ {p} : HeldBy(q, t)' <=> HeldBy(q, t)
<1>1. /\ pc'[p] = s /\ job'[p] = j
      /\ \A q \in Procs \ {p} : pc'[q] = pc[q] /\ job'[q] = job[q]
    BY OthersStay
<1> QED BY <1>1 DEF HeldBy, HolderPCs

(* Nobody becomes the holder of a link, and no password is set. *)
LEMMA HoldersStay ==
    ASSUME TypeInv, HolderInv, LinksMove, UNCHANGED <<uses, overlapped>>,
           \A t \in Tokens : \A q \in Procs : HeldBy(q, t)' => HeldBy(q, t)
    PROVE  HolderInv'
<1>1. HoldersApart'
    BY DEF HolderInv, HoldersApart
<1>2. UsesShow'
    BY DEF HolderInv, UsesShow, LinksMove
<1> QED BY <1>1, <1>2 DEF HolderInv

LEMMA HoldersMove ==
    ASSUME TypeInv, HolderInv, LinksMove, UNCHANGED <<uses, overlapped>>,
           NEW p \in Procs, NEW s, NEW j, GotoWith(p, s, j),
           s \in HolderPCs => pc[p] \in HolderPCs /\ j.token = job[p].token
    PROVE  HolderInv'
<1>1. ASSUME NEW t \in Tokens, NEW q \in Procs, HeldBy(q, t)' PROVE HeldBy(q, t)
    <2>1. CASE q = p
        <3>1. s \in HolderPCs /\ j.token = t
            BY <1>1, <2>1, HeldMove DEF TypeInv
        <3> QED BY <2>1, <3>1 DEF HeldBy, HolderPCs
    <2>2. CASE q # p
        BY <1>1, <2>2, HeldMove DEF TypeInv
    <2> QED BY <2>1, <2>2
<1> QED BY <1>1, HoldersStay

LEMMA HoldersFinish ==
    ASSUME TypeInv, HolderInv, LinksMove, UNCHANGED <<uses, overlapped>>,
           NEW p \in Procs, Finish(p)
    PROVE  HolderInv'
<1>1. GotoWith(p, "idle", NoJob) /\ "idle" \notin HolderPCs
    BY DEF Finish, HolderPCs, InTx
<1> QED BY <1>1, HoldersMove

(* Who finds a link unused holds it: alone, or the overlap is noted. *)
LEMMA HoldersGetToken ==
    ASSUME TypeInv, HolderInv, LinksMove, NEW p \in Procs, GetPasswordResetToken(p)
    PROVE  HolderInv'
<1>1. pc[p] = "getToken" /\ UNCHANGED <<tokens, uses>>
    BY DEF GetPasswordResetToken
<1>2. CASE Finish(p) /\ UNCHANGED overlapped
    BY <1>1, <1>2, HoldersFinish
<1>3. CASE ~(Finish(p) /\ UNCHANGED overlapped)
    <2>1. PICK u : u = job[p].token
        OBVIOUS
    <2>2. PICK j : j = [job[p] EXCEPT !.admin = tokens[u].admin]
        OBVIOUS
    <2>3. /\ Usable(u) /\ GotoWith(p, "updatePassword", j)
          /\ overlapped' = IF \E q \in Procs : HeldBy(q, u)
                           THEN overlapped \cup {u} ELSE overlapped
        BY <1>3, <2>1, <2>2 DEF GetPasswordResetToken
    <2>4. job[p] \in Job /\ u \in Tokens
        BY <1>1, <2>1, JobOf DEF JobFits, TokenPCs, Issued
    <2>5. j.token = u
        BY <2>1, <2>2, <2>4 DEF Job
    <2>6. uses[u] = 0
        <3>1. ~tokens[u].used /\ uses[u] \in Nat
            BY <2>3, <2>4 DEF Usable, TypeInv, RowTypes
        <3>2. ~(uses[u] > 0)
            BY <2>4, <3>1 DEF HolderInv, UsesShow, UsedTokens
        <3> QED BY <3>1, <3>2
    <2>7. HoldersApart'
        <3> SUFFICES ASSUME NEW t \in Tokens \ overlapped'
                     PROVE  /\ \A q, r \in Procs : HeldBy(q, t)' /\ HeldBy(r, t)' => q = r
                            /\ \A q \in Procs : HeldBy(q, t)' => uses'[t] = 0
                            /\ uses'[t] <= 1
            BY DEF HoldersApart
        <3>1. t \notin overlapped /\ t \in Tokens
            BY <2>3
        <3>2. /\ \A q, r \in Procs : HeldBy(q, t) /\ HeldBy(r, t) => q = r
              /\ \A q \in Procs : HeldBy(q, t) => uses[t] = 0
              /\ uses[t] <= 1
            BY <3>1 DEF HolderInv, HoldersApart
        <3>3. /\ HeldBy(p, t)' <=> t = u
              /\ \A q \in Procs \ {p} : HeldBy(q, t)' <=> HeldBy(q, t)
            BY <2>3, <2>5, HeldMove DEF HolderPCs, TypeInv
        <3>4. CASE t = u
            <4>1. \A q \in Procs : ~HeldBy(q, t)
                BY <2>3, <3>4
            <4> QED BY <1>1, <2>6, <3>2, <3>3, <3>4, <4>1
        <3>5. CASE t # u
            BY <1>1, <3>2, <3>3, <3>5
        <3> QED BY <3>4, <3>5
    <2>8. UsesShow'
        BY <1>1 DEF HolderInv, UsesShow, UsedTokens
    <2> QED BY <2>7, <2>8 DEF HolderInv
<1> QED BY <1>2, <1>3

(* A link is used when a password is set with it, and its holder is done.  *)
LEMMA HoldersCommit ==
    ASSUME TypeInv, HolderInv, NEW p \in Procs, Commit(p), Commits(p)
    PROVE  HolderInv'
<1>1. pc[p] = "commit" /\ Finish(p) /\ UNCHANGED overlapped
    BY CommitCases
<1>2. UsedTokens' = UsedTokens \cup job[p].marked
    BY <1>1, CommitMarks DEF Commits
<1>3. PICK u : u = job[p].token
    OBVIOUS
<1>4. u \in Tokens /\ u \in job[p].marked
    BY <1>1, <1>3, JobOf DEF JobFits, TokenPCs, HolderPCs, InTx, Issued
<1>5. /\ uses \in [Tokens -> Nat] /\ uses' = [uses EXCEPT ![u] = uses[u] + 1]
    BY <1>3 DEF Commits, TypeInv, RowTypes
<1>6. /\ uses'[u] = uses[u] + 1 /\ uses[u] \in Nat
      /\ \A t \in Tokens \ {u} : uses'[t] = uses[t]
    BY <1>4, <1>5
<1>7. UsesShow'
    BY <1>2, <1>4, <1>6 DEF HolderInv, UsesShow
<1>8. HoldersApart'
    <2> SUFFICES ASSUME NEW t \in Tokens \ overlapped'
                 PROVE  /\ \A q, r \in Procs : HeldBy(q, t)' /\ HeldBy(r, t)' => q = r
                        /\ \A q \in Procs : HeldBy(q, t)' => uses'[t] = 0
                        /\ uses'[t] <= 1
        BY DEF HoldersApart
    <2>1. t \notin overlapped /\ t \in Tokens
        BY <1>1
    <2>2. /\ \A q, r \in Procs : HeldBy(q, t) /\ HeldBy(r, t) => q = r
          /\ \A q \in Procs : HeldBy(q, t) => uses[t] = 0
          /\ uses[t] <= 1
        BY <2>1 DEF HolderInv, HoldersApart
    <2>3. /\ ~HeldBy(p, t)'
          /\ \A q \in Procs \ {p} : HeldBy(q, t)' <=> HeldBy(q, t)
        <3>1. GotoWith(p, "idle", NoJob) /\ "idle" \notin HolderPCs
            BY <1>1 DEF Finish, HolderPCs, InTx
        <3> QED BY <3>1, HeldMove DEF TypeInv
    <2>4. CASE t = u
        <3>1. HeldBy(p, t)
            BY <1>1, <1>3, <2>4 DEF HeldBy, InTx
        <3>2. \A q \in Procs \ {p} : ~HeldBy(q, t)
            BY <2>2, <3>1
        <3>3. uses[t] = 0
            BY <2>2, <3>1
        <3>4. uses'[t] <= 1
            BY <1>6, <2>4, <3>3
        <3> QED BY <2>3, <3>2, <3>4
    <2>5. CASE t # u
        BY <1>6, <2>1, <2>2, <2>3, <2>5
    <2> QED BY <2>4, <2>5
<1> QED BY <1>7, <1>8 DEF HolderInv

LEMMA HoldersRequest ==
    ASSUME TypeInv, HolderInv, LinksMove, NEW p \in Procs,
           \/ ForgotPassword(p) \/ CreatePasswordResetToken(p) \/ Send(p) \/ ResetPassword(p)
    PROVE  HolderInv'
<1>1. UNCHANGED <<uses, overlapped>>
    BY DEF ForgotPassword, CreatePasswordResetToken, Send, ResetPassword, history
<1>2. {"createToken", "send", "getToken"} \cap HolderPCs = {}
    BY DEF HolderPCs, InTx
<1>3. \/ UNCHANGED <<pc, job>> \/ Finish(p)
      \/ \E s \in {"createToken", "send", "getToken"} : \E j : GotoWith(p, s, j)
    BY DEF ForgotPassword, CreatePasswordResetToken, Send, ResetPassword
<1>4. CASE UNCHANGED <<pc, job>>
    <2>1. \A t, q : HeldBy(q, t)' => HeldBy(q, t)
        BY <1>4 DEF HeldBy
    <2> QED BY <1>1, <2>1, HoldersStay
<1>5. CASE Finish(p)
    BY <1>1, <1>5, HoldersFinish
<1>6. ASSUME NEW s \in {"createToken", "send", "getToken"}, NEW j, GotoWith(p, s, j)
      PROVE  HolderInv'
    BY <1>1, <1>2, <1>6, HoldersMove
<1> QED BY <1>3, <1>4, <1>5, <1>6

(* A transaction goes on with the link it holds. *)
LEMMA HoldersTx ==
    ASSUME TypeInv, HolderInv, LinksMove, NEW p \in Procs,
           UpdatePassword(p) \/ MarkUsed(p) \/ InvalidateOthers(p)
    PROVE  HolderInv'
<1>1. UNCHANGED <<uses, overlapped>> /\ pc[p] \in HolderPCs
    BY DEF UpdatePassword, MarkUsed, InvalidateOthers, history, HolderPCs, InTx
<1>2. job[p] \in Job
    BY JobOf
<1>3. CASE Finish(p)
    BY <1>1, <1>3, HoldersFinish
<1>4. CASE ~Finish(p)
    <2>1. PICK F : \/ GotoWith(p, "markUsed", [job[p] EXCEPT !.found = F])
                   \/ GotoWith(p, "invalidateOthers", [job[p] EXCEPT !.marked = F])
                   \/ GotoWith(p, "commit", [job[p] EXCEPT !.marked = F])
        BY <1>4 DEF UpdatePassword, MarkUsed, InvalidateOthers
    <2>2. PICK j, k : j = [job[p] EXCEPT !.found = F] /\ k = [job[p] EXCEPT !.marked = F]
        OBVIOUS
    <2>3. j.token = job[p].token /\ k.token = job[p].token
        BY <1>2, <2>2 DEF Job
    <2>4. \/ GotoWith(p, "markUsed", j) \/ GotoWith(p, "invalidateOthers", k)
          \/ GotoWith(p, "commit", k)
        BY <2>1, <2>2
    <2> QED BY <1>1, <2>3, <2>4, HoldersMove
<1> QED BY <1>3, <1>4

LEMMA HolderNext == TypeInv /\ HolderInv /\ [Next]_vars => HolderInv'
<1> SUFFICES ASSUME TypeInv, HolderInv, [Next]_vars PROVE HolderInv'
    OBVIOUS
<1>1. LinksMove
    BY TypeNext
<1>2. CASE Tick \/ Quiescent \/ UNCHANGED vars
    <2>1. UNCHANGED <<uses, overlapped, pc, job>>
        BY <1>2 DEF Tick, Quiescent, vars, history
    <2>2. \A t, q : HeldBy(q, t)' => HeldBy(q, t)
        BY <2>1 DEF HeldBy
    <2> QED BY <1>1, <2>1, <2>2, HoldersStay
<1>3. ASSUME NEW p \in Procs, Commit(p) PROVE HolderInv'
    <2>1. CASE Commits(p)
        BY <1>3, <2>1, HoldersCommit
    <2>2. CASE UNCHANGED <<uses, overlapped>>
        BY <1>1, <1>3, <2>2, CommitCases, HoldersFinish
    <2> QED BY <1>3, <2>1, <2>2, CommitCases
<1> QED BY <1>1, <1>2, <1>3, HoldersRequest, HoldersGetToken, HoldersTx DEF Next

(***************************************************************************)
(* used_at is asked before the transaction and not in it: a link that sets *)
(* a second password was held by two requests at once, each of which had   *)
(* found it unused.  A request that comes after the first is done is       *)
(* turned down.                                                            *)
(***************************************************************************)
THEOREM OverlapCorrect == Spec => []UsedTwiceOnlyByOverlap
<1>1. Init => HolderInv
    BY DEF Init, HolderInv, HoldersApart, UsesShow, HeldBy, InTx
<1>2. TypeInv /\ HolderInv => UsedTwiceOnlyByOverlap
    <2> SUFFICES ASSUME TypeInv, HolderInv, NEW t \in Tokens, uses[t] > 1, t \notin overlapped
                 PROVE  FALSE
        BY DEF UsedTwiceOnlyByOverlap
    <2>1. uses[t] \in Nat /\ uses[t] <= 1
        BY DEF TypeInv, RowTypes, HolderInv, HoldersApart
    <2> QED BY <2>1
<1> QED BY <1>1, <1>2, HolderNext, TypeInvariance, PTL DEF Spec

-----------------------------------------------------------------------------
(* The limiters *)

(* The calls of a key that were allowed since the window began are those   *)
(* its limiter remembers, no two of them are one, none is to come, and     *)
(* they are within the limit.                                              *)
Numbered(H) == \A h \in H : h.nth < Cardinality({g \in H : g.at = h.at})

Counts(H, limit, now) ==
    /\ H \subseteq Hit(Nat)
    /\ \A h \in H : h.at <= now
    /\ IsFiniteSet(H) /\ Cardinality(H) <= limit
    /\ Numbered(H)

Remembers(l, K, H, now) == \A k \in K : Kept(HitsOf(l, k), now) = H[k]

Holds(l, K) == /\ l = [hits |-> l.hits, sweepCount |-> l.sweepCount]
               /\ l.hits = [k \in DOMAIN l.hits |-> l.hits[k]]
               /\ \A k \in K : \A h \in HitsOf(l, k) : h.at \in Nat

LimiterInv(l, K, H, limit, now) ==
    /\ Holds(l, K)
    /\ Remembers(l, K, H, now)
    /\ \A k \in K : Counts(H[k], limit, now)

LimitersInv ==
    /\ clock \in Nat
    /\ allowed = [forgot |-> allowed.forgot, reset |-> allowed.reset]
    /\ allowed.forgot = [e \in Addresses |-> allowed.forgot[e]]
    /\ allowed.reset = [i \in IPs |-> allowed.reset[i]]
    /\ LimiterInv(forgotLimit, Addresses, allowed.forgot, ForgotLimit, clock)
    /\ LimiterInv(resetLimit, IPs, allowed.reset, ResetLimit, clock)

(* A call that is counted is not one that was counted before. *)
LEMMA AppendedIsNew ==
    ASSUME NEW H, NEW now \in Nat, IsFiniteSet(H), Numbered(H)
    PROVE  /\ [at |-> now, nth |-> Cardinality({g \in H : g.at = now})] \notin H
           /\ IsFiniteSet(Appended(H, now))
           /\ Cardinality(Appended(H, now)) = Cardinality(H) + 1
<1> DEFINE Same == {g \in H : g.at = now}
<1>1. IsFiniteSet(Same) /\ Cardinality(Same) \in Nat
    BY FS_Subset, FS_CardinalityType
<1>2. PICK n \in Nat : n = Cardinality(Same)
    BY <1>1
<1>3. PICK x : x = [at |-> now, nth |-> n]
    OBVIOUS
<1>4. x \notin H
    <2> SUFFICES ASSUME x \in H PROVE FALSE
        OBVIOUS
    <2>1. x.at = now /\ x.nth = n
        BY <1>3
    <2>2. x.nth < Cardinality({g \in H : g.at = x.at})
        BY DEF Numbered
    <2>3. n < n
        BY <1>2, <2>1, <2>2
    <2> QED BY <1>2, <2>3
<1>5. Appended(H, now) = H \cup {x}
    BY <1>2, <1>3 DEF Appended
<1>6. IsFiniteSet(H \cup {x}) /\ Cardinality(H \cup {x}) = Cardinality(H) + 1
    BY <1>4, FS_AddElement
<1>7. [at |-> now, nth |-> Cardinality({g \in H : g.at = now})] = x
    BY <1>2, <1>3
<1> QED BY <1>4, <1>5, <1>6, <1>7

LEMMA AppendedNumbered ==
    ASSUME NEW H, NEW now \in Nat, IsFiniteSet(H), Numbered(H), H \subseteq Hit(Nat)
    PROVE  Numbered(Appended(H, now))
<1> DEFINE Same == {g \in H : g.at = now}
<1>1. IsFiniteSet(Same) /\ Cardinality(Same) \in Nat
    BY FS_Subset, FS_CardinalityType
<1>2. PICK n \in Nat : n = Cardinality(Same)
    BY <1>1
<1>3. PICK x : x = [at |-> now, nth |-> n]
    OBVIOUS
<1>4. x \notin H
    BY <1>2, <1>3, AppendedIsNew
<1>5. PICK A : A = H \cup {x}
    OBVIOUS
<1>6. {g \in A : g.at = now} = Same \cup {x}
    BY <1>3, <1>5
<1>7. Cardinality(Same \cup {x}) = n + 1
    BY <1>1, <1>2, <1>4, FS_AddElement
<1>8. ASSUME NEW h \in A PROVE h.nth < Cardinality({g \in A : g.at = h.at})
    <2>1. CASE h = x
        <3>1. h.at = now /\ h.nth = n
            BY <1>3, <2>1
        <3>2. Cardinality({g \in A : g.at = h.at}) = n + 1
            BY <1>6, <1>7, <3>1
        <3> QED BY <1>2, <3>1, <3>2
    <2>2. CASE h # x /\ h.at = now
        <3>1. h \in H
            BY <1>5, <2>2
        <3>2. h.nth < n
            BY <1>2, <2>2, <3>1 DEF Numbered
        <3>3. Cardinality({g \in A : g.at = h.at}) = n + 1
            BY <1>6, <1>7, <2>2
        <3>4. h.nth \in Nat
            BY <3>1 DEF Hit
        <3> QED BY <1>2, <3>2, <3>3, <3>4
    <2>3. CASE h # x /\ h.at # now
        <3>1. h \in H
            BY <1>5, <2>3
        <3>2. {g \in A : g.at = h.at} = {g \in H : g.at = h.at}
            BY <1>3, <1>5, <2>3
        <3> QED BY <3>1, <3>2 DEF Numbered
    <2> QED BY <2>1, <2>2, <2>3
<1>9. Appended(H, now) = A
    BY <1>2, <1>3, <1>5 DEF Appended
<1> QED BY <1>8, <1>9 DEF Numbered

LEMMA CountsAppended ==
    ASSUME NEW H, NEW limit \in Nat, NEW now \in Nat,
           Counts(H, limit, now), Cardinality(H) < limit
    PROVE  Counts(Appended(H, now), limit, now)
<1>1. IsFiniteSet(H) /\ Cardinality(H) \in Nat /\ H \subseteq Hit(Nat) /\ Numbered(H)
    BY FS_CardinalityType DEF Counts
<1>2. Cardinality({g \in H : g.at = now}) \in Nat
    BY <1>1, FS_Subset, FS_CardinalityType
<1>3. PICK n \in Nat : n = Cardinality({g \in H : g.at = now})
    BY <1>2
<1>4. Appended(H, now) = H \cup {[at |-> now, nth |-> n]}
    BY <1>3 DEF Appended
<1>5. Appended(H, now) \subseteq Hit(Nat)
    BY <1>1, <1>4 DEF Hit
<1>6. \A h \in Appended(H, now) : h.at <= now
    BY <1>4 DEF Counts
<1>7. IsFiniteSet(Appended(H, now)) /\ Cardinality(Appended(H, now)) = Cardinality(H) + 1
    BY <1>1, AppendedIsNew
<1>8. Cardinality(Appended(H, now)) <= limit
    BY <1>1, <1>7
<1>9. Numbered(Appended(H, now))
    BY <1>1, AppendedNumbered
<1> QED BY <1>5, <1>6, <1>7, <1>8, <1>9 DEF Counts

(* What leaves the window leaves with all that came at the same time. *)
LEMMA CountsKept ==
    ASSUME NEW H, NEW limit \in Nat, NEW now \in Nat, Counts(H, limit, now)
    PROVE  Counts(Kept(H, now + 1), limit, now + 1)
<1>1. PICK K : K = Kept(H, now + 1)
    OBVIOUS
<1>2. K \subseteq H /\ \A h \in K : InWindow(h, now + 1)
    BY <1>1 DEF Kept
<1>3. IsFiniteSet(H) /\ H \subseteq Hit(Nat) /\ Cardinality(H) <= limit
    BY DEF Counts
<1>4. IsFiniteSet(K) /\ Cardinality(K) <= Cardinality(H)
    BY <1>2, <1>3, FS_Subset
<1>5. Cardinality(K) \in Nat /\ Cardinality(H) \in Nat
    BY <1>3, <1>4, FS_CardinalityType
<1>6. Cardinality(K) <= limit
    BY <1>3, <1>4, <1>5
<1>7. \A h \in K : h.at \in Nat /\ h.at <= now + 1
    <2> SUFFICES ASSUME NEW h \in K PROVE h.at \in Nat /\ h.at <= now + 1
        OBVIOUS
    <2>1. h.at \in Nat
        BY <1>2, <1>3 DEF Hit
    <2>2. h.at <= now
        BY <1>2 DEF Counts
    <2> QED BY <2>1, <2>2
<1>8. ASSUME NEW h \in K PROVE h.nth < Cardinality({g \in K : g.at = h.at})
    <2>1. {g \in K : g.at = h.at} = {g \in H : g.at = h.at}
        <3>1. ASSUME NEW g \in H, g.at = h.at PROVE g \in K
            <4>1. InWindow(h, now + 1)
                BY <1>2
            <4>2. InWindow(g, now + 1)
                BY <3>1, <4>1 DEF InWindow
            <4> QED BY <1>1, <3>1, <4>2 DEF Kept
        <3> QED BY <1>2, <3>1
    <2>2. h.nth < Cardinality({g \in H : g.at = h.at})
        BY <1>2 DEF Counts, Numbered
    <2> QED BY <2>1, <2>2
<1>9. Numbered(K)
    BY <1>8 DEF Numbered
<1>10. K \subseteq Hit(Nat) /\ \A h \in K : h.at <= now + 1
    BY <1>2, <1>3, <1>7
<1> QED BY <1>1, <1>4, <1>6, <1>9, <1>10 DEF Counts

(* The hits of a key after it was recorded, and after a sweep. *)
Recorded(m, l, key, kept) ==
    /\ m.hits = [k \in DOMAIN m.hits |-> m.hits[k]]
    /\ HitsOf(m, key) = kept
    /\ \A k : k # key => HitsOf(m, k) = HitsOf(l, k)

LEMMA RecordHits ==
    ASSUME NEW l, NEW key, NEW kept, NEW m,
           m.hits = Record(l.hits, key, kept)
    PROVE  Recorded(m, l, key, kept)
<1> DEFINE R == Record(l.hits, key, kept)
<1>1. DOMAIN R = DOMAIN l.hits \cup {key}
    BY DEF Record
<1>2. \A k \in DOMAIN R : R[k] = IF k = key THEN kept ELSE l.hits[k]
    BY DEF Record
<1>3. R = [k \in DOMAIN R |-> R[k]]
    BY DEF Record
<1>4. m.hits = R
    OBVIOUS
<1> HIDE DEF R
<1>5. HitsOf(m, key) = kept
    BY <1>1, <1>2, <1>4 DEF HitsOf
<1>6. \A k : k # key => HitsOf(m, k) = HitsOf(l, k)
    BY <1>1, <1>2, <1>4 DEF HitsOf
<1>7. m.hits = [k \in DOMAIN m.hits |-> m.hits[k]]
    BY <1>3, <1>4
<1> QED BY <1>5, <1>6, <1>7 DEF R, Recorded

LEMMA SweepHits ==
    ASSUME NEW l, NEW now, NEW m, m.hits = SweepExpired(l.hits, now)
    PROVE  /\ m.hits = [k \in DOMAIN m.hits |-> m.hits[k]]
           /\ \A k : HitsOf(m, k) \subseteq HitsOf(l, k)
           /\ \A k : Kept(HitsOf(m, k), now) = Kept(HitsOf(l, k), now)
<1> DEFINE R == SweepExpired(l.hits, now)
<1>1. DOMAIN R = {d \in DOMAIN l.hits : \E h \in l.hits[d] : InWindow(h, now)}
    BY DEF SweepExpired
<1>2. \A k \in DOMAIN R : R[k] = l.hits[k]
    BY DEF SweepExpired
<1>3. R = [k \in DOMAIN R |-> R[k]]
    BY DEF SweepExpired
<1>4. m.hits = R
    OBVIOUS
<1> HIDE DEF R
<1>5. \A k : k \in DOMAIN R => HitsOf(m, k) = HitsOf(l, k)
    BY <1>1, <1>2, <1>4 DEF HitsOf
<1>6. \A k : k \notin DOMAIN R => HitsOf(m, k) = {}
    BY <1>4 DEF HitsOf
<1>7. \A k : k \notin DOMAIN R => Kept(HitsOf(l, k), now) = {}
    BY <1>1 DEF HitsOf, Kept
<1>8. Kept({}, now) = {}
    BY DEF Kept
<1>9. m.hits = [k \in DOMAIN m.hits |-> m.hits[k]]
    BY <1>3, <1>4
<1>10. \A k : HitsOf(m, k) \subseteq HitsOf(l, k)
    BY <1>5, <1>6
<1>11. \A k : Kept(HitsOf(m, k), now) = Kept(HitsOf(l, k), now)
    BY <1>5, <1>6, <1>7, <1>8
<1> QED BY <1>9, <1>10, <1>11 DEF R

(* A limiter that has, for one key, what was allowed in the window. *)
LEMMA KeyStep ==
    ASSUME NEW l, NEW m, NEW K, NEW key \in K, NEW G, NEW H, NEW limit \in Nat, NEW now \in Nat,
           LimiterInv(l, K, H, limit, now),
           m = [hits |-> m.hits, sweepCount |-> m.sweepCount],
           m.hits = [k \in DOMAIN m.hits |-> m.hits[k]],
           HitsOf(m, key) = G[key], Counts(G[key], limit, now),
           \A h \in G[key] : InWindow(h, now),
           \A k \in K : k # key => HitsOf(m, k) = HitsOf(l, k) /\ G[k] = H[k]
    PROVE  LimiterInv(m, K, G, limit, now)
<1>1. ASSUME NEW k \in K
      PROVE  /\ \A h \in HitsOf(m, k) : h.at \in Nat
             /\ Kept(HitsOf(m, k), now) = G[k]
             /\ Counts(G[k], limit, now)
    <2>1. CASE k = key
        <3>1. Kept(G[key], now) = G[key]
            BY DEF Kept
        <3>2. \A h \in G[key] : h.at \in Nat
            BY DEF Counts, Hit
        <3> QED BY <2>1, <3>1, <3>2
    <2>2. CASE k # key
        BY <2>2 DEF LimiterInv, Holds, Remembers
    <2> QED BY <2>1, <2>2
<1>2. Holds(m, K)
    BY <1>1 DEF Holds
<1>3. Remembers(m, K, G, now)
    BY <1>1 DEF Remembers
<1> QED BY <1>1, <1>2, <1>3 DEF LimiterInv

LEMMA SweepStep ==
    ASSUME NEW l, NEW n, NEW K, NEW H, NEW limit, NEW now, LimiterInv(l, K, H, limit, now)
    PROVE  LimiterInv([hits |-> SweepExpired(l.hits, now), sweepCount |-> n], K, H, limit, now)
<1>1. PICK m : m = [hits |-> SweepExpired(l.hits, now), sweepCount |-> n]
    OBVIOUS
<1>2. m = [hits |-> m.hits, sweepCount |-> m.sweepCount] /\ m.hits = SweepExpired(l.hits, now)
    BY <1>1
<1>3. /\ m.hits = [k \in DOMAIN m.hits |-> m.hits[k]]
      /\ \A k : HitsOf(m, k) \subseteq HitsOf(l, k)
      /\ \A k : Kept(HitsOf(m, k), now) = Kept(HitsOf(l, k), now)
    BY <1>2, SweepHits
<1>4. Holds(m, K)
    BY <1>2, <1>3 DEF Holds, LimiterInv
<1>5. Remembers(m, K, H, now)
    BY <1>3 DEF Remembers, LimiterInv
<1>6. LimiterInv(m, K, H, limit, now)
    BY <1>4, <1>5 DEF LimiterInv
<1> QED BY <1>1, <1>6

(* A call of one key, that is allowed or refused. *)
LEMMA AllowStep ==
    ASSUME NEW l, NEW K, NEW key \in K, NEW G, NEW H, NEW limit \in Nat, NEW now \in Nat,
           LimiterInv(l, K, H, limit, now),
           G[key] = IF Allows(l, key, limit, now) THEN Appended(H[key], now) ELSE H[key],
           \A k \in K : k # key => G[k] = H[k]
    PROVE  LimiterInv(AfterAllow(l, key, limit, now), K, G, limit, now)
<1>1. PICK kept : kept = Kept(HitsOf(l, key), now)
    OBVIOUS
<1>2. kept = H[key] /\ Counts(kept, limit, now)
    BY <1>1 DEF LimiterInv, Remembers
<1>3. l = [hits |-> l.hits, sweepCount |-> l.sweepCount]
    BY DEF LimiterInv, Holds
<1>4. \A h \in kept : InWindow(h, now)
    BY <1>1 DEF Kept
<1>5. Allows(l, key, limit, now) <=> Cardinality(kept) < limit
    BY <1>1 DEF Allows
<1>6. CASE ~Allows(l, key, limit, now)
    <2>1. PICK m : m = [hits |-> Record(l.hits, key, kept), sweepCount |-> l.sweepCount]
        OBVIOUS
    <2>2. AfterAllow(l, key, limit, now) = m
        <3>1. AfterAllow(l, key, limit, now) = [l EXCEPT !.hits = Record(l.hits, key, kept)]
            BY <1>1, <1>6 DEF AfterAllow
        <3>2. PICK R : R = Record(l.hits, key, kept)
            OBVIOUS
        <3>3. [l EXCEPT !.hits = R] = [hits |-> R, sweepCount |-> l.sweepCount]
            BY <1>3
        <3> QED BY <2>1, <3>1, <3>2, <3>3
    <2>3. m = [hits |-> m.hits, sweepCount |-> m.sweepCount] /\ m.hits = Record(l.hits, key, kept)
        BY <2>1
    <2>4. Recorded(m, l, key, kept)
        BY <2>3, RecordHits
    <2>5. G[key] = kept
        BY <1>2, <1>6
    <2>6. LimiterInv(m, K, G, limit, now)
        BY <1>2, <1>4, <2>4, <2>5, <2>3, KeyStep DEF Recorded
    <2> QED BY <2>2, <2>6
<1>7. CASE Allows(l, key, limit, now)
    <2>1. PICK S : S = Appended(kept, now)
        OBVIOUS
    <2>2. Counts(S, limit, now)
        BY <1>2, <1>5, <1>7, <2>1, CountsAppended
    <2>3. \A h \in S : InWindow(h, now)
        <3>1. PICK n : n = Cardinality({h \in kept : h.at = now})
            OBVIOUS
        <3>2. S = kept \cup {[at |-> now, nth |-> n]}
            BY <2>1, <3>1 DEF Appended
        <3>3. InWindow([at |-> now, nth |-> n], now)
            BY LimiterAssumption DEF InWindow
        <3> QED BY <1>4, <3>2, <3>3
    <2>4. PICK c : c = l.sweepCount + 1
        OBVIOUS
    <2>5. PICK m : m = [hits |-> Record(l.hits, key, S), sweepCount |-> c]
        OBVIOUS
    <2>6. m = [hits |-> m.hits, sweepCount |-> m.sweepCount] /\ m.hits = Record(l.hits, key, S)
        BY <2>5
    <2>7. Recorded(m, l, key, S)
        BY <2>6, RecordHits
    <2>8. G[key] = S
        BY <1>2, <1>7, <2>1
    <2>9. LimiterInv(m, K, G, limit, now)
        BY <2>2, <2>3, <2>7, <2>8, <2>6, KeyStep DEF Recorded
    <2>10. LimiterInv([hits |-> SweepExpired(m.hits, now), sweepCount |-> 0], K, G, limit, now)
        BY <2>9, SweepStep
    <2>11. \/ AfterAllow(l, key, limit, now) = m
           \/ AfterAllow(l, key, limit, now) =
                [hits |-> SweepExpired(m.hits, now), sweepCount |-> 0]
        <3>1. m.hits = Record(l.hits, key, S)
            BY <2>5
        <3> QED BY <1>1, <1>7, <2>1, <2>4, <2>5, <3>1 DEF AfterAllow
    <2> QED BY <2>9, <2>10, <2>11
<1> QED BY <1>6, <1>7

(* Time passes. *)
LEMMA WindowStep ==
    ASSUME NEW l, NEW K, NEW G, NEW H, NEW limit \in Nat, NEW now \in Nat,
           LimiterInv(l, K, H, limit, now),
           \A k \in K : G[k] = Kept(H[k], now + 1)
    PROVE  LimiterInv(l, K, G, limit, now + 1)
<1>1. ASSUME NEW k \in K PROVE Kept(HitsOf(l, k), now + 1) = G[k]
    <2>1. PICK S : S = HitsOf(l, k)
        OBVIOUS
    <2>2. \A h \in S : h.at \in Nat
        BY <2>1 DEF LimiterInv, Holds
    <2>3. \A h \in S : InWindow(h, now + 1) => InWindow(h, now)
        BY <2>2, LimiterAssumption DEF InWindow
    <2>4. Kept(S, now + 1) = Kept(Kept(S, now), now + 1)
        BY <2>3 DEF Kept
    <2>5. Kept(S, now) = H[k]
        BY <2>1 DEF LimiterInv, Remembers
    <2> QED BY <2>1, <2>4, <2>5
<1>2. \A k \in K : Counts(G[k], limit, now + 1)
    BY CountsKept DEF LimiterInv
<1> QED BY <1>1, <1>2 DEF LimiterInv, Remembers

LEMMA LimitersInit == Init => LimitersInv
<1> SUFFICES ASSUME Init PROVE LimitersInv
    OBVIOUS
<1>1. NewMemoryRateLimiter = [hits |-> NewMemoryRateLimiter.hits,
                              sweepCount |-> NewMemoryRateLimiter.sweepCount]
    BY DEF NewMemoryRateLimiter
<1>2. /\ NewMemoryRateLimiter.hits = [k \in {} |-> {}]
      /\ \A k : HitsOf(NewMemoryRateLimiter, k) = {}
    BY DEF NewMemoryRateLimiter, HitsOf
<1>3. \A K : Holds(NewMemoryRateLimiter, K)
    BY <1>1, <1>2 DEF Holds
<1>4. Counts({}, ForgotLimit, 0) /\ Counts({}, ResetLimit, 0)
    <2>1. ForgotLimit \in Nat /\ ResetLimit \in Nat
        BY ResetAssumption
    <2> QED BY <2>1, FS_EmptySet DEF Counts, Numbered
<1>5. \A k : Kept(HitsOf(NewMemoryRateLimiter, k), 0) = {}
    BY <1>2 DEF Kept
<1>6. /\ allowed.forgot = [e \in Addresses |-> {}] /\ allowed.reset = [i \in IPs |-> {}]
      /\ allowed = [forgot |-> allowed.forgot, reset |-> allowed.reset]
      /\ forgotLimit = NewMemoryRateLimiter /\ resetLimit = NewMemoryRateLimiter
      /\ clock = 0
    BY DEF Init
<1>7. LimiterInv(forgotLimit, Addresses, allowed.forgot, ForgotLimit, clock)
    BY <1>3, <1>4, <1>5, <1>6 DEF LimiterInv, Remembers
<1>8. LimiterInv(resetLimit, IPs, allowed.reset, ResetLimit, clock)
    BY <1>3, <1>4, <1>5, <1>6 DEF LimiterInv, Remembers
<1> QED BY <1>6, <1>7, <1>8 DEF LimitersInv

LEMMA LimitersForgot ==
    ASSUME LimitersInv, NEW p \in Procs, ForgotPassword(p)
    PROVE  LimitersInv'
<1>1. PICK email \in Addresses :
        /\ forgotLimit' = AfterAllow(forgotLimit, email, ForgotLimit, clock)
        /\ IF Allows(forgotLimit, email, ForgotLimit, clock)
           THEN allowed' = [allowed EXCEPT !.forgot[email] = Appended(@, clock)]
           ELSE UNCHANGED allowed
        /\ UNCHANGED <<resetLimit, clock>>
    BY ResetAssumption DEF ForgotPassword
<1>2. PICK F, R : F = allowed.forgot /\ R = allowed.reset
    OBVIOUS
<1>3. PICK S : S = Appended(F[email], clock)
    OBVIOUS
<1>4. /\ allowed = [forgot |-> F, reset |-> R]
      /\ F = [e \in Addresses |-> F[e]] /\ R = [i \in IPs |-> R[i]]
    BY <1>2 DEF LimitersInv
<1>5. PICK G : G = IF Allows(forgotLimit, email, ForgotLimit, clock)
                   THEN [F EXCEPT ![email] = S] ELSE F
    OBVIOUS
<1>6. /\ G = [e \in Addresses |-> G[e]]
      /\ G[email] = IF Allows(forgotLimit, email, ForgotLimit, clock) THEN S ELSE F[email]
      /\ \A e \in Addresses : e # email => G[e] = F[e]
    BY <1>4, <1>5
<1>7. allowed' = [forgot |-> G, reset |-> R]
    <2>1. CASE Allows(forgotLimit, email, ForgotLimit, clock)
        <3>1. allowed' = [allowed EXCEPT !.forgot = [@ EXCEPT ![email] = S]]
            BY <1>1, <1>2, <1>3, <2>1
        <3>2. [allowed EXCEPT !.forgot = [@ EXCEPT ![email] = S]] =
                [allowed EXCEPT !.forgot = G]
            BY <1>2, <1>5, <2>1
        <3> QED BY <1>4, <3>1, <3>2
    <2>2. CASE ~Allows(forgotLimit, email, ForgotLimit, clock)
        BY <1>1, <1>4, <1>5, <2>2
    <2> QED BY <2>1, <2>2
<1>8. /\ clock \in Nat /\ ForgotLimit \in Nat
      /\ LimiterInv(forgotLimit, Addresses, F, ForgotLimit, clock)
      /\ LimiterInv(resetLimit, IPs, R, ResetLimit, clock)
    BY <1>2, ResetAssumption DEF LimitersInv
<1>9. LimiterInv(AfterAllow(forgotLimit, email, ForgotLimit, clock),
                 Addresses, G, ForgotLimit, clock)
    BY <1>3, <1>6, <1>8, AllowStep
<1>10. allowed'.forgot = G /\ allowed'.reset = R
    BY <1>7
<1>11. LimiterInv(forgotLimit, Addresses, allowed.forgot, ForgotLimit, clock)'
    BY <1>1, <1>9, <1>10
<1>12. LimiterInv(resetLimit, IPs, allowed.reset, ResetLimit, clock)'
    BY <1>1, <1>8, <1>10
<1> QED BY <1>1, <1>4, <1>6, <1>7, <1>8, <1>10, <1>11, <1>12 DEF LimitersInv

LEMMA LimitersReset ==
    ASSUME LimitersInv, NEW p \in Procs, ResetPassword(p)
    PROVE  LimitersInv'
<1>1. PICK ip \in IPs :
        /\ resetLimit' = AfterAllow(resetLimit, ip, ResetLimit, clock)
        /\ IF Allows(resetLimit, ip, ResetLimit, clock)
           THEN allowed' = [allowed EXCEPT !.reset[ip] = Appended(@, clock)]
           ELSE UNCHANGED allowed
        /\ UNCHANGED <<forgotLimit, clock>>
    BY DEF ResetPassword
<1>2. PICK F, R : F = allowed.reset /\ R = allowed.forgot
    OBVIOUS
<1>3. PICK S : S = Appended(F[ip], clock)
    OBVIOUS
<1>4. /\ allowed = [forgot |-> R, reset |-> F]
      /\ F = [e \in IPs |-> F[e]] /\ R = [i \in Addresses |-> R[i]]
    BY <1>2 DEF LimitersInv
<1>5. PICK G : G = IF Allows(resetLimit, ip, ResetLimit, clock)
                   THEN [F EXCEPT ![ip] = S] ELSE F
    OBVIOUS
<1>6. /\ G = [e \in IPs |-> G[e]]
      /\ G[ip] = IF Allows(resetLimit, ip, ResetLimit, clock) THEN S ELSE F[ip]
      /\ \A e \in IPs : e # ip => G[e] = F[e]
    BY <1>4, <1>5
<1>7. allowed' = [forgot |-> R, reset |-> G]
    <2>1. CASE Allows(resetLimit, ip, ResetLimit, clock)
        <3>1. allowed' = [allowed EXCEPT !.reset = [@ EXCEPT ![ip] = S]]
            BY <1>1, <1>2, <1>3, <2>1
        <3>2. [allowed EXCEPT !.reset = [@ EXCEPT ![ip] = S]] =
                [allowed EXCEPT !.reset = G]
            BY <1>2, <1>5, <2>1
        <3> QED BY <1>4, <3>1, <3>2
    <2>2. CASE ~Allows(resetLimit, ip, ResetLimit, clock)
        BY <1>1, <1>4, <1>5, <2>2
    <2> QED BY <2>1, <2>2
<1>8. /\ clock \in Nat /\ ResetLimit \in Nat
      /\ LimiterInv(resetLimit, IPs, F, ResetLimit, clock)
      /\ LimiterInv(forgotLimit, Addresses, R, ForgotLimit, clock)
    BY <1>2, ResetAssumption DEF LimitersInv
<1>9. LimiterInv(AfterAllow(resetLimit, ip, ResetLimit, clock),
                 IPs, G, ResetLimit, clock)
    BY <1>3, <1>6, <1>8, AllowStep
<1>10. allowed'.reset = G /\ allowed'.forgot = R
    BY <1>7
<1>11. LimiterInv(resetLimit, IPs, allowed.reset, ResetLimit, clock)'
    BY <1>1, <1>9, <1>10
<1>12. LimiterInv(forgotLimit, Addresses, allowed.forgot, ForgotLimit, clock)'
    BY <1>1, <1>8, <1>10
<1> QED BY <1>1, <1>4, <1>6, <1>7, <1>8, <1>10, <1>11, <1>12 DEF LimitersInv

LEMMA LimitersTick ==
    ASSUME LimitersInv, Tick
    PROVE  LimitersInv'
<1>1. /\ clock \in Nat /\ clock' = clock + 1 /\ ForgotLimit \in Nat /\ ResetLimit \in Nat
      /\ UNCHANGED <<forgotLimit, resetLimit>>
    BY ResetAssumption DEF LimitersInv, Tick
<1>2. PICK F, R : /\ F = [e \in Addresses |-> Kept(allowed.forgot[e], clock')]
                  /\ R = [i \in IPs |-> Kept(allowed.reset[i], clock')]
    OBVIOUS
<1>3. allowed' = [forgot |-> F, reset |-> R]
    BY <1>2 DEF Tick
<1>4. allowed'.forgot = F /\ allowed'.reset = R
    BY <1>3
<1>5. /\ F = [e \in Addresses |-> F[e]] /\ R = [i \in IPs |-> R[i]]
      /\ \A e \in Addresses : F[e] = Kept(allowed.forgot[e], clock + 1)
      /\ \A i \in IPs : R[i] = Kept(allowed.reset[i], clock + 1)
    BY <1>1, <1>2
<1>6. LimiterInv(forgotLimit, Addresses, F, ForgotLimit, clock + 1)
    BY <1>1, <1>5, WindowStep DEF LimitersInv
<1>7. LimiterInv(resetLimit, IPs, R, ResetLimit, clock + 1)
    BY <1>1, <1>5, WindowStep DEF LimitersInv
<1>8. LimiterInv(forgotLimit, Addresses, allowed.forgot, ForgotLimit, clock)'
    BY <1>1, <1>4, <1>6
<1>9. LimiterInv(resetLimit, IPs, allowed.reset, ResetLimit, clock)'
    BY <1>1, <1>4, <1>7
<1> QED BY <1>1, <1>3, <1>4, <1>5, <1>8, <1>9 DEF LimitersInv

LEMMA LimitersNext == LimitersInv /\ [Next]_vars => LimitersInv'
<1> SUFFICES ASSUME LimitersInv, [Next]_vars PROVE LimitersInv'
    OBVIOUS
<1>1. CASE UNCHANGED <<limiters, clock>>
    BY <1>1 DEF LimitersInv, limiters
<1>2. CASE Quiescent \/ UNCHANGED vars
    <2>1. UNCHANGED <<limiters, clock>>
        BY <1>2 DEF Quiescent, vars, limiters
    <2> QED BY <1>1, <2>1
<1>3. ASSUME NEW p \in Procs,
             \/ CreatePasswordResetToken(p) \/ Send(p) \/ GetPasswordResetToken(p)
             \/ UpdatePassword(p) \/ MarkUsed(p) \/ InvalidateOthers(p) \/ Commit(p)
      PROVE  LimitersInv'
    <2>1. UNCHANGED <<limiters, clock>>
        BY <1>3 DEF CreatePasswordResetToken, Send, GetPasswordResetToken, UpdatePassword,
                    MarkUsed, InvalidateOthers, Commit
    <2> QED BY <1>1, <2>1
<1> QED BY <1>2, <1>3, LimitersForgot, LimitersReset, LimitersTick DEF Next

LEMMA LimitersInvariance == Spec => []LimitersInv
BY LimitersInit, LimitersNext, PTL DEF Spec

(***************************************************************************)
(* No window holds more allowed calls of an address, or of an IP, than the *)
(* limit: what a limiter drops when it prunes and sweeps is never a call   *)
(* that still counts.                                                      *)
(***************************************************************************)
THEOREM BurstCorrect == Spec => []NoBurstBeyondLimit
<1>1. LimitersInv => NoBurstBeyondLimit
    BY DEF LimitersInv, LimiterInv, Counts, NoBurstBeyondLimit
<1> QED BY <1>1, LimitersInvariance, PTL

(***************************************************************************)
(* What a limiter remembers of the window that ends now is exactly what it *)
(* allowed: nobody is refused for calls of another key, or for calls that  *)
(* were refused themselves.                                                *)
(***************************************************************************)
THEOREM LiveHitsCorrect == Spec => []LiveHitsAreRemembered
<1>1. LimitersInv => LiveHitsAreRemembered
    BY DEF LimitersInv, LimiterInv, Remembers, LiveHitsAreRemembered
<1> QED BY <1>1, LimitersInvariance, PTL

=============================================================================
