--------------------------- MODULE EarnBurnProofs ---------------------------
(***************************************************************************)
(* Proofs about the points program: for any number of clients, employees,  *)
(* rewards, codes and handlers.  The first half goes from the types and    *)
(* the row locks to the stock and the confirmations; the second is about   *)
(* the ledger: that it replays to the balances, that burn entries and      *)
(* redemptions go together, that a receipt and a load code credit one      *)
(* purchase, and that every transaction takes effect at once, as           *)
(* PointsContract says.                                                    *)
(***************************************************************************)
EXTENDS EarnBurn, FiniteSetTheorems, TLAPS

(***************************************************************************)
(* TypeOK is not inductive: a handler commits what its job holds, so what  *)
(* a job holds must be known wherever the handler is.                      *)
(***************************************************************************)
Differences == {n - m : n \in NewAmounts, m \in Credits}

EarnPCs == {"upsertBalance", "insertEarn"}
BurnPCs == {"reserveStock", "deductBalance", "insertRedemption", "cacheRedemption"}
ConfirmPCs == {"readRedemption", "markConfirmed"}
CorrectPCs == {"checkCorrectable", "adjustBalance", "insertAdjustment"}
ExpirePCs == {"selectExpiring", "deductExpired", "insertExpiration"}

(* What a handler that is at step s holds. *)
JobFits(s, j) ==
    /\ s \in EarnPCs => j.client \in Clients /\ j.amount \in Credits
    /\ s \in BurnPCs => /\ j.client \in Clients
                        /\ j.reward \in Rewards
                        /\ j.code \in Codes
                        /\ -j.amount \in Costs
    /\ s \in ConfirmPCs => j.code \in Codes /\ j.collaborator \in Collaborators
    /\ s \in CorrectPCs => j.client \in Clients /\ j.amount \in Differences
    /\ s \in ExpirePCs => j.client \in Clients

JobsOK == \A p \in Procs : JobFits(pc[p], job[p])

RowsOK ==
    /\ \A i \in DOMAIN ledger : ledger[i].type = "earn" => ledger[i].amount \in Credits
    /\ \A r \in Rewards : reward[r].cost \in Costs /\ reward[r].stock \in Stocks

TypeInv == TypeOK /\ RowsOK /\ JobsOK

(* The points of a creditable purchase are an integer above zero. *)
LEMMA CreditsType == Credits \subseteq Nat
<1>1. ASSUME NEW a \in Amounts, Creditable(a) PROVE PointsFor(a) \in Nat
    <2>1. a \in Nat /\ PointsRatio \in Nat /\ PointsRatio > 0
        BY ConfigAssumption
    <2>2. PointsFor(a) \in Int
        BY <2>1 DEF PointsFor
    <2> QED BY <1>1, <2>2 DEF Creditable
<1> QED BY <1>1 DEF Credits

LEMMA DifferencesType == Differences \subseteq Int
BY CreditsType, ConfigAssumption DEF Differences

LEMMA NoJobType == NoJob \in Job
BY DEF NoJob, Job

LEMMA TypeInit == Init => TypeInv
<1> SUFFICES ASSUME Init PROVE TypeInv
    OBVIOUS
<1> USE DEF Init
<1>1. TypeOK
    <2>1. reward \in [Rewards -> Reward]
        BY ConfigAssumption DEF Reward
    <2>2. job \in [Procs -> Job]
        BY NoJobType
    <2>3. pc \in [Procs -> PCs]
        BY DEF PCs
    <2> QED BY <2>1, <2>2, <2>3 DEF TypeOK, NoOTP
<1>2. RowsOK
    BY DEF RowsOK
<1>3. JobsOK
    BY DEF JobsOK, JobFits, EarnPCs, BurnPCs, ConfirmPCs, CorrectPCs, ExpirePCs
<1> QED BY <1>1, <1>2, <1>3 DEF TypeInv

(* A handler that moves to a step with a job that fits it. *)
LEMMA TypeMove ==
    ASSUME TypeInv, NEW p \in Procs, NEW s \in PCs, NEW j \in Job, JobFits(s, j),
           pc' = [pc EXCEPT ![p] = s], job' = [job EXCEPT ![p] = j]
    PROVE  /\ pc' \in [Procs -> PCs]
           /\ job' \in [Procs -> Job]
           /\ JobsOK'
<1>1. pc' \in [Procs -> PCs] /\ job' \in [Procs -> Job]
    BY DEF TypeInv, TypeOK
<1>2. JobsOK'
    BY DEF TypeInv, TypeOK, JobsOK
<1> QED BY <1>1, <1>2

(* A handler that ends. *)
LEMMA TypeFinish ==
    ASSUME TypeInv, NEW p \in Procs, Finish(p)
    PROVE  /\ pc' \in [Procs -> PCs]
           /\ job' \in [Procs -> Job]
           /\ JobsOK'
<1>1. JobFits("idle", NoJob)
    BY DEF JobFits, EarnPCs, BurnPCs, ConfirmPCs, CorrectPCs, ExpirePCs
<1>2. "idle" \in PCs
    BY DEF PCs
<1> QED BY <1>1, <1>2, NoJobType, TypeMove DEF Finish

(* A step that leaves the rows alone. *)
LEMMA TypeSameRows ==
    ASSUME TypeInv, UNCHANGED dbVars,
           pc' \in [Procs -> PCs], job' \in [Procs -> Job], JobsOK',
           otp' \in [Codes -> OTPData \cup {NoOTP}],
           closed' \subseteq Nat, lapsed' \subseteq Codes,
           messages' \in Nat, adminUpdates' \in Nat,
           issues' \in [Codes -> Nat], handed' \in [Codes -> Nat]
    PROVE  TypeInv'
<1>1. TypeOK'
    BY DEF TypeInv, TypeOK, dbVars
<1>2. RowsOK'
    BY DEF TypeInv, RowsOK, dbVars
<1> QED BY <1>1, <1>2 DEF TypeInv

(* A transaction that posts its entry and ends. *)
LEMMA TypeCommitEntry ==
    ASSUME TypeInv, NEW p \in Procs, NEW type \in TransactionTypes,
           job[p].client \in Clients, CommitEntry(p, type),
           type = "earn" => job[p].amount \in Credits
    PROVE  /\ balance' \in [Clients -> Nat]
           /\ ledger' \in Seq(Transaction)
           /\ \A i \in DOMAIN ledger' :
                  ledger'[i].type = "earn" => ledger'[i].amount \in Credits
<1>1. job[p] \in Job
    BY DEF TypeInv, TypeOK
<1>2. Entry(p, type) \in Transaction
    BY <1>1 DEF Entry, Job, Transaction
<1>3. ledger \in Seq(Transaction) /\ balance \in [Clients -> Nat]
    BY DEF TypeInv, TypeOK
<1>4. balance' \in [Clients -> Nat]
    BY <1>1, <1>3 DEF CommitEntry, Job
<1>5. ledger' \in Seq(Transaction)
    BY <1>2, <1>3 DEF CommitEntry
<1>6. ASSUME NEW i \in DOMAIN ledger', ledger'[i].type = "earn"
      PROVE  ledger'[i].amount \in Credits
    <2>1. \/ i \in DOMAIN ledger /\ ledger'[i] = ledger[i]
          \/ ledger'[i] = Entry(p, type)
        BY <1>2, <1>3 DEF CommitEntry
    <2>2. CASE i \in DOMAIN ledger /\ ledger'[i] = ledger[i]
        BY <1>6, <2>2 DEF TypeInv, RowsOK
    <2>3. CASE ledger'[i] = Entry(p, type)
        BY <1>6, <2>3 DEF Entry
    <2> QED BY <2>1, <2>2, <2>3
<1> QED BY <1>4, <1>5, <1>6

(* A message that arrives. *)
LEMMA TypeBegin ==
    ASSUME TypeInv, NEW p \in Procs, NEW s \in PCs, NEW j \in Job,
           JobFits(s, j), Begin(p, s, j), UNCHANGED <<dbVars, clockVars, adminUpdates, historyVars>>,
           otp' \in [Codes -> OTPData \cup {NoOTP}]
    PROVE  TypeInv'
<1>1. /\ pc' \in [Procs -> PCs]
      /\ job' \in [Procs -> Job]
      /\ JobsOK'
    BY TypeMove DEF Begin
<1>2. messages' \in Nat
    BY DEF TypeInv, TypeOK, Begin
<1> QED BY <1>1, <1>2, TypeSameRows DEF TypeInv, TypeOK, clockVars, historyVars

LEMMA TypeTurnedDown ==
    ASSUME TypeInv, NEW p \in Procs, Begin(p, "idle", NoJob),
           UNCHANGED <<dbVars, clockVars, adminUpdates, historyVars>>,
           otp' \in [Codes -> OTPData \cup {NoOTP}]
    PROVE  TypeInv'
<1>1. JobFits("idle", NoJob)
    BY DEF JobFits, EarnPCs, BurnPCs, ConfirmPCs, CorrectPCs, ExpirePCs
<1>2. "idle" \in PCs
    BY DEF PCs
<1> QED BY <1>1, <1>2, NoJobType, TypeBegin

LEMMA CreditJobType ==
    ASSUME NEW c \in Clients, NEW w \in Collaborators, NEW a \in Amounts,
           NEW x \in Receipts \cup {NoReceipt}, NEW via \in Codes \cup {Nil},
           Creditable(a)
    PROVE  /\ CreditJob(c, w, a, x, via) \in Job
           /\ JobFits("upsertBalance", CreditJob(c, w, a, x, via))
<1>1. PointsFor(a) \in Credits
    BY DEF Credits
<1>2. PointsFor(a) \in Int
    <2>1. PointsFor(a) \in Nat
        BY <1>1, CreditsType
    <2> QED BY <2>1
<1>3. CreditJob(c, w, a, x, via) \in Job
    BY <1>2 DEF CreditJob, NoJob, Job
<1>4. JobFits("upsertBalance", CreditJob(c, w, a, x, via))
    BY <1>1 DEF CreditJob, NoJob, JobFits, EarnPCs, BurnPCs, ConfirmPCs, CorrectPCs, ExpirePCs
<1> QED BY <1>3, <1>4

LEMMA ConsumeType ==
    ASSUME TypeInv, NEW k \in Codes, Consume(k) \/ UNCHANGED otp
    PROVE  otp' \in [Codes -> OTPData \cup {NoOTP}]
BY DEF TypeInv, TypeOK, Consume

LEMMA TypeProcessLoadCode ==
    ASSUME TypeInv, NEW p \in Procs, ProcessLoadCode(p)
    PROVE  TypeInv'
<1>1. PICK k \in Codes, w \in Collaborators, a \in Amounts,
           x \in Receipts \cup {NoReceipt} :
        /\ otp[k] # NoOTP
        /\ Consume(k)
        /\ \/ /\ Creditable(a)
              /\ Begin(p, "upsertBalance", CreditJob(otp[k].client, w, a, x, k))
           \/ Begin(p, "idle", NoJob)
        /\ UNCHANGED <<dbVars, clockVars, adminUpdates, historyVars>>
    BY DEF ProcessLoadCode
<1>2. otp[k].client \in Clients
    BY <1>1 DEF TypeInv, TypeOK, OTPData
<1>3. otp' \in [Codes -> OTPData \cup {NoOTP}]
    BY <1>1, ConsumeType
<1>4. "upsertBalance" \in PCs
    BY DEF PCs
<1>5. CASE Creditable(a) /\ Begin(p, "upsertBalance", CreditJob(otp[k].client, w, a, x, k))
    BY <1>1, <1>2, <1>3, <1>4, <1>5, CreditJobType, TypeBegin
<1>6. CASE Begin(p, "idle", NoJob)
    BY <1>1, <1>3, <1>6, TypeTurnedDown
<1> QED BY <1>1, <1>5, <1>6

LEMMA TypeAddPoints ==
    ASSUME TypeInv, NEW p \in Procs, AddPoints(p)
    PROVE  TypeInv'
<1>1. PICK c \in Clients, w \in Collaborators, a \in Amounts,
           x \in Receipts \cup {NoReceipt} :
        /\ Creditable(a)
        /\ Begin(p, "upsertBalance", CreditJob(c, w, a, x, Nil))
        /\ UNCHANGED <<dbVars, otp, clockVars, adminUpdates, historyVars>>
    BY DEF AddPoints
<1>2. "upsertBalance" \in PCs
    BY DEF PCs
<1>3. otp' \in [Codes -> OTPData \cup {NoOTP}]
    BY <1>1 DEF TypeInv, TypeOK
<1> QED BY <1>1, <1>2, <1>3, CreditJobType, TypeBegin

LEMMA TypeRequestRedemption ==
    ASSUME TypeInv, NEW p \in Procs, RequestRedemption(p)
    PROVE  TypeInv'
<1> DEFINE J(c, r, k) == [NoJob EXCEPT !.client = c, !.reward = r, !.code = k,
                                       !.amount = -reward[r].cost]
<1>1. PICK c \in Clients, r \in Rewards, k \in Codes :
        /\ Begin(p, "reserveStock", J(c, r, k))
        /\ UNCHANGED <<dbVars, otp, clockVars, adminUpdates, historyVars>>
    BY DEF RequestRedemption, BurnJob
<1>2. reward[r].cost \in Costs /\ reward[r].cost \in Nat
    BY ConfigAssumption DEF TypeInv, RowsOK
<1>3. J(c, r, k) \in Job
    <2>1. -reward[r].cost \in Int
        BY <1>2
    <2> QED BY <2>1 DEF NoJob, Job
<1>4. JobFits("reserveStock", J(c, r, k))
    <2>1. -(-reward[r].cost) = reward[r].cost
        BY <1>2
    <2> QED BY <1>2, <2>1 DEF NoJob, JobFits, EarnPCs, BurnPCs, ConfirmPCs, CorrectPCs, ExpirePCs
<1>5. "reserveStock" \in PCs
    BY DEF PCs
<1>6. otp' \in [Codes -> OTPData \cup {NoOTP}]
    BY <1>1 DEF TypeInv, TypeOK
<1> HIDE DEF J
<1> QED BY <1>1, <1>3, <1>4, <1>5, <1>6, TypeBegin

LEMMA TypeConfirmRedemption ==
    ASSUME TypeInv, NEW p \in Procs, ConfirmRedemption(p)
    PROVE  TypeInv'
<1> DEFINE J(k, w) == [NoJob EXCEPT !.code = k, !.collaborator = w]
<1>1. PICK k \in Codes, w \in Collaborators :
        /\ Consume(k) \/ UNCHANGED otp
        /\ Begin(p, "idle", NoJob) \/ Begin(p, "readRedemption", J(k, w))
        /\ UNCHANGED <<dbVars, clockVars, adminUpdates, historyVars>>
    BY DEF ConfirmRedemption
<1>2. otp' \in [Codes -> OTPData \cup {NoOTP}]
    BY <1>1, ConsumeType
<1>3. J(k, w) \in Job /\ JobFits("readRedemption", J(k, w))
    <2>1. J(k, w) \in Job
        BY NoJobType DEF Job
    <2>2. JobFits("readRedemption", J(k, w))
        BY DEF NoJob, JobFits, EarnPCs, BurnPCs, ConfirmPCs, CorrectPCs, ExpirePCs
    <2> QED BY <2>1, <2>2
<1>4. "readRedemption" \in PCs
    BY DEF PCs
<1> HIDE DEF J
<1>5. CASE Begin(p, "idle", NoJob)
    BY <1>1, <1>2, <1>5, TypeTurnedDown
<1>6. CASE Begin(p, "readRedemption", J(k, w))
    BY <1>1, <1>2, <1>3, <1>4, <1>6, TypeBegin
<1> QED BY <1>1, <1>5, <1>6

LEMMA TypeUpdatePoints ==
    ASSUME TypeInv, NEW p \in Procs, UpdatePoints(p)
    PROVE  TypeInv'
<1> DEFINE J(i, n, w) == [NoJob EXCEPT !.client = ledger[i].client,
                              !.collaborator = w, !.tx = i,
                              !.amount = n - ledger[i].amount]
<1>1. PICK i \in DOMAIN ledger, n \in NewAmounts, w \in Collaborators :
        /\ Correctable(i)
        /\ Begin(p, "checkCorrectable", J(i, n, w))
        /\ UNCHANGED <<dbVars, otp, clockVars, adminUpdates, historyVars>>
    BY DEF UpdatePoints, AdjustJob
<1>2. ledger \in Seq(Transaction) /\ ledger[i] \in Transaction /\ i \in Nat
    BY DEF TypeInv, TypeOK
<1>3. ledger[i].client \in Clients
    BY <1>2 DEF Transaction
<1>4. ledger[i].amount \in Credits
    BY <1>1 DEF TypeInv, RowsOK, Correctable
<1>5. n - ledger[i].amount \in Differences
    BY <1>4 DEF Differences
<1>6. n - ledger[i].amount \in Int
    BY <1>5, DifferencesType
<1>7. J(i, n, w) \in Job
    BY <1>2, <1>3, <1>6 DEF NoJob, Job
<1>8. JobFits("checkCorrectable", J(i, n, w))
    BY <1>3, <1>5 DEF NoJob, JobFits, EarnPCs, BurnPCs, ConfirmPCs, CorrectPCs, ExpirePCs
<1>9. "checkCorrectable" \in PCs
    BY DEF PCs
<1>10. otp' \in [Codes -> OTPData \cup {NoOTP}]
    BY <1>1 DEF TypeInv, TypeOK
<1> HIDE DEF J
<1> QED BY <1>1, <1>7, <1>8, <1>9, <1>10, TypeBegin

LEMMA TypeCheckBalance ==
    ASSUME TypeInv, NEW p \in Procs, CheckBalance(p)
    PROVE  TypeInv'
<1> DEFINE J(c) == [NoJob EXCEPT !.client = c]
<1>1. PICK c \in Clients :
        /\ Begin(p, "selectExpiring", J(c))
        /\ UNCHANGED <<dbVars, otp, clockVars, adminUpdates, historyVars>>
    BY DEF CheckBalance
<1>2. J(c) \in Job
    BY NoJobType DEF Job
<1>3. JobFits("selectExpiring", J(c))
    BY DEF NoJob, JobFits, EarnPCs, BurnPCs, ConfirmPCs, CorrectPCs, ExpirePCs
<1>4. "selectExpiring" \in PCs
    BY DEF PCs
<1>5. otp' \in [Codes -> OTPData \cup {NoOTP}]
    BY <1>1 DEF TypeInv, TypeOK
<1> HIDE DEF J
<1> QED BY <1>1, <1>2, <1>3, <1>4, <1>5, TypeBegin

LEMMA TypeRequestLoadCode ==
    ASSUME TypeInv, NEW c \in Clients, RequestLoadCode(c)
    PROVE  TypeInv'
<1>1. /\ otp' \in [Codes -> OTPData \cup {NoOTP}]
      /\ issues' \in [Codes -> Nat]
    BY DEF RequestLoadCode, SetOTP, TypeInv, TypeOK, OTPData
<1>2. messages' \in Nat
    BY DEF RequestLoadCode, TypeInv, TypeOK
<1>3. UNCHANGED <<dbVars, pc, job, closed, lapsed, adminUpdates, handed>>
    BY DEF RequestLoadCode, clockVars
<1>4. /\ pc' \in [Procs -> PCs]
      /\ job' \in [Procs -> Job]
      /\ JobsOK'
    BY <1>3 DEF TypeInv, TypeOK, JobsOK
<1> QED BY <1>1, <1>2, <1>3, <1>4, TypeSameRows DEF TypeInv, TypeOK

(* The steps of a handler. *)
LEMMA TypeRollback ==
    ASSUME TypeInv, NEW p \in Procs, Rollback(p),
           UNCHANGED <<otp, clockVars, countVars, historyVars>>
    PROVE  TypeInv'
BY TypeFinish, TypeSameRows
   DEF Rollback, TypeInv, TypeOK, clockVars, countVars, historyVars

LEMMA TypeGoto ==
    ASSUME TypeInv, NEW p \in Procs, NEW s \in PCs, NEW j \in Job, JobFits(s, j),
           Goto(p, s), job' = [job EXCEPT ![p] = j],
           UNCHANGED <<dbVars, otp, clockVars, countVars, historyVars>>
    PROVE  TypeInv'
<1>1. /\ pc' \in [Procs -> PCs]
      /\ job' \in [Procs -> Job]
      /\ JobsOK'
    BY TypeMove DEF Goto
<1> QED BY <1>1, TypeSameRows
        DEF TypeInv, TypeOK, clockVars, countVars, historyVars

(* A job that takes the balance a transaction will write fits wherever it  *)
(* fitted before.                                                          *)
LEMMA HeldJobType ==
    ASSUME TypeInv, NEW p \in Procs, NEW n \in Nat
    PROVE  /\ [job[p] EXCEPT !.newBalance = n] \in Job
           /\ [job[p] EXCEPT !.newCount = n] \in Job
           /\ \A s \in PCs : JobFits(s, job[p]) =>
                /\ JobFits(s, [job[p] EXCEPT !.newBalance = n])
                /\ JobFits(s, [job[p] EXCEPT !.newCount = n])
<1>1. job[p] \in Job
    BY DEF TypeInv, TypeOK
<1>2. /\ [job[p] EXCEPT !.newBalance = n] \in Job
      /\ [job[p] EXCEPT !.newCount = n] \in Job
    BY <1>1 DEF Job
<1>3. ASSUME NEW s \in PCs, JobFits(s, job[p])
      PROVE  /\ JobFits(s, [job[p] EXCEPT !.newBalance = n])
             /\ JobFits(s, [job[p] EXCEPT !.newCount = n])
    BY <1>1, <1>3 DEF Job, JobFits
<1> QED BY <1>2, <1>3

LEMMA Greatest0Type == \A n \in Int : Greatest0(n) \in Nat
BY DEF Greatest0

LEMMA TypeLockBalance ==
    ASSUME TypeInv, NEW p \in Procs, NEW s \in PCs,
           JobFits(s, job[p]), job[p].client \in Clients, LockBalance(p, s),
           UNCHANGED <<otp, clockVars, countVars, historyVars>>
    PROVE  TypeInv'
<1> DEFINE n == Greatest0(balance[job[p].client] + job[p].amount)
<1>1. n \in Nat
    <2>1. balance[job[p].client] \in Int /\ job[p].amount \in Int
        BY DEF TypeInv, TypeOK, Job
    <2> QED BY <2>1, Greatest0Type
<1>2. job' = [job EXCEPT ![p] = [job[p] EXCEPT !.newBalance = n]]
    BY DEF LockBalance, TypeInv, TypeOK
<1>3. Goto(p, s) /\ UNCHANGED dbVars
    BY DEF LockBalance
<1> HIDE DEF n
<1> QED BY <1>1, <1>2, <1>3, HeldJobType, TypeGoto

LEMMA TypeUpsertBalance ==
    ASSUME TypeInv, NEW p \in Procs, UpsertBalance(p)
    PROVE  TypeInv'
<1>1. JobFits("insertEarn", job[p]) /\ job[p].client \in Clients
    BY DEF UpsertBalance, TypeInv, JobsOK, JobFits, EarnPCs, BurnPCs, ConfirmPCs,
           CorrectPCs, ExpirePCs
<1>2. "insertEarn" \in PCs
    BY DEF PCs
<1> QED BY <1>1, <1>2, TypeLockBalance DEF UpsertBalance

LEMMA TypeAdjustBalance ==
    ASSUME TypeInv, NEW p \in Procs, AdjustBalance(p)
    PROVE  TypeInv'
<1>1. JobFits("insertAdjustment", job[p]) /\ job[p].client \in Clients
    BY DEF AdjustBalance, TypeInv, JobsOK, JobFits, EarnPCs, BurnPCs, ConfirmPCs,
           CorrectPCs, ExpirePCs
<1>2. "insertAdjustment" \in PCs
    BY DEF PCs
<1> QED BY <1>1, <1>2, TypeLockBalance DEF AdjustBalance

LEMMA TypeInsertEarn ==
    ASSUME TypeInv, NEW p \in Procs, InsertEarn(p)
    PROVE  TypeInv'
<1>1. CASE Rollback(p)
    BY <1>1, TypeRollback DEF InsertEarn
<1>2. CASE CommitEntry(p, "earn") /\ Finish(p) /\ UNCHANGED <<reward, redemption>>
    <2>1. job[p].client \in Clients /\ job[p].amount \in Credits
        BY DEF InsertEarn, TypeInv, JobsOK, JobFits, EarnPCs
    <2>2. /\ balance' \in [Clients -> Nat]
          /\ ledger' \in Seq(Transaction)
          /\ \A i \in DOMAIN ledger' :
                 ledger'[i].type = "earn" => ledger'[i].amount \in Credits
        BY <1>2, <2>1, TypeCommitEntry DEF TransactionTypes
    <2>3. pc' \in [Procs -> PCs] /\ job' \in [Procs -> Job] /\ JobsOK'
        BY <1>2, TypeFinish
    <2>4. UNCHANGED <<otp, closed, lapsed, messages, adminUpdates, issues, handed>>
        BY DEF InsertEarn, clockVars, countVars, historyVars
    <2>5. TypeOK'
        BY <1>2, <2>2, <2>3, <2>4 DEF TypeInv, TypeOK
    <2>6. RowsOK'
        BY <1>2, <2>2 DEF TypeInv, RowsOK
    <2> QED BY <2>3, <2>5, <2>6 DEF TypeInv
<1> QED BY <1>1, <1>2 DEF InsertEarn

LEMMA TypeInsertAdjustment ==
    ASSUME TypeInv, NEW p \in Procs, InsertAdjustment(p)
    PROVE  TypeInv'
<1>1. job[p].client \in Clients
    BY DEF InsertAdjustment, TypeInv, JobsOK, JobFits, CorrectPCs
<1>2. /\ balance' \in [Clients -> Nat]
      /\ ledger' \in Seq(Transaction)
      /\ \A i \in DOMAIN ledger' :
             ledger'[i].type = "earn" => ledger'[i].amount \in Credits
    BY <1>1, TypeCommitEntry DEF InsertAdjustment, TransactionTypes
<1>3. pc' \in [Procs -> PCs] /\ job' \in [Procs -> Job] /\ JobsOK'
    BY TypeFinish DEF InsertAdjustment
<1>4. UNCHANGED <<reward, redemption, otp, closed, lapsed, messages, adminUpdates,
                  issues, handed>>
    BY DEF InsertAdjustment, clockVars, countVars, historyVars
<1>5. TypeOK'
    BY <1>2, <1>3, <1>4 DEF TypeInv, TypeOK
<1>6. RowsOK'
    BY <1>2, <1>4 DEF TypeInv, RowsOK
<1> QED BY <1>3, <1>5, <1>6 DEF TypeInv

LEMMA TypeReserveStock ==
    ASSUME TypeInv, NEW p \in Procs, ReserveStock(p)
    PROVE  TypeInv'
<1> DEFINE n == reward[job[p].reward].count + 1
<1>1. CASE Rollback(p)
    BY <1>1, TypeRollback DEF ReserveStock
<1>2. CASE /\ job' = [job EXCEPT ![p].newCount = n]
           /\ Goto(p, "deductBalance")
           /\ UNCHANGED dbVars
    <2>1. JobFits("deductBalance", job[p]) /\ job[p].reward \in Rewards
        BY DEF ReserveStock, TypeInv, JobsOK, JobFits, EarnPCs, BurnPCs, ConfirmPCs,
               CorrectPCs, ExpirePCs
    <2>2. n \in Nat
        BY <2>1 DEF TypeInv, TypeOK, Reward
    <2>3. job' = [job EXCEPT ![p] = [job[p] EXCEPT !.newCount = n]]
        BY <1>2 DEF TypeInv, TypeOK
    <2>4. "deductBalance" \in PCs
        BY DEF PCs
    <2> HIDE DEF n
    <2> QED BY <1>2, <2>1, <2>2, <2>3, <2>4, HeldJobType, TypeGoto DEF ReserveStock
<1> QED BY <1>1, <1>2 DEF ReserveStock

LEMMA TypeDeductBalance ==
    ASSUME TypeInv, NEW p \in Procs, DeductBalance(p)
    PROVE  TypeInv'
<1> DEFINE n == balance[job[p].client] + job[p].amount
<1>1. CASE Rollback(p)
    BY <1>1, TypeRollback DEF DeductBalance
<1>2. CASE /\ n >= 0
           /\ job' = [job EXCEPT ![p].newBalance = n]
           /\ Goto(p, "insertRedemption")
           /\ UNCHANGED dbVars
    <2>1. JobFits("insertRedemption", job[p]) /\ job[p].client \in Clients
        BY DEF DeductBalance, TypeInv, JobsOK, JobFits, EarnPCs, BurnPCs, ConfirmPCs,
               CorrectPCs, ExpirePCs
    <2>2. n \in Nat
        BY <1>2, <2>1 DEF TypeInv, TypeOK, Job
    <2>3. job' = [job EXCEPT ![p] = [job[p] EXCEPT !.newBalance = n]]
        BY <1>2 DEF TypeInv, TypeOK
    <2>4. "insertRedemption" \in PCs
        BY DEF PCs
    <2> HIDE DEF n
    <2> QED BY <1>2, <2>1, <2>2, <2>3, <2>4, HeldJobType, TypeGoto DEF DeductBalance
<1> QED BY <1>1, <1>2 DEF DeductBalance

LEMMA TypeInsertRedemption ==
    ASSUME TypeInv, NEW p \in Procs, InsertRedemption(p)
    PROVE  TypeInv'
<1> DEFINE k == job[p].code
           r == job[p].reward
           row == [status |-> "pending", client |-> job[p].client, reward |-> r,
                   points |-> -job[p].amount, by |-> Nil]
<1>1. CASE Rollback(p)
    BY <1>1, TypeRollback DEF InsertRedemption
<1>2. CASE /\ CommitEntry(p, "burn")
           /\ reward' = [reward EXCEPT ![r].count = job[p].newCount]
           /\ redemption' = [redemption EXCEPT ![k] = row]
           /\ Goto(p, "cacheRedemption")
           /\ UNCHANGED job
    <2>1. /\ job[p] \in Job /\ job[p].client \in Clients /\ r \in Rewards
          /\ k \in Codes /\ -job[p].amount \in Costs
          /\ JobFits("cacheRedemption", job[p])
        BY DEF InsertRedemption, TypeInv, TypeOK, JobsOK, JobFits, EarnPCs, BurnPCs,
               ConfirmPCs, CorrectPCs, ExpirePCs
    <2>2. /\ balance' \in [Clients -> Nat]
          /\ ledger' \in Seq(Transaction)
          /\ \A i \in DOMAIN ledger' :
                 ledger'[i].type = "earn" => ledger'[i].amount \in Credits
        BY <1>2, <2>1, TypeCommitEntry DEF TransactionTypes
    <2>3. /\ reward' \in [Rewards -> Reward]
          /\ \A q \in Rewards : reward'[q].cost \in Costs /\ reward'[q].stock \in Stocks
        <3>1. job[p].newCount \in Nat
            BY <2>1 DEF Job
        <3>2. reward \in [Rewards -> Reward] /\ RowsOK
            BY DEF TypeInv, TypeOK
        <3>3. [reward[r] EXCEPT !.count = job[p].newCount] \in Reward
            BY <2>1, <3>1, <3>2 DEF Reward
        <3>4. reward' = [reward EXCEPT ![r] = [reward[r] EXCEPT !.count = job[p].newCount]]
            BY <1>2, <3>2
        <3>5. reward' \in [Rewards -> Reward]
            BY <3>2, <3>3, <3>4
        <3>6. ASSUME NEW q \in Rewards
              PROVE  reward'[q].cost = reward[q].cost /\ reward'[q].stock = reward[q].stock
            BY <3>2, <3>4 DEF Reward
        <3> QED BY <3>2, <3>5, <3>6 DEF RowsOK
    <2>4. row \in Redemption
        <3>1. -job[p].amount \in Nat \ {0}
            BY <2>1, ConfigAssumption
        <3> QED BY <2>1, <3>1 DEF Redemption
    <2>5. redemption' \in [Codes -> Redemption \cup {NoRedemption}]
        BY <1>2, <2>4 DEF TypeInv, TypeOK
    <2>6. pc' \in [Procs -> PCs] /\ job' \in [Procs -> Job] /\ JobsOK'
        <3>1. "cacheRedemption" \in PCs
            BY DEF PCs
        <3>2. job' = [job EXCEPT ![p] = job[p]]
            BY <1>2 DEF TypeInv, TypeOK
        <3> QED BY <1>2, <2>1, <3>1, <3>2, TypeMove DEF Goto
    <2>7. UNCHANGED <<otp, closed, lapsed, messages, adminUpdates, issues, handed>>
        BY DEF InsertRedemption, clockVars, countVars, historyVars
    <2>8. TypeOK'
        BY <2>2, <2>3, <2>5, <2>6, <2>7 DEF TypeInv, TypeOK
    <2>9. RowsOK'
        BY <2>2, <2>3 DEF RowsOK
    <2> QED BY <2>6, <2>8, <2>9 DEF TypeInv
<1> QED BY <1>1, <1>2 DEF InsertRedemption

LEMMA TypeCacheRedemption ==
    ASSUME TypeInv, NEW p \in Procs, CacheRedemption(p)
    PROVE  TypeInv'
<1>1. job[p].client \in Clients
    BY DEF CacheRedemption, TypeInv, JobsOK, JobFits, BurnPCs
<1>2. otp' \in [Codes -> OTPData \cup {NoOTP}]
    BY <1>1 DEF CacheRedemption, SetOTP, TypeInv, TypeOK, OTPData
<1> QED BY <1>2, TypeFinish, TypeSameRows
        DEF CacheRedemption, TypeInv, TypeOK, clockVars, countVars, historyVars

LEMMA TypeReadRedemption ==
    ASSUME TypeInv, NEW p \in Procs, ReadRedemption(p)
    PROVE  TypeInv'
<1>1. CASE Finish(p)
    BY <1>1, TypeRollback DEF ReadRedemption, Rollback
<1>2. CASE Goto(p, "markConfirmed") /\ UNCHANGED job
    <2>1. JobFits("markConfirmed", job[p])
        BY DEF ReadRedemption, TypeInv, JobsOK, JobFits, EarnPCs, BurnPCs, ConfirmPCs,
               CorrectPCs, ExpirePCs
    <2>2. job[p] \in Job /\ job' = [job EXCEPT ![p] = job[p]]
        BY <1>2 DEF TypeInv, TypeOK
    <2>3. "markConfirmed" \in PCs
        BY DEF PCs
    <2> QED BY <1>2, <2>1, <2>2, <2>3, TypeGoto DEF ReadRedemption
<1> QED BY <1>1, <1>2 DEF ReadRedemption

LEMMA ConfirmedType ==
    ASSUME TypeInv, NEW k \in Codes, NEW w \in Collaborators,
           SetConfirmedIfPending(k, w)
    PROVE  redemption' \in [Codes -> Redemption \cup {NoRedemption}]
<1>1. redemption \in [Codes -> Redemption \cup {NoRedemption}]
    BY DEF TypeInv, TypeOK
<1>2. CASE redemption[k].status # "pending"
    BY <1>1, <1>2 DEF SetConfirmedIfPending
<1>3. CASE redemption[k].status = "pending"
    <2>1. redemption[k] \in Redemption
        BY <1>1, <1>3 DEF NoRedemption
    <2>2. [redemption[k] EXCEPT !.status = "confirmed", !.by = w] \in Redemption
        BY <2>1 DEF Redemption
    <2>3. redemption' = [redemption EXCEPT
            ![k] = [redemption[k] EXCEPT !.status = "confirmed", !.by = w]]
        BY <1>1, <1>3 DEF SetConfirmedIfPending
    <2> QED BY <1>1, <2>2, <2>3
<1> QED BY <1>2, <1>3

LEMMA TypeMarkConfirmed ==
    ASSUME TypeInv, NEW p \in Procs, MarkConfirmed(p)
    PROVE  TypeInv'
<1>1. job[p].code \in Codes /\ job[p].collaborator \in Collaborators
    BY DEF MarkConfirmed, TypeInv, JobsOK, JobFits, ConfirmPCs
<1>2. redemption' \in [Codes -> Redemption \cup {NoRedemption}]
    BY <1>1, ConfirmedType DEF MarkConfirmed
<1>3. handed' \in [Codes -> Nat]
    BY <1>1 DEF MarkConfirmed, HandOut, TypeInv, TypeOK
<1>4. pc' \in [Procs -> PCs] /\ job' \in [Procs -> Job] /\ JobsOK'
    BY TypeFinish DEF MarkConfirmed
<1>5. UNCHANGED <<balance, ledger, reward, otp, closed, lapsed, messages,
                  adminUpdates, issues>>
    BY DEF MarkConfirmed, clockVars, countVars
<1>6. TypeOK'
    BY <1>2, <1>3, <1>4, <1>5 DEF TypeInv, TypeOK
<1>7. RowsOK'
    BY <1>5 DEF TypeInv, RowsOK
<1> QED BY <1>4, <1>6, <1>7 DEF TypeInv

LEMMA TypeCheckCorrectable ==
    ASSUME TypeInv, NEW p \in Procs, CheckCorrectable(p)
    PROVE  TypeInv'
<1>1. CASE Finish(p)
    BY <1>1, TypeRollback DEF CheckCorrectable, Rollback
<1>2. CASE Goto(p, "adjustBalance") /\ UNCHANGED job
    <2>1. JobFits("adjustBalance", job[p])
        BY DEF CheckCorrectable, TypeInv, JobsOK, JobFits, EarnPCs, BurnPCs, ConfirmPCs,
               CorrectPCs, ExpirePCs
    <2>2. job[p] \in Job /\ job' = [job EXCEPT ![p] = job[p]]
        BY <1>2 DEF TypeInv, TypeOK
    <2>3. "adjustBalance" \in PCs
        BY DEF PCs
    <2> QED BY <1>2, <2>1, <2>2, <2>3, TypeGoto DEF CheckCorrectable
<1> QED BY <1>1, <1>2 DEF CheckCorrectable

LEMMA TypeSelectExpiring ==
    ASSUME TypeInv, NEW p \in Procs, SelectExpiring(p)
    PROVE  TypeInv'
<1> DEFINE J(i) == [job[p] EXCEPT !.tx = i, !.amount = -ledger[i].amount]
<1>1. CASE Rollback(p)
    BY <1>1, TypeRollback DEF SelectExpiring
<1>2. CASE /\ \E i \in DOMAIN ledger :
                job' = [job EXCEPT ![p].tx = i, ![p].amount = -ledger[i].amount]
           /\ Goto(p, "deductExpired")
           /\ UNCHANGED dbVars
    <2>1. PICK i \in DOMAIN ledger :
            job' = [job EXCEPT ![p].tx = i, ![p].amount = -ledger[i].amount]
        BY <1>2
    <2>2. /\ job \in [Procs -> Job]
          /\ i \in Nat /\ ledger[i] \in Transaction
        BY DEF TypeInv, TypeOK
    <2>3. job' = [job EXCEPT ![p] = J(i)]
        BY <2>1, <2>2
    <2>4. -ledger[i].amount \in Int
        BY <2>2 DEF Transaction
    <2>5. job[p].client \in Clients
        BY DEF SelectExpiring, TypeInv, JobsOK, JobFits, ExpirePCs
    <2>6. J(i) \in Job /\ J(i).client = job[p].client
        BY <2>2, <2>4 DEF Job
    <2> HIDE DEF J
    <2>7. JobFits("deductExpired", J(i))
        BY <2>5, <2>6 DEF JobFits, EarnPCs, BurnPCs, ConfirmPCs, CorrectPCs, ExpirePCs
    <2>8. "deductExpired" \in PCs
        BY DEF PCs
    <2> QED BY <1>2, <2>3, <2>6, <2>7, <2>8, TypeGoto DEF SelectExpiring
<1> QED BY <1>1, <1>2 DEF SelectExpiring

LEMMA TypeDeductExpired ==
    ASSUME TypeInv, NEW p \in Procs, DeductExpired(p)
    PROVE  TypeInv'
<1>1. JobFits("insertExpiration", job[p]) /\ job[p].client \in Clients
    BY DEF DeductExpired, TypeInv, JobsOK, JobFits, EarnPCs, BurnPCs, ConfirmPCs,
           CorrectPCs, ExpirePCs
<1>2. "insertExpiration" \in PCs
    BY DEF PCs
<1> QED BY <1>1, <1>2, TypeLockBalance DEF DeductExpired

LEMMA TypeInsertExpiration ==
    ASSUME TypeInv, NEW p \in Procs, InsertExpiration(p)
    PROVE  TypeInv'
BY TypeRollback DEF InsertExpiration

(* What can happen at any time. *)
LEMMA TypeUpdateReward ==
    ASSUME TypeInv, NEW r \in Rewards, UpdateReward(r)
    PROVE  TypeInv'
<1>1. PICK cost \in Costs, stock \in Stocks :
        reward' = [reward EXCEPT ![r].cost = cost, ![r].stock = stock]
    BY DEF UpdateReward
<1>2. cost \in Nat \ {0} /\ stock \in Nat \cup {Unlimited}
    BY ConfigAssumption
<1>3. reward' \in [Rewards -> Reward]
    BY <1>1, <1>2 DEF TypeInv, TypeOK, Reward
<1>4. \A q \in Rewards : reward'[q].cost \in Costs /\ reward'[q].stock \in Stocks
    BY <1>1 DEF TypeInv, TypeOK, RowsOK, Reward
<1>5. UNCHANGED <<balance, ledger, redemption, otp, pc, job, closed, lapsed, messages,
                  issues, handed>>
    BY DEF UpdateReward, clockVars, historyVars
<1>6. adminUpdates' \in Nat
    BY DEF UpdateReward, TypeInv, TypeOK
<1>7. TypeOK'
    BY <1>3, <1>5, <1>6 DEF TypeInv, TypeOK
<1>8. RowsOK' /\ JobsOK'
    BY <1>4, <1>5 DEF TypeInv, RowsOK, JobsOK
<1> QED BY <1>7, <1>8 DEF TypeInv

LEMMA TypeClock ==
    ASSUME TypeInv, Clock
    PROVE  TypeInv'
<1>1. UNCHANGED <<dbVars, pc, job, countVars, historyVars>>
    BY DEF Clock, CloseCorrection, LapseRedemption, ExpireOTP, clockVars
<1>2. JobsOK' /\ pc' \in [Procs -> PCs] /\ job' \in [Procs -> Job]
    BY <1>1 DEF TypeInv, TypeOK, JobsOK
<1>3. closed' \subseteq Nat /\ lapsed' \subseteq Codes
    <2>1. closed \subseteq Nat /\ lapsed \subseteq Codes /\ ledger \in Seq(Transaction)
        BY DEF TypeInv, TypeOK
    <2>2. CASE \E i \in DOMAIN ledger : CloseCorrection(i)
        <3>1. PICK i \in DOMAIN ledger : CloseCorrection(i)
            BY <2>2
        <3>2. i \in Nat
            BY <2>1
        <3>3. closed' = closed \cup {i} /\ lapsed' = lapsed
            BY <3>1 DEF CloseCorrection
        <3> QED BY <2>1, <3>2, <3>3
    <2>3. CASE \E k \in Codes : LapseRedemption(k)
        BY <2>1, <2>3 DEF LapseRedemption
    <2>4. CASE \E k \in Codes : ExpireOTP(k)
        BY <2>1, <2>4 DEF ExpireOTP, clockVars
    <2> QED BY <2>2, <2>3, <2>4 DEF Clock
<1>4. otp' \in [Codes -> OTPData \cup {NoOTP}]
    BY DEF Clock, CloseCorrection, LapseRedemption, ExpireOTP, TypeInv, TypeOK
<1> QED BY <1>1, <1>2, <1>3, <1>4, TypeSameRows
        DEF TypeInv, TypeOK, countVars, historyVars

LEMMA TypeStutter ==
    ASSUME TypeInv, UNCHANGED vars
    PROVE  TypeInv'
<1>1. TypeOK'
    BY DEF TypeInv, TypeOK, vars, dbVars, clockVars, countVars, historyVars
<1>2. RowsOK' /\ JobsOK'
    BY DEF TypeInv, RowsOK, JobsOK, vars, dbVars
<1> QED BY <1>1, <1>2 DEF TypeInv

LEMMA TypeNext == TypeInv /\ [Next]_vars => TypeInv'
<1> SUFFICES ASSUME TypeInv, [Next]_vars PROVE TypeInv'
    OBVIOUS
<1>1. CASE \E c \in Clients : RequestLoadCode(c)
    BY <1>1, TypeRequestLoadCode
<1>2. ASSUME NEW p \in Procs, Accept(p) PROVE TypeInv'
    BY <1>2, TypeProcessLoadCode, TypeAddPoints, TypeRequestRedemption,
       TypeConfirmRedemption, TypeUpdatePoints, TypeCheckBalance DEF Accept
<1>3. ASSUME NEW p \in Procs, Step(p) PROVE TypeInv'
    BY <1>3, TypeUpsertBalance, TypeInsertEarn, TypeReserveStock, TypeDeductBalance,
       TypeInsertRedemption, TypeCacheRedemption, TypeReadRedemption, TypeMarkConfirmed,
       TypeCheckCorrectable, TypeAdjustBalance, TypeInsertAdjustment,
       TypeSelectExpiring, TypeDeductExpired, TypeInsertExpiration DEF Step
<1>4. ASSUME NEW p \in Procs, Abort(p) PROVE TypeInv'
    BY <1>4, TypeRollback DEF Abort
<1>5. CASE \E r \in Rewards : UpdateReward(r)
    BY <1>5, TypeUpdateReward
<1>6. CASE Clock
    BY <1>6, TypeClock
<1>7. CASE Quiescent \/ UNCHANGED vars
    BY <1>7, TypeStutter DEF Quiescent
<1> QED BY <1>1, <1>2, <1>3, <1>4, <1>5, <1>6, <1>7 DEF Next

LEMMA TypeInvariance == Spec => []TypeInv
BY TypeInit, TypeNext, PTL DEF Spec

(* Every variable keeps to the rows and records the code can write; in     *)
(* particular RN-01, no balance is ever below zero.                        *)
THEOREM TypeCorrect == Spec => []TypeOK
<1>1. TypeInv => TypeOK
    BY DEF TypeInv
<1> QED BY <1>1, TypeInvariance, PTL

-----------------------------------------------------------------------------
(***************************************************************************)
(* The row locks.  Each half of HeldRowsAreCurrent is inductive given      *)
(* TypeInv: a step of p changes what p holds, and a row it writes is one   *)
(* it holds, so what the others hold stays current.                        *)
(***************************************************************************)
RewardPCs == {"deductBalance", "insertRedemption"}
BalancePCs == {"insertEarn", "insertRedemption", "insertAdjustment",
               "insertExpiration"}

HeldReward(p, r) ==
    /\ \A q \in Procs \ {p} : ~HoldsReward(q, r)
    /\ InStock(r)
    /\ job[p].newCount = reward[r].count + 1

HeldBalance(p, c) ==
    /\ \A q \in Procs \ {p} : ~HoldsBalance(q, c)
    /\ job[p].newBalance = Greatest0(balance[c] + job[p].amount)

HeldRewards == \A p \in Procs, r \in Rewards : HoldsReward(p, r) => HeldReward(p, r)
HeldBalances == \A p \in Procs, c \in Clients : HoldsBalance(p, c) => HeldBalance(p, c)

LEMMA HeldRowsSplit == HeldRowsAreCurrent <=> HeldRewards /\ HeldBalances
BY DEF HeldRowsAreCurrent, HeldRewards, HeldBalances, HeldReward, HeldBalance

LEMMA HeldRowsJoin == HeldRewards' /\ HeldBalances' => HeldRowsAreCurrent'
BY HeldRowsSplit, PTL

(* A handler at a step where it holds no reward. *)
LEMMA RewardsReleased ==
    ASSUME TypeOK, HeldRewards, NEW p \in Procs, NEW s, s \notin RewardPCs,
           Goto(p, s), NEW j, job' = [job EXCEPT ![p] = j],
           UNCHANGED reward
    PROVE  HeldRewards'
<1>1. \A r \in Rewards : ~HoldsReward(p, r)'
    BY DEF TypeOK, Goto, HoldsReward, RewardPCs
<1>2. \A q \in Procs \ {p}, r \in Rewards :
        /\ HoldsReward(q, r)' <=> HoldsReward(q, r)
        /\ job'[q] = job[q]
    BY DEF TypeOK, Goto, HoldsReward
<1> QED BY <1>1, <1>2 DEF HeldRewards, HeldReward, InStock

(* A handler that writes a reward it holds and releases it. *)
LEMMA RewardsWritten ==
    ASSUME TypeOK, HeldRewards, NEW p \in Procs, NEW s, s \notin RewardPCs,
           Goto(p, s), UNCHANGED job,
           NEW r \in Rewards, HoldsReward(p, r),
           NEW n \in Nat, reward' = [reward EXCEPT ![r].count = n]
    PROVE  HeldRewards'
<1>1. \A o \in Rewards : ~HoldsReward(p, o)'
    BY DEF TypeOK, Goto, HoldsReward, RewardPCs
<1>2. \A q \in Procs \ {p}, o \in Rewards :
        /\ HoldsReward(q, o)' <=> HoldsReward(q, o)
        /\ job'[q] = job[q]
    BY DEF TypeOK, Goto, HoldsReward
<1>3. \A q \in Procs \ {p} : ~HoldsReward(q, r)
    BY DEF HeldRewards, HeldReward
<1>4. \A o \in Rewards \ {r} : reward'[o] = reward[o]
    BY DEF TypeOK
<1> QED BY <1>1, <1>2, <1>3, <1>4 DEF HeldRewards, HeldReward, InStock

(* A handler that goes on holding a reward, or gets one nobody holds. *)
LEMMA RewardsTaken ==
    ASSUME TypeOK, HeldRewards, NEW p \in Procs, NEW s \in RewardPCs,
           Goto(p, s), NEW j, job' = [job EXCEPT ![p] = j], UNCHANGED reward,
           \A q \in Procs \ {p} : ~HoldsReward(q, j.reward),
           InStock(j.reward), j.newCount = reward[j.reward].count + 1
    PROVE  HeldRewards'
<1>1. \A r \in Rewards : HoldsReward(p, r)' <=> r = j.reward
    BY DEF TypeOK, Goto, HoldsReward, RewardPCs
<1>2. \A q \in Procs \ {p}, r \in Rewards :
        /\ HoldsReward(q, r)' <=> HoldsReward(q, r)
        /\ job'[q] = job[q]
    BY DEF TypeOK, Goto, HoldsReward
<1>3. job'[p] = j
    BY DEF TypeOK
<1> QED BY <1>1, <1>2, <1>3 DEF HeldRewards, HeldReward, InStock

(* The same three for the balances. *)
LEMMA BalancesReleased ==
    ASSUME TypeOK, HeldBalances, NEW p \in Procs, NEW s, s \notin BalancePCs,
           Goto(p, s), NEW j, job' = [job EXCEPT ![p] = j],
           UNCHANGED balance
    PROVE  HeldBalances'
<1>1. \A c \in Clients : ~HoldsBalance(p, c)'
    BY DEF TypeOK, Goto, HoldsBalance, BalancePCs
<1>2. \A q \in Procs \ {p}, c \in Clients :
        /\ HoldsBalance(q, c)' <=> HoldsBalance(q, c)
        /\ job'[q] = job[q]
    BY DEF TypeOK, Goto, HoldsBalance
<1> QED BY <1>1, <1>2 DEF HeldBalances, HeldBalance

LEMMA BalancesWritten ==
    ASSUME TypeOK, HeldBalances, NEW p \in Procs, NEW s, s \notin BalancePCs,
           Goto(p, s), NEW j, job' = [job EXCEPT ![p] = j],
           NEW c \in Clients, HoldsBalance(p, c),
           NEW n, balance' = [balance EXCEPT ![c] = n]
    PROVE  HeldBalances'
<1>1. \A d \in Clients : ~HoldsBalance(p, d)'
    BY DEF TypeOK, Goto, HoldsBalance, BalancePCs
<1>2. \A q \in Procs \ {p}, d \in Clients :
        /\ HoldsBalance(q, d)' <=> HoldsBalance(q, d)
        /\ job'[q] = job[q]
    BY DEF TypeOK, Goto, HoldsBalance
<1>3. \A q \in Procs \ {p} : ~HoldsBalance(q, c)
    BY DEF HeldBalances, HeldBalance
<1>4. \A d \in Clients \ {c} : balance'[d] = balance[d]
    BY DEF TypeOK
<1> QED BY <1>1, <1>2, <1>3, <1>4 DEF HeldBalances, HeldBalance

LEMMA BalancesTaken ==
    ASSUME TypeOK, HeldBalances, NEW p \in Procs, NEW s \in BalancePCs,
           Goto(p, s), NEW j, job' = [job EXCEPT ![p] = j], UNCHANGED balance,
           ~BalanceLocked(j.client),
           j.newBalance = Greatest0(balance[j.client] + j.amount)
    PROVE  HeldBalances'
<1>1. \A c \in Clients : HoldsBalance(p, c)' <=> c = j.client
    BY DEF TypeOK, Goto, HoldsBalance, BalancePCs
<1>2. \A q \in Procs \ {p}, c \in Clients :
        /\ HoldsBalance(q, c)' <=> HoldsBalance(q, c)
        /\ job'[q] = job[q]
    BY DEF TypeOK, Goto, HoldsBalance
<1>3. job'[p] = j
    BY DEF TypeOK
<1>4. \A q \in Procs : ~HoldsBalance(q, j.client)
    BY DEF BalanceLocked
<1> QED BY <1>1, <1>2, <1>3, <1>4 DEF HeldBalances, HeldBalance

(* A step after which p holds no row, and that writes none. *)
LEMMA HeldReleased ==
    ASSUME TypeInv, HeldRowsAreCurrent, NEW p \in Procs,
           NEW s, s \notin RewardPCs \cup BalancePCs,
           Goto(p, s), NEW j, job' = [job EXCEPT ![p] = j],
           UNCHANGED <<balance, reward>>
    PROVE  HeldRowsAreCurrent'
<1>1. TypeOK /\ HeldRewards /\ HeldBalances
    BY HeldRowsSplit DEF TypeInv
<1>2. HeldRewards'
    BY <1>1, RewardsReleased
<1>3. HeldBalances'
    BY <1>1, BalancesReleased
<1> QED BY <1>2, <1>3, HeldRowsJoin

LEMMA HeldRollback ==
    ASSUME TypeInv, HeldRowsAreCurrent, NEW p \in Procs, Rollback(p)
    PROVE  HeldRowsAreCurrent'
<1>1. "idle" \notin RewardPCs \cup BalancePCs
    BY DEF RewardPCs, BalancePCs
<1> QED BY <1>1, HeldReleased DEF Rollback, Finish, Goto, dbVars

LEMMA HeldAccept ==
    ASSUME TypeInv, HeldRowsAreCurrent, NEW p \in Procs, Accept(p)
    PROVE  HeldRowsAreCurrent'
<1>1. UNCHANGED dbVars
    BY DEF Accept, ProcessLoadCode, AddPoints, RequestRedemption, ConfirmRedemption,
           UpdatePoints, CheckBalance
<1>2. PICK s \in {"idle", "upsertBalance", "reserveStock", "readRedemption",
                  "checkCorrectable", "selectExpiring"} : \E j : Begin(p, s, j)
    BY DEF Accept, ProcessLoadCode, AddPoints, RequestRedemption, ConfirmRedemption,
           UpdatePoints, CheckBalance
<1>3. PICK j : Begin(p, s, j)
    BY <1>2
<1>4. s \notin RewardPCs \cup BalancePCs
    BY <1>2 DEF RewardPCs, BalancePCs
<1> QED BY <1>1, <1>3, <1>4, HeldReleased DEF Begin, Goto, dbVars

LEMMA HeldLockBalance ==
    ASSUME TypeInv, HeldRowsAreCurrent, NEW p \in Procs,
           NEW s \in {"insertEarn", "insertAdjustment", "insertExpiration"},
           LockBalance(p, s)
    PROVE  HeldRowsAreCurrent'
<1> DEFINE n == Greatest0(balance[job[p].client] + job[p].amount)
           j == [job[p] EXCEPT !.newBalance = n]
<1>1. TypeOK /\ HeldRewards /\ HeldBalances
    BY HeldRowsSplit DEF TypeInv
<1>2. job[p] \in Job
    BY <1>1 DEF TypeOK
<1>3. job' = [job EXCEPT ![p] = j]
    BY <1>1 DEF LockBalance, TypeOK
<1>4. j.client = job[p].client /\ j.amount = job[p].amount /\ j.newBalance = n
    BY <1>2 DEF Job
<1>5. /\ Goto(p, s) /\ UNCHANGED <<balance, reward>>
      /\ ~BalanceLocked(job[p].client)
    BY DEF LockBalance, dbVars
<1>6. s \notin RewardPCs /\ s \in BalancePCs
    BY DEF RewardPCs, BalancePCs
<1> HIDE DEF j
<1>7. HeldRewards'
    BY <1>1, <1>3, <1>5, <1>6, RewardsReleased
<1>8. HeldBalances'
    BY <1>1, <1>3, <1>4, <1>5, <1>6, BalancesTaken
<1> QED BY <1>7, <1>8, HeldRowsJoin

LEMMA HeldReserveStock ==
    ASSUME TypeInv, HeldRowsAreCurrent, NEW p \in Procs, ReserveStock(p)
    PROVE  HeldRowsAreCurrent'
<1> DEFINE r == job[p].reward
           j == [job[p] EXCEPT !.newCount = reward[r].count + 1]
<1>1. TypeOK /\ HeldRewards /\ HeldBalances
    BY HeldRowsSplit DEF TypeInv
<1>2. CASE Rollback(p)
    BY <1>2, HeldRollback
<1>3. CASE /\ InStock(r)
           /\ job' = [job EXCEPT ![p].newCount = reward[r].count + 1]
           /\ Goto(p, "deductBalance")
           /\ UNCHANGED dbVars
    <2>1. job' = [job EXCEPT ![p] = j]
        BY <1>1, <1>3 DEF TypeOK
    <2>2. j.reward = r /\ j.newCount = reward[r].count + 1
        BY <1>1 DEF TypeOK, Job
    <2>3. \A q \in Procs : ~HoldsReward(q, r)
        BY DEF ReserveStock, RewardLocked
    <2>4. "deductBalance" \in RewardPCs /\ "deductBalance" \notin BalancePCs
        BY DEF RewardPCs, BalancePCs
    <2>5. UNCHANGED <<balance, reward>>
        BY <1>3 DEF dbVars
    <2> HIDE DEF j
    <2>6. HeldRewards'
        BY <1>1, <1>3, <2>1, <2>2, <2>3, <2>4, <2>5, RewardsTaken
    <2>7. HeldBalances'
        BY <1>1, <1>3, <2>1, <2>4, <2>5, BalancesReleased
    <2> QED BY <2>6, <2>7, HeldRowsJoin
<1> QED BY <1>2, <1>3 DEF ReserveStock

LEMMA HeldDeductBalance ==
    ASSUME TypeInv, HeldRowsAreCurrent, NEW p \in Procs, DeductBalance(p)
    PROVE  HeldRowsAreCurrent'
<1> DEFINE c == job[p].client
           n == balance[c] + job[p].amount
           j == [job[p] EXCEPT !.newBalance = n]
<1>1. TypeOK /\ HeldRewards /\ HeldBalances
    BY HeldRowsSplit DEF TypeInv
<1>2. CASE Rollback(p)
    BY <1>2, HeldRollback
<1>3. CASE /\ n >= 0
           /\ job' = [job EXCEPT ![p].newBalance = n]
           /\ Goto(p, "insertRedemption")
           /\ UNCHANGED dbVars
    <2>1. job' = [job EXCEPT ![p] = j]
        BY <1>1, <1>3 DEF TypeOK
    <2>2. job[p] \in Job
        BY <1>1 DEF TypeOK
    <2>3. /\ j.client = c /\ j.amount = job[p].amount /\ j.newBalance = n
          /\ j.reward = job[p].reward /\ j.newCount = job[p].newCount
        BY <2>2 DEF Job
    <2>4. n = Greatest0(balance[c] + job[p].amount)
        <3>1. c \in Clients
            BY DEF DeductBalance, TypeInv, JobsOK, JobFits, BurnPCs
        <3>2. n \in Int
            BY <1>1, <2>2, <3>1 DEF TypeOK, Job
        <3> QED BY <1>3, <3>2 DEF Greatest0
    <2>5. job[p].reward \in Rewards /\ HoldsReward(p, job[p].reward)
        BY DEF DeductBalance, TypeInv, JobsOK, JobFits, BurnPCs, HoldsReward
    <2>6. HeldReward(p, job[p].reward)
        BY <1>1, <2>5 DEF HeldRewards
    <2>7. "insertRedemption" \in RewardPCs /\ "insertRedemption" \in BalancePCs
        BY DEF RewardPCs, BalancePCs
    <2>8. UNCHANGED <<balance, reward>> /\ ~BalanceLocked(c)
        BY <1>3 DEF dbVars, DeductBalance
    <2> HIDE DEF j
    <2>9. HeldRewards'
        BY <1>1, <1>3, <2>1, <2>3, <2>6, <2>7, <2>8, RewardsTaken DEF HeldReward
    <2>10. HeldBalances'
        BY <1>1, <1>3, <2>1, <2>3, <2>4, <2>7, <2>8, BalancesTaken
    <2> QED BY <2>9, <2>10, HeldRowsJoin
<1> QED BY <1>2, <1>3 DEF DeductBalance

LEMMA HeldInsertRedemption ==
    ASSUME TypeInv, HeldRowsAreCurrent, NEW p \in Procs, InsertRedemption(p)
    PROVE  HeldRowsAreCurrent'
<1>1. TypeOK /\ HeldRewards /\ HeldBalances
    BY HeldRowsSplit DEF TypeInv
<1>2. CASE Rollback(p)
    BY <1>2, HeldRollback
<1>3. CASE /\ CommitEntry(p, "burn")
           /\ reward' = [reward EXCEPT ![job[p].reward].count = job[p].newCount]
           /\ Goto(p, "cacheRedemption")
           /\ UNCHANGED job
    <2>1. /\ job[p].reward \in Rewards /\ HoldsReward(p, job[p].reward)
          /\ job[p].client \in Clients /\ HoldsBalance(p, job[p].client)
        BY DEF InsertRedemption, TypeInv, JobsOK, JobFits, BurnPCs, HoldsReward,
               HoldsBalance
    <2>2. job[p].newCount \in Nat /\ job' = [job EXCEPT ![p] = job[p]]
        BY <1>1, <1>3 DEF TypeOK, Job
    <2>3. "cacheRedemption" \notin RewardPCs /\ "cacheRedemption" \notin BalancePCs
        BY DEF RewardPCs, BalancePCs
    <2>4. HeldRewards'
        BY <1>1, <1>3, <2>1, <2>2, <2>3, RewardsWritten
    <2>5. HeldBalances'
        BY <1>1, <1>3, <2>1, <2>2, <2>3, BalancesWritten DEF CommitEntry
    <2> QED BY <2>4, <2>5, HeldRowsJoin
<1> QED BY <1>2, <1>3 DEF InsertRedemption

LEMMA HeldCommitEntry ==
    ASSUME TypeInv, HeldRowsAreCurrent, NEW p \in Procs, NEW type,
           job[p].client \in Clients, HoldsBalance(p, job[p].client),
           CommitEntry(p, type), Finish(p), UNCHANGED reward
    PROVE  HeldRowsAreCurrent'
<1>1. TypeOK /\ HeldRewards /\ HeldBalances
    BY HeldRowsSplit DEF TypeInv
<1>2. "idle" \notin RewardPCs /\ "idle" \notin BalancePCs
    BY DEF RewardPCs, BalancePCs
<1>3. Goto(p, "idle") /\ job' = [job EXCEPT ![p] = NoJob]
    BY DEF Finish, Goto
<1>4. HeldRewards'
    BY <1>1, <1>2, <1>3, RewardsReleased
<1>5. HeldBalances'
    BY <1>1, <1>2, <1>3, BalancesWritten DEF CommitEntry
<1> QED BY <1>4, <1>5, HeldRowsJoin

LEMMA HeldStep ==
    ASSUME TypeInv, HeldRowsAreCurrent, NEW p \in Procs, Step(p)
    PROVE  HeldRowsAreCurrent'
<1>1. CASE UpsertBalance(p)
    BY <1>1, HeldLockBalance DEF UpsertBalance
<1>2. CASE AdjustBalance(p)
    BY <1>2, HeldLockBalance DEF AdjustBalance
<1>6. CASE DeductExpired(p)
    BY <1>6, HeldLockBalance DEF DeductExpired
<1>7. CASE SelectExpiring(p)
    <2>1. CASE Rollback(p)
        BY <2>1, HeldRollback
    <2>2. CASE /\ \E j : job' = [job EXCEPT ![p] = j]
               /\ Goto(p, "deductExpired") /\ UNCHANGED dbVars
        <3>1. "deductExpired" \notin RewardPCs \cup BalancePCs
            BY DEF RewardPCs, BalancePCs
        <3> QED BY <2>2, <3>1, HeldReleased DEF dbVars
    <2>3. ASSUME NEW i \in DOMAIN ledger,
                 job' = [job EXCEPT ![p].tx = i, ![p].amount = -ledger[i].amount]
          PROVE  \E j : job' = [job EXCEPT ![p] = j]
        <3>1. job' = [job EXCEPT ![p] = [job[p] EXCEPT !.tx = i, !.amount = -ledger[i].amount]]
            BY <2>3 DEF TypeInv, TypeOK
        <3> QED BY <3>1
    <2> QED BY <1>7, <2>1, <2>2, <2>3 DEF SelectExpiring
<1>8. CASE InsertExpiration(p)
    BY <1>8, HeldRollback DEF InsertExpiration
<1>3. CASE InsertEarn(p)
    <2>1. job[p].client \in Clients /\ HoldsBalance(p, job[p].client)
        BY <1>3 DEF InsertEarn, TypeInv, JobsOK, JobFits, EarnPCs, HoldsBalance
    <2> QED BY <1>3, <2>1, HeldCommitEntry, HeldRollback DEF InsertEarn
<1>4. CASE InsertAdjustment(p)
    <2>1. job[p].client \in Clients /\ HoldsBalance(p, job[p].client)
        BY <1>4 DEF InsertAdjustment, TypeInv, JobsOK, JobFits, CorrectPCs, HoldsBalance
    <2> QED BY <1>4, <2>1, HeldCommitEntry DEF InsertAdjustment
<1>5. CASE CacheRedemption(p) \/ ReadRedemption(p) \/ MarkConfirmed(p)
           \/ CheckCorrectable(p)
    <2>1. PICK s \in {"idle", "markConfirmed", "adjustBalance"} :
            Goto(p, s) /\ (job' = [job EXCEPT ![p] = NoJob] \/ UNCHANGED job)
        BY <1>5 DEF CacheRedemption, ReadRedemption, MarkConfirmed, CheckCorrectable,
                    Finish, Goto
    <2>2. PICK j : job' = [job EXCEPT ![p] = j]
        <3>1. CASE UNCHANGED job
            <4>1. job' = [job EXCEPT ![p] = job[p]]
                BY <3>1 DEF TypeInv, TypeOK
            <4> QED BY <4>1
        <3> QED BY <2>1, <3>1
    <2>3. UNCHANGED <<balance, reward>>
        BY <1>5 DEF CacheRedemption, ReadRedemption, MarkConfirmed, CheckCorrectable,
                    dbVars
    <2>4. s \notin RewardPCs \cup BalancePCs
        BY <2>1 DEF RewardPCs, BalancePCs
    <2> QED BY <2>1, <2>2, <2>3, <2>4, HeldReleased
<1> QED BY <1>1, <1>2, <1>3, <1>4, <1>5, <1>6, <1>7, <1>8, HeldReserveStock,
           HeldDeductBalance, HeldInsertRedemption DEF Step

LEMMA HeldUpdateReward ==
    ASSUME TypeInv, HeldRowsAreCurrent, NEW r \in Rewards, UpdateReward(r)
    PROVE  HeldRowsAreCurrent'
<1>1. TypeOK /\ HeldRewards /\ HeldBalances
    BY HeldRowsSplit DEF TypeInv
<1>2. UNCHANGED <<balance, pc, job>>
    BY DEF UpdateReward
<1>3. \A q \in Procs : ~HoldsReward(q, r)
    BY DEF UpdateReward, RewardLocked
<1>4. \A o \in Rewards \ {r} : reward'[o] = reward[o]
    BY <1>1 DEF UpdateReward, TypeOK
<1>5. HeldRewards'
    BY <1>1, <1>2, <1>3, <1>4 DEF HeldRewards, HeldReward, HoldsReward, InStock
<1>6. HeldBalances'
    BY <1>1, <1>2 DEF HeldBalances, HeldBalance, HoldsBalance
<1> QED BY <1>5, <1>6, HeldRowsJoin

LEMMA HeldUnchanged ==
    ASSUME HeldRowsAreCurrent, UNCHANGED <<balance, reward, pc, job>>
    PROVE  HeldRowsAreCurrent'
<1>1. \A p \in Procs, r \in Rewards : HoldsReward(p, r)' <=> HoldsReward(p, r)
    BY DEF HoldsReward
<1>2. \A p \in Procs, c \in Clients : HoldsBalance(p, c)' <=> HoldsBalance(p, c)
    BY DEF HoldsBalance
<1> QED BY <1>1, <1>2 DEF HeldRowsAreCurrent, InStock

LEMMA HeldNext == TypeInv /\ HeldRowsAreCurrent /\ [Next]_vars => HeldRowsAreCurrent'
<1> SUFFICES ASSUME TypeInv, HeldRowsAreCurrent, [Next]_vars
             PROVE  HeldRowsAreCurrent'
    OBVIOUS
<1>1. CASE \E c \in Clients : RequestLoadCode(c)
    BY <1>1, HeldUnchanged DEF RequestLoadCode, dbVars
<1>2. ASSUME NEW p \in Procs, Accept(p) \/ Step(p) \/ Abort(p)
      PROVE  HeldRowsAreCurrent'
    BY <1>2, HeldAccept, HeldStep, HeldRollback DEF Abort
<1>3. CASE \E r \in Rewards : UpdateReward(r)
    BY <1>3, HeldUpdateReward
<1>4. CASE Clock
    <2>1. UNCHANGED <<dbVars, pc, job>>
        BY <1>4 DEF Clock, CloseCorrection, LapseRedemption, ExpireOTP
    <2> QED BY <2>1, HeldUnchanged DEF dbVars
<1>5. CASE Quiescent \/ UNCHANGED vars
    BY <1>5, HeldUnchanged DEF Quiescent, vars, dbVars
<1> QED BY <1>1, <1>2, <1>3, <1>4, <1>5 DEF Next

LEMMA HeldInit == Init => HeldRowsAreCurrent
BY DEF Init, HeldRowsAreCurrent, HoldsReward, HoldsBalance

(* No two transactions hold one row, and what a transaction is about to    *)
(* commit was computed from the row as it still is: no lost update.        *)
THEOREM RowLocksCorrect == Spec => []HeldRowsAreCurrent
BY HeldInit, HeldNext, TypeInvariance, PTL DEF Spec

-----------------------------------------------------------------------------
(* The stock. *)

LEMMA RedemptionsFinite == \A r \in Rewards :
    IsFiniteSet(RedemptionsOf(r)) /\ Cardinality(RedemptionsOf(r)) \in Nat
BY SetsAssumption, FS_Subset, FS_CardinalityType DEF RedemptionsOf

LEMMA StockInit == Init => StockIsAccounted
<1> SUFFICES ASSUME Init, NEW r \in Rewards
             PROVE  /\ reward[r].count = Cardinality(RedemptionsOf(r))
                    /\ reward[r].stock # Unlimited => reward[r].count <= reward[r].stock
    BY DEF StockIsAccounted
<1>1. RedemptionsOf(r) = {}
    BY DEF Init, RedemptionsOf
<1>2. Cardinality(RedemptionsOf(r)) = 0
    BY <1>1, FS_EmptySet
<1>3. PICK n \in Costs, s \in Stocks : reward[r] = [cost |-> n, stock |-> s, count |-> 0]
    BY DEF Init
<1>4. s # Unlimited => 0 <= s
    BY ConfigAssumption
<1> QED BY <1>2, <1>3, <1>4

(* A step that redeems nothing and changes no reward. *)
LEMMA StockUnchanged ==
    ASSUME StockIsAccounted, UNCHANGED reward,
           \A k \in Codes : /\ redemption'[k] = NoRedemption <=> redemption[k] = NoRedemption
                            /\ redemption'[k].reward = redemption[k].reward
    PROVE  StockIsAccounted'
<1>1. \A r \in Rewards : RedemptionsOf(r)' = RedemptionsOf(r)
    BY DEF RedemptionsOf
<1> QED BY <1>1 DEF StockIsAccounted

LEMMA StockInsertRedemption ==
    ASSUME TypeInv, HeldRowsAreCurrent, StockIsAccounted, NEW p \in Procs,
           InsertRedemption(p)
    PROVE  StockIsAccounted'
<1> SUFFICES ASSUME NEW k \in Codes, NEW r \in Rewards,
                    k = job[p].code, r = job[p].reward
             PROVE  StockIsAccounted'
    BY DEF InsertRedemption, TypeInv, JobsOK, JobFits, BurnPCs
<1> DEFINE row == [status |-> "pending", client |-> job[p].client, reward |-> r,
                   points |-> -job[p].amount, by |-> Nil]
<1>1. CASE Rollback(p)
    BY <1>1, StockUnchanged DEF Rollback, dbVars
<1>2. CASE /\ ~CodeTaken(k)
           /\ reward' = [reward EXCEPT ![r].count = job[p].newCount]
           /\ redemption' = [redemption EXCEPT ![k] = row]
    <2>1. InStock(r) /\ job[p].newCount = reward[r].count + 1
        BY DEF InsertRedemption, HoldsReward, HeldRowsAreCurrent
    <2>2. redemption[k] = NoRedemption /\ row # NoRedemption
        BY <1>2 DEF CodeTaken, NoRedemption
    <2>3. redemption \in [Codes -> Redemption \cup {NoRedemption}]
          /\ reward \in [Rewards -> Reward]
        BY DEF TypeInv, TypeOK
    <2>4. RedemptionsOf(r)' = RedemptionsOf(r) \cup {k} /\ k \notin RedemptionsOf(r)
        <3>1. redemption'[k] = row /\ row.reward = r
            BY <1>2, <2>3
        <3>2. \A l \in Codes \ {k} : redemption'[l] = redemption[l]
            BY <1>2, <2>3
        <3>3. k \notin RedemptionsOf(r)
            BY <2>2 DEF RedemptionsOf
        <3>4. k \in RedemptionsOf(r)'
            BY <2>2, <3>1 DEF RedemptionsOf
        <3>5. \A l \in Codes \ {k} : l \in RedemptionsOf(r)' <=> l \in RedemptionsOf(r)
            BY <3>2 DEF RedemptionsOf
        <3>6. RedemptionsOf(r)' \subseteq Codes /\ RedemptionsOf(r) \subseteq Codes
            BY DEF RedemptionsOf
        <3> QED BY <3>3, <3>4, <3>5, <3>6
    <2>5. \A o \in Rewards \ {r} : RedemptionsOf(o)' = RedemptionsOf(o)
        BY <1>2, <2>2, <2>3 DEF RedemptionsOf
    <2>6. Cardinality(RedemptionsOf(r)') = Cardinality(RedemptionsOf(r)) + 1
        BY <2>4, RedemptionsFinite, FS_AddElement
    <2>7. /\ reward'[r].count = reward[r].count + 1
          /\ reward'[r].stock = reward[r].stock
        BY <1>2, <2>1, <2>3 DEF Reward
    <2>8. \A o \in Rewards \ {r} : reward'[o] = reward[o]
        BY <1>2, <2>3
    <2>9. reward[r].stock # Unlimited => reward[r].count + 1 <= reward[r].stock
        BY <2>1, <2>3 DEF InStock, Reward
    <2>10. ASSUME NEW o \in Rewards
           PROVE  /\ reward'[o].count = Cardinality(RedemptionsOf(o)')
                  /\ reward'[o].stock # Unlimited => reward'[o].count <= reward'[o].stock
        <3>1. CASE o = r
            BY <2>6, <2>7, <2>9, <3>1 DEF StockIsAccounted
        <3>2. CASE o # r
            BY <2>5, <2>8, <3>2 DEF StockIsAccounted
        <3> QED BY <3>1, <3>2
    <2> QED BY <2>10 DEF StockIsAccounted
<1> QED BY <1>1, <1>2 DEF InsertRedemption

LEMMA StockMarkConfirmed ==
    ASSUME TypeInv, StockIsAccounted, NEW p \in Procs, MarkConfirmed(p)
    PROVE  StockIsAccounted'
<1>1. redemption \in [Codes -> Redemption \cup {NoRedemption}]
    BY DEF TypeInv, TypeOK
<1>2. SetConfirmedIfPending(job[p].code, job[p].collaborator) /\ UNCHANGED reward
    BY DEF MarkConfirmed
<1>3. ASSUME NEW k \in Codes
      PROVE  /\ redemption'[k] = NoRedemption <=> redemption[k] = NoRedemption
             /\ redemption'[k].reward = redemption[k].reward
    <2>1. CASE redemption'[k] = redemption[k]
        BY <2>1
    <2>2. CASE redemption'[k] # redemption[k]
        <3>1. /\ redemption[k].status = "pending"
              /\ redemption'[k] = [redemption[k] EXCEPT !.status = "confirmed",
                                                        !.by = job[p].collaborator]
            BY <1>1, <1>2, <2>2 DEF SetConfirmedIfPending
        <3>2. redemption[k] \in Redemption
            BY <1>1, <3>1 DEF NoRedemption
        <3>3. redemption'[k].status = "confirmed" /\ redemption'[k].reward = redemption[k].reward
            BY <3>1, <3>2 DEF Redemption
        <3>4. redemption[k] # NoRedemption
            BY <3>1 DEF NoRedemption
        <3>5. redemption'[k] # NoRedemption
            BY <3>3 DEF NoRedemption
        <3> QED BY <3>3, <3>4, <3>5
    <2> QED BY <2>1, <2>2
<1> QED BY <1>2, <1>3, StockUnchanged

LEMMA StockUpdateReward ==
    ASSUME TypeInv, StockIsAccounted, NEW r \in Rewards, UpdateReward(r)
    PROVE  StockIsAccounted'
<1>1. PICK cost \in Costs, stock \in Stocks :
        /\ stock # Unlimited => reward[r].count <= stock
        /\ reward' = [reward EXCEPT ![r].cost = cost, ![r].stock = stock]
    BY DEF UpdateReward
<1>2. \A o \in Rewards : RedemptionsOf(o)' = RedemptionsOf(o)
    BY DEF UpdateReward, RedemptionsOf
<1>3. /\ reward'[r].count = reward[r].count
      /\ reward'[r].stock = stock
      /\ \A o \in Rewards \ {r} : reward'[o] = reward[o]
    BY <1>1 DEF TypeInv, TypeOK, Reward
<1> QED BY <1>1, <1>2, <1>3 DEF StockIsAccounted

LEMMA StockNext ==
    TypeInv /\ HeldRowsAreCurrent /\ StockIsAccounted /\ [Next]_vars => StockIsAccounted'
<1> SUFFICES ASSUME TypeInv, HeldRowsAreCurrent, StockIsAccounted, [Next]_vars
             PROVE  StockIsAccounted'
    OBVIOUS
<1>1. CASE UNCHANGED <<reward, redemption>>
    BY <1>1, StockUnchanged
<1>2. CASE \E c \in Clients : RequestLoadCode(c)
    BY <1>1, <1>2 DEF RequestLoadCode, dbVars
<1>3. ASSUME NEW p \in Procs, Accept(p) PROVE StockIsAccounted'
    BY <1>1, <1>3 DEF Accept, ProcessLoadCode, AddPoints, RequestRedemption,
       ConfirmRedemption, UpdatePoints, CheckBalance, dbVars
<1>4. ASSUME NEW p \in Procs, Step(p) PROVE StockIsAccounted'
    BY <1>1, <1>4, StockInsertRedemption, StockMarkConfirmed
       DEF Step, UpsertBalance, InsertEarn, ReserveStock, DeductBalance, CacheRedemption,
           ReadRedemption, CheckCorrectable, AdjustBalance, InsertAdjustment,
           SelectExpiring, DeductExpired, InsertExpiration, LockBalance, Rollback, dbVars
<1>5. ASSUME NEW p \in Procs, Abort(p) PROVE StockIsAccounted'
    BY <1>1, <1>5 DEF Abort, Rollback, dbVars
<1>6. CASE \E r \in Rewards : UpdateReward(r)
    BY <1>6, StockUpdateReward
<1>7. CASE Clock \/ Quiescent \/ UNCHANGED vars
    BY <1>1, <1>7 DEF Clock, CloseCorrection, LapseRedemption, ExpireOTP, Quiescent,
       vars, dbVars
<1> QED BY <1>2, <1>3, <1>4, <1>5, <1>6, <1>7 DEF Next

(* FID-38: whoever redeems at once, whatever fails, and whatever stock the *)
(* admin sets, a reward's count is the number of its redemptions and stays *)
(* within its stock.                                                       *)
THEOREM StockCorrect == Spec => []StockIsAccounted
BY StockInit, StockNext, TypeInvariance, RowLocksCorrect, PTL DEF Spec

-----------------------------------------------------------------------------
(* Confirmations. *)

LEMMA FinalStep ==
    ASSUME TypeInv, [Next]_vars, NEW k \in Codes, redemption[k].status = "confirmed"
    PROVE  redemption'[k] = redemption[k]
<1>1. redemption \in [Codes -> Redemption \cup {NoRedemption}]
    BY DEF TypeInv, TypeOK
<1>2. CASE UNCHANGED redemption
    BY <1>2
<1>3. ASSUME NEW p \in Procs, InsertRedemption(p) PROVE redemption'[k] = redemption[k]
    <2>1. CASE Rollback(p)
        BY <2>1 DEF Rollback, dbVars
    <2>2. CASE /\ ~CodeTaken(job[p].code)
               /\ \E row : redemption' = [redemption EXCEPT ![job[p].code] = row]
        <3>1. job[p].code # k
            BY <2>2 DEF CodeTaken, NoRedemption
        <3> QED BY <1>1, <2>2, <3>1
    <2> QED BY <1>3, <2>1, <2>2 DEF InsertRedemption
<1>4. ASSUME NEW p \in Procs, MarkConfirmed(p) PROVE redemption'[k] = redemption[k]
    BY <1>1, <1>4 DEF MarkConfirmed, SetConfirmedIfPending
<1>5. \/ UNCHANGED redemption
      \/ \E p \in Procs : InsertRedemption(p) \/ MarkConfirmed(p)
    <2>1. ASSUME NEW c \in Clients, RequestLoadCode(c) PROVE UNCHANGED redemption
        BY <2>1 DEF RequestLoadCode, dbVars
    <2>2. ASSUME NEW p \in Procs, Accept(p) \/ Abort(p) PROVE UNCHANGED redemption
        BY <2>2 DEF Accept, ProcessLoadCode, AddPoints, RequestRedemption,
           ConfirmRedemption, UpdatePoints, CheckBalance, Abort, Rollback, dbVars
    <2>3. ASSUME NEW p \in Procs, Step(p)
          PROVE  UNCHANGED redemption \/ InsertRedemption(p) \/ MarkConfirmed(p)
        BY <2>3 DEF Step, UpsertBalance, InsertEarn, ReserveStock, DeductBalance,
           CacheRedemption, ReadRedemption, CheckCorrectable, AdjustBalance,
           InsertAdjustment, SelectExpiring, DeductExpired, InsertExpiration,
           LockBalance, Rollback, dbVars
    <2>4. ASSUME NEW r \in Rewards, UpdateReward(r) PROVE UNCHANGED redemption
        BY <2>4 DEF UpdateReward
    <2>5. CASE Clock \/ Quiescent \/ UNCHANGED vars
        BY <2>5 DEF Clock, CloseCorrection, LapseRedemption, ExpireOTP, Quiescent,
           vars, dbVars
    <2> QED BY <2>1, <2>2, <2>3, <2>4, <2>5 DEF Next
<1> QED BY <1>2, <1>3, <1>4, <1>5

(* Once confirmed, a redemption keeps who confirmed it and what it was:    *)
(* the UPDATE touches pending rows only and no code is used twice.         *)
THEOREM ConfirmationCorrect == Spec => ConfirmationIsFinal
<1>1. TypeInv /\ [Next]_vars =>
        [\A k \in Codes : redemption[k].status = "confirmed"
            => redemption'[k] = redemption[k]]_vars
    BY FinalStep
<1> QED BY <1>1, TypeInvariance, PTL DEF Spec, ConfirmationIsFinal

-----------------------------------------------------------------------------
(* The three ways an entry is posted, each by a transaction that holds the *)
(* balance.                                                                *)

PostsEarn(p) == /\ pc[p] = "insertEarn"
                /\ CommitEntry(p, "earn")
                /\ ~DuplicateReceipt(job[p].receipt)
                /\ UNCHANGED <<reward, redemption>>

PostsAdjustment(p) == /\ pc[p] = "insertAdjustment"
                      /\ CommitEntry(p, "adjustment")
                      /\ UNCHANGED <<reward, redemption>>

PostsBurn(p) ==
    LET k == job[p].code
        r == job[p].reward
    IN  /\ pc[p] = "insertRedemption"
        /\ CommitEntry(p, "burn")
        /\ ~CodeTaken(k)
        /\ Goto(p, "cacheRedemption")
        /\ reward' = [reward EXCEPT ![r].count = job[p].newCount]
        /\ redemption' = [redemption EXCEPT ![k] =
              [status |-> "pending", client |-> job[p].client,
               reward |-> r, points |-> -job[p].amount, by |-> Nil]]

Posts(p) == PostsEarn(p) \/ PostsAdjustment(p) \/ PostsBurn(p)

LEMMA PostStep ==
    ASSUME [Next]_vars
    PROVE  \/ UNCHANGED <<balance, ledger>>
           \/ \E p \in Procs : Posts(p)
<1>1. ASSUME NEW c \in Clients, RequestLoadCode(c) PROVE UNCHANGED <<balance, ledger>>
    BY <1>1 DEF RequestLoadCode, dbVars
<1>2. ASSUME NEW p \in Procs, Accept(p) \/ Abort(p) PROVE UNCHANGED <<balance, ledger>>
    BY <1>2 DEF Accept, ProcessLoadCode, AddPoints, RequestRedemption,
       ConfirmRedemption, UpdatePoints, CheckBalance, Abort, Rollback, dbVars
<1>3. ASSUME NEW p \in Procs, Step(p) PROVE UNCHANGED <<balance, ledger>> \/ Posts(p)
    <2>1. CASE InsertEarn(p)
        BY <2>1 DEF InsertEarn, Rollback, dbVars, Posts, PostsEarn
    <2>2. CASE InsertAdjustment(p)
        BY <2>2 DEF InsertAdjustment, Posts, PostsAdjustment
    <2>3. CASE InsertRedemption(p)
        BY <2>3 DEF InsertRedemption, Rollback, dbVars, Posts, PostsBurn
    <2> QED
        BY <1>3, <2>1, <2>2, <2>3 DEF Step, UpsertBalance, ReserveStock, DeductBalance,
           CacheRedemption, ReadRedemption, MarkConfirmed, CheckCorrectable,
           AdjustBalance, SelectExpiring, DeductExpired, InsertExpiration,
           LockBalance, Rollback, dbVars
<1>4. ASSUME NEW r \in Rewards, UpdateReward(r) PROVE UNCHANGED <<balance, ledger>>
    BY <1>4 DEF UpdateReward
<1>5. CASE Clock \/ Quiescent \/ UNCHANGED vars
    BY <1>5 DEF Clock, CloseCorrection, LapseRedemption, ExpireOTP, Quiescent,
       vars, dbVars
<1> QED
    BY <1>1, <1>2, <1>3, <1>4, <1>5 DEF Next

(* What posting does to the ledger. *)
LEMMA PostedEntry ==
    ASSUME TypeInv, NEW p \in Procs, NEW type \in TransactionTypes,
           CommitEntry(p, type), job[p].client \in Clients
    PROVE  LET n == Len(ledger) + 1
           IN  /\ n \notin DOMAIN ledger /\ DOMAIN ledger' = DOMAIN ledger \cup {n}
               /\ DOMAIN ledger \subseteq Nat /\ n \in Nat
               /\ \A i \in DOMAIN ledger : i < n /\ ledger'[i] = ledger[i]
               /\ ledger'[n] = Entry(p, type)
<1>1. ledger \in Seq(Transaction)
    BY DEF TypeInv, TypeOK
<1>2. ledger' = Append(ledger, Entry(p, type))
    BY DEF CommitEntry
<1> HIDE DEF Entry
<1> QED
    BY <1>1, <1>2

LEMMA EntryFields ==
    ASSUME NEW p, NEW type
    PROVE  /\ Entry(p, type).type = type
           /\ Entry(p, type).client = job[p].client
           /\ Entry(p, type).amount = job[p].amount
           /\ Entry(p, type).after = job[p].newBalance
           /\ Entry(p, type).receipt = job[p].receipt
           /\ Entry(p, type).via = job[p].code
BY DEF Entry

LEMMA PosterHolds ==
    ASSUME TypeInv, NEW p \in Procs, Posts(p)
    PROVE  /\ job[p] \in Job
           /\ job[p].client \in Clients
           /\ HoldsBalance(p, job[p].client)
           /\ \E type \in TransactionTypes : CommitEntry(p, type)
<1>1. job[p] \in Job /\ JobFits(pc[p], job[p])
    BY DEF TypeInv, TypeOK, JobsOK
<1>2. pc[p] \in {"insertEarn", "insertAdjustment", "insertRedemption"}
    BY DEF Posts, PostsEarn, PostsAdjustment, PostsBurn
<1>3. job[p].client \in Clients
    BY <1>1, <1>2 DEF JobFits, EarnPCs, CorrectPCs, BurnPCs
<1>4. \E type \in TransactionTypes : CommitEntry(p, type)
    BY DEF Posts, PostsEarn, PostsAdjustment, PostsBurn, TransactionTypes
<1> QED
    BY <1>1, <1>2, <1>3, <1>4 DEF HoldsBalance

-----------------------------------------------------------------------------
(* The balance is what the ledger says. *)

(* BalanceReplaysLedger for one client, without the entries of others. *)
ReplaysFor(c) ==
    /\ Own(c) = {} => balance[c] = 0
    /\ \A j \in Own(c) :
        /\ (\A i \in Own(c) : i >= j) => ledger[j].after = Greatest0(ledger[j].amount)
        /\ \A i \in Own(c) : (i < j /\ \A k \in Own(c) : k <= i \/ k >= j) =>
               ledger[j].after = Greatest0(ledger[i].after + ledger[j].amount)
        /\ (\A i \in Own(c) : i <= j) => balance[c] = ledger[j].after

LEMMA ReplaysSplit == BalanceReplaysLedger <=> \A c \in Clients : ReplaysFor(c)
<1>1. \A c \in Clients : \A j \in Own(c) : ledger[j].client = c
    BY DEF Own
<1> QED
    BY <1>1 DEF BalanceReplaysLedger, ReplaysFor, Precedes

LEMMA ReplaysJoin == (\A c \in Clients : ReplaysFor(c))' => BalanceReplaysLedger'
BY ReplaysSplit, PTL

LEMMA ReplayStep ==
    ASSUME TypeInv, HeldRowsAreCurrent, BalanceReplaysLedger, [Next]_vars
    PROVE  BalanceReplaysLedger'
<1>1. CASE UNCHANGED <<balance, ledger>>
    BY <1>1 DEF BalanceReplaysLedger, Own, Precedes
<1>2. ASSUME NEW p \in Procs, Posts(p) PROVE BalanceReplaysLedger'
    <2>1. PICK c \in Clients : c = job[p].client /\ HoldsBalance(p, c)
        BY <1>2, PosterHolds
    <2>2. PICK type \in TransactionTypes : CommitEntry(p, type)
        BY <1>2, PosterHolds
    <2>3. PICK n \in Nat :
              /\ n \notin DOMAIN ledger /\ DOMAIN ledger' = DOMAIN ledger \cup {n}
              /\ DOMAIN ledger \subseteq Nat
              /\ \A i \in DOMAIN ledger : i < n /\ ledger'[i] = ledger[i]
              /\ ledger'[n] = Entry(p, type)
        BY <2>1, <2>2, PostedEntry
    <2>4. PICK amount \in Int, after \in Nat :
              /\ ledger'[n].client = c /\ ledger'[n].amount = amount
              /\ ledger'[n].after = after /\ after = job[p].newBalance
              /\ after = Greatest0(balance[c] + amount)
        <3>1. job[p].newBalance \in Nat /\ job[p].amount \in Int
            BY <1>2, PosterHolds DEF Job
        <3> QED
            BY <2>1, <2>3, <3>1, EntryFields DEF HeldRowsAreCurrent
    <2>5. balance' = [balance EXCEPT ![c] = after]
        BY <2>1, <2>2, <2>4 DEF CommitEntry
    <2>6. balance \in [Clients -> Nat]
        BY DEF TypeInv, TypeOK
    <2>7. Own(c)' = Own(c) \cup {n} /\ n \notin Own(c)
        BY <2>3, <2>4 DEF Own
    <2>8. \A d \in Clients \ {c} : Own(d)' = Own(d) /\ balance'[d] = balance[d]
        BY <2>3, <2>4, <2>5, <2>6 DEF Own
    <2>9. \A d \in Clients : /\ Own(d) \subseteq DOMAIN ledger
                            /\ \A i \in Own(d) : ledger[i].client = d
        BY DEF Own
    <2>10. ASSUME NEW d \in Clients PROVE ReplaysFor(d)'
        <3>1. ReplaysFor(d)
            BY ReplaysSplit
        <3>2. CASE d # c
            <4>1. Own(d)' = Own(d) /\ balance'[d] = balance[d]
                BY <2>8, <3>2
            <4>2. \A i \in Own(d) : ledger'[i] = ledger[i]
                BY <2>3, <2>9
            <4> QED
                BY <3>1, <4>1, <4>2 DEF ReplaysFor
        <3>3. CASE d = c
            <4>1. balance'[c] = after
                BY <2>5, <2>6
            <4>2. \A i \in Own(c) : i \in Nat /\ i < n /\ ledger'[i] = ledger[i]
                BY <2>3, <2>9
            <4>3. ReplaysFor(c)
                BY <3>1, <3>3
            <4>4. ASSUME NEW j \in Own(c)'
                  PROVE  /\ (\A i \in Own(c)' : i >= j) =>
                                ledger'[j].after = Greatest0(ledger'[j].amount)
                         /\ \A i \in Own(c)' :
                                (i < j /\ \A k \in Own(c)' : k <= i \/ k >= j) =>
                                    ledger'[j].after =
                                        Greatest0(ledger'[i].after + ledger'[j].amount)
                         /\ (\A i \in Own(c)' : i <= j) => balance'[c] = ledger'[j].after
                <5>1. CASE j = n
                    <6>1. ASSUME \A i \in Own(c)' : i >= n
                          PROVE  after = Greatest0(amount)
                        <7>1. Own(c) = {}
                            BY <2>7, <4>2, <6>1
                        <7>2. balance[c] = 0
                            BY <4>3, <7>1 DEF ReplaysFor
                        <7> QED
                            BY <2>4, <7>2
                    <6>2. ASSUME NEW i \in Own(c)', i < n,
                                 \A k \in Own(c)' : k <= i \/ k >= n
                          PROVE  after = Greatest0(ledger'[i].after + amount)
                        <7>1. i \in Own(c)
                            BY <2>7, <6>2
                        <7>2. \A k \in Own(c) : k <= i
                            BY <2>7, <4>2, <6>2
                        <7>3. balance[c] = ledger[i].after
                            BY <4>3, <7>1, <7>2 DEF ReplaysFor
                        <7> QED
                            BY <2>4, <4>2, <7>1, <7>3
                    <6> QED
                        BY <2>4, <4>1, <5>1, <6>1, <6>2
                <5>2. CASE j # n
                    <6>1. j \in Own(c) /\ j < n /\ ledger'[j] = ledger[j]
                        BY <2>7, <4>2, <5>2
                    <6>2. ASSUME NEW i \in Own(c)', i < j PROVE i \in Own(c)
                        BY <2>7, <4>2, <6>1, <6>2
                    <6>3. ~\A i \in Own(c)' : i <= j
                        BY <2>7, <4>2, <6>1
                    <6> QED
                        BY <2>7, <4>2, <4>3, <6>1, <6>2, <6>3 DEF ReplaysFor
                <5> QED
                    BY <5>1, <5>2
            <4>5. Own(c)' # {}
                BY <2>7
            <4> QED
                BY <3>3, <4>4, <4>5 DEF ReplaysFor
        <3> QED
            BY <3>2, <3>3
    <2> QED
        BY <2>10, ReplaysJoin
<1> QED
    BY <1>1, <1>2, PostStep

LEMMA ReplayInit == Init => BalanceReplaysLedger
BY DEF Init, BalanceReplaysLedger, Own

(* Whoever credits, corrects and redeems at once, and whatever is rolled   *)
(* back, a client's entries replayed from zero end at the client's         *)
(* balance, and each of them shows the balance after it.                   *)
THEOREM ReplayCorrect == Spec => []BalanceReplaysLedger
<1>1. TypeInv /\ HeldRowsAreCurrent /\ BalanceReplaysLedger /\ [Next]_vars
          => BalanceReplaysLedger'
    BY ReplayStep
<1> QED
    BY <1>1, ReplayInit, TypeInvariance, RowLocksCorrect, PTL DEF Spec

-----------------------------------------------------------------------------
(* Burn entries and redemptions. *)

(* What is redeemed by a code stays, but for its confirmation. *)
RedemptionsStay ==
    \A k \in Codes : redemption[k] # NoRedemption =>
        /\ redemption'[k] # NoRedemption
        /\ redemption'[k].client = redemption[k].client
        /\ redemption'[k].points = redemption[k].points

LEMMA ConfirmStays ==
    ASSUME TypeInv, NEW p \in Procs, MarkConfirmed(p)
    PROVE  /\ RedemptionsStay
           /\ \A k \in Codes : redemption[k] = NoRedemption => redemption'[k] = NoRedemption
<1> DEFINE l == job[p].code
           w == job[p].collaborator
<1>1. redemption \in [Codes -> Redemption \cup {NoRedemption}]
    BY DEF TypeInv, TypeOK
<1>2. SetConfirmedIfPending(l, w)
    BY DEF MarkConfirmed
<1> HIDE DEF l, w
<1>3. ASSUME NEW k \in Codes, redemption'[k] # redemption[k]
      PROVE  /\ redemption[k] # NoRedemption /\ redemption'[k] # NoRedemption
             /\ redemption'[k].client = redemption[k].client
             /\ redemption'[k].points = redemption[k].points
    <2>1. /\ redemption[k].status = "pending"
          /\ redemption'[k] = [redemption[k] EXCEPT !.status = "confirmed", !.by = w]
        BY <1>1, <1>2, <1>3 DEF SetConfirmedIfPending
    <2>2. redemption[k] # NoRedemption
        BY <2>1 DEF NoRedemption
    <2>3. redemption[k] \in Redemption
        BY <1>1, <2>2
    <2>4. /\ redemption'[k].status = "confirmed"
          /\ redemption'[k].client = redemption[k].client
          /\ redemption'[k].points = redemption[k].points
        BY <2>1, <2>3 DEF Redemption
    <2>5. redemption'[k] # NoRedemption
        BY <2>4 DEF NoRedemption
    <2> QED
        BY <2>2, <2>4, <2>5
<1> QED
    BY <1>3 DEF RedemptionsStay

(* The steps that make no redemption. *)
LEMMA RedemptionStep ==
    ASSUME TypeInv, [Next]_vars
    PROVE  \/ UNCHANGED redemption
           \/ \E p \in Procs : MarkConfirmed(p)
           \/ \E p \in Procs : PostsBurn(p)
<1>1. ASSUME NEW c \in Clients, RequestLoadCode(c) PROVE UNCHANGED redemption
    BY <1>1 DEF RequestLoadCode, dbVars
<1>2. ASSUME NEW p \in Procs, Accept(p) \/ Abort(p) PROVE UNCHANGED redemption
    BY <1>2 DEF Accept, ProcessLoadCode, AddPoints, RequestRedemption,
       ConfirmRedemption, UpdatePoints, CheckBalance, Abort, Rollback, dbVars
<1>3. ASSUME NEW p \in Procs, Step(p)
      PROVE  UNCHANGED redemption \/ MarkConfirmed(p) \/ PostsBurn(p)
    <2>1. CASE InsertRedemption(p)
        BY <2>1 DEF InsertRedemption, Rollback, dbVars, PostsBurn
    <2> QED
        BY <1>3, <2>1 DEF Step, UpsertBalance, InsertEarn, ReserveStock, DeductBalance,
           CacheRedemption, ReadRedemption, CheckCorrectable, AdjustBalance,
           InsertAdjustment, SelectExpiring, DeductExpired, InsertExpiration,
           LockBalance, Rollback, dbVars
<1>4. ASSUME NEW r \in Rewards, UpdateReward(r) PROVE UNCHANGED redemption
    BY <1>4 DEF UpdateReward
<1>5. CASE Clock \/ Quiescent \/ UNCHANGED vars
    BY <1>5 DEF Clock, CloseCorrection, LapseRedemption, ExpireOTP, Quiescent,
       vars, dbVars
<1> QED
    BY <1>1, <1>2, <1>3, <1>4, <1>5 DEF Next

(* Inductive once the burn entries are known to carry a code. *)
BurnInv ==
    /\ \A i \in DOMAIN ledger : ledger[i].type = "burn" => ledger[i].via \in Codes
    /\ BurnsMatchRedemptions

LEMMA BurnStep ==
    ASSUME TypeInv, BurnInv, [Next]_vars
    PROVE  BurnInv'
<1>1. CASE UNCHANGED ledger /\ RedemptionsStay /\
           \A k \in Codes : redemption[k] = NoRedemption => redemption'[k] = NoRedemption
    BY <1>1 DEF BurnInv, BurnsMatchRedemptions, RedemptionsStay
<1>2. ASSUME NEW p \in Procs, NEW type \in TransactionTypes \ {"burn"},
             Posts(p), CommitEntry(p, type), UNCHANGED redemption
      PROVE  BurnInv'
    <2>1. PICK n \in Nat :
              /\ n \notin DOMAIN ledger /\ DOMAIN ledger' = DOMAIN ledger \cup {n}
              /\ \A i \in DOMAIN ledger : ledger'[i] = ledger[i]
              /\ ledger'[n] = Entry(p, type)
        BY <1>2, PosterHolds, PostedEntry
    <2>2. ledger'[n].type # "burn"
        BY <2>1, EntryFields
    <2> QED
        BY <1>2, <2>1, <2>2 DEF BurnInv, BurnsMatchRedemptions
<1>3. ASSUME NEW p \in Procs, PostsBurn(p) PROVE BurnInv'
    <2>1. PICK k \in Codes : k = job[p].code
        BY <1>3 DEF PostsBurn, TypeInv, JobsOK, JobFits, BurnPCs
    <2>2. PICK n \in Nat :
              /\ n \notin DOMAIN ledger /\ DOMAIN ledger' = DOMAIN ledger \cup {n}
              /\ \A i \in DOMAIN ledger : ledger'[i] = ledger[i]
              /\ ledger'[n] = Entry(p, "burn")
        <3>1. CommitEntry(p, "burn") /\ "burn" \in TransactionTypes
            BY <1>3 DEF PostsBurn, TransactionTypes
        <3> QED
            BY <1>3, <3>1, PosterHolds, PostedEntry DEF Posts
    <2>3. /\ ledger'[n].type = "burn" /\ ledger'[n].via = k
          /\ ledger'[n].client = job[p].client /\ ledger'[n].amount = job[p].amount
        BY <2>1, <2>2, EntryFields
    <2>4. redemption \in [Codes -> Redemption \cup {NoRedemption}]
        BY DEF TypeInv, TypeOK
    <2>5. redemption[k] = NoRedemption
        BY <1>3, <2>1 DEF PostsBurn, CodeTaken
    <2>6. /\ redemption'[k] # NoRedemption
          /\ redemption'[k].client = job[p].client
          /\ redemption'[k].points = -job[p].amount
        <3>1. redemption'[k].status = "pending"
            BY <1>3, <2>1, <2>4 DEF PostsBurn
        <3> QED
            BY <1>3, <2>1, <2>4, <3>1 DEF PostsBurn, NoRedemption
    <2>7. \A l \in Codes \ {k} : redemption'[l] = redemption[l]
        BY <1>3, <2>1, <2>4 DEF PostsBurn
    <2>8. \A i \in DOMAIN ledger : ledger[i].type = "burn" =>
              /\ ledger[i].via \in Codes \ {k}
              /\ ledger'[i] = ledger[i]
        BY <2>2, <2>5 DEF BurnInv, BurnsMatchRedemptions
    <2>9. \A i \in DOMAIN ledger' : ledger'[i].type = "burn" => ledger'[i].via \in Codes
        BY <2>2, <2>3, <2>8
    <2>10. ASSUME NEW i \in DOMAIN ledger', ledger'[i].type = "burn"
           PROVE  LET rd == redemption'[ledger'[i].via]
                  IN  /\ rd # NoRedemption
                      /\ rd.client = ledger'[i].client
                      /\ rd.points = -ledger'[i].amount
        <3>1. CASE i = n
            BY <2>3, <2>6, <3>1
        <3>2. CASE i \in DOMAIN ledger
            BY <2>2, <2>7, <2>8, <2>10, <3>2 DEF BurnInv, BurnsMatchRedemptions
        <3> QED
            BY <2>2, <3>1, <3>2
    <2>11. ASSUME NEW l \in Codes, redemption'[l] # NoRedemption
           PROVE  \E i \in DOMAIN ledger' :
                    /\ ledger'[i].type = "burn" /\ ledger'[i].via = l
                    /\ \A j \in DOMAIN ledger' :
                        ledger'[j].type = "burn" /\ ledger'[j].via = l => j = i
        <3>1. CASE l = k
            BY <2>2, <2>3, <2>8, <3>1
        <3>2. CASE l # k
            <4>1. PICK i \in DOMAIN ledger :
                    /\ ledger[i].type = "burn" /\ ledger[i].via = l
                    /\ \A j \in DOMAIN ledger :
                        ledger[j].type = "burn" /\ ledger[j].via = l => j = i
                BY <2>7, <2>11, <3>2 DEF BurnInv, BurnsMatchRedemptions
            <4> QED
                BY <2>2, <2>3, <3>2, <4>1
        <3> QED
            BY <3>1, <3>2
    <2> QED
        BY <2>9, <2>10, <2>11 DEF BurnInv, BurnsMatchRedemptions
<1>4. CASE UNCHANGED <<balance, ledger>>
    <2>1. CASE UNCHANGED redemption
        BY <1>1, <1>4, <2>1 DEF RedemptionsStay
    <2>2. ASSUME NEW p \in Procs, MarkConfirmed(p) PROVE BurnInv'
        BY <1>1, <1>4, <2>2, ConfirmStays
    <2>3. ASSUME NEW p \in Procs, PostsBurn(p) PROVE BurnInv'
        BY <1>3, <2>3
    <2> QED
        BY <2>1, <2>2, <2>3, RedemptionStep
<1>5. ASSUME NEW p \in Procs, Posts(p) PROVE BurnInv'
    <2>1. "earn" \in TransactionTypes \ {"burn"} /\ "adjustment" \in TransactionTypes \ {"burn"}
        BY DEF TransactionTypes
    <2> QED
        BY <1>2, <1>3, <1>5, <2>1 DEF Posts, PostsEarn, PostsAdjustment
<1> QED
    BY <1>4, <1>5, PostStep

LEMMA BurnInit == Init => BurnInv
BY DEF Init, BurnInv, BurnsMatchRedemptions

(* A redemption and its burn entry are written together or not at all, and *)
(* go on agreeing on the client and the points.                            *)
THEOREM BurnsCorrect == Spec => []BurnsMatchRedemptions
<1>1. TypeInv /\ BurnInv /\ [Next]_vars => BurnInv'
    BY BurnStep
<1>2. BurnInv => BurnsMatchRedemptions
    BY DEF BurnInv
<1> QED
    BY <1>1, <1>2, BurnInit, TypeInvariance, PTL DEF Spec

-----------------------------------------------------------------------------
(* What a handler that credits a purchase carries: the receipt and the     *)
(* load code it began with.  Nobody else carries a receipt.                *)

CarriesNoReceipt(s, j) == s \notin EarnPCs => j.receipt = NoReceipt

ReceiptsCarried == \A p \in Procs : CarriesNoReceipt(pc[p], job[p])

(* A handler that begins to credit. *)
TakesPurchase(p) ==
    \E c, w, a, via : \E x \in Receipts \cup {NoReceipt} :
        Begin(p, "upsertBalance", CreditJob(c, w, a, x, via))

(* A handler that goes on, with what it carries, or is done with it. *)
Carries(p) ==
    /\ \A q \in Procs \ {p} : pc'[q] = pc[q] /\ job'[q] = job[q]
    /\ pc'[p] \in EarnPCs => /\ pc[p] \in EarnPCs
                             /\ job'[p].receipt = job[p].receipt
                             /\ job'[p].code = job[p].code
    /\ CarriesNoReceipt(pc'[p], job'[p])

LEMMA FinishCarries ==
    ASSUME TypeInv, NEW p \in Procs, Finish(p)
    PROVE  Carries(p)
BY DEF TypeInv, TypeOK, Finish, Carries, CarriesNoReceipt, EarnPCs, NoJob

(* The job keeps its receipt and its code. *)
LEMMA GotoCarries ==
    ASSUME TypeInv, ReceiptsCarried, NEW p \in Procs, NEW s, Goto(p, s),
           s \in EarnPCs <=> pc[p] \in EarnPCs,
           NEW j, job' = [job EXCEPT ![p] = j],
           j.receipt = job[p].receipt, j.code = job[p].code
    PROVE  Carries(p)
BY DEF TypeInv, TypeOK, Goto, Carries, ReceiptsCarried, CarriesNoReceipt

LEMMA BeginCarries ==
    ASSUME TypeInv, NEW p \in Procs, NEW s, s \notin EarnPCs,
           NEW j, j.receipt = NoReceipt, Begin(p, s, j)
    PROVE  Carries(p)
BY DEF TypeInv, TypeOK, Begin, Carries, CarriesNoReceipt

LEMMA LockCarries ==
    ASSUME TypeInv, ReceiptsCarried, NEW p \in Procs, NEW s, LockBalance(p, s),
           s \in EarnPCs <=> pc[p] \in EarnPCs
    PROVE  Carries(p)
<1> DEFINE n == Greatest0(balance[job[p].client] + job[p].amount)
           j == [job[p] EXCEPT !.newBalance = n]
<1>1. job[p] \in Job
    BY DEF TypeInv, TypeOK
<1>2. job' = [job EXCEPT ![p] = j] /\ Goto(p, s)
    BY DEF LockBalance, TypeInv, TypeOK
<1> HIDE DEF n
<1>3. j.receipt = job[p].receipt /\ j.code = job[p].code
    BY <1>1 DEF Job
<1> HIDE DEF j
<1> QED
    BY <1>2, <1>3, GotoCarries

LEMMA AcceptCarries ==
    ASSUME TypeInv, NEW p \in Procs, Accept(p)
    PROVE  Carries(p) \/ ((ProcessLoadCode(p) \/ AddPoints(p)) /\ TakesPurchase(p))
<1>1. "idle" \notin EarnPCs /\ NoJob.receipt = NoReceipt
    BY DEF EarnPCs, NoJob
<1>2. CASE ProcessLoadCode(p)
    BY <1>1, <1>2, BeginCarries DEF ProcessLoadCode, TakesPurchase
<1>3. CASE AddPoints(p)
    BY <1>3 DEF AddPoints, TakesPurchase
<1>4. CASE RequestRedemption(p)
    <2>1. PICK c \in Clients, r \in Rewards, k \in Codes :
              Begin(p, "reserveStock", BurnJob(c, r, k))
        BY <1>4 DEF RequestRedemption
    <2>2. BurnJob(c, r, k).receipt = NoReceipt /\ "reserveStock" \notin EarnPCs
        BY DEF BurnJob, NoJob, EarnPCs
    <2> QED
        BY <2>1, <2>2, BeginCarries
<1>5. CASE ConfirmRedemption(p)
    <2>1. CASE Begin(p, "idle", NoJob)
        BY <1>1, <2>1, BeginCarries
    <2>2. ASSUME NEW k, NEW w,
                 Begin(p, "readRedemption", [NoJob EXCEPT !.code = k, !.collaborator = w])
          PROVE  Carries(p)
        <3> DEFINE j == [NoJob EXCEPT !.code = k, !.collaborator = w]
        <3>1. j.receipt = NoReceipt /\ "readRedemption" \notin EarnPCs
            BY DEF NoJob, EarnPCs
        <3> HIDE DEF j
        <3>2. Begin(p, "readRedemption", j)
            BY <2>2 DEF j
        <3> QED
            BY <3>1, <3>2, BeginCarries
    <2> QED
        BY <1>5, <2>1, <2>2 DEF ConfirmRedemption
<1>6. CASE UpdatePoints(p)
    <2>1. PICK i, n, w : Begin(p, "checkCorrectable", AdjustJob(i, n, w))
        BY <1>6 DEF UpdatePoints
    <2>2. AdjustJob(i, n, w).receipt = NoReceipt /\ "checkCorrectable" \notin EarnPCs
        BY DEF AdjustJob, NoJob, EarnPCs
    <2> QED
        BY <2>1, <2>2, BeginCarries
<1>7. CASE CheckBalance(p)
    <2>1. PICK c : Begin(p, "selectExpiring", [NoJob EXCEPT !.client = c])
        BY <1>7 DEF CheckBalance
    <2> DEFINE j == [NoJob EXCEPT !.client = c]
    <2>2. j.receipt = NoReceipt /\ "selectExpiring" \notin EarnPCs
        BY DEF NoJob, EarnPCs
    <2> HIDE DEF j
    <2>3. Begin(p, "selectExpiring", j)
        BY <2>1 DEF j
    <2> QED
        BY <2>2, <2>3, BeginCarries
<1> QED
    BY <1>2, <1>3, <1>4, <1>5, <1>6, <1>7 DEF Accept

LEMMA StepCarries ==
    ASSUME TypeInv, ReceiptsCarried, NEW p \in Procs, Step(p)
    PROVE  Carries(p)
<1>t. job[p] \in Job /\ job = [job EXCEPT ![p] = job[p]]
    BY DEF TypeInv, TypeOK
<1>1. CASE UpsertBalance(p)
    BY <1>1, LockCarries DEF UpsertBalance, EarnPCs
<1>2. CASE AdjustBalance(p)
    BY <1>2, LockCarries DEF AdjustBalance, EarnPCs
<1>3. CASE DeductExpired(p)
    BY <1>3, LockCarries DEF DeductExpired, EarnPCs
<1>4. CASE InsertEarn(p) \/ CacheRedemption(p) \/ MarkConfirmed(p)
           \/ InsertAdjustment(p) \/ InsertExpiration(p)
    BY <1>4, FinishCarries DEF InsertEarn, CacheRedemption, MarkConfirmed,
       InsertAdjustment, InsertExpiration, Rollback
<1>5. CASE InsertRedemption(p) \/ ReadRedemption(p) \/ CheckCorrectable(p)
    <2>1. CASE Finish(p)
        BY <2>1, FinishCarries
    <2>2. ASSUME NEW s \in {"cacheRedemption", "markConfirmed", "adjustBalance"},
                 Goto(p, s), UNCHANGED job, pc[p] \notin EarnPCs
          PROVE  Carries(p)
        <3>1. s \notin EarnPCs
            BY DEF EarnPCs
        <3>2. job' = [job EXCEPT ![p] = job[p]]
            BY <1>t, <2>2
        <3> QED
            BY <2>2, <3>1, <3>2, GotoCarries
    <2>3. pc[p] \notin EarnPCs
        BY <1>5 DEF InsertRedemption, ReadRedemption, CheckCorrectable, EarnPCs
    <2> QED
        BY <1>5, <2>1, <2>2, <2>3 DEF InsertRedemption, ReadRedemption,
           CheckCorrectable, Rollback
<1>6. CASE ReserveStock(p)
    <2>1. CASE Finish(p)
        BY <2>1, FinishCarries
    <2>2. ASSUME NEW n, job' = [job EXCEPT ![p].newCount = n], Goto(p, "deductBalance")
          PROVE  Carries(p)
        <3> DEFINE j == [job[p] EXCEPT !.newCount = n]
        <3>1. j.receipt = job[p].receipt /\ j.code = job[p].code
            BY <1>t DEF Job
        <3>2. job' = [job EXCEPT ![p] = j]
            BY <2>2 DEF TypeInv, TypeOK
        <3>3. pc[p] \notin EarnPCs /\ "deductBalance" \notin EarnPCs
            BY <1>6 DEF ReserveStock, EarnPCs
        <3> HIDE DEF j
        <3> QED
            BY <2>2, <3>1, <3>2, <3>3, GotoCarries
    <2> QED
        BY <1>6, <2>1, <2>2 DEF ReserveStock, Rollback
<1>7. CASE DeductBalance(p)
    <2>1. CASE Finish(p)
        BY <2>1, FinishCarries
    <2>2. ASSUME NEW n, job' = [job EXCEPT ![p].newBalance = n], Goto(p, "insertRedemption")
          PROVE  Carries(p)
        <3> DEFINE j == [job[p] EXCEPT !.newBalance = n]
        <3>1. j.receipt = job[p].receipt /\ j.code = job[p].code
            BY <1>t DEF Job
        <3>2. job' = [job EXCEPT ![p] = j]
            BY <2>2 DEF TypeInv, TypeOK
        <3>3. pc[p] \notin EarnPCs /\ "insertRedemption" \notin EarnPCs
            BY <1>7 DEF DeductBalance, EarnPCs
        <3> HIDE DEF j
        <3> QED
            BY <2>2, <3>1, <3>2, <3>3, GotoCarries
    <2> QED
        BY <1>7, <2>1, <2>2 DEF DeductBalance, Rollback
<1>8. CASE SelectExpiring(p)
    <2>1. CASE Finish(p)
        BY <2>1, FinishCarries
    <2>2. ASSUME NEW i, NEW n, job' = [job EXCEPT ![p].tx = i, ![p].amount = n],
                 Goto(p, "deductExpired")
          PROVE  Carries(p)
        <3> DEFINE j == [job[p] EXCEPT !.tx = i, !.amount = n]
        <3>1. j.receipt = job[p].receipt /\ j.code = job[p].code
            BY <1>t DEF Job
        <3>2. job' = [job EXCEPT ![p] = j]
            BY <2>2 DEF TypeInv, TypeOK
        <3>3. pc[p] \notin EarnPCs /\ "deductExpired" \notin EarnPCs
            BY <1>8 DEF SelectExpiring, EarnPCs
        <3> HIDE DEF j
        <3> QED
            BY <2>2, <3>1, <3>2, <3>3, GotoCarries
    <2> QED
        BY <1>8, <2>1, <2>2 DEF SelectExpiring, Rollback
<1> QED
    BY <1>1, <1>2, <1>3, <1>4, <1>5, <1>6, <1>7, <1>8 DEF Step

LEMMA CarriedStep ==
    ASSUME TypeInv, ReceiptsCarried, [Next]_vars
    PROVE  ReceiptsCarried'
<1>1. ASSUME NEW p \in Procs, Carries(p) PROVE ReceiptsCarried'
    BY <1>1 DEF Carries, ReceiptsCarried
<1>2. ASSUME NEW p \in Procs, TakesPurchase(p) PROVE ReceiptsCarried'
    BY <1>2 DEF TakesPurchase, Begin, ReceiptsCarried, CarriesNoReceipt, EarnPCs,
                TypeInv, TypeOK
<1>3. CASE UNCHANGED <<pc, job>>
    BY <1>3 DEF ReceiptsCarried
<1>4. ASSUME NEW p \in Procs, Accept(p) \/ Step(p) \/ Abort(p) PROVE ReceiptsCarried'
    BY <1>1, <1>2, <1>4, AcceptCarries, StepCarries, FinishCarries DEF Abort, Rollback
<1>5. CASE \/ \E c \in Clients : RequestLoadCode(c)
           \/ \E r \in Rewards : UpdateReward(r)
           \/ Clock \/ Quiescent \/ UNCHANGED vars
    BY <1>3, <1>5 DEF RequestLoadCode, UpdateReward, Clock, CloseCorrection,
       LapseRedemption, ExpireOTP, Quiescent, vars
<1> QED
    BY <1>4, <1>5 DEF Next

LEMMA CarriedInit == Init => ReceiptsCarried
BY DEF Init, ReceiptsCarried, CarriesNoReceipt, NoJob

LEMMA ReceiptStep ==
    ASSUME TypeInv, ReceiptsCarried, ReceiptCreditedOnce, [Next]_vars
    PROVE  ReceiptCreditedOnce'
<1>1. CASE UNCHANGED ledger
    BY <1>1 DEF ReceiptCreditedOnce
<1>2. ASSUME NEW p \in Procs, Posts(p) PROVE ReceiptCreditedOnce'
    <2>1. PICK n \in Nat, type \in TransactionTypes :
              /\ n \notin DOMAIN ledger /\ DOMAIN ledger' = DOMAIN ledger \cup {n}
              /\ \A i \in DOMAIN ledger : ledger'[i] = ledger[i]
              /\ ledger'[n] = Entry(p, type)
        BY <1>2, PosterHolds, PostedEntry
    <2>2. ledger'[n].receipt = job[p].receipt
        BY <2>1, EntryFields
    <2>3. ~DuplicateReceipt(job[p].receipt)
        <3>1. CASE PostsEarn(p)
            BY <3>1 DEF PostsEarn
        <3>2. CASE ~PostsEarn(p)
            <4>1. pc[p] \notin EarnPCs
                BY <1>2, <3>2 DEF Posts, PostsAdjustment, PostsBurn, EarnPCs
            <4> QED
                BY <4>1 DEF ReceiptsCarried, CarriesNoReceipt, DuplicateReceipt
        <3> QED
            BY <3>1, <3>2
    <2> QED
        BY <2>1, <2>2, <2>3 DEF ReceiptCreditedOnce, DuplicateReceipt
<1> QED
    BY <1>1, <1>2, PostStep

(* A receipt credits one purchase, also when it is sent twice at once or   *)
(* for two clients.                                                        *)
THEOREM ReceiptCorrect == Spec => []ReceiptCreditedOnce
<1>1. TypeInv /\ ReceiptsCarried /\ ReceiptCreditedOnce /\ [Next]_vars
          => ReceiptsCarried' /\ ReceiptCreditedOnce'
    BY CarriedStep, ReceiptStep
<1>2. Init => ReceiptCreditedOnce
    BY DEF Init, ReceiptCreditedOnce
<1> QED
    BY <1>1, <1>2, CarriedInit, TypeInvariance, PTL DEF Spec

-----------------------------------------------------------------------------
(* Load codes.  A code that waits in Redis, the handlers that consumed it  *)
(* and have not credited yet, and the credits given for it are together no *)
(* more than its issues.                                                   *)

Waiting(k) == IF otp[k].type = "load_points" THEN 1 ELSE 0

Takers(k) == {p \in Procs : pc[p] \in EarnPCs /\ job[p].code = k}

CreditsFor(k) == {i \in DOMAIN ledger : ledger[i].type = "earn" /\ ledger[i].via = k}

CountOf(k) ==
    /\ IsFiniteSet(Takers(k))
    /\ Waiting(k) + Cardinality(Takers(k)) + Cardinality(CreditsFor(k)) <= issues[k]

CountInv == \A k \in Codes : CountOf(k)

LEMMA CreditsForFinite ==
    ASSUME TypeInv, NEW k
    PROVE  IsFiniteSet(CreditsFor(k)) /\ Cardinality(CreditsFor(k)) \in Nat
<1>1. IsFiniteSet(DOMAIN ledger)
    <2>1. DOMAIN ledger = 1..Len(ledger) /\ Len(ledger) \in Int
        BY DEF TypeInv, TypeOK
    <2> QED
        BY <2>1, FS_Interval
<1>2. CreditsFor(k) \subseteq DOMAIN ledger
    BY DEF CreditsFor
<1>3. IsFiniteSet(CreditsFor(k))
    BY <1>1, <1>2, FS_Subset
<1> QED
    BY <1>3, FS_CardinalityType

LEMMA CountIssued ==
    ASSUME TypeInv, NEW k \in Codes, CountOf(k)
    PROVE  /\ Waiting(k) \in {0, 1} /\ issues[k] \in Nat
           /\ Cardinality(Takers(k)) \in Nat /\ Cardinality(CreditsFor(k)) \in Nat
           /\ Cardinality(CreditsFor(k)) <= issues[k]
<1>1. Waiting(k) \in {0, 1} /\ issues[k] \in Nat
    BY DEF Waiting, TypeInv, TypeOK
<1>2. Cardinality(Takers(k)) \in Nat /\ Cardinality(CreditsFor(k)) \in Nat
    BY CreditsForFinite, FS_CardinalityType DEF CountOf
<1> DEFINE t == Cardinality(Takers(k))
           d == Cardinality(CreditsFor(k))
<1>3. Waiting(k) + t + d <= issues[k] /\ t \in Nat /\ d \in Nat
    BY <1>2 DEF CountOf
<1> HIDE DEF t, d
<1>4. d <= issues[k]
    BY <1>1, <1>3
<1> QED
    BY <1>1, <1>2, <1>4 DEF d

(* A step that consumes nothing into a taker and credits nothing. *)
LEMMA CountKept ==
    ASSUME TypeInv, NEW k \in Codes, CountOf(k), Takers(k)' \subseteq Takers(k),
           CreditsFor(k)' = CreditsFor(k), issues'[k] = issues[k],
           Waiting(k)' <= Waiting(k), Waiting(k)' \in {0, 1}
    PROVE  CountOf(k)'
<1> DEFINE t == Cardinality(Takers(k))
           u == Cardinality(Takers(k)')
           d == Cardinality(CreditsFor(k))
           w == Waiting(k)
           v == Waiting(k)'
<1>1. IsFiniteSet(Takers(k)') /\ u <= t /\ u \in Nat
    BY FS_Subset, FS_CardinalityType DEF CountOf
<1>2. t \in Nat /\ d \in Nat /\ issues[k] \in Nat /\ w \in {0, 1}
    BY CountIssued
<1>3. w + t + d <= issues[k]
    BY DEF CountOf
<1>4. v <= w /\ v \in {0, 1}
    OBVIOUS
<1> HIDE DEF t, u, d, w, v
<1>5. v + u + d <= issues'[k]
    BY <1>1, <1>2, <1>3, <1>4
<1> QED
    BY <1>1, <1>5 DEF CountOf, t, u, d, w, v

(* The steps that leave the codes alone, or delete one. *)
LEMMA CountQuiet ==
    ASSUME TypeInv, CountInv, \A k \in Codes : Takers(k)' \subseteq Takers(k),
           \A k \in Codes : CreditsFor(k)' = CreditsFor(k), issues' = issues,
           \A k \in Codes : otp'[k] = otp[k] \/ otp'[k].type # "load_points"
    PROVE  CountInv'
<1> SUFFICES ASSUME NEW k \in Codes PROVE CountOf(k)'
    BY DEF CountInv
<1>1. Waiting(k)' <= Waiting(k) /\ Waiting(k)' \in {0, 1}
    BY DEF Waiting
<1> QED
    BY <1>1, CountKept DEF CountInv

LEMMA CarriesTakers ==
    ASSUME NEW p \in Procs, Carries(p), NEW k
    PROVE  Takers(k)' \subseteq Takers(k)
BY DEF Carries, Takers

(* Who gets rid of a code it consumed takes it no more. *)
LEMMA FinishTakers ==
    ASSUME TypeInv, NEW p \in Procs, Finish(p), NEW k
    PROVE  Takers(k)' = Takers(k) \ {p}
BY DEF TypeInv, TypeOK, Finish, Takers, EarnPCs

LEMMA CountRequest ==
    ASSUME TypeInv, CountInv, NEW c \in Clients, RequestLoadCode(c)
    PROVE  CountInv'
<1>1. PICK k \in Codes : SetOTP(k, "load_points", c) /\ issues' = [issues EXCEPT ![k] = @ + 1]
    BY DEF RequestLoadCode
<1>2. UNCHANGED <<pc, job, ledger>>
    BY DEF RequestLoadCode, dbVars
<1>3. \A i \in Codes : Takers(i)' = Takers(i) /\ CreditsFor(i)' = CreditsFor(i)
    BY <1>2 DEF Takers, CreditsFor
<1> SUFFICES ASSUME NEW i \in Codes PROVE CountOf(i)'
    BY DEF CountInv
<1>4. CASE i # k
    <2>1. otp'[i] = otp[i] /\ issues'[i] = issues[i]
        BY <1>1, <1>4 DEF SetOTP, TypeInv, TypeOK
    <2>2. Waiting(i)' <= Waiting(i) /\ Waiting(i)' \in {0, 1}
        BY <2>1 DEF Waiting
    <2> QED
        BY <1>3, <2>1, <2>2, CountKept DEF CountInv
<1>5. CASE i = k
    <2> DEFINE t == Cardinality(Takers(k))
               d == Cardinality(CreditsFor(k))
    <2>1. /\ t \in Nat /\ d \in Nat /\ issues[k] \in Nat /\ Waiting(k) \in {0, 1}
          /\ Waiting(k) + t + d <= issues[k]
        BY CountIssued DEF CountInv, CountOf
    <2>2. issues'[k] = issues[k] + 1
        BY <1>1 DEF TypeInv, TypeOK
    <2>3. Waiting(k)' \in {0, 1}
        BY DEF Waiting
    <2> HIDE DEF t, d
    <2>4. Waiting(k)' + t + d <= issues'[k]
        BY <2>1, <2>2, <2>3
    <2> QED
        BY <1>3, <1>5, <2>4 DEF CountInv, CountOf, t, d
<1> QED
    BY <1>4, <1>5

LEMMA CountAddPoints ==
    ASSUME TypeInv, CountInv, NEW p \in Procs, AddPoints(p)
    PROVE  CountInv'
<1>1. PICK c \in Clients, w \in Collaborators, a \in Amounts,
           x \in Receipts \cup {NoReceipt} :
              Begin(p, "upsertBalance", CreditJob(c, w, a, x, Nil))
    BY DEF AddPoints
<1>2. CreditJob(c, w, a, x, Nil).code = Nil
    BY DEF CreditJob, NoJob
<1>3. \A k \in Codes : Takers(k)' \subseteq Takers(k)
    <2>1. job'[p].code = Nil /\ \A q \in Procs \ {p} : pc'[q] = pc[q] /\ job'[q] = job[q]
        BY <1>1, <1>2 DEF Begin, TypeInv, TypeOK
    <2> QED
        BY <2>1, SetsAssumption DEF Takers
<1>4. UNCHANGED <<ledger, otp, issues>>
    BY DEF AddPoints, dbVars, historyVars
<1> QED
    BY <1>3, <1>4, CountQuiet DEF CreditsFor

LEMMA CountProcessLoadCode ==
    ASSUME TypeInv, CountInv, NEW p \in Procs, ProcessLoadCode(p)
    PROVE  CountInv'
<1>1. PICK k \in Codes, w \in Collaborators, a \in Amounts,
           x \in Receipts \cup {NoReceipt} :
        /\ Consume(k)
        /\ \/ /\ otp[k].type = "load_points"
              /\ Begin(p, "upsertBalance", CreditJob(otp[k].client, w, a, x, k))
           \/ Begin(p, "idle", NoJob)
    BY DEF ProcessLoadCode
<1>2. UNCHANGED <<ledger, issues>>
    BY DEF ProcessLoadCode, dbVars, historyVars
<1>3. \A i \in Codes : CreditsFor(i)' = CreditsFor(i)
    BY <1>2 DEF CreditsFor
<1>4. otp'[k].type = "none" /\ \A i \in Codes \ {k} : otp'[i] = otp[i]
    BY <1>1 DEF Consume, NoOTP, TypeInv, TypeOK
<1>5. CASE Begin(p, "idle", NoJob)
    <2>1. \A i \in Codes : Takers(i)' \subseteq Takers(i)
        BY <1>5 DEF Begin, Takers, EarnPCs, TypeInv, TypeOK
    <2> QED
        BY <1>2, <1>3, <1>4, <2>1, CountQuiet
<1>6. CASE /\ otp[k].type = "load_points"
           /\ Begin(p, "upsertBalance", CreditJob(otp[k].client, w, a, x, k))
    <2>1. CreditJob(otp[k].client, w, a, x, k).code = k
        BY DEF CreditJob, NoJob
    <2>2. /\ pc[p] = "idle" /\ pc'[p] = "upsertBalance" /\ job'[p].code = k
          /\ \A q \in Procs \ {p} : pc'[q] = pc[q] /\ job'[q] = job[q]
        BY <1>6, <2>1 DEF Begin, TypeInv, TypeOK
    <2>3. Takers(k)' = Takers(k) \cup {p} /\ p \notin Takers(k)
        BY <2>2 DEF Takers, EarnPCs
    <2> SUFFICES ASSUME NEW i \in Codes PROVE CountOf(i)'
        BY DEF CountInv
    <2>4. CASE i # k
        <3>1. Takers(i)' \subseteq Takers(i)
            BY <2>2, <2>4 DEF Takers
        <3>2. Waiting(i)' <= Waiting(i) /\ Waiting(i)' \in {0, 1}
            BY <1>4, <2>4 DEF Waiting
        <3> QED
            BY <1>2, <1>3, <3>1, <3>2, CountKept DEF CountInv
    <2>5. CASE i = k
        <3> DEFINE t == Cardinality(Takers(k))
                   u == Cardinality(Takers(k)')
                   d == Cardinality(CreditsFor(k))
        <3>1. IsFiniteSet(Takers(k)') /\ u = t + 1
            BY <2>3, FS_AddElement DEF CountInv, CountOf
        <3>2. /\ t \in Nat /\ d \in Nat /\ issues[k] \in Nat
              /\ Waiting(k) + t + d <= issues[k]
            BY CountIssued DEF CountInv, CountOf
        <3>3. Waiting(k) = 1 /\ Waiting(k)' = 0
            BY <1>4, <1>6 DEF Waiting
        <3> HIDE DEF t, u, d
        <3>4. Waiting(k)' + u + d <= issues'[k]
            BY <1>2, <3>1, <3>2, <3>3
        <3> QED
            BY <1>3, <2>5, <3>1, <3>4 DEF CountOf, t, u, d
    <2> QED
        BY <2>4, <2>5
<1> QED
    BY <1>1, <1>5, <1>6

(* The entry is posted and the handler is done. *)
LEMMA CountInsertEarn ==
    ASSUME TypeInv, CountInv, NEW p \in Procs, PostsEarn(p), Finish(p),
           UNCHANGED <<otp, issues>>
    PROVE  CountInv'
<1>1. PICK n \in Nat :
          /\ n \notin DOMAIN ledger /\ DOMAIN ledger' = DOMAIN ledger \cup {n}
          /\ \A i \in DOMAIN ledger : ledger'[i] = ledger[i]
          /\ ledger'[n] = Entry(p, "earn")
    <2>1. CommitEntry(p, "earn") /\ "earn" \in TransactionTypes
        BY DEF PostsEarn, TransactionTypes
    <2> QED
        BY <2>1, PosterHolds, PostedEntry DEF Posts
<1>2. ledger'[n].type = "earn" /\ ledger'[n].via = job[p].code
    BY <1>1, EntryFields
<1>3. \A k \in Codes : Takers(k)' = Takers(k) \ {p}
    BY FinishTakers
<1> SUFFICES ASSUME NEW k \in Codes PROVE CountOf(k)'
    BY DEF CountInv
<1>4. Waiting(k)' = Waiting(k)
    BY DEF Waiting
<1>5. CASE job[p].code # k
    <2>1. CreditsFor(k)' = CreditsFor(k)
        BY <1>1, <1>2, <1>5 DEF CreditsFor
    <2>2. Waiting(k) \in {0, 1}
        BY DEF Waiting
    <2> QED
        BY <1>3, <1>4, <2>1, <2>2, CountKept DEF CountInv
<1>6. CASE job[p].code = k
    <2>1. p \in Takers(k)
        BY <1>6 DEF Takers, PostsEarn, EarnPCs
    <2>2. CreditsFor(k)' = CreditsFor(k) \cup {n} /\ n \notin CreditsFor(k)
        BY <1>1, <1>2, <1>6 DEF CreditsFor
    <2> DEFINE t == Cardinality(Takers(k))
               u == Cardinality(Takers(k)')
               d == Cardinality(CreditsFor(k))
               e == Cardinality(CreditsFor(k)')
    <2>3. IsFiniteSet(Takers(k)') /\ u = t - 1
        BY <1>3, <2>1, FS_RemoveElement DEF CountInv, CountOf
    <2>4. e = d + 1
        BY <2>2, CreditsForFinite, FS_AddElement
    <2>5. /\ t \in Nat /\ d \in Nat /\ issues[k] \in Nat /\ Waiting(k) \in {0, 1}
          /\ Waiting(k) + t + d <= issues[k]
        BY CountIssued DEF CountInv, CountOf
    <2> HIDE DEF t, u, d, e
    <2>6. Waiting(k)' + u + e <= issues'[k]
        BY <1>4, <2>3, <2>4, <2>5
    <2> QED
        BY <2>3, <2>6 DEF CountOf, u, e
<1> QED
    BY <1>5, <1>6

(* Entries of other types are no credits. *)
LEMMA OtherEntries ==
    ASSUME TypeInv, NEW p \in Procs, PostsAdjustment(p) \/ PostsBurn(p), NEW k \in Codes
    PROVE  CreditsFor(k)' = CreditsFor(k)
<1>1. PICK type \in TransactionTypes \ {"earn"} : CommitEntry(p, type)
    BY DEF PostsAdjustment, PostsBurn, TransactionTypes
<1>2. PICK n \in Nat :
          /\ n \notin DOMAIN ledger /\ DOMAIN ledger' = DOMAIN ledger \cup {n}
          /\ \A i \in DOMAIN ledger : ledger'[i] = ledger[i]
          /\ ledger'[n] = Entry(p, type)
    BY <1>1, PosterHolds, PostedEntry DEF Posts
<1>3. ledger'[n].type # "earn"
    BY <1>1, <1>2, EntryFields
<1> QED
    BY <1>2, <1>3 DEF CreditsFor

LEMMA CountStep ==
    ASSUME TypeInv, ReceiptsCarried, CountInv, NEW p \in Procs, Step(p)
    PROVE  CountInv'
<1>1. \A k \in Codes : Takers(k)' \subseteq Takers(k)
    BY StepCarries, CarriesTakers
<1>2. issues' = issues
    BY DEF Step, UpsertBalance, InsertEarn, ReserveStock, DeductBalance,
       InsertRedemption, CacheRedemption, ReadRedemption, MarkConfirmed,
       CheckCorrectable, AdjustBalance, InsertAdjustment, SelectExpiring,
       DeductExpired, InsertExpiration, historyVars
<1>3. \A k \in Codes : otp'[k] = otp[k] \/ otp'[k].type # "load_points"
    <2>1. CASE CacheRedemption(p)
        BY <2>1 DEF CacheRedemption, SetOTP, TypeInv, TypeOK
    <2> QED
        BY <2>1 DEF Step, UpsertBalance, InsertEarn, ReserveStock, DeductBalance,
           InsertRedemption, ReadRedemption, MarkConfirmed, CheckCorrectable,
           AdjustBalance, InsertAdjustment, SelectExpiring, DeductExpired,
           InsertExpiration
<1>4. CASE \A k \in Codes : CreditsFor(k)' = CreditsFor(k)
    BY <1>1, <1>2, <1>3, <1>4, CountQuiet
<1>5. CASE UNCHANGED ledger
    BY <1>4, <1>5 DEF CreditsFor
<1>6. CASE InsertEarn(p)
    <2>1. CASE Rollback(p)
        BY <1>5, <2>1 DEF Rollback, dbVars
    <2>2. CASE PostsEarn(p) /\ Finish(p)
        BY <1>6, <2>2, CountInsertEarn DEF InsertEarn, historyVars
    <2> QED
        BY <1>6, <2>1, <2>2 DEF InsertEarn, PostsEarn
<1>7. CASE InsertAdjustment(p)
    <2>1. PostsAdjustment(p)
        BY <1>7 DEF InsertAdjustment, PostsAdjustment
    <2> QED
        BY <1>4, <2>1, OtherEntries
<1>8. CASE InsertRedemption(p)
    <2>1. CASE Rollback(p)
        BY <1>5, <2>1 DEF Rollback, dbVars
    <2>2. CASE PostsBurn(p)
        BY <1>4, <2>2, OtherEntries
    <2> QED
        BY <1>8, <2>1, <2>2 DEF InsertRedemption, PostsBurn
<1> QED
    BY <1>5, <1>6, <1>7, <1>8
       DEF Step, UpsertBalance, ReserveStock, DeductBalance, CacheRedemption,
           ReadRedemption, MarkConfirmed, CheckCorrectable, AdjustBalance,
           SelectExpiring, DeductExpired, InsertExpiration, LockBalance, Rollback, dbVars

LEMMA CountAccept ==
    ASSUME TypeInv, CountInv, NEW p \in Procs, Accept(p)
    PROVE  CountInv'
<1>1. CASE ProcessLoadCode(p) \/ AddPoints(p)
    BY <1>1, CountProcessLoadCode, CountAddPoints
<1>2. CASE RequestRedemption(p) \/ ConfirmRedemption(p) \/ UpdatePoints(p) \/ CheckBalance(p)
    <2>1. CASE Carries(p)
        <3>1. UNCHANGED <<ledger, issues>>
            BY <1>2 DEF RequestRedemption, ConfirmRedemption, UpdatePoints,
               CheckBalance, dbVars, historyVars
        <3>2. \A k \in Codes : otp'[k] = otp[k] \/ otp'[k].type # "load_points"
            <4>1. UNCHANGED otp \/ \E k \in Codes : Consume(k)
                BY <1>2 DEF RequestRedemption, ConfirmRedemption, UpdatePoints,
                   CheckBalance
            <4> QED
                BY <4>1 DEF Consume, NoOTP, TypeInv, TypeOK
        <3>3. \A k \in Codes : CreditsFor(k)' = CreditsFor(k)
            BY <3>1 DEF CreditsFor
        <3> QED
            BY <2>1, <3>1, <3>2, <3>3, CarriesTakers, CountQuiet
    <2> QED
        BY <1>1, <2>1, AcceptCarries
<1> QED
    BY <1>1, <1>2 DEF Accept

LEMMA CountNext ==
    TypeInv /\ ReceiptsCarried /\ CountInv /\ [Next]_vars => CountInv'
<1> SUFFICES ASSUME TypeInv, ReceiptsCarried, CountInv, [Next]_vars PROVE CountInv'
    OBVIOUS
<1>1. CASE \E c \in Clients : RequestLoadCode(c)
    BY <1>1, CountRequest
<1>2. ASSUME NEW p \in Procs, Accept(p) \/ Step(p) PROVE CountInv'
    BY <1>2, CountAccept, CountStep
<1>3. ASSUME NEW p \in Procs, Abort(p) PROVE CountInv'
    <2>1. UNCHANGED <<ledger, otp, issues>> /\ Finish(p)
        BY <1>3 DEF Abort, Rollback, dbVars, historyVars
    <2>2. \A k \in Codes : Takers(k)' \subseteq Takers(k) /\ CreditsFor(k)' = CreditsFor(k)
        BY <2>1, FinishTakers DEF CreditsFor
    <2> QED
        BY <2>1, <2>2, CountQuiet
<1>4. CASE /\ UNCHANGED <<pc, job, ledger, issues>>
           /\ \A k \in Codes : otp'[k] = otp[k] \/ otp'[k].type # "load_points"
    BY <1>4, CountQuiet DEF Takers, CreditsFor
<1>5. CASE \/ \E r \in Rewards : UpdateReward(r)
           \/ Clock \/ Quiescent \/ UNCHANGED vars
    <2>1. UNCHANGED <<pc, job, ledger, issues>>
        BY <1>5 DEF UpdateReward, Clock, CloseCorrection, LapseRedemption, ExpireOTP,
           Quiescent, vars, dbVars, historyVars
    <2>2. UNCHANGED otp \/ \E k \in Codes : ExpireOTP(k)
        BY <1>5 DEF UpdateReward, Clock, CloseCorrection, LapseRedemption,
           Quiescent, vars
    <2>3. \A k \in Codes : otp'[k] = otp[k] \/ otp'[k].type # "load_points"
        BY <2>2 DEF ExpireOTP, NoOTP, TypeInv, TypeOK
    <2> QED
        BY <1>4, <2>1, <2>3
<1> QED
    BY <1>1, <1>2, <1>3, <1>5 DEF Next

LEMMA CountInit == Init => CountInv
<1> SUFFICES ASSUME Init, NEW k \in Codes PROVE CountOf(k)
    BY DEF CountInv
<1>1. Takers(k) = {} /\ CreditsFor(k) = {}
    BY DEF Init, Takers, CreditsFor, EarnPCs
<1>2. Waiting(k) = 0 /\ issues[k] = 0
    BY DEF Init, Waiting, NoOTP
<1> QED
    BY <1>1, <1>2, FS_EmptySet DEF CountOf

(* A load code credits one purchase at most each time it is issued,        *)
(* however many employees send it at once.                                 *)
THEOREM LoadCodeCorrect == Spec => []LoadCodeCreditsOnce
<1>1. TypeInv /\ CountInv => LoadCodeCreditsOnce
    BY CountIssued DEF CountInv, LoadCodeCreditsOnce, CreditsFor
<1>2. TypeInv /\ ReceiptsCarried /\ [Next]_vars => ReceiptsCarried'
    BY CarriedStep
<1> QED
    BY <1>1, <1>2, CarriedInit, CountInit, CountNext, TypeInvariance, PTL DEF Spec

-----------------------------------------------------------------------------
(* The refinement of PointsContract. *)

(* A redemption about to be inserted is paid for. *)
Paid(p) == pc[p] = "insertRedemption" => balance[job[p].client] + job[p].amount >= 0

PaidInv == \A p \in Procs : Paid(p)

(* How a handler comes to insert a redemption. *)
LEMMA ReachesInsert ==
    ASSUME TypeInv, [Next]_vars, NEW p \in Procs, pc'[p] = "insertRedemption"
    PROVE  DeductBalance(p) \/ (pc'[p] = pc[p] /\ job'[p] = job[p])
<1>1. ASSUME NEW q \in Procs, Accept(q), q = p PROVE FALSE
    <2>1. PICK s \in {"idle", "upsertBalance", "reserveStock", "readRedemption",
                      "checkCorrectable", "selectExpiring"} : \E j : Begin(p, s, j)
        BY <1>1 DEF Accept, ProcessLoadCode, AddPoints, RequestRedemption,
           ConfirmRedemption, UpdatePoints, CheckBalance
    <2>2. pc'[p] = s
        BY <2>1 DEF Begin, TypeInv, TypeOK
    <2> QED
        BY <2>1, <2>2
<1>2. ASSUME NEW q \in Procs, Step(q) \/ Abort(q), q = p PROVE DeductBalance(p)
    <2>1. CASE DeductBalance(p)
        BY <2>1
    <2>2. CASE \E s \in PCs \ {"insertRedemption"} : pc' = [pc EXCEPT ![p] = s]
        BY <2>2 DEF TypeInv, TypeOK
    <2> QED
        BY <1>2, <2>1, <2>2 DEF Step, UpsertBalance, InsertEarn, ReserveStock,
           InsertRedemption, CacheRedemption, ReadRedemption, MarkConfirmed,
           CheckCorrectable, AdjustBalance, InsertAdjustment, SelectExpiring,
           DeductExpired, InsertExpiration, LockBalance, Abort, Rollback, Finish, Goto, PCs
<1>3. ASSUME NEW q \in Procs, Accept(q) \/ Step(q) \/ Abort(q), q # p
      PROVE  pc'[p] = pc[p] /\ job'[p] = job[p]
    <2>1. Accept(q) => \E s, j : Begin(q, s, j)
        BY DEF Accept, ProcessLoadCode, AddPoints, RequestRedemption,
           ConfirmRedemption, UpdatePoints, CheckBalance
    <2>2. /\ \E s : pc' = [pc EXCEPT ![q] = s]
          /\ \A r \in Procs \ {q} : job'[r] = job[r]
        <3>1. CASE Accept(q)
            BY <2>1, <3>1 DEF Begin, TypeInv, TypeOK
        <3>2. CASE Step(q) \/ Abort(q)
            BY <3>2 DEF Step, UpsertBalance, InsertEarn, ReserveStock, DeductBalance,
               InsertRedemption, CacheRedemption, ReadRedemption, MarkConfirmed,
               CheckCorrectable, AdjustBalance, InsertAdjustment, SelectExpiring,
               DeductExpired, InsertExpiration, LockBalance, Abort, Rollback, Finish,
               Goto, TypeInv, TypeOK
        <3> QED
            BY <1>3, <3>1, <3>2
    <2> QED
        BY <1>3, <2>2 DEF TypeInv, TypeOK
<1>4. CASE \/ \E c \in Clients : RequestLoadCode(c)
           \/ \E r \in Rewards : UpdateReward(r)
           \/ Clock \/ Quiescent \/ UNCHANGED vars
    BY <1>4 DEF RequestLoadCode, UpdateReward, Clock, CloseCorrection,
       LapseRedemption, ExpireOTP, Quiescent, vars
<1> QED
    BY <1>1, <1>2, <1>3, <1>4 DEF Next

LEMMA PaidStep ==
    ASSUME TypeInv, HeldRowsAreCurrent, PaidInv, [Next]_vars
    PROVE  PaidInv'
<1> SUFFICES ASSUME NEW p \in Procs, pc'[p] = "insertRedemption"
             PROVE  balance'[job'[p].client] + job'[p].amount >= 0
    BY DEF PaidInv, Paid
<1>1. CASE DeductBalance(p)
    <2>1. /\ balance[job[p].client] + job[p].amount >= 0
          /\ UNCHANGED balance
          /\ \E n : job' = [job EXCEPT ![p].newBalance = n]
        <3>1. ~Rollback(p)
            BY DEF Rollback, Finish, TypeInv, TypeOK
        <3> QED
            BY <1>1, <3>1 DEF DeductBalance, dbVars
    <2>2. job'[p].client = job[p].client /\ job'[p].amount = job[p].amount
        BY <2>1 DEF TypeInv, TypeOK, Job
    <2> QED
        BY <2>1, <2>2
<1>2. CASE pc'[p] = pc[p] /\ job'[p] = job[p]
    <2> DEFINE c == job[p].client
    <2>1. c \in Clients /\ HoldsBalance(p, c)
        BY <1>2 DEF TypeInv, JobsOK, JobFits, BurnPCs, HoldsBalance
    <2>2. balance[c] + job[p].amount >= 0
        BY <1>2 DEF PaidInv, Paid
    <2>3. ASSUME NEW q \in Procs, Posts(q) PROVE balance'[c] = balance[c]
        <3>1. q # p
            BY <1>2, <2>3 DEF Posts, PostsEarn, PostsAdjustment, PostsBurn, Goto,
                              TypeInv, TypeOK
        <3>2. job[q].client \in Clients /\ HoldsBalance(q, job[q].client)
            BY <2>3, PosterHolds
        <3>3. job[q].client # c
            BY <2>1, <3>1, <3>2 DEF HeldRowsAreCurrent
        <3>4. balance' = [balance EXCEPT ![job[q].client] = job[q].newBalance]
            BY <2>3, PosterHolds DEF CommitEntry
        <3> QED
            BY <2>1, <3>2, <3>3, <3>4 DEF TypeInv, TypeOK
    <2> QED
        BY <1>2, <2>2, <2>3, PostStep
<1> QED
    BY <1>1, <1>2, ReachesInsert

(* The entries of the contract. *)
Entries == [i \in DOMAIN ledger |->
               [client |-> ledger[i].client, amount |-> ledger[i].amount]]

LEMMA EntriesPosted ==
    ASSUME TypeInv, NEW p \in Procs, NEW type \in TransactionTypes,
           CommitEntry(p, type), job[p].client \in Clients
    PROVE  Entries' = Append(Entries, [client |-> job[p].client, amount |-> job[p].amount])
<1> DEFINE post == [client |-> job[p].client, amount |-> job[p].amount]
           Post == [client : Clients, amount : Int]
           n == Len(ledger)
<1>1. ledger \in Seq(Transaction) /\ n \in Nat /\ DOMAIN ledger = 1..n
    BY DEF TypeInv, TypeOK
<1>2. post \in Post
    BY DEF TypeInv, TypeOK, Job
<1>3. Entries \in Seq(Post) /\ Len(Entries) = n /\ DOMAIN Entries = 1..n
    <2>1. \A i \in 1..n : ledger[i] \in Transaction
        BY <1>1
    <2>2. Entries \in [1..n -> Post]
        BY <1>1, <2>1 DEF Entries, Transaction
    <2> HIDE DEF n, Post
    <2>3. Entries \in Seq(Post)
        BY <1>1, <2>2
    <2>4. DOMAIN Entries = 1..n
        BY <2>2
    <2>5. Len(Entries) = n
        BY <1>1, <2>3, <2>4
    <2> QED
        BY <2>3, <2>4, <2>5
<1>4. /\ DOMAIN ledger' = 1..(n + 1)
      /\ \A i \in 1..n : ledger'[i] = ledger[i]
      /\ ledger'[n + 1].client = job[p].client /\ ledger'[n + 1].amount = job[p].amount
    <2>1. /\ DOMAIN ledger' = DOMAIN ledger \cup {n + 1}
          /\ \A i \in DOMAIN ledger : ledger'[i] = ledger[i]
          /\ ledger'[n + 1] = Entry(p, type)
        BY PostedEntry
    <2>2. 1..(n + 1) = (1..n) \cup {n + 1}
        BY <1>1
    <2> QED
        BY <1>1, <2>1, <2>2, EntryFields
<1>5. Entries' = [i \in 1..(n + 1) |->
                     [client |-> ledger'[i].client, amount |-> ledger'[i].amount]]
    BY <1>4 DEF Entries
<1>6. \A i \in 1..n : Entries[i] = [client |-> ledger[i].client, amount |-> ledger[i].amount]
    BY <1>1 DEF Entries
<1> DEFINE after == Append(Entries, post)
<1>7. /\ after = [i \in 1..(n + 1) |-> IF i = n + 1 THEN post ELSE Entries[i]]
    BY <1>1, <1>2, <1>3
<1>8. \A i \in 1..(n + 1) : Entries'[i] = after[i]
    <2> SUFFICES ASSUME NEW i \in 1..(n + 1) PROVE Entries'[i] = after[i]
        OBVIOUS
    <2>1. CASE i = n + 1
        BY <1>4, <1>5, <1>7, <2>1
    <2>2. CASE i # n + 1
        <3>1. i \in 1..n
            BY <1>1, <2>2
        <3> QED
            BY <1>4, <1>5, <1>6, <1>7, <2>2, <3>1
    <2> QED
        BY <2>1, <2>2
<1> QED
    BY <1>5, <1>7, <1>8

LEMMA CommitStep ==
    ASSUME TypeInv, [Next]_vars
    PROVE  \/ UNCHANGED dbVars
           \/ \E p \in Procs : Posts(p)
           \/ \E p \in Procs : MarkConfirmed(p)
           \/ \E r \in Rewards : UpdateReward(r)
<1>1. ASSUME NEW c \in Clients, RequestLoadCode(c) PROVE UNCHANGED dbVars
    BY <1>1 DEF RequestLoadCode
<1>2. ASSUME NEW p \in Procs, Accept(p) \/ Abort(p) PROVE UNCHANGED dbVars
    BY <1>2 DEF Accept, ProcessLoadCode, AddPoints, RequestRedemption,
       ConfirmRedemption, UpdatePoints, CheckBalance, Abort, Rollback
<1>3. ASSUME NEW p \in Procs, Step(p)
      PROVE  UNCHANGED dbVars \/ Posts(p) \/ MarkConfirmed(p)
    <2>1. CASE InsertEarn(p)
        BY <2>1 DEF InsertEarn, Rollback, Posts, PostsEarn
    <2>2. CASE InsertAdjustment(p)
        BY <2>2 DEF InsertAdjustment, Posts, PostsAdjustment
    <2>3. CASE InsertRedemption(p)
        BY <2>3 DEF InsertRedemption, Rollback, Posts, PostsBurn
    <2> QED
        BY <1>3, <2>1, <2>2, <2>3 DEF Step, UpsertBalance, ReserveStock, DeductBalance,
           CacheRedemption, ReadRedemption, CheckCorrectable, AdjustBalance,
           SelectExpiring, DeductExpired, InsertExpiration, LockBalance, Rollback, dbVars
<1>4. CASE Clock \/ Quiescent \/ UNCHANGED vars
    BY <1>4 DEF Clock, CloseCorrection, LapseRedemption, ExpireOTP, Quiescent, vars
<1> QED
    BY <1>1, <1>2, <1>3, <1>4 DEF Next

(* What is known of a posting when it is committed. *)
LEMMA PostingIsCurrent ==
    ASSUME TypeInv, HeldRowsAreCurrent, NEW p \in Procs, Posts(p)
    PROVE  LET c == job[p].client
               n == job[p].amount
           IN  /\ c \in Clients /\ n \in Int /\ balance[c] \in Nat
               /\ balance' = [balance EXCEPT ![c] = Greatest0(balance[c] + n)]
               /\ Entries' = Append(Entries, [client |-> c, amount |-> n])
<1>1. job[p] \in Job /\ job[p].client \in Clients /\ HoldsBalance(p, job[p].client)
    BY PosterHolds
<1>2. PICK type \in TransactionTypes : CommitEntry(p, type)
    BY PosterHolds
<1>3. job[p].newBalance = Greatest0(balance[job[p].client] + job[p].amount)
    BY <1>1 DEF HeldRowsAreCurrent
<1>4. balance[job[p].client] \in Nat /\ job[p].amount \in Int
    BY <1>1 DEF TypeInv, TypeOK, Job
<1>5. balance' = [balance EXCEPT ![job[p].client] = job[p].newBalance]
    BY <1>2 DEF CommitEntry
<1>6. Entries' = Append(Entries, [client |-> job[p].client, amount |-> job[p].amount])
    BY <1>1, <1>2, EntriesPosted
<1> QED
    BY <1>1, <1>3, <1>4, <1>5, <1>6

(* Every step is one of the contract, or changes nothing committed. *)
LEMMA ContractStep ==
    ASSUME TypeInv, HeldRowsAreCurrent, PaidInv, [Next]_vars
    PROVE  [Contract!Next]_(Contract!vars)
<1>e. UNCHANGED ledger => UNCHANGED Entries
    BY DEF Entries
<1>1. CASE UNCHANGED dbVars
    BY <1>1, <1>e DEF dbVars, Contract!vars, Entries
<1>2. ASSUME NEW p \in Procs, PostsEarn(p) PROVE Contract!Next
    <2>1. PICK c \in Clients, n \in Credits : c = job[p].client /\ n = job[p].amount
        BY <1>2 DEF PostsEarn, TypeInv, JobsOK, JobFits, EarnPCs
    <2>2. /\ n \in Nat /\ balance[c] \in Nat
          /\ balance' = [balance EXCEPT ![c] = Greatest0(balance[c] + n)]
          /\ Entries' = Append(Entries, [client |-> c, amount |-> n])
        BY <1>2, <2>1, CreditsType, PostingIsCurrent DEF Posts
    <2>3. Greatest0(balance[c] + n) = balance[c] + n
        BY <2>2 DEF Greatest0
    <2>4. Contract!Credit(c, n)
        BY <1>2, <2>2, <2>3 DEF Contract!Credit, Contract!Post, PostsEarn, Entries
    <2> QED
        BY <2>4 DEF Contract!Next
<1>3. ASSUME NEW p \in Procs, PostsAdjustment(p) PROVE Contract!Next
    <2>1. PICK c \in Clients, n \in Differences : c = job[p].client /\ n = job[p].amount
        BY <1>3 DEF PostsAdjustment, TypeInv, JobsOK, JobFits, CorrectPCs
    <2>2. /\ balance' = [balance EXCEPT ![c] = Greatest0(balance[c] + n)]
          /\ Entries' = Append(Entries, [client |-> c, amount |-> n])
        BY <1>3, <2>1, PostingIsCurrent DEF Posts
    <2>3. Contract!Correct(c, n)
        BY <1>3, <2>2 DEF Contract!Correct, Contract!Post, Contract!Greatest0, Greatest0,
                          PostsAdjustment, Entries
    <2> QED
        BY <2>3 DEF Contract!Next, Differences
<1>4. ASSUME NEW p \in Procs, PostsBurn(p) PROVE Contract!Next
    <2>1. PICK c \in Clients, r \in Rewards, k \in Codes, cost \in Costs :
              /\ c = job[p].client /\ r = job[p].reward
              /\ k = job[p].code /\ cost = -job[p].amount
        BY <1>4 DEF PostsBurn, TypeInv, JobsOK, JobFits, BurnPCs
    <2>2. cost \in Nat /\ job[p].amount = -cost
        <3>1. job[p].amount \in Int
            BY DEF TypeInv, TypeOK, Job
        <3> QED
            BY <2>1, <3>1, ConfigAssumption
    <2>3. /\ balance[c] \in Nat
          /\ balance' = [balance EXCEPT ![c] = Greatest0(balance[c] + (-cost))]
          /\ Entries' = Append(Entries, [client |-> c, amount |-> -cost])
        BY <1>4, <2>1, <2>2, PostingIsCurrent DEF Posts
    <2>4. balance[c] + (-cost) >= 0
        BY <1>4, <2>1, <2>2 DEF PaidInv, Paid, PostsBurn
    <2>5. Greatest0(balance[c] + (-cost)) = balance[c] - cost /\ balance[c] >= cost
        BY <2>2, <2>3, <2>4 DEF Greatest0
    <2>6. InStock(r) /\ job[p].newCount = reward[r].count + 1
        BY <1>4, <2>1 DEF PostsBurn, HeldRowsAreCurrent, HoldsReward
    <2>7. /\ redemption[k] = NoRedemption
          /\ reward' = [reward EXCEPT ![r].count = reward[r].count + 1]
          /\ redemption' = [redemption EXCEPT ![k] =
                [status |-> "pending", client |-> c, reward |-> r,
                 points |-> cost, by |-> Nil]]
        BY <1>4, <2>1, <2>6 DEF PostsBurn, CodeTaken
    <2>8. Contract!Redeem(c, r, k, cost)
        BY <2>3, <2>5, <2>6, <2>7 DEF Contract!Redeem, Contract!Post, Contract!NoRedemption,
                                      NoRedemption, InStock, Entries
    <2> QED
        BY <2>1, <2>8 DEF Contract!Next
<1>5. ASSUME NEW p \in Procs, MarkConfirmed(p) PROVE [Contract!Next]_(Contract!vars)
    <2>1. PICK k \in Codes, w \in Collaborators :
              k = job[p].code /\ w = job[p].collaborator
        BY <1>5 DEF MarkConfirmed, TypeInv, JobsOK, JobFits, ConfirmPCs
    <2>2. /\ redemption \in [Codes -> Redemption \cup {NoRedemption}]
          /\ UNCHANGED <<balance, reward>> /\ UNCHANGED Entries
        BY <1>5, <1>e DEF MarkConfirmed, TypeInv, TypeOK
    <2>3. CASE redemption[k].status = "pending"
        <3>1. redemption' = [redemption EXCEPT ![k].status = "confirmed", ![k].by = w]
            BY <1>5, <2>1, <2>2, <2>3 DEF MarkConfirmed, SetConfirmedIfPending
        <3>2. Contract!Confirm(k, w)
            BY <2>2, <2>3, <3>1 DEF Contract!Confirm, Entries
        <3> QED
            BY <2>1, <3>2 DEF Contract!Next
    <2>4. CASE redemption[k].status # "pending"
        <3>1. redemption' = redemption
            BY <1>5, <2>1, <2>2, <2>4 DEF MarkConfirmed, SetConfirmedIfPending
        <3> QED
            BY <2>2, <3>1 DEF Contract!vars, Entries
    <2> QED
        BY <2>3, <2>4
<1>6. ASSUME NEW r \in Rewards, UpdateReward(r) PROVE Contract!Next
    <2>1. PICK cost \in Costs, stock \in Stocks :
              /\ stock # Unlimited => reward[r].count <= stock
              /\ reward' = [reward EXCEPT ![r].cost = cost, ![r].stock = stock]
        BY <1>6 DEF UpdateReward
    <2>2. UNCHANGED <<balance, redemption>> /\ UNCHANGED Entries
        BY <1>6, <1>e DEF UpdateReward
    <2>3. Contract!SetReward(r, cost, stock)
        BY <2>1, <2>2 DEF Contract!SetReward, Entries
    <2> QED
        BY <2>3 DEF Contract!Next
<1> QED
    BY <1>1, <1>2, <1>3, <1>4, <1>5, <1>6, CommitStep DEF Posts

LEMMA ContractInit == Init => Contract!Init
<1> SUFFICES ASSUME Init PROVE Contract!Init
    OBVIOUS
<1>1. Entries = <<>>
    BY DEF Init, Entries
<1> QED
    BY <1>1 DEF Init, Contract!Init, Contract!NoRedemption, NoRedemption, Entries

LEMMA PaidInit == Init => PaidInv
BY DEF Init, PaidInv, Paid

(* The transactions take effect at once when they commit and not at all    *)
(* when they are rolled back: with any number of handlers, the program     *)
(* behaves as PointsContract, whose operations take one step each.         *)
THEOREM RefinementCorrect == Spec => ImplementsContract
<1>1. TypeInv /\ HeldRowsAreCurrent /\ PaidInv /\ [Next]_vars => PaidInv'
    BY PaidStep
<1>2. TypeInv /\ HeldRowsAreCurrent /\ PaidInv /\ [Next]_vars
          => [Contract!Next]_(Contract!vars)
    BY ContractStep
<1> QED
    BY <1>1, <1>2, PaidInit, ContractInit, TypeInvariance, RowLocksCorrect, PTL
       DEF Spec, ImplementsContract, Contract!Spec

=============================================================================
