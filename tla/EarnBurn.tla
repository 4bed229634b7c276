------------------------------ MODULE EarnBurn ------------------------------
(***************************************************************************)
(* The points program of fidel-quick: internal/modules/earnburn (service,  *)
(* repository, WhatsApp command handlers) for one customer_sisfi.          *)
(*                                                                         *)
(* Every WhatsApp message is handled by a goroutine of its own, so a       *)
(* handler is a process that takes one step per database or Redis          *)
(* statement.  The Postgres transactions run at READ COMMITTED: an UPDATE  *)
(* waits for the row lock, evaluates its WHERE and its SET on the newest   *)
(* committed row, and its effect is seen by others at COMMIT only.  A      *)
(* process therefore holds the values it is about to commit in job[p], and *)
(* the rows it has locked are determined by where it is (pc[p]).           *)
(***************************************************************************)
EXTENDS Integers, Sequences, FiniteSets

CONSTANTS
    Clients,         \* clients of the program
    Collaborators,   \* employees who credit, correct and confirm
    OwnClients,      \* OwnClients[w]: the clients with w's own phone number
    Rewards,         \* rows of rewards_earnburn
    Codes,           \* codes generateCode may draw
    Receipts,        \* fingerprints of receipts read with confidence
    NoReceipt,       \* receipt_hash IS NULL
    Procs,           \* goroutines handling messages at the same time
    Amounts,         \* purchase amounts a ticket may show
    NewAmounts,      \* points a collaborator may type as the right amount
    Costs,           \* points_cost an admin may set
    Stocks,          \* stock_total an admin may set
    Unlimited,       \* stock_total IS NULL
    PointsRatio,     \* config_earnburn.points_ratio
    MinTicket,       \* config_earnburn.min_ticket_amount, 0 when NULL
    Nil,             \* an unset field
    MaxMessages,     \* bound: messages handled in a behaviour
    MaxAdminUpdates  \* bound: reward updates by the admin in a behaviour

ASSUME ConfigAssumption ==
    /\ PointsRatio \in Nat \ {0}
    /\ MinTicket \in Nat
    /\ Amounts \subseteq Nat
    /\ NewAmounts \subseteq Int
    /\ Costs \subseteq Nat \ {0}
    /\ Stocks \subseteq Nat \cup {Unlimited}
    /\ Unlimited \notin Int
    /\ OwnClients \in [Collaborators -> SUBSET Clients]

ASSUME SetsAssumption ==
    /\ IsFiniteSet(Codes)
    /\ Nil \notin Clients \cup Collaborators \cup Rewards \cup Codes
    /\ NoReceipt \notin Receipts

ASSUME BoundsAssumption == MaxMessages \in Nat /\ MaxAdminUpdates \in Nat

VARIABLES
    balance,      \* balances_earnburn.balance, 0 when there is no row
    ledger,       \* transactions_earnburn, in the order of their commits
    reward,       \* rewards_earnburn: cost, stock, redeemed_count
    redemption,   \* redemptions_earnburn by code (the column is UNIQUE)
    otp,          \* Redis: otp:{code}
    pc,           \* where each handler is
    job,          \* what each handler holds
    closed,       \* ledger entries whose correctable_until has passed
    lapsed,       \* redemptions whose expires_at has passed
    messages,     \* messages handled so far
    adminUpdates, \* reward updates so far
    issues,       \* history: load codes issued under each code
    handed        \* history: "Entrega" replies given for each redemption

dbVars == <<balance, ledger, reward, redemption>>
clockVars == <<closed, lapsed>>
countVars == <<messages, adminUpdates>>
historyVars == <<issues, handed>>
vars == <<dbVars, otp, pc, job, clockVars, countVars, historyVars>>

-----------------------------------------------------------------------------
(* Rows and records *)

TransactionTypes == {"earn", "burn", "adjustment"}

Transaction == [type : TransactionTypes, client : Clients, amount : Int,
                after : Nat, receipt : Receipts \cup {NoReceipt},
                via : Codes \cup {Nil}, corrects : Nat]

Reward == [cost : Nat \ {0}, stock : Nat \cup {Unlimited}, count : Nat]

NoRedemption == [status |-> "none"]

Redemption == [status : {"pending", "confirmed"}, client : Clients,
               reward : Rewards, points : Nat \ {0},
               by : Collaborators \cup {Nil}]

NoOTP == [type |-> "none", client |-> Nil]

OTPData == [type : {"load_points", "redemption"}, client : Clients]

Job == [client : Clients \cup {Nil}, collaborator : Collaborators \cup {Nil},
        reward : Rewards \cup {Nil}, code : Codes \cup {Nil},
        receipt : Receipts \cup {NoReceipt}, tx : Nat, amount : Int,
        newCount : Nat, newBalance : Nat]

NoJob == [client |-> Nil, collaborator |-> Nil, reward |-> Nil, code |-> Nil,
          receipt |-> NoReceipt, tx |-> 0, amount |-> 0,
          newCount |-> 0, newBalance |-> 0]

(* AddPointsTx, BurnPointsTx, the confirmation, AdjustPointsTx, ExpirePoints *)
PCs == {"idle", "upsertBalance", "insertEarn",
        "reserveStock", "deductBalance", "insertRedemption", "cacheRedemption",
        "readRedemption", "markConfirmed",
        "checkCorrectable", "adjustBalance", "insertAdjustment",
        "selectExpiring", "deductExpired", "insertExpiration"}

(* The row locks a transaction holds between its UPDATE and its end. *)
HoldsReward(p, r) == /\ pc[p] \in {"deductBalance", "insertRedemption"}
                     /\ job[p].reward = r

HoldsBalance(p, c) == /\ pc[p] \in {"insertEarn", "insertRedemption",
                                    "insertAdjustment", "insertExpiration"}
                      /\ job[p].client = c

RewardLocked(r) == \E q \in Procs : HoldsReward(q, r)
BalanceLocked(c) == \E q \in Procs : HoldsBalance(q, c)

-----------------------------------------------------------------------------
(* Arithmetic *)

Greatest0(n) == IF n < 0 THEN 0 ELSE n

PointsFor(amount) == amount \div PointsRatio

Creditable(amount) == amount >= MinTicket /\ PointsFor(amount) > 0

(* Faulty variant: off by one. *)
InStockOrFull(r) ==
    reward[r].stock # Unlimited => reward[r].count <= reward[r].stock

InStock(r) ==
    reward[r].stock # Unlimited => reward[r].count < reward[r].stock

-----------------------------------------------------------------------------
(* Handlers: beginning, moving on, ending.  Ending inside a transaction    *)
(* without writing is its ROLLBACK.                                        *)

Begin(p, step, j) ==
    /\ pc[p] = "idle"
    /\ messages < MaxMessages
    /\ messages' = messages + 1
    /\ pc' = [pc EXCEPT ![p] = step]
    /\ job' = [job EXCEPT ![p] = j]

Goto(p, step) == pc' = [pc EXCEPT ![p] = step]

Finish(p) == /\ pc' = [pc EXCEPT ![p] = "idle"]
             /\ job' = [job EXCEPT ![p] = NoJob]

(* Faulty variant: an error return that leaves the transaction open. *)
LeaveOpen(p) == UNCHANGED <<pc, job, dbVars>>

Rollback(p) == Finish(p) /\ UNCHANGED dbVars

(* Faulty variant: a GET in the place of GETDEL. *)
Peek(k) == UNCHANGED otp

SetOTP(k, type, c) == otp' = [otp EXCEPT ![k] = [type |-> type, client |-> c]]

(* ConsumeOTP: GETDEL. *)
Consume(k) == otp' = [otp EXCEPT ![k] = NoOTP]

-----------------------------------------------------------------------------
(* Earning points *)

(* RequestLoadPointsCode: the client gets a code to hand to an employee. *)
RequestLoadCode(c) ==
    /\ messages < MaxMessages
    /\ messages' = messages + 1
    /\ \E k \in Codes :
        /\ SetOTP(k, "load_points", c)
        /\ issues' = [issues EXCEPT ![k] = @ + 1]
    /\ UNCHANGED <<dbVars, pc, job, clockVars, adminUpdates, handed>>

CreditJob(c, w, amount, x, via) ==
    [NoJob EXCEPT !.client = c, !.collaborator = w, !.code = via,
                  !.receipt = x, !.amount = PointsFor(amount)]

(* handleLoadPointsProcess: the code is consumed before anything about it, *)
(* or about the purchase, is checked, and is gone whether the purchase is  *)
(* credited, is turned down, or a read on the way fails.                   *)
ProcessLoadCode(p) ==
    \E k \in Codes, w \in Collaborators, a \in Amounts,
       x \in Receipts \cup {NoReceipt} :
        LET c == otp[k].client
            accepted == /\ otp[k].type = "load_points"
                        /\ c \notin OwnClients[w]
                        /\ Creditable(a)
        IN  /\ otp[k] # NoOTP
            /\ Consume(k)
            /\ \/ accepted /\ Begin(p, "upsertBalance", CreditJob(c, w, a, x, k))
               \/ Begin(p, "idle", NoJob)
            /\ UNCHANGED <<dbVars, clockVars, adminUpdates, historyVars>>

(* handleAddPoints: the client showed an identity code, which a GET leaves *)
(* in place.  A message that is turned down changes nothing.               *)
AddPoints(p) ==
    \E c \in Clients, w \in Collaborators, a \in Amounts,
       x \in Receipts \cup {NoReceipt} :
        /\ c \notin OwnClients[w]
        /\ Creditable(a)
        /\ Begin(p, "upsertBalance", CreditJob(c, w, a, x, Nil))
        /\ UNCHANGED <<dbVars, otp, clockVars, adminUpdates, historyVars>>

(* Faulty variant: the balance is read and written back, without the lock. *)
ReadBalance(p, step) ==
    /\ job' = [job EXCEPT ![p].newBalance =
                   Greatest0(balance[job[p].client] + job[p].amount)]
    /\ Goto(p, step)
    /\ UNCHANGED dbVars

(* The UPDATE of a balance row, which waits for the lock: AddPointsTx and  *)
(* AdjustPointsTx floor the new balance at zero.                           *)
LockBalance(p, step) ==
    LET c == job[p].client
    IN  /\ ~BalanceLocked(c)
        /\ job' = [job EXCEPT ![p].newBalance =
                                  Greatest0(balance[c] + job[p].amount)]
        /\ Goto(p, step)
        /\ UNCHANGED dbVars

UpsertBalance(p) ==
    /\ pc[p] = "upsertBalance"
    /\ LockBalance(p, "insertEarn")
    /\ UNCHANGED <<otp, clockVars, countVars, historyVars>>

Entry(p, type) ==
    [type |-> type, client |-> job[p].client, amount |-> job[p].amount,
     after |-> job[p].newBalance, receipt |-> job[p].receipt,
     via |-> job[p].code, corrects |-> job[p].tx]

(* The INSERT into transactions_earnburn and the COMMIT. *)
CommitEntry(p, type) ==
    /\ balance' = [balance EXCEPT ![job[p].client] = job[p].newBalance]
    /\ ledger' = Append(ledger, Entry(p, type))

(* Faulty variant: no index. *)
NeverDuplicate(x) == FALSE

(* The partial unique index on receipt_hash. *)
DuplicateReceipt(x) ==
    /\ x # NoReceipt
    /\ \E i \in DOMAIN ledger : ledger[i].receipt = x

InsertEarn(p) ==
    /\ pc[p] = "insertEarn"
    /\ \/ DuplicateReceipt(job[p].receipt) /\ Rollback(p)
       \/ /\ ~DuplicateReceipt(job[p].receipt)
          /\ CommitEntry(p, "earn")
          /\ Finish(p)
          /\ UNCHANGED <<reward, redemption>>
    /\ UNCHANGED <<otp, clockVars, countVars, historyVars>>

-----------------------------------------------------------------------------
(* Redeeming a reward *)

Affordable(c, r) == balance[c] >= reward[r].cost

(* The reward's cost as it is now, which is charged later. *)
BurnJob(c, r, k) ==
    [NoJob EXCEPT !.client = c, !.reward = r, !.code = k,
                  !.amount = -reward[r].cost]

(* handleRequestRedemption up to the transaction. *)
RequestRedemption(p) ==
    \E c \in Clients, r \in Rewards, k \in Codes :
        /\ Affordable(c, r)
        /\ Begin(p, "reserveStock", BurnJob(c, r, k))
        /\ UNCHANGED <<dbVars, otp, clockVars, adminUpdates, historyVars>>

(* BurnPointsTx, first statement: one unit, or the reward is sold out. *)
ReserveStock(p) ==
    LET r == job[p].reward
    IN  /\ pc[p] = "reserveStock"
        /\ ~RewardLocked(r)
        /\ \/ ~InStock(r) /\ Rollback(p)
           \/ /\ InStock(r)
              /\ job' = [job EXCEPT ![p].newCount = reward[r].count + 1]
              /\ Goto(p, "deductBalance")
              /\ UNCHANGED dbVars
        /\ UNCHANGED <<otp, clockVars, countVars, historyVars>>

(* Faulty variant: an UPDATE without AND balance >= $4. *)
DeductAnyBalance(p) ==
    /\ pc[p] = "deductBalance"
    /\ ~BalanceLocked(job[p].client)
    /\ job' = [job EXCEPT ![p].newBalance = balance[job[p].client] + job[p].amount]
    /\ Goto(p, "insertRedemption")
    /\ UNCHANGED <<dbVars, otp, clockVars, countVars, historyVars>>

(* BurnPointsTx, second statement: the points, or not enough of them. *)
DeductBalance(p) ==
    LET c == job[p].client
        rest == balance[c] + job[p].amount
    IN  /\ pc[p] = "deductBalance"
        /\ ~BalanceLocked(c)
        /\ \/ rest < 0 /\ Rollback(p)
           \/ /\ rest >= 0
              /\ job' = [job EXCEPT ![p].newBalance = rest]
              /\ Goto(p, "insertRedemption")
              /\ UNCHANGED dbVars
        /\ UNCHANGED <<otp, clockVars, countVars, historyVars>>

(* Faulty variant: no UNIQUE on the code. *)
NeverTaken(k) == FALSE

CodeTaken(k) == redemption[k] # NoRedemption

(* BurnPointsTx, the two INSERTs and the COMMIT; a code some redemption    *)
(* already has violates UNIQUE and rolls everything back.                  *)
InsertRedemption(p) ==
    LET k == job[p].code
        r == job[p].reward
    IN  /\ pc[p] = "insertRedemption"
        /\ \/ CodeTaken(k) /\ Rollback(p)
           \/ /\ ~CodeTaken(k)
              /\ CommitEntry(p, "burn")
              /\ reward' = [reward EXCEPT ![r].count = job[p].newCount]
              /\ redemption' = [redemption EXCEPT ![k] =
                    [status |-> "pending", client |-> job[p].client,
                     reward |-> r, points |-> -job[p].amount, by |-> Nil]]
              /\ Goto(p, "cacheRedemption")
              /\ UNCHANGED job
        /\ UNCHANGED <<otp, clockVars, countVars, historyVars>>

(* SetOTP after the commit; when it fails (Abort) Postgres still has the   *)
(* code.                                                                   *)
CacheRedemption(p) ==
    /\ pc[p] = "cacheRedemption"
    /\ SetOTP(job[p].code, "redemption", job[p].client)
    /\ Finish(p)
    /\ UNCHANGED <<dbVars, clockVars, countVars, historyVars>>

(* ConfirmRedemption: a code of another type is consumed and turned down;  *)
(* for a redemption code, a missing one, or when Redis fails (the code may *)
(* be gone or not), Postgres is asked.                                     *)
ConfirmRedemption(p) ==
    \E k \in Codes, w \in Collaborators :
        /\ \/ /\ otp[k].type = "load_points"
              /\ Consume(k)
              /\ Begin(p, "idle", NoJob)
           \/ /\ Consume(k) \/ UNCHANGED otp
              /\ Begin(p, "readRedemption",
                       [NoJob EXCEPT !.code = k, !.collaborator = w])
        /\ UNCHANGED <<dbVars, clockVars, adminUpdates, historyVars>>

(* GetRedemptionByCode and the checks on the row it returned. *)
ReadRedemption(p) ==
    LET k == job[p].code
    IN  /\ pc[p] = "readRedemption"
        /\ IF redemption[k].status = "pending" /\ k \notin lapsed
           THEN Goto(p, "markConfirmed") /\ UNCHANGED job
           ELSE Finish(p)
        /\ UNCHANGED <<dbVars, otp, clockVars, countVars, historyVars>>

(* Faulty variant: UPDATE ... SET status = 'confirmed' WHERE id = $1 *)
SetConfirmed(k, w) ==
    redemption' = [redemption EXCEPT ![k].status = "confirmed", ![k].by = w]

(* UPDATE ... SET status = 'confirmed' WHERE id = $1 AND status = 'pending' *)
SetConfirmedIfPending(k, w) ==
    redemption' = [redemption EXCEPT
        ![k] = IF @.status # "pending" THEN @
               ELSE [@ EXCEPT !.status = "confirmed", !.by = w]]

(* The answer to the employee: "Entrega". *)
HandOut(k) == handed' = [handed EXCEPT ![k] = @ + 1]

(* Nobody looks at how many rows were updated: the employee is told to     *)
(* hand the reward out also when it was none.                              *)
MarkConfirmed(p) ==
    LET k == job[p].code
    IN  /\ pc[p] = "markConfirmed"
        /\ SetConfirmedIfPending(k, job[p].collaborator)
        /\ HandOut(k)
        /\ Finish(p)
        /\ UNCHANGED <<balance, ledger, reward, otp, clockVars, countVars, issues>>

-----------------------------------------------------------------------------
(* Correcting a credit *)

Correctable(i) == /\ i \in DOMAIN ledger
                  /\ ledger[i].type = "earn"
                  /\ i \notin closed

(* The difference to the amount of the original entry, which no correction *)
(* changes.                                                                *)
AdjustJob(i, n, w) ==
    [NoJob EXCEPT !.client = ledger[i].client, !.collaborator = w, !.tx = i,
                  !.amount = n - ledger[i].amount]

(* handleUpdatePoints up to the transaction. *)
UpdatePoints(p) ==
    \E i \in DOMAIN ledger, n \in NewAmounts, w \in Collaborators :
        /\ Correctable(i)
        /\ Begin(p, "checkCorrectable", AdjustJob(i, n, w))
        /\ UNCHANGED <<dbVars, otp, clockVars, adminUpdates, historyVars>>

(* AdjustPointsTx, its three statements. *)
CheckCorrectable(p) ==
    /\ pc[p] = "checkCorrectable"
    /\ IF Correctable(job[p].tx)
       THEN Goto(p, "adjustBalance") /\ UNCHANGED job
       ELSE Finish(p)
    /\ UNCHANGED <<dbVars, otp, clockVars, countVars, historyVars>>

AdjustBalance(p) ==
    /\ pc[p] = "adjustBalance"
    /\ LockBalance(p, "insertAdjustment")
    /\ UNCHANGED <<otp, clockVars, countVars, historyVars>>

InsertAdjustment(p) ==
    /\ pc[p] = "insertAdjustment"
    /\ CommitEntry(p, "adjustment")
    /\ Finish(p)
    /\ UNCHANGED <<reward, redemption, otp, clockVars, countVars, historyVars>>

-----------------------------------------------------------------------------
(* Expiring points when someone looks at the balance *)

(* CheckBalance, for handleCheckPoints, handleListRewards,                 *)
(* handleRedeemRewards and handleListPoints.  Whatever comes of the        *)
(* expiration, a balance is read and answered.                             *)
CheckBalance(p) ==
    \E c \in Clients :
        /\ Begin(p, "selectExpiring", [NoJob EXCEPT !.client = c])
        /\ UNCHANGED <<dbVars, otp, clockVars, adminUpdates, historyVars>>

(* ExpirePoints, its SELECT.  How old an entry is is not modelled: any     *)
(* earn entries of the client, or none, may be old enough, and the one     *)
(* expired first is picked.                                                *)
SelectExpiring(p) ==
    /\ pc[p] = "selectExpiring"
    /\ \/ Rollback(p)
       \/ /\ \E i \in DOMAIN ledger :
                /\ ledger[i].type = "earn"
                /\ ledger[i].client = job[p].client
                /\ job' = [job EXCEPT ![p].tx = i, ![p].amount = -ledger[i].amount]
          /\ Goto(p, "deductExpired")
          /\ UNCHANGED dbVars
    /\ UNCHANGED <<otp, clockVars, countVars, historyVars>>

DeductExpired(p) ==
    /\ pc[p] = "deductExpired"
    /\ LockBalance(p, "insertExpiration")
    /\ UNCHANGED <<otp, clockVars, countVars, historyVars>>

(* Faulty variant: the error of the INSERT is dropped, and the transaction *)
(* commits what it deducted.                                               *)
CommitDeduction(p) ==
    /\ pc[p] = "insertExpiration"
    /\ balance' = [balance EXCEPT ![job[p].client] = job[p].newBalance]
    /\ Finish(p)
    /\ UNCHANGED <<ledger, reward, redemption, otp, clockVars, countVars, historyVars>>

(* The INSERT violates the CHECK on transactions_earnburn.type, which does *)
(* not know 'expiration', and the deduction is undone.                     *)
InsertExpiration(p) ==
    /\ pc[p] = "insertExpiration"
    /\ "expiration" \notin TransactionTypes
    /\ Rollback(p)
    /\ UNCHANGED <<otp, clockVars, countVars, historyVars>>

-----------------------------------------------------------------------------
(* What can happen at any time *)

(* The handler fails or the server goes down: Postgres rolls back an open  *)
(* transaction, and nothing that was to follow a committed one is done.    *)
Abort(p) ==
    /\ pc[p] # "idle"
    /\ Rollback(p)
    /\ UNCHANGED <<otp, clockVars, countVars, historyVars>>

(* UpdateRewardAdmin replaces cost and stock_total and leaves              *)
(* redeemed_count alone; a stock below the count violates the CHECK.       *)
UpdateReward(r) ==
    /\ adminUpdates < MaxAdminUpdates
    /\ ~RewardLocked(r)
    /\ \E cost \in Costs, stock \in Stocks :
        /\ stock # Unlimited => reward[r].count <= stock
        /\ reward' = [reward EXCEPT ![r].cost = cost, ![r].stock = stock]
    /\ adminUpdates' = adminUpdates + 1
    /\ UNCHANGED <<balance, ledger, redemption, otp, pc, job, clockVars,
                   messages, historyVars>>

(* correctable_until, expires_at and the TTL of a code pass. *)
CloseCorrection(i) ==
    /\ Correctable(i)
    /\ closed' = closed \cup {i}
    /\ UNCHANGED <<dbVars, otp, pc, job, lapsed, countVars, historyVars>>

LapseRedemption(k) ==
    /\ redemption[k] # NoRedemption
    /\ k \notin lapsed
    /\ lapsed' = lapsed \cup {k}
    /\ UNCHANGED <<dbVars, otp, pc, job, closed, countVars, historyVars>>

ExpireOTP(k) ==
    /\ otp[k] # NoOTP
    /\ otp' = [otp EXCEPT ![k] = NoOTP]
    /\ UNCHANGED <<dbVars, pc, job, clockVars, countVars, historyVars>>

-----------------------------------------------------------------------------
(* The specification *)

Init ==
    /\ balance = [c \in Clients |-> 0]
    /\ ledger = <<>>
    /\ reward \in [Rewards -> {[cost |-> n, stock |-> s, count |-> 0] :
                                  n \in Costs, s \in Stocks}]
    /\ redemption = [k \in Codes |-> NoRedemption]
    /\ otp = [k \in Codes |-> NoOTP]
    /\ pc = [p \in Procs |-> "idle"]
    /\ job = [p \in Procs |-> NoJob]
    /\ closed = {} /\ lapsed = {}
    /\ messages = 0 /\ adminUpdates = 0
    /\ issues = [k \in Codes |-> 0]
    /\ handed = [k \in Codes |-> 0]

(* A message arrives. *)
Accept(p) == \/ ProcessLoadCode(p)
             \/ AddPoints(p)
             \/ RequestRedemption(p)
             \/ ConfirmRedemption(p)
             \/ UpdatePoints(p)
             \/ CheckBalance(p)

(* A handler goes on with the message it has. *)
Step(p) == \/ UpsertBalance(p) \/ InsertEarn(p)
           \/ ReserveStock(p) \/ DeductBalance(p)
           \/ InsertRedemption(p) \/ CacheRedemption(p)
           \/ ReadRedemption(p) \/ MarkConfirmed(p)
           \/ CheckCorrectable(p) \/ AdjustBalance(p) \/ InsertAdjustment(p)
           \/ SelectExpiring(p) \/ DeductExpired(p) \/ InsertExpiration(p)

Clock == \/ \E i \in DOMAIN ledger : CloseCorrection(i)
         \/ \E k \in Codes : LapseRedemption(k) \/ ExpireOTP(k)

(* No more messages within the bound: waiting for the next one. *)
Quiescent ==
    /\ messages = MaxMessages
    /\ \A p \in Procs : pc[p] = "idle"
    /\ UNCHANGED vars

Next == \/ \E c \in Clients : RequestLoadCode(c)
        \/ \E p \in Procs : Accept(p) \/ Step(p) \/ Abort(p)
        \/ \E r \in Rewards : UpdateReward(r)
        \/ Clock
        \/ Quiescent

Spec == Init /\ [][Next]_vars

(* The Go scheduler runs every goroutine, and Postgres grants a row lock   *)
(* that becomes free; nothing makes a message arrive or a clock run out.   *)
FairSpec == Spec /\ \A p \in Procs : WF_vars(Step(p))

-----------------------------------------------------------------------------
(* Properties *)

(* Every variable keeps to the rows and records the code can write.        *)
TypeOK ==
    /\ balance \in [Clients -> Nat]
    /\ ledger \in Seq(Transaction)
    /\ reward \in [Rewards -> Reward]
    /\ redemption \in [Codes -> Redemption \cup {NoRedemption}]
    /\ otp \in [Codes -> OTPData \cup {NoOTP}]
    /\ pc \in [Procs -> PCs]
    /\ job \in [Procs -> Job]
    /\ closed \subseteq Nat /\ lapsed \subseteq Codes
    /\ messages \in Nat /\ adminUpdates \in Nat
    /\ issues \in [Codes -> Nat]
    /\ handed \in [Codes -> Nat]

RedemptionsOf(r) ==
    {k \in Codes : redemption[k] # NoRedemption /\ redemption[k].reward = r}

(* BurnPointsTx: redeemed_count of a reward is the number of its           *)
(* redemptions whoever redeems at the same time, whatever transaction is   *)
(* rolled back, and whatever stock the admin sets meanwhile; and it never  *)
(* exceeds the stock.                                                      *)
StockIsAccounted ==
    \A r \in Rewards :
        /\ reward[r].count = Cardinality(RedemptionsOf(r))
        /\ reward[r].stock # Unlimited => reward[r].count <= reward[r].stock

Own(c) == {i \in DOMAIN ledger : ledger[i].client = c}

Precedes(i, j) == /\ i < j
                  /\ \A k \in Own(ledger[j].client) : k <= i \/ k >= j

(* AddPointsTx, BurnPointsTx and AdjustPointsTx: replaying a client's      *)
(* entries from zero, with the floor at zero, gives the balance_after of   *)
(* each of them and ends at the client's balance, so no update of the      *)
(* balance was lost and none is missing from the ledger.                   *)
BalanceReplaysLedger ==
    \A c \in Clients :
        /\ Own(c) = {} => balance[c] = 0
        /\ \A j \in Own(c) :
            /\ (\A i \in Own(c) : i >= j) =>
                   ledger[j].after = Greatest0(ledger[j].amount)
            /\ \A i \in Own(c) : Precedes(i, j) =>
                   ledger[j].after = Greatest0(ledger[i].after + ledger[j].amount)
            /\ (\A i \in Own(c) : i <= j) => balance[c] = ledger[j].after

(* The receipt index: one receipt credits one purchase, also when it is    *)
(* sent twice at the same time or for two clients.                         *)
ReceiptCreditedOnce ==
    \A i, j \in DOMAIN ledger :
        (ledger[i].receipt = ledger[j].receipt /\ ledger[i].receipt # NoReceipt)
            => i = j

(* ValidateLoadPointsCode: a load code credits at most one purchase each   *)
(* time it is issued, however many employees send it at once.              *)
LoadCodeCreditsOnce ==
    \A k \in Codes :
        Cardinality({i \in DOMAIN ledger :
                        ledger[i].type = "earn" /\ ledger[i].via = k}) <= issues[k]

(* BurnPointsTx writes the burn entry and the redemption together or not   *)
(* at all: each redemption has one entry with its client and its points,   *)
(* and each burn entry has its redemption.                                 *)
BurnsMatchRedemptions ==
    /\ \A i \in DOMAIN ledger : ledger[i].type = "burn" =>
        LET rd == redemption[ledger[i].via]
        IN  /\ rd # NoRedemption
            /\ rd.client = ledger[i].client
            /\ rd.points = -ledger[i].amount
    /\ \A k \in Codes : redemption[k] # NoRedemption =>
        \E i \in DOMAIN ledger :
            /\ ledger[i].type = "burn" /\ ledger[i].via = k
            /\ \A j \in DOMAIN ledger :
                ledger[j].type = "burn" /\ ledger[j].via = k => j = i

(* ConfirmRedemption in the repository only touches pending rows: who      *)
(* confirmed a redemption, and what was redeemed, never changes again,     *)
(* also when two employees confirm at once.                                *)
ConfirmationIsFinal ==
    [][\A k \in Codes : redemption[k].status = "confirmed"
            => redemption'[k] = redemption[k]]_vars

(* READ COMMITTED and the row locks: no two transactions hold one row, and *)
(* what a transaction is about to commit was computed from the row as it   *)
(* still is.                                                               *)
HeldRowsAreCurrent ==
    \A p \in Procs :
        /\ \A r \in Rewards : HoldsReward(p, r) =>
            /\ \A q \in Procs \ {p} : ~HoldsReward(q, r)
            /\ InStock(r)
            /\ job[p].newCount = reward[r].count + 1
        /\ \A c \in Clients : HoldsBalance(p, c) =>
            /\ \A q \in Procs \ {p} : ~HoldsBalance(q, c)
            /\ job[p].newBalance = Greatest0(balance[c] + job[p].amount)

(* The contract of the program: its state is what has been committed, its  *)
(* entries are the ledger's, and its amounts are those of Amounts and      *)
(* NewAmounts.                                                             *)
Credits == {PointsFor(a) : a \in {b \in Amounts : Creditable(b)}}

Contract == INSTANCE PointsContract WITH
    Corrections <- {n - m : n \in NewAmounts, m \in Credits},
    entries <- [i \in DOMAIN ledger |->
                   [client |-> ledger[i].client, amount |-> ledger[i].amount]]

(* Every transaction takes effect at once when it commits, and has no      *)
(* effect when it is rolled back, as if the handlers ran one at a time.    *)
ImplementsContract == Contract!Spec

(* WithTx ends every transaction on every path, and the transactions take  *)
(* their row locks in one order: each message is eventually finished.      *)
EveryMessageFinishes ==
    \A p \in Procs : pc[p] # "idle" ~> pc[p] = "idle"

-----------------------------------------------------------------------------
(* What the documents say and the code does not do *)

(* User story CO-04: a code that was confirmed before is answered with     *)
(* "already used", so no reward is handed out twice.  ConfirmRedemption    *)
(* reads the status and updates the row in two statements.                 *)
HandedOutOnce == \A k \in Codes : handed[k] <= 1

Corrections(i) == {j \in DOMAIN ledger : ledger[j].corrects = i}

(* What the employee typed, going by the entry of the correction. *)
NewAmount(j) == ledger[ledger[j].corrects].amount + ledger[j].amount

(* User story CO-03: the employee gives the new amount and the difference  *)
(* is applied, so an entry and its two corrections add up to the amount    *)
(* given last.  UpdatePoints takes the difference to the original amount   *)
(* each time.                                                              *)
CorrectedToNewAmount ==
    \A i, j, k \in DOMAIN ledger :
        (j < k /\ {j, k} = Corrections(i)) =>
            ledger[i].amount + ledger[j].amount + ledger[k].amount = NewAmount(k)

(* User story SYS-03: a redemption that lapses while pending is marked     *)
(* expired and its points go back.  ExpirePendingRedemptions, which would  *)
(* mark it and gives nothing back, has no caller.                          *)
LapsedRedemptionIsResolved ==
    \A k \in Codes :
        (k \in lapsed /\ redemption[k].status = "pending")
            ~> redemption[k].status # "pending"

=============================================================================
