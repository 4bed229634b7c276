------------------------------ MODULE Cashback ------------------------------
(***************************************************************************)
(* The cashback program of fidel-quick: internal/modules/cashback          *)
(* (service, repository, WhatsApp command handlers) for one                *)
(* customer_sisfi.                                                         *)
(*                                                                         *)
(* It is EarnBurn's program in money, with limits: a cap per purchase, a   *)
(* cap per period, and credits that expire.  As there, a handler is a      *)
(* process that takes one step per database statement of a transaction at  *)
(* READ COMMITTED.  The codes clients identify themselves with are in      *)
(* IdentityCodes; a confirmation that Redis turns down changes nothing     *)
(* here.  Money is counted in cents, a rate in ten-thousandths, time in    *)
(* days.                                                                   *)
(***************************************************************************)
EXTENDS Receipts, Sequences, FiniteSets, FiniteSetsExt

CONSTANTS
    Clients,         \* clients of the program
    Collaborators,   \* employees who credit, correct and confirm
    OwnClients,      \* OwnClients[w]: the clients with w's own phone number
    Rewards,         \* rows of rewards_cashback
    Codes,           \* codes generateCode may draw
    Extracts,        \* what the extractor may read from a photo
    NoExtract,       \* no photo, or one that could not be analysed
    Procs,           \* goroutines handling messages at the same time
    Amounts,         \* purchase amounts a ticket may show
    NewAmounts,      \* purchase amounts an employee may type as the right ones
    Configs,         \* configurations an admin may send
    DefaultWindow,   \* days of the period when no expiry is set (30)
    Costs,           \* costs of a reward an admin may send
    Stocks,          \* stock_total an admin may set
    None,            \* NULL: no limit
    Nil,             \* an unset field
    MaxMessages,     \* bound: messages handled in a behaviour
    MaxAdminUpdates, \* bound: updates by the admin in a behaviour
    MaxDays          \* bound: days that pass in a behaviour

ASSUME ConfigAssumption ==
    /\ Amounts \subseteq Nat /\ NewAmounts \subseteq Int
    /\ Costs \subseteq Nat
    /\ Stocks \subseteq Nat \cup {None}
    /\ None \notin Int
    /\ DefaultWindow \in Nat \ {0}
    /\ Configs \subseteq [rate : Nat, expiry : Int \cup {None},
                          minTicket : Int \cup {None}, maxTx : Int \cup {None},
                          maxPeriod : Int \cup {None}]
    /\ OwnClients \in [Collaborators -> SUBSET Clients]

(* A photo that could not be analysed is none of those that could, and a   *)
(* fingerprint is not NULL.                                                *)
ASSUME ExtractAssumption ==
    /\ NoExtract \notin Extracts
    /\ \A x \in Extracts :
        /\ x.date = NoText \/ x.date = [value |-> x.date.value, form |-> x.date.form]
        /\ Identified(x) => ComputeFingerprint(x) # NoReceipt

ASSUME BoundsAssumption == {MaxMessages, MaxAdminUpdates, MaxDays} \subseteq Nat

VARIABLES
    config,       \* config_cashback, and customer_sisfi.active
    balance,      \* balances_cashback.balance, 0 when there is no row
    ledger,       \* transactions_cashback, in the order of their commits
    reward,       \* rewards_cashback: cost, stock, redeemed_count
    redemption,   \* redemptions_cashback by code (the column is UNIQUE)
    pc,           \* where each handler is
    job,          \* what each handler holds
    today,        \* days passed
    closed,       \* ledger entries whose correctable_until has passed
    lapsed,       \* redemptions whose expires_at has passed
    messages,     \* messages handled so far
    adminUpdates  \* updates by the admin so far

dbVars == <<config, balance, ledger, reward, redemption>>
clockVars == <<today, closed, lapsed>>
countVars == <<messages, adminUpdates>>
vars == <<dbVars, pc, job, clockVars, countVars>>

-----------------------------------------------------------------------------
(* Rows and records *)

TransactionTypes == {"earn", "burn", "adjustment", "expiration"}

(* ref: the entry an adjustment or an expiration is about.  The code keeps *)
(* it for expirations only.                                                *)
Transaction == [type : TransactionTypes, client : Clients, amount : Int,
                after : Nat, day : Nat, extract : Extracts \cup {NoExtract},
                code : Codes \cup {Nil}, ref : Nat]

(* A rate of 1. *)
Whole == 10000

Reward == [cost : Nat \ {0}, stock : Nat \cup {None}, count : Nat]

NoRedemption == [status |-> "none"]

Redemption == [status : {"pending", "confirmed"}, client : Clients,
               reward : Rewards, amount : Nat \ {0},
               by : Collaborators \cup {Nil}]

Config == [rate : 1 .. Whole, expiry : (Nat \ {0}) \cup {None},
           minTicket : Nat \cup {None}, maxTx : (Nat \ {0}) \cup {None},
           maxPeriod : (Nat \ {0}) \cup {None}, active : BOOLEAN]

(* day is NOW() of the transaction, seen how much of the ledger its first  *)
(* SELECT saw, todo and posted what an expiration has to do and has done.  *)
NoJob == [client |-> Nil, collaborator |-> Nil, reward |-> Nil, code |-> Nil,
          extract |-> NoExtract, ref |-> 0, amount |-> 0, cap |-> None,
          window |-> 0, day |-> 0, seen |-> 0, newCount |-> 0,
          newBalance |-> 0, todo |-> {}, posted |-> <<>>]

Job == [client : Clients \cup {Nil}, collaborator : Collaborators \cup {Nil},
        reward : Rewards \cup {Nil}, code : Codes \cup {Nil},
        extract : Extracts \cup {NoExtract}, ref : Nat, amount : Int,
        cap : Nat \cup {None}, window : Nat, day : Nat, seen : Nat,
        newCount : Nat, newBalance : Nat, todo : SUBSET Nat,
        posted : Seq(Transaction)]

(* AddCashbackTx, ExpireBalance, BurnCashbackTx, AdjustCashbackTx, and the *)
(* confirmation.                                                           *)
PCs == {"idle", "sumWindow", "upsertBalance", "insertEarn",
        "selectExpiring", "deductExpired", "commitExpired",
        "reserveStock", "deductBalance", "insertRedemption", "markConfirmed",
        "checkCorrectable", "adjustBalance", "insertAdjustment"}

(* The row locks a transaction holds between its UPDATE and its end. *)
HoldsReward(p, r) == /\ pc[p] \in {"deductBalance", "insertRedemption"}
                     /\ job[p].reward = r

HoldsBalance(p, c) ==
    /\ \/ pc[p] \in {"insertEarn", "insertRedemption", "insertAdjustment",
                     "commitExpired"}
       \/ pc[p] = "deductExpired" /\ job[p].posted # <<>>
    /\ job[p].client = c

RewardLocked(r) == \E q \in Procs : HoldsReward(q, r)

BalanceLocked(p, c) == \E q \in Procs \ {p} : HoldsBalance(q, c)

-----------------------------------------------------------------------------
(* Handlers: beginning, moving on, ending *)

Begin(p, step, j) ==
    /\ pc[p] = "idle"
    /\ messages < MaxMessages
    /\ messages' = messages + 1
    /\ pc' = [pc EXCEPT ![p] = step]
    /\ job' = [job EXCEPT ![p] = j]

GotoWith(p, step, j) == /\ pc' = [pc EXCEPT ![p] = step]
                        /\ job' = [job EXCEPT ![p] = j]
                        /\ UNCHANGED dbVars

Finish(p) == /\ pc' = [pc EXCEPT ![p] = "idle"]
             /\ job' = [job EXCEPT ![p] = NoJob]

(* Ending a transaction without writing. *)
Rollback(p) == Finish(p) /\ UNCHANGED dbVars

Greatest0(n) == IF n < 0 THEN 0 ELSE n

AtMost(limit, n) == IF limit # None /\ n > limit THEN limit ELSE n

Is(i, type, c) == ledger[i].type = type /\ ledger[i].client = c

Entry(p, type) ==
    [type |-> type, client |-> job[p].client, amount |-> job[p].amount,
     after |-> job[p].newBalance, day |-> job[p].day,
     extract |-> job[p].extract, code |-> job[p].code, ref |-> job[p].ref]

(* The INSERTs into transactions_cashback and the COMMIT. *)
CommitEntries(p, entries) ==
    /\ balance' = [balance EXCEPT ![job[p].client] = job[p].newBalance]
    /\ ledger' = ledger \o entries

-----------------------------------------------------------------------------
(* The program and its limits *)

CashbackFor(amount) == (amount * config.rate) \div Whole

(* What a purchase is credited before the cap per period. *)
Capped(amount) == AtMost(config.maxTx, CashbackFor(amount))

(* GetProgram finds active programs only. *)
ProgramFound == config.active

Creditable(amount) ==
    /\ ProgramFound
    /\ config.minTicket # None => amount >= config.minTicket
    /\ Capped(amount) > 0

WindowDays == IF config.expiry = None THEN DefaultWindow ELSE config.expiry

(* A rate above 1 is taken as a percentage. *)
NormalRate(rate) == IF rate > Whole THEN rate \div 100 ELSE rate

ValidUpdate(new) ==
    /\ NormalRate(new.rate) \in 0 .. Whole
    /\ \A limit \in {new.expiry, new.maxTx, new.maxPeriod} : limit # None => limit > 0
    /\ new.minTicket # None => new.minTicket >= 0

Stored(new, rate, active) ==
    [rate |-> rate, expiry |-> new.expiry, minTicket |-> new.minTicket,
     maxTx |-> new.maxTx, maxPeriod |-> new.maxPeriod, active |-> active]

(* Every limit is replaced; a rate of 0, the absent one, keeps the rate.   *)
Updated(new, active) ==
    Stored(new, IF new.rate = 0 THEN config.rate ELSE NormalRate(new.rate), active)

UpdateProgram ==
    /\ adminUpdates < MaxAdminUpdates
    /\ adminUpdates' = adminUpdates + 1
    /\ \E new \in Configs, active \in BOOLEAN :
        ValidUpdate(new) /\ config' = Updated(new, active)
    /\ UNCHANGED <<balance, ledger, reward, redemption, pc, job, clockVars, messages>>

-----------------------------------------------------------------------------
(* Crediting cashback *)

AmountOf(entries, S) == MapThenSumSet(LAMBDA i : entries[i].amount, S)

(* SumCashbackInWindow: what entries credit c in the days up to day.       *)
Credited(entries, c, day, days) ==
    AmountOf(entries, {i \in DOMAIN entries : /\ entries[i].type = "earn"
                                              /\ entries[i].client = c
                                              /\ entries[i].day >= day - days})

(* AddCashback up to its transaction: what is credited, and under which    *)
(* cap, is settled here.                                                   *)
CreditJob(c, w, a, x) ==
    [NoJob EXCEPT !.client = c, !.collaborator = w, !.extract = x,
                  !.amount = Capped(a), !.cap = config.maxPeriod,
                  !.window = WindowDays]

(* handleLoadProcess and handleAddCashback up to the transaction.  A       *)
(* message that is turned down changes nothing.                            *)
AddCashback(p) ==
    \E c \in Clients, w \in Collaborators, a \in Amounts,
       x \in Extracts \cup {NoExtract} :
        /\ c \notin OwnClients[w]
        /\ Creditable(a)
        /\ Begin(p, "sumWindow", CreditJob(c, w, a, x))
        /\ UNCHANGED <<dbVars, clockVars, adminUpdates>>

(* Faulty variant: the cap is tested, the amount not cut. *)
Uncut(n, remaining) == n

Cut(n, remaining) == AtMost(remaining, n)

(* AddCashbackTx, BEGIN and, with a cap per period, the SELECT of what was *)
(* credited so far, which takes no lock.                                   *)
SumWindow(p) ==
    LET j == [job[p] EXCEPT !.day = today, !.seen = Len(ledger)]
        remaining == j.cap - Credited(ledger, j.client, today, j.window)
    IN  /\ pc[p] = "sumWindow"
        /\ CASE j.cap = None -> GotoWith(p, "upsertBalance", j)
             [] j.cap # None /\ remaining <= 0 -> Rollback(p)
             [] OTHER -> GotoWith(p, "upsertBalance",
                                  [j EXCEPT !.amount = Cut(@, remaining)])
        /\ UNCHANGED <<clockVars, countVars>>

(* Faulty variant: the balance is read and written back, without the lock. *)
ReadBalance(p, step) ==
    GotoWith(p, step, [job[p] EXCEPT !.newBalance =
                           Greatest0(balance[job[p].client] + job[p].amount)])

(* The UPDATE of a balance row, which waits for the lock and floors the    *)
(* new balance at zero.                                                    *)
LockBalance(p, step) ==
    LET c == job[p].client
    IN  /\ ~BalanceLocked(p, c)
        /\ GotoWith(p, step, [job[p] EXCEPT !.newBalance =
                                  Greatest0(balance[c] + job[p].amount)])

UpsertBalance(p) ==
    /\ pc[p] = "upsertBalance"
    /\ LockBalance(p, "insertEarn")
    /\ UNCHANGED <<clockVars, countVars>>

Fingerprint(x) == IF x = NoExtract THEN NoReceipt ELSE ComputeFingerprint(x)

(* The partial unique index on receipt_hash. *)
DuplicateReceipt(x) ==
    /\ Fingerprint(x) # NoReceipt
    /\ \E i \in DOMAIN ledger : Fingerprint(ledger[i].extract) = Fingerprint(x)

(* A receipt that was credited before rolls everything back. *)
InsertEarn(p) ==
    /\ pc[p] = "insertEarn"
    /\ \/ DuplicateReceipt(job[p].extract) /\ Rollback(p)
       \/ /\ ~DuplicateReceipt(job[p].extract)
          /\ CommitEntries(p, <<Entry(p, "earn")>>)
          /\ Finish(p)
          /\ UNCHANGED <<config, reward, redemption>>
    /\ UNCHANGED <<clockVars, countVars>>

-----------------------------------------------------------------------------
(* Expiring credits when someone looks at the balance *)

(* CheckBalance, for handleCheckBalance, handleListRewards, handleRedeem   *)
(* and handleListBalance; without an expiry it reads the balance only.     *)
CheckBalance(p) ==
    \E c \in Clients :
        /\ ProgramFound /\ config.expiry # None
        /\ Begin(p, "selectExpiring",
                 [NoJob EXCEPT !.client = c, !.window = config.expiry])
        /\ UNCHANGED <<dbVars, clockVars, adminUpdates>>

(* Faulty variant: no NOT EXISTS. *)
NeverExpired(i) == FALSE

Expired(i) == \E j \in DOMAIN ledger :
                  ledger[j].type = "expiration" /\ ledger[j].ref = i

(* ExpireBalance, its first SELECT: the old credits nothing has expired.   *)
SelectExpiring(p) ==
    LET c == job[p].client
        due == {i \in DOMAIN ledger : /\ Is(i, "earn", c)
                                      /\ ledger[i].day < today - job[p].window
                                      /\ ~Expired(i)}
    IN  /\ pc[p] = "selectExpiring"
        /\ IF due = {} THEN Rollback(p)
           ELSE GotoWith(p, "deductExpired",
                         [job[p] EXCEPT !.todo = due, !.day = today,
                                        !.seen = Len(ledger)])
        /\ UNCHANGED <<clockVars, countVars>>

(* One of them: the UPDATE, for which the first one waits, and the INSERT. *)
DeductExpired(p) ==
    LET c == job[p].client
        held == IF job[p].posted = <<>> THEN balance[c] ELSE job[p].newBalance
    IN  /\ pc[p] = "deductExpired"
        /\ ~BalanceLocked(p, c)
        /\ \E i \in job[p].todo :
            LET rest == Greatest0(held - ledger[i].amount)
                entry == [Entry(p, "expiration") EXCEPT
                             !.amount = -ledger[i].amount, !.after = rest, !.ref = i]
            IN  GotoWith(p, IF job[p].todo = {i} THEN "commitExpired" ELSE "deductExpired",
                         [job[p] EXCEPT !.todo = @ \ {i}, !.newBalance = rest,
                                        !.posted = Append(@, entry)])
        /\ UNCHANGED <<clockVars, countVars>>

CommitExpired(p) ==
    /\ pc[p] = "commitExpired"
    /\ CommitEntries(p, job[p].posted)
    /\ Finish(p)
    /\ UNCHANGED <<config, reward, redemption, clockVars, countVars>>

-----------------------------------------------------------------------------
(* Redeeming a reward *)

InStock(r) == reward[r].stock # None => reward[r].count < reward[r].stock

Affordable(c, r) == balance[c] >= reward[r].cost

BurnJob(c, r, k) ==
    [NoJob EXCEPT !.client = c, !.reward = r, !.code = k,
                  !.amount = -reward[r].cost]

(* handleRequestRedemption up to the transaction. *)
RequestRedemption(p) ==
    \E c \in Clients, r \in Rewards, k \in Codes :
        /\ ProgramFound
        /\ Affordable(c, r)
        /\ Begin(p, "reserveStock", BurnJob(c, r, k))
        /\ UNCHANGED <<dbVars, clockVars, adminUpdates>>

(* BurnCashbackTx, first statement. *)
ReserveStock(p) ==
    LET r == job[p].reward
    IN  /\ pc[p] = "reserveStock"
        /\ ~RewardLocked(r)
        /\ IF InStock(r)
           THEN GotoWith(p, "deductBalance",
                         [job[p] EXCEPT !.newCount = reward[r].count + 1,
                                        !.day = today])
           ELSE Rollback(p)
        /\ UNCHANGED <<clockVars, countVars>>

(* Its second statement: the money, or not enough of it. *)
DeductBalance(p) ==
    LET rest == balance[job[p].client] + job[p].amount
    IN  /\ pc[p] = "deductBalance"
        /\ ~BalanceLocked(p, job[p].client)
        /\ IF rest >= 0
           THEN GotoWith(p, "insertRedemption", [job[p] EXCEPT !.newBalance = rest])
           ELSE Rollback(p)
        /\ UNCHANGED <<clockVars, countVars>>

(* The two INSERTs and the COMMIT, unless a redemption has the code.       *)
InsertRedemption(p) ==
    LET k == job[p].code
        r == job[p].reward
    IN  /\ pc[p] = "insertRedemption"
        /\ \/ redemption[k] # NoRedemption /\ UNCHANGED dbVars
           \/ /\ redemption[k] = NoRedemption
              /\ CommitEntries(p, <<Entry(p, "burn")>>)
              /\ reward' = [reward EXCEPT ![r].count = job[p].newCount]
              /\ redemption' = [redemption EXCEPT ![k] =
                    [status |-> "pending", client |-> job[p].client, reward |-> r,
                     amount |-> -job[p].amount, by |-> Nil]]
              /\ UNCHANGED config
        /\ Finish(p)
        /\ UNCHANGED <<clockVars, countVars>>

(* ConfirmRedemption up to its UPDATE. *)
ConfirmRedemption(p) ==
    \E k \in Codes, w \in Collaborators :
        /\ redemption[k].status = "pending" /\ k \notin lapsed
        /\ Begin(p, "markConfirmed",
                 [NoJob EXCEPT !.code = k, !.collaborator = w])
        /\ UNCHANGED <<dbVars, clockVars, adminUpdates>>

(* UPDATE ... SET status = 'confirmed' WHERE id = $1 AND status = 'pending' *)
SetConfirmedIfPending(k, w) ==
    redemption' = [redemption EXCEPT ![k] =
        IF @.status # "pending" THEN @
        ELSE [@ EXCEPT !.status = "confirmed", !.by = w]]

MarkConfirmed(p) ==
    /\ pc[p] = "markConfirmed"
    /\ SetConfirmedIfPending(job[p].code, job[p].collaborator)
    /\ Finish(p)
    /\ UNCHANGED <<config, balance, ledger, reward, clockVars, countVars>>

-----------------------------------------------------------------------------
(* Correcting a credit *)

Correctable(i) == ledger[i].type = "earn" /\ i \notin closed

(* The cashback of the new amount at the rate of now, without minimum and  *)
(* caps, against the original entry.                                       *)
AdjustJob(i, n, w) ==
    [NoJob EXCEPT !.client = ledger[i].client, !.collaborator = w,
                  !.ref = i, !.amount = CashbackFor(n) - ledger[i].amount]

(* handleUpdateCashback up to the transaction. *)
UpdateCashback(p) ==
    \E i \in DOMAIN ledger, n \in NewAmounts, w \in Collaborators :
        /\ Correctable(i)
        /\ Begin(p, "checkCorrectable", AdjustJob(i, n, w))
        /\ UNCHANGED <<dbVars, clockVars, adminUpdates>>

(* AdjustCashbackTx, its three statements. *)
CheckCorrectable(p) ==
    /\ pc[p] = "checkCorrectable"
    /\ IF Correctable(job[p].ref)
       THEN GotoWith(p, "adjustBalance", [job[p] EXCEPT !.day = today])
       ELSE Rollback(p)
    /\ UNCHANGED <<clockVars, countVars>>

AdjustBalance(p) ==
    /\ pc[p] = "adjustBalance"
    /\ LockBalance(p, "insertAdjustment")
    /\ UNCHANGED <<clockVars, countVars>>

InsertAdjustment(p) ==
    /\ pc[p] = "insertAdjustment"
    /\ CommitEntries(p, <<Entry(p, "adjustment")>>)
    /\ Finish(p)
    /\ UNCHANGED <<config, reward, redemption, clockVars, countVars>>

-----------------------------------------------------------------------------
(* What can happen at any time *)

(* The handler fails or the server goes down: Postgres rolls back. *)
Abort(p) ==
    /\ pc[p] # "idle"
    /\ Rollback(p)
    /\ UNCHANGED <<clockVars, countVars>>

(* UpdateRewardAdmin: a cost of 0 keeps the cost, stock_total is replaced, *)
(* and one below the count violates the CHECK.                             *)
UpdateReward(r) ==
    /\ adminUpdates < MaxAdminUpdates
    /\ adminUpdates' = adminUpdates + 1
    /\ ~RewardLocked(r)
    /\ \E cost \in Costs, stock \in Stocks :
        /\ stock # None => reward[r].count <= stock
        /\ reward' = [reward EXCEPT ![r].cost = IF cost > 0 THEN cost ELSE @,
                                    ![r].stock = stock]
    /\ UNCHANGED <<config, balance, ledger, redemption, pc, job, clockVars, messages>>

(* An hour closes the codes, two hours the corrections, a day everything.  *)
PassHours(h) ==
    /\ today + h \div 24 <= MaxDays
    /\ today' = today + h \div 24
    /\ lapsed' = {k \in Codes : redemption[k] # NoRedemption}
    /\ closed' = IF h < 2 THEN closed ELSE DOMAIN ledger
    /\ UNCHANGED <<dbVars, pc, job, countVars>>

-----------------------------------------------------------------------------
(* The specification *)

(* CreateProgram and CreateRewardAdmin have been called. *)
Init ==
    /\ config \in {Stored(n, NormalRate(n.rate), TRUE) :
                      n \in {m \in Configs : m.rate > 0 /\ ValidUpdate(m)}}
    /\ balance = [c \in Clients |-> 0]
    /\ ledger = <<>>
    /\ reward \in [Rewards -> [cost : Costs \ {0}, stock : Stocks, count : {0}]]
    /\ redemption = [k \in Codes |-> NoRedemption]
    /\ pc = [p \in Procs |-> "idle"]
    /\ job = [p \in Procs |-> NoJob]
    /\ today = 0 /\ closed = {} /\ lapsed = {}
    /\ messages = 0 /\ adminUpdates = 0

(* A message arrives. *)
Accept(p) == \/ AddCashback(p) \/ CheckBalance(p) \/ RequestRedemption(p)
             \/ ConfirmRedemption(p) \/ UpdateCashback(p)

(* A handler goes on with the message it has. *)
Step(p) == \/ SumWindow(p) \/ UpsertBalance(p) \/ InsertEarn(p)
           \/ SelectExpiring(p) \/ DeductExpired(p) \/ CommitExpired(p)
           \/ ReserveStock(p) \/ DeductBalance(p) \/ InsertRedemption(p)
           \/ MarkConfirmed(p)
           \/ CheckCorrectable(p) \/ AdjustBalance(p) \/ InsertAdjustment(p)

(* No more messages within the bound: waiting for the next one. *)
Quiescent ==
    /\ messages = MaxMessages
    /\ \A p \in Procs : pc[p] = "idle"
    /\ UNCHANGED vars

Next == \/ \E p \in Procs : Accept(p) \/ Step(p) \/ Abort(p)
        \/ UpdateProgram
        \/ \E r \in Rewards : UpdateReward(r)
        \/ \E h \in {1, 2, 24} : PassHours(h)
        \/ Quiescent

Spec == Init /\ [][Next]_vars

-----------------------------------------------------------------------------
(* Properties *)

(* Every variable keeps to the rows and records the code can write.        *)
TypeOK ==
    /\ config \in Config
    /\ balance \in [Clients -> Nat]
    /\ ledger \in Seq(Transaction)
    /\ reward \in [Rewards -> Reward]
    /\ redemption \in [Codes -> Redemption \cup {NoRedemption}]
    /\ pc \in [Procs -> PCs]
    /\ job \in [Procs -> Job]
    /\ {today, messages, adminUpdates} \subseteq Nat
    /\ closed \subseteq DOMAIN ledger /\ lapsed \subseteq Codes

Own(c) == {i \in DOMAIN ledger : ledger[i].client = c}

Before(j) == {i \in Own(ledger[j].client) : i < j}

(* AddCashbackTx, BurnCashbackTx, AdjustCashbackTx and ExpireBalance:      *)
(* replaying a client's entries from zero, with the floor at zero, gives   *)
(* the balance_after of each of them and ends at the client's balance.     *)
BalanceReplaysLedger ==
    \A c \in Clients :
        /\ \A j \in Own(c) :
            LET before == IF Before(j) = {} THEN 0 ELSE ledger[Max(Before(j))].after
            IN  ledger[j].after = Greatest0(before + ledger[j].amount)
        /\ balance[c] = IF Own(c) = {} THEN 0 ELSE ledger[Max(Own(c))].after

(* Each of entries was computed from the one before, the first from start. *)
Chained(entries, start) ==
    \A i \in DOMAIN entries :
        LET before == IF i = 1 THEN start ELSE entries[i - 1].after
        IN  entries[i].after = Greatest0(before + entries[i].amount)

(* READ COMMITTED and the row locks: no two transactions hold one balance, *)
(* and what a transaction is about to commit, several expirations at once  *)
(* among it, was computed from the balance as it still is.                 *)
HeldRowsAreCurrent ==
    \A p \in Procs, c \in Clients : HoldsBalance(p, c) =>
        /\ \A q \in Procs \ {p} : ~HoldsBalance(q, c)
        /\ LET posted == job[p].posted
           IN  IF posted = <<>>
               THEN job[p].newBalance = Greatest0(balance[c] + job[p].amount)
               ELSE /\ Chained(posted, balance[c])
                    /\ job[p].newBalance = posted[Len(posted)].after

RedemptionsOf(r) == {k \in Codes : /\ redemption[k] # NoRedemption
                                   /\ redemption[k].reward = r}

BurnsOf(k) == {i \in DOMAIN ledger : ledger[i].type = "burn" /\ ledger[i].code = k}

(* BurnCashbackTx takes the unit, the money, the entry and the redemption  *)
(* together or not at all, whoever redeems at the same time and whatever   *)
(* stock the admin sets.                                                   *)
RedemptionsAreAccounted ==
    /\ \A r \in Rewards :
        /\ reward[r].count = Cardinality(RedemptionsOf(r))
        /\ reward[r].stock # None => reward[r].count <= reward[r].stock
    /\ \A k \in Codes :
        /\ Cardinality(BurnsOf(k)) = IF redemption[k] = NoRedemption THEN 0 ELSE 1
        /\ \A i \in BurnsOf(k) : /\ ledger[i].client = redemption[k].client
                                 /\ ledger[i].amount = -redemption[k].amount

(* Two extracts of one ticket: what identifies it was read in both, and    *)
(* shows the same business, folio, day and total.  A date in none of the   *)
(* layouts is known again only when it is written the same.                *)
Shown(field) == IF field = NoText THEN NoText ELSE field.value

SameDate(d, e) == \/ d = e
                  \/ /\ NoText \notin {d, e} /\ d.value = e.value
                     /\ {d.form, e.form} \subseteq DateLayouts

SameTicket(x, y) ==
    /\ Identified(x) /\ Identified(y)
    /\ x.total = y.total
    /\ Shown(x.folio) = Shown(y.folio)
    /\ SameDate(x.date, y.date)
    /\ x.rfc = NoText <=> y.rfc = NoText
    /\ IF x.rfc = NoText THEN Shown(x.name) = Shown(y.name)
                         ELSE Shown(x.rfc) = Shown(y.rfc)

(* ComputeFingerprint and the receipt index: a ticket is credited once,    *)
(* however its photos were read, when it is sent several times at once.    *)
TicketCreditedOnce ==
    \A i, j \in DOMAIN ledger :
        (/\ NoExtract \notin {ledger[i].extract, ledger[j].extract}
         /\ SameTicket(ledger[i].extract, ledger[j].extract)) => i = j

(* The transaction of p commits a credit, and nothing another transaction  *)
(* has credited the client since p's SELECT.                               *)
CreditsAlone(p) ==
    /\ pc[p] = "insertEarn" /\ Len(ledger') > Len(ledger)
    /\ \A i \in DOMAIN ledger : Is(i, "earn", job[p].client) => i <= job[p].seen

(* AddCashbackTx with a cap per period: a credit that did not overlap with *)
(* another of the client leaves the period's total within the cap, also    *)
(* after credits that did, corrections, and changes of the cap.            *)
PeriodCapHolds ==
    [][\A p \in Procs : (CreditsAlone(p) /\ job[p].cap # None) =>
          Credited(ledger', job[p].client, job[p].day, job[p].window)
              <= job[p].cap]_vars

(* ExpireBalance: a credit is expired a second time only by a transaction  *)
(* that began before the first one committed.                              *)
ExpiredTwiceOnlyByOverlap ==
    [][\A p \in Procs : pc[p] = "commitExpired" /\ ledger' # ledger =>
          \A i \in DOMAIN job[p].posted, j \in DOMAIN ledger :
              (/\ ledger[j].type = "expiration"
               /\ ledger[j].ref = job[p].posted[i].ref) => j > job[p].seen]_vars

-----------------------------------------------------------------------------
(* What the documents say and the code does not do *)

(* The comment of AddCashbackTx: concurrent requests cannot exceed the cap *)
(* per period.  The SUM takes no lock, and neither transaction sees the    *)
(* other's credit.                                                         *)
PeriodCapIsNeverExceeded ==
    \A c \in Clients : config.maxPeriod # None =>
        Credited(ledger, c, today, WindowDays) <= config.maxPeriod

(* ExpiryDays is the number of days after which the balance of a credit    *)
(* expires.  What a client has spent is taken to be the oldest; what is    *)
(* left of credits younger than that stays.  ExpireBalance takes the whole *)
(* amount of the old credit, also when it had been spent.                  *)
Total(c, type, from) ==
    AmountOf(ledger, {i \in DOMAIN ledger : Is(i, type, c) /\ ledger[i].day >= from})

FreshCashbackSurvives ==
    \A c \in Clients : config.expiry # None =>
        LET fresh == Total(c, "earn", today - config.expiry)
            old == Total(c, "earn", 0) - fresh
            spent == -Total(c, "burn", 0)
        IN  balance[c] >= fresh - Greatest0(spent - old)

=============================================================================
