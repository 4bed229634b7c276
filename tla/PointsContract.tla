--------------------------- MODULE PointsContract ---------------------------
(***************************************************************************)
(* What the points program promises to the business and its clients, each  *)
(* operation in one step: the transactions of EarnBurn implement it.       *)
(***************************************************************************)
EXTENDS Integers, Sequences, FiniteSets

CONSTANTS
    Clients, Rewards, Codes, Collaborators, Nil, Unlimited,
    Costs,        \* points a reward may cost
    Stocks,       \* units a reward may have
    Credits,      \* points a purchase may give
    Corrections   \* differences a correction may apply

VARIABLES
    balance,      \* points of each client
    entries,      \* [client, amount] in the order they were posted
    reward,       \* cost, stock and count of each reward
    redemption    \* redemptions by code

vars == <<balance, entries, reward, redemption>>

NoRedemption == [status |-> "none"]

Greatest0(n) == IF n < 0 THEN 0 ELSE n

Post(c, n, rest) ==
    /\ balance' = [balance EXCEPT ![c] = rest]
    /\ entries' = Append(entries, [client |-> c, amount |-> n])

(* A purchase gives the client points. *)
Credit(c, n) ==
    /\ Post(c, n, balance[c] + n)
    /\ UNCHANGED <<reward, redemption>>

(* A correction gives or takes points, and takes no more than there are. *)
Correct(c, n) ==
    /\ Post(c, n, Greatest0(balance[c] + n))
    /\ UNCHANGED <<reward, redemption>>

(* A client trades points for one unit of a reward and gets a fresh code. *)
Redeem(c, r, k, cost) ==
    /\ balance[c] >= cost
    /\ reward[r].stock # Unlimited => reward[r].count < reward[r].stock
    /\ redemption[k] = NoRedemption
    /\ Post(c, -cost, balance[c] - cost)
    /\ reward' = [reward EXCEPT ![r].count = @ + 1]
    /\ redemption' = [redemption EXCEPT ![k] =
          [status |-> "pending", client |-> c, reward |-> r,
           points |-> cost, by |-> Nil]]

(* An employee confirms a redemption, once. *)
Confirm(k, w) ==
    /\ redemption[k].status = "pending"
    /\ redemption' = [redemption EXCEPT ![k].status = "confirmed", ![k].by = w]
    /\ UNCHANGED <<balance, entries, reward>>

(* The business changes a reward, never below what was redeemed of it. *)
SetReward(r, cost, stock) ==
    /\ stock # Unlimited => reward[r].count <= stock
    /\ reward' = [reward EXCEPT ![r].cost = cost, ![r].stock = stock]
    /\ UNCHANGED <<balance, entries, redemption>>

Init ==
    /\ balance = [c \in Clients |-> 0]
    /\ entries = <<>>
    /\ reward \in [Rewards -> {[cost |-> n, stock |-> s, count |-> 0] :
                                  n \in Costs, s \in Stocks}]
    /\ redemption = [k \in Codes |-> NoRedemption]

Next ==
    \/ \E c \in Clients :
        \/ \E n \in Credits : Credit(c, n)
        \/ \E n \in Corrections : Correct(c, n)
        \/ \E r \in Rewards, k \in Codes, cost \in Costs : Redeem(c, r, k, cost)
    \/ \E k \in Codes, w \in Collaborators : Confirm(k, w)
    \/ \E r \in Rewards, cost \in Costs, stock \in Stocks :
        SetReward(r, cost, stock)

Spec == Init /\ [][Next]_vars

=============================================================================
