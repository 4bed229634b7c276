----------------------------- MODULE MCCashback -----------------------------
(* Finite instances of Cashback for TLC. *)
EXTENDS Cashback, TLC

CONSTANTS c1, c2, w1, w2, k1, k2, p1, p2

(* w1 has no client record; w2 is a client with the number of c2. *)
MCOwnClients == [w \in Collaborators |-> IF w = w2 THEN {c2} \cap Clients ELSE {}]

(* Two photos of one ticket, whose date was read in two layouts.           *)
MCText(v, f) == [value |-> v, form |-> f]
MCTicket(form) ==
    Extract(TRUE, MCText("rfc", "upper"), NoText, MCText("folio", "plain"),
            MCText("day", form), 300)
MCExtracts == {MCTicket("dmy"), MCTicket("slashes")}

(* 1 % with all limits, and an update that keeps the rate and lifts them. *)
MCConfig(rate, expiry, min, tx, period) ==
    [rate |-> rate, expiry |-> expiry, minTicket |-> min, maxTx |-> tx,
     maxPeriod |-> period]
MCCapped == {MCConfig(100, 1, 100, 2, 3)}
MCChanging == {MCConfig(100, 1, 100, 2, 3), MCConfig(0, None, None, None, None)}

MCSymmetry == Permutations(Codes) \cup Permutations(Procs)

=============================================================================
