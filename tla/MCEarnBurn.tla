----------------------------- MODULE MCEarnBurn -----------------------------
(* Finite instances of EarnBurn for TLC. *)
EXTENDS EarnBurn, TLC

CONSTANTS c1, c2, w1, w2, k1, k2, p1, p2

(* w1 has no client record; w2 is registered as a client with the number   *)
(* of c2.                                                                  *)
MCOwnClients == [w \in Collaborators |-> IF w = w2 THEN {c2} \cap Clients ELSE {}]

(* Codes and handlers are interchangeable. *)
MCSymmetry == Permutations(Codes) \cup Permutations(Procs)

=============================================================================
