----------------------------- MODULE MCPushcard -----------------------------
(* Finite instances of Pushcard for TLC. *)
EXTENDS Pushcard, TLC

CONSTANTS c1, c2, w1, w2, k1, k2, p1, p2

(* Clients, employees, codes and handlers are interchangeable. *)
MCSymmetry == Permutations(Clients) \cup Permutations(Collaborators)
                  \cup Permutations(Codes) \cup Permutations(Procs)

=============================================================================
