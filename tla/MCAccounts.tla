------------------------------ MODULE MCAccounts ------------------------------
(* Two businesses and two admins, each with a Google account of the same   *)
(* address; two slugs and two attempts, so that a drawn slug can be taken, *)
(* drawn twice, or taken between the check and the insert.                 *)
EXTENDS Accounts, TLC

CONSTANTS a1, a2, c1, c2, ana, bea, s1, s2, g1, g2, p1, p2

MCEmailOf == (g1 :> ana) @@ (g2 :> bea)

(* An address changes places with its Google account. *)
SwapOwners == (ana :> bea) @@ (bea :> ana) @@ (g1 :> g2) @@ (g2 :> g1)

MCSymmetry == {SwapOwners} \cup Permutations(AdminIds) \cup Permutations(CustomerIds)
                  \cup Permutations(Slugs) \cup Permutations(Procs)
=============================================================================
