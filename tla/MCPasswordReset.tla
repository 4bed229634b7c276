--------------------------- MODULE MCPasswordReset ---------------------------
(* Two admins, one registered in mixed case and so out of reach of the     *)
(* lower-cased lookup, which still counts the hits of its address; two     *)
(* tokens and two resets in a window, and a clock that passes both the     *)
(* lifetime of a token and the window.                                     *)
EXTENDS PasswordReset, TLC

CONSTANTS a1, a2, t1, t2, i1, p1, p2, ana, bea, Bea

MCAddressOf == (a1 :> ana) @@ (a2 :> Bea)
MCLower == (ana :> ana) @@ (bea :> bea) @@ (Bea :> bea)

MCSymmetry == Permutations(Tokens) \cup Permutations(Procs)
=============================================================================
