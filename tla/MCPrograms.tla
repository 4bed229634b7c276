----------------------------- MODULE MCPrograms ------------------------------
(* A program that is created in one transaction and one that takes two     *)
(* requests; two tabs, one of which may be the wizard or an API client.    *)
EXTENDS Programs, TLC

CONSTANTS t1, t2

MCSymmetry == Permutations(Tabs)
=============================================================================
