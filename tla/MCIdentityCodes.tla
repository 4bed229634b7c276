--------------------------- MODULE MCIdentityCodes ---------------------------
(* One client of two programs and another of one of them would not meet:   *)
(* two programs and two clients give every pair of holders that can share  *)
(* something, and four draws from three codes let a code be drawn again for *)
(* another holder while its first one has a stale tracker.                  *)
EXTENDS IdentityCodes, TLC

CONSTANTS eb, cb, c1, c2, k1, k2, k3, p1, p2

MCPrograms == {eb, cb}
MCClients == {c1, c2}
MCCodes == {k1, k2, k3}
MCProcs == {p1, p2}

MCSymmetry == Permutations(MCClients) \cup Permutations(MCCodes)
                  \cup Permutations(MCProcs)
=============================================================================
