--------------------------- MODULE MCConsentGate ---------------------------
(* ConsentGate on a small instance; see README.md for the bounds.           *)
EXTENDS ConsentGate, TLC

CONSTANTS generated, r1, r2

MCClientIds == {generated}
MCRequests == {r1, r2}
Symmetry == Permutations(MCRequests)

=============================================================================
