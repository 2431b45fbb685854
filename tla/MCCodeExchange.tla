--------------------------- MODULE MCCodeExchange ---------------------------
(* CodeExchange on a small instance; see README.md for the bounds.          *)
EXTENDS CodeExchange, TLC

CONSTANTS generated, walkup, h1, h2, k1, v1, v2

MCClientIds == {generated, walkup}
MCWalkUpIds == {walkup}
MCHandlers == {h1, h2}
MCVerifiers == {v1, v2}
Symmetry == Permutations(MCHandlers) \cup Permutations(MCVerifiers)

=============================================================================
