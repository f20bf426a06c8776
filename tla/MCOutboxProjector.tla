------------------------- MODULE MCOutboxProjector -------------------------
EXTENDS OutboxProjector, TLC

CONSTANTS p1, p2

Symmetric == Permutations(Projectors)
=============================================================================
