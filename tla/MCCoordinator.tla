--------------------------- MODULE MCCoordinator ---------------------------
EXTENDS Coordinator, TLC

Symmetric == Permutations(Evidence)
=============================================================================
