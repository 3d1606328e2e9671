--------------------------- MODULE MCTransaction ---------------------------
EXTENDS Transaction, TLC

\* Every action on every target, on the evidence of one fingerprint; the other
\* fingerprints are what later evidence reads may show instead.
OneFingerprint == {k \in Keys : k.fp = CHOOSE f \in Fingerprints : TRUE}

Symmetric == Permutations(Workers)
=============================================================================
