--------------------------- MODULE MCDevicePairing ---------------------------
EXTENDS DevicePairing, TLC
CONSTANTS s1, s2, b
OneBoard == (s1 :> {b}) @@ (s2 :> {b})
Symmetry == Permutations({s1, s2})
=============================================================================
