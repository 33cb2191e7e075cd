------------------------------- MODULE MCCache -------------------------------
(* Cache on a small instance whose clock is never set back: setting it back *)
(* is covered by the theorems of CacheProofs.                               *)
EXTENDS Cache

CONSTANTS k1, k2, k3, v1, v2, v3

Keys == {k1, k2, k3}
Values == {v1, v2, v3}

Forward == {1}
==============================================================================
