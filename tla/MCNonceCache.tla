---------------------------- MODULE MCNonceCache ----------------------------
(* An instance of NonceCache for TLC.                                       *)
EXTENDS NonceCache

CONSTANTS p1, p2
=============================================================================
