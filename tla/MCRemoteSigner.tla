--------------------------- MODULE MCRemoteSigner ---------------------------
(* An instance of RemoteSigner for TLC.                                     *)
EXTENDS RemoteSigner

CONSTANTS s1, s2, a, b, ping

(* A vote and one in conflict with it.                                     *)
MCVotes == {[HRS |-> 1, block |-> a], [HRS |-> 1, block |-> b]}
=============================================================================
