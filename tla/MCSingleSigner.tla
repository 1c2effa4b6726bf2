--------------------------- MODULE MCSingleSigner ---------------------------
(* An instance of SingleSigner for TLC: two blocks at one HRS, one of them  *)
(* with two timestamps, a payload that cannot be read, and an operator who  *)
(* sets the state of that height.                                           *)
EXTENDS SingleSigner, TLC

CONSTANTS p1, p2, t1, t2, v1, v2, a, b

MCHRS(height, step) == [Height |-> height, Round |-> 0, Step |-> step]
MCRequest(block, stamp, valid) ==
    [HRS |-> MCHRS(2, 3), bytes |-> [block |-> block, stamp |-> stamp], ext |-> TRUE, valid |-> valid]
MCRequests == {MCRequest(a, 1, TRUE), MCRequest(a, 2, TRUE), MCRequest(b, 1, TRUE), MCRequest(b, 1, FALSE)}
MCStates == {MCHRS(2, 0)}
Symmetric == Permutations({p1, p2}) \cup Permutations({t1, t2}) \cup Permutations({v1, v2})
=============================================================================
