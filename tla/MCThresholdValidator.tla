------------------------ MODULE MCThresholdValidator ------------------------
(* Instances of ThresholdValidator for TLC.                                 *)
EXTENDS ThresholdValidator, TLC

CONSTANTS a, b, nilBlock, x1, x2, t1, t2

At(h, r, s) == [Height |-> h, Round |-> r, Step |-> s]

Req(hrs, block, ts, x) == [HRS |-> hrs, SignBytes |-> [block |-> block, stamp |-> ts], Ext |-> x]

(* A precommit with an extension, its repeat with another timestamp and     *)
(* another extension, and the proposal of the next height.                  *)
MixedRequests ==
    {Req(At(1, 0, 3), a, 1, x1), Req(At(1, 0, 3), a, 2, x2), Req(At(2, 0, 1), a, 1, Nil)}

(* What other leaders sign meanwhile: the precommit for nil, or another     *)
(* block's proposal at the next height.                                     *)
LeaderVotes == {Req(At(1, 0, 3), nilBlock, 1, x1), Req(At(2, 0, 1), b, 2, Nil)}

(* A prevote and its repeat with another timestamp.                         *)
RepeatRequests == {Req(At(1, 0, 2), a, 1, Nil), Req(At(1, 0, 2), a, 2, Nil)}

None == {}

ThreadSymmetry == Permutations(Threads)
=============================================================================
