-------------------------- MODULE MCLocalCosigner --------------------------
(* Instances of LocalCosigner for TLC, with threshold two,                  *)
(* so that a share needs one contribution besides the cosigner's own.       *)
EXTENDS LocalCosigner, TLC

CONSTANTS a, b, nilBlock, x1, x2, u1, u2, t1, t2, p2, p3, me

At(h, r, s) == [Height |-> h, Round |-> r, Step |-> s]

Bytes(block, stamp) == [block |-> block, stamp |-> stamp]

SignReq(hrs, bytes, u) ==
    [kind |-> "sign", HRS |-> hrs, SignBytes |-> bytes, Ext |-> Nil,
     UUID |-> u, VoteExtUUID |-> Nil, From |-> {p2}]

ExtReq(hrs, bytes, u, x, v) == [SignReq(hrs, bytes, u) EXCEPT !.Ext = x, !.VoteExtUUID = v]

LSS(hrs, bytes) ==
    [kind |-> "lss", HRS |-> hrs, SignBytes |-> bytes, Ext |-> Nil,
     UUID |-> Nil, VoteExtUUID |-> Nil, From |-> {}]

(* A precommit with an extension, its repeat with another timestamp and     *)
(* extension, which takes for its vote the nonce round the first takes for  *)
(* its extension, a precommit for another block, and an LSS event of a      *)
(* later round.                                                             *)
ExtRequests ==
    {ExtReq(At(1, 0, 3), Bytes(a, 1), u1, x1, u2), ExtReq(At(1, 0, 3), Bytes(a, 2), u2, x2, u1),
     ExtReq(At(1, 0, 3), Bytes(b, 1), u2, x1, u1), LSS(At(1, 1, 2), Bytes(b, 1))}

(* Two blocks at one HRS before and after a restart, and a later round.  A  *)
(* nonce round is generated anew under its UUID once it is used.            *)
RestartRequests ==
    {SignReq(At(1, 0, 2), Bytes(a, 1), u1), SignReq(At(1, 0, 2), Bytes(b, 1), u1),
     LSS(At(1, 1, 2), Bytes(a, 1))}

(* Votes for two blocks at one HRS, the first requests a process receives.  *)
FirstRequests ==
    {SignReq(At(1, 0, 2), Bytes(a, 1), u1), SignReq(At(1, 0, 2), Bytes(b, 1), u2)}

(* A vote at each of two rounds and a conflicting vote at the second.       *)
StopRequests ==
    {SignReq(At(1, 0, 2), Bytes(a, 1), u1), SignReq(At(1, 1, 2), Bytes(a, 1), u2),
     SignReq(At(1, 1, 2), Bytes(b, 1), u1)}

ThreadSymmetry == Permutations(Threads)
=============================================================================
