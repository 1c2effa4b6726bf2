--------------------------- MODULE CosignerPromise ---------------------------
(***************************************************************************)
(* What one cosigner promises the cluster, whatever happens inside it: it  *)
(* never releases shares for two blocks at one height, round and step,     *)
(* until it has forgotten its watermark.  LocalCosigner implements this    *)
(* and Cluster is built on it.                                             *)
(***************************************************************************)
CONSTANT Votes   \* what a share can be for: records with an HRS and a block

VARIABLES
    signed,      \* the votes for which shares have been released
    forgetful    \* the watermark was lost at some time

vars == <<signed, forgetful>>

Compatible(v, votes) == \A w \in votes : w.HRS = v.HRS => w.block = v.block

Init == signed = {} /\ forgetful = FALSE

Release(v) ==
    /\ forgetful \/ Compatible(v, signed)
    /\ signed' = signed \cup {v}
    /\ UNCHANGED forgetful

Forget ==
    /\ forgetful' = TRUE
    /\ UNCHANGED signed

Next == (\E v \in Votes : Release(v)) \/ Forget

Spec == Init /\ [][Next]_vars
=============================================================================
