------------------------ MODULE MCThresholdSignature ------------------------
(* An instance of ThresholdSignature for TLC: the curve with d = 35 over    *)
(* the field of 2029 elements has 8 * 257 points.  Its scalars have nine    *)
(* bits, hence three radix-16 digits and a carry.                           *)
EXTENDS ThresholdSignature

CONSTANTS k1, k2

MCBase == <<1080, 14>>

Cosigner(id, addr, tls) == [ShardID |-> id, P2PAddr |-> addr, TLSPubKey |-> tls]
Config(t, cosigners, tls) ==
    [Threshold |-> t, Cosigners |-> cosigners, ClusterKeyFile |-> tls,
     ChainNodes |-> "ok", RaftTimeout |-> "ok", GRPCTimeout |-> "ok"]
Plain(n) == [i \in 1 .. n |-> Cosigner(n + 1 - i, "host", Nil)]

MCCoefficients(t) == {[i \in 1 .. t - 1 |-> 1], [i \in 1 .. t - 1 |-> (200 * i) % L]}

MCConfigs ==
    {Config(t, Plain(n), FALSE) : t \in 1 .. 3, n \in 1 .. 4}
    \cup {Config(2, <<Cosigner(1, "host", a), Cosigner(2, "host", b)>>, TRUE) : a \in {k1}, b \in {k1, k2, Nil}}
    \cup {Config(2, <<Cosigner(i, "host", Nil), Cosigner(j, addr, Nil)>>, FALSE) :
             i \in 0 .. 1, j \in 1 .. 3, addr \in {"host", "bad", "wildcard"}}
    \cup {[Config(2, Plain(2), FALSE) EXCEPT ![field] = "bad"] : field \in {"ChainNodes", "RaftTimeout", "GRPCTimeout"}}
=============================================================================
