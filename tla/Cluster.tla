------------------------------- MODULE Cluster -------------------------------
(***************************************************************************)
(* The cosigners of one validator and the signing attempts made with them  *)
(* (ThresholdValidator.Sign, signer/threshold_validator.go, from the       *)
(* choice of cosigners to the combined signature).  A raft leader runs     *)
(* several attempts at a time, and a node that has lost the leadership     *)
(* carries on with its own, so attempts of several nodes overlap and two   *)
(* of them may be for different blocks.  Each cosigner is known by its     *)
(* promise alone, which LocalCosigner implements.  Neither raft nor the    *)
(* leader's own sign state takes part: what is shown here is that they are *)
(* "not required for double sign protection", as Sign says of ShareSigned. *)
(***************************************************************************)
EXTENDS Integers, FiniteSets

CONSTANTS
    Cosigners,   \* the n cosigners
    Threshold,   \* the t shares a signature takes
    Votes,       \* what may be signed: records with an HRS and a block
    Attempts,    \* attempts that may be under way at one time
    MaxForgets   \* bound: cosigners that lose their watermark

(* docs/signing.md requires t > n/2, and so does config validation.         *)
ASSUME ThresholdAssumption ==
    /\ IsFiniteSet(Cosigners)
    /\ Threshold \in Nat /\ Threshold <= Cardinality(Cosigners)
    /\ 2 * Threshold > Cardinality(Cosigners)
    /\ MaxForgets \in Nat

VARIABLES
    signed,      \* the votes each cosigner has released shares for
    forgetful,   \* the cosigners that have lost their watermark at some time
    attempt,     \* each attempt's state
    full         \* the votes for which a full signature exists

vars == <<signed, forgetful, attempt, full>>

Cosigner(c) == INSTANCE CosignerPromise WITH signed <- signed[c], forgetful <- c \in forgetful

(* An attempt: the leader and the vote, the cosigners whose nonces are used, *)
(* those being asked for a share, those held in reserve, those whose shares *)
(* have come, and whether some goroutine has returned an error.             *)
Attempt ==
    [leader : Cosigners, vote : Votes, chosen : SUBSET Cosigners, asked : SUBSET Cosigners,
     reserve : SUBSET Cosigners, got : SUBSET Cosigners, failed : BOOLEAN]

Idle == [leader |-> "none"]

Init ==
    /\ signed = [c \in Cosigners |-> {}]
    /\ forgetful = {}
    /\ attempt = [a \in Attempts |-> Idle]
    /\ full = {}

(* Fault: the attempt does not record who runs it.                          *)
BeginUnled(a, l, v, chosen, reserve) ==
    /\ attempt[a] = Idle
    /\ attempt' = [attempt EXCEPT ![a] =
          [leader |-> Idle.leader, vote |-> v, chosen |-> chosen, asked |-> chosen, reserve |-> reserve,
           got |-> {}, failed |-> FALSE]]
    /\ UNCHANGED <<signed, forgetful, full>>

(* An attempt at vote v starts on node l.                                   *)
Begin(a, l, v, chosen, reserve) ==
    /\ attempt[a] = Idle
    /\ attempt' = [attempt EXCEPT ![a] =
          [leader |-> l, vote |-> v, chosen |-> chosen, asked |-> chosen, reserve |-> reserve,
           got |-> {}, failed |-> FALSE]]
    /\ UNCHANGED <<signed, forgetful, full>>

(* The leader and its t - 1 fastest peers, when the nonce cache has nonces  *)
(* of them all; the other peers are the reserve.                            *)
CachedNonces(a, l, v, chosen) ==
    /\ l \in chosen /\ Cardinality(chosen) = Threshold
    /\ Begin(a, l, v, chosen, Cosigners \ chosen)

(* getNoncesFallback: the first t cosigners to answer, the leader or not,   *)
(* and no reserve.                                                          *)
getNoncesFallback(a, l, v, chosen) ==
    /\ Cardinality(chosen) = Threshold
    /\ Begin(a, l, v, chosen, {})

(* Fault: the cosigner signs without a look at its watermark.               *)
ShareArrivesUnchecked(a, c) ==
    /\ attempt[a] # Idle /\ c \in attempt[a].asked
    /\ signed' = [signed EXCEPT ![c] = @ \cup {attempt[a].vote}]
    /\ attempt' = [attempt EXCEPT ![a].asked = @ \ {c}, ![a].got = @ \cup {c}]
    /\ UNCHANGED <<forgetful, full>>

(* SetNoncesAndSign succeeds and its answer arrives.                        *)
ShareArrives(a, c) ==
    /\ attempt[a] # Idle /\ c \in attempt[a].asked
    /\ c \in forgetful \/ Cosigner(c)!Compatible(attempt[a].vote, signed[c])
    /\ signed' = [signed EXCEPT ![c] = @ \cup {attempt[a].vote}]
    /\ attempt' = [attempt EXCEPT ![a].asked = @ \ {c}, ![a].got = @ \cup {c}]
    /\ UNCHANGED <<forgetful, full>>

(* What the leader does about an error: its own ends the attempt, a peer's  *)
(* is made up for by the next fastest peer while there is one.              *)
FailOver(a, c) ==
    \/ /\ c # attempt[a].leader
       /\ \E d \in attempt[a].reserve :
             attempt' = [attempt EXCEPT ![a].asked = (@ \ {c}) \cup {d}, ![a].reserve = @ \ {d}]
    \/ /\ c = attempt[a].leader \/ attempt[a].reserve = {}
       /\ attempt' = [attempt EXCEPT ![a].asked = @ \ {c}, ![a].failed = TRUE]

(* The cosigner refuses, cannot be reached or has lost the nonces.          *)
ShareFails(a, c) ==
    /\ attempt[a] # Idle /\ c \in attempt[a].asked
    /\ FailOver(a, c)
    /\ UNCHANGED <<signed, forgetful, full>>

(* The cosigner signs, but its answer is lost or comes after the deadline.  *)
ShareLost(a, c) ==
    /\ attempt[a] # Idle /\ c \in attempt[a].asked
    /\ c \in forgetful \/ Cosigner(c)!Compatible(attempt[a].vote, signed[c])
    /\ signed' = [signed EXCEPT ![c] = @ \cup {attempt[a].vote}]
    /\ FailOver(a, c)
    /\ UNCHANGED <<forgetful, full>>

(* Fault: one share too few is enough.                                      *)
CombineTooFew(a) ==
    /\ attempt[a] # Idle /\ attempt[a].asked = {}
    /\ Cardinality(attempt[a].got) >= Threshold - 1
    /\ full' = full \cup {attempt[a].vote}
    /\ attempt' = [attempt EXCEPT ![a] = Idle]
    /\ UNCHANGED <<signed, forgetful>>

(* Every goroutine has returned a share: with enough of them they are       *)
(* combined and verified.  Shares made with nonces of other cosigners than  *)
(* the chosen ones may fail to verify.                                      *)
Combine(a) ==
    /\ attempt[a] # Idle /\ attempt[a].asked = {} /\ ~ attempt[a].failed
    /\ \/ /\ Cardinality(attempt[a].got) >= Threshold
          /\ full' = full \cup {attempt[a].vote}
       \/ /\ Cardinality(attempt[a].got) < Threshold \/ attempt[a].got # attempt[a].chosen
          /\ UNCHANGED full
    /\ attempt' = [attempt EXCEPT ![a] = Idle]
    /\ UNCHANGED <<signed, forgetful>>

(* Some goroutine returned an error.                                        *)
GiveUp(a) ==
    /\ attempt[a] # Idle /\ attempt[a].asked = {} /\ attempt[a].failed
    /\ attempt' = [attempt EXCEPT ![a] = Idle]
    /\ UNCHANGED <<signed, forgetful, full>>

(* The node running the attempt dies.                                       *)
Crash(a) ==
    /\ attempt[a] # Idle
    /\ attempt' = [attempt EXCEPT ![a] = Idle]
    /\ UNCHANGED <<signed, forgetful, full>>

(* A cosigner loses its watermark.                                          *)
Forget(c) ==
    /\ Cardinality(forgetful) < MaxForgets
    /\ forgetful' = forgetful \cup {c}
    /\ UNCHANGED <<signed, attempt, full>>

Next ==
    \/ \E a \in Attempts :
          \/ \E l \in Cosigners, v \in Votes, chosen \in SUBSET Cosigners :
                CachedNonces(a, l, v, chosen) \/ getNoncesFallback(a, l, v, chosen)
          \/ \E c \in Cosigners : ShareArrives(a, c) \/ ShareFails(a, c) \/ ShareLost(a, c)
          \/ Combine(a) \/ GiveUp(a) \/ Crash(a)
    \/ \E c \in Cosigners : Forget(c)

Spec == Init /\ [][Next]_vars

-----------------------------------------------------------------------------
(* The cosigners, the attempts and the full signatures have their types.    *)
TypeOK ==
    /\ signed \in [Cosigners -> SUBSET Votes]
    /\ forgetful \subseteq Cosigners
    /\ attempt \in [Attempts -> Attempt \cup {Idle}]
    /\ full \subseteq Votes

(* Any two sets of t cosigners share at least 2t - n: fewer forgetful ones  *)
(* than that leave one in both that remembers.                              *)
TooForgetful == Cardinality(forgetful) >= 2 * Threshold - Cardinality(Cosigners)

(* The validator never double signs: whatever attempts overlap, fail over,  *)
(* lose answers or die, CombineSignatures never yields valid signatures for *)
(* two blocks at one height, round and step, as long as fewer than 2t - n   *)
(* cosigners have lost their watermark.                                     *)
NoDoubleSign == ~ TooForgetful => \A v, w \in full : v.HRS = w.HRS => v.block = w.block

(* The cluster as a whole keeps the promise its cosigners make: every step  *)
(* of Sign makes a full signature that is compatible with the others, or    *)
(* is invisible, unless too many cosigners have forgotten.                  *)
Promise == INSTANCE CosignerPromise WITH signed <- full, forgetful <- TooForgetful

KeepsPromise == Promise!Spec

-----------------------------------------------------------------------------
(* The inductive invariant: who has signed what.                            *)
Signers(v) == {c \in Cosigners : v \in signed[c]}

CosignersConsistent ==
    \A c \in Cosigners \ forgetful : \A v, w \in signed[c] : v.HRS = w.HRS => v.block = w.block

SharesAreSigned ==
    \A a \in Attempts : attempt[a] # Idle => attempt[a].got \subseteq Signers(attempt[a].vote)

FullHasQuorum == \A v \in full : Cardinality(Signers(v)) >= Threshold

IInv == TypeOK /\ CosignersConsistent /\ SharesAreSigned /\ FullHasQuorum
=============================================================================
