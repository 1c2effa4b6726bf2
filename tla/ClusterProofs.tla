---------------------------- MODULE ClusterProofs ----------------------------
(***************************************************************************)
(* Double-sign protection of the cluster, for every number of cosigners,   *)
(* every threshold above half of them, and any number of attempts.         *)
(***************************************************************************)
EXTENDS Cluster, FiniteSetTheorems, TLAPS

(* Before the first attempt nothing is signed and nothing is forgotten.     *)
LEMMA InitIInv == Init => IInv
<1> SUFFICES ASSUME Init
             PROVE  IInv
    OBVIOUS
<1>1. TypeOK
    BY DEF Init, TypeOK
<1>2. CosignersConsistent /\ SharesAreSigned /\ FullHasQuorum
    BY DEF Init, CosignersConsistent, SharesAreSigned, FullHasQuorum
<1> QED BY <1>1, <1>2 DEF IInv

(* An attempt is a record of its type whatever becomes of its fields.       *)
LEMMA AttemptTypes ==
    ASSUME NEW r \in Attempt, NEW s \in SUBSET Cosigners, NEW u \in SUBSET Cosigners
    PROVE  /\ [r EXCEPT !.asked = s, !.got = u] \in Attempt
           /\ [r EXCEPT !.asked = s, !.reserve = u] \in Attempt
           /\ [r EXCEPT !.asked = s, !.failed = TRUE] \in Attempt
<1>1. [r EXCEPT !.asked = s, !.got = u] \in Attempt
    BY Zenon DEF Attempt
<1>2. [r EXCEPT !.asked = s, !.reserve = u] \in Attempt
    BY DEF Attempt
<1>3. [r EXCEPT !.asked = s, !.failed = TRUE] \in Attempt
    BY DEF Attempt
<1> QED BY <1>1, <1>2, <1>3

(* The fields of an attempt under way that the invariant reads are typed.   *)
LEMMA IdleIsNoAttempt == \A r \in Attempt : r.vote \in Votes /\ r.got \subseteq Cosigners
BY DEF Attempt

(* Two sets of t cosigners with fewer than 2t - n forgetful ones between    *)
(* them have a member in common that remembers.                             *)
LEMMA QuorumsMeet ==
    ASSUME NEW Q \in SUBSET Cosigners, NEW R \in SUBSET Cosigners, NEW F \in SUBSET Cosigners,
           Cardinality(Q) >= Threshold, Cardinality(R) >= Threshold,
           Cardinality(F) < 2 * Threshold - Cardinality(Cosigners)
    PROVE  \E c \in Cosigners \ F : c \in Q /\ c \in R
<1>1. IsFiniteSet(Q) /\ IsFiniteSet(R) /\ IsFiniteSet(F) /\ IsFiniteSet(Q \cup R) /\ IsFiniteSet(Q \cap R)
    BY ThresholdAssumption, FS_Subset
<1>2. Cardinality(Q \cup R) <= Cardinality(Cosigners)
    BY ThresholdAssumption, FS_Subset
<1>3. Cardinality(Q \cup R) = Cardinality(Q) + Cardinality(R) - Cardinality(Q \cap R)
    BY <1>1, FS_Union
<1>4. /\ Cardinality(Q) \in Nat /\ Cardinality(R) \in Nat /\ Cardinality(F) \in Nat
      /\ Cardinality(Q \cup R) \in Nat /\ Cardinality(Q \cap R) \in Nat /\ Cardinality(Cosigners) \in Nat
    BY <1>1, ThresholdAssumption, FS_CardinalityType
<1>5. Cardinality(Q \cap R) > Cardinality(F)
    BY <1>2, <1>3, <1>4, ThresholdAssumption
<1>6. ~ (Q \cap R \subseteq F)
    BY <1>1, <1>4, <1>5, FS_Subset
<1> QED BY <1>6

(* More signers are still a quorum.                                         *)
LEMMA SignersGrow ==
    ASSUME TypeOK, signed' \in [Cosigners -> SUBSET Votes],
           \A c \in Cosigners : signed[c] \subseteq signed'[c],
           FullHasQuorum
    PROVE  \A v \in full : Cardinality(Signers(v)') >= Threshold
<1> SUFFICES ASSUME NEW v \in full
             PROVE  Cardinality(Signers(v)') >= Threshold
    OBVIOUS
<1>1. Signers(v) \subseteq Signers(v)' /\ Signers(v)' \subseteq Cosigners
    BY DEF Signers
<1>2. IsFiniteSet(Signers(v)')
    BY <1>1, ThresholdAssumption, FS_Subset
<1>3. IsFiniteSet(Signers(v)) /\ Cardinality(Signers(v)) <= Cardinality(Signers(v)')
    BY <1>1, <1>2, FS_Subset
<1>4. Cardinality(Signers(v)) \in Nat /\ Cardinality(Signers(v)') \in Nat
    BY <1>2, <1>3, FS_CardinalityType
<1> QED BY <1>3, <1>4, ThresholdAssumption DEF FullHasQuorum

(* A cosigner that keeps its promise stays consistent.                      *)
LEMMA ReleaseKeeps ==
    ASSUME IInv, NEW c \in Cosigners, NEW v \in Votes,
           c \in forgetful \/ Cosigner(c)!Compatible(v, signed[c]),
           signed' = [signed EXCEPT ![c] = @ \cup {v}], forgetful' = forgetful
    PROVE  /\ signed' \in [Cosigners -> SUBSET Votes]
           /\ CosignersConsistent'
           /\ \A d \in Cosigners : signed[d] \subseteq signed'[d]
           /\ v \in signed'[c]
<1>1. signed \in [Cosigners -> SUBSET Votes]
    BY DEF IInv, TypeOK
<1>2. c \in forgetful \/ \A w \in signed[c] : w.HRS = v.HRS => w.block = v.block
    BY DEF Cosigner!Compatible
<1>3. CosignersConsistent'
    <2> SUFFICES ASSUME NEW d \in Cosigners \ forgetful, NEW x \in signed'[d], NEW y \in signed'[d], x.HRS = y.HRS
                 PROVE  x.block = y.block
        BY DEF CosignersConsistent
    <2>1. CASE d # c
        BY <1>1, <2>1 DEF IInv, CosignersConsistent
    <2>2. CASE d = c
        BY <1>1, <1>2, <2>2 DEF IInv, CosignersConsistent
    <2> QED BY <2>1, <2>2
<1> QED BY <1>1, <1>3

(* Every step of an attempt, and the loss of a watermark, preserves the     *)
(* invariant.                                                               *)
LEMMA NextIInv == IInv /\ [Next]_vars => IInv'
<1> SUFFICES ASSUME IInv, [Next]_vars
             PROVE  IInv'
    OBVIOUS
<1> USE DEF IInv
<1>t. TypeOK /\ \A a \in Attempts : attempt[a] # Idle => attempt[a] \in Attempt
    BY DEF TypeOK
(* A step that only ends an attempt.                                        *)
<1>e. ASSUME NEW a \in Attempts, attempt' = [attempt EXCEPT ![a] = Idle], UNCHANGED <<signed, forgetful, full>>
      PROVE  IInv'
    <2>1. TypeOK'
        BY <1>e DEF TypeOK
    <2>2. SharesAreSigned'
        BY <1>e DEF SharesAreSigned, Signers, TypeOK
    <2> QED BY <1>e, <2>1, <2>2 DEF CosignersConsistent, FullHasQuorum, Signers
(* A step that changes who is asked, and perhaps adds a share already made. *)
<1>f. ASSUME NEW a \in Attempts, attempt[a] # Idle, NEW r \in Attempt, attempt' = [attempt EXCEPT ![a] = r],
             r.vote = attempt[a].vote, UNCHANGED <<forgetful, full>>,
             signed' \in [Cosigners -> SUBSET Votes], CosignersConsistent',
             \A d \in Cosigners : signed[d] \subseteq signed'[d],
             \A d \in r.got : d \in attempt[a].got \/ r.vote \in signed'[d]
      PROVE  IInv'
    <2>1. TypeOK'
        BY <1>f DEF TypeOK
    <2>2. SharesAreSigned'
        <3> SUFFICES ASSUME NEW b \in Attempts, attempt'[b] # Idle, NEW d \in attempt'[b].got
                     PROVE  d \in Cosigners /\ attempt'[b].vote \in signed'[d]
            BY DEF SharesAreSigned, Signers
        <3>1. CASE b = a
            <4>1. attempt'[b] = r
                BY <1>f, <3>1 DEF TypeOK
            <4>2. d \in Cosigners
                BY <1>f, <4>1, IdleIsNoAttempt
            <4>3. d \in attempt[a].got => r.vote \in signed[d]
                BY <1>f DEF SharesAreSigned, Signers
            <4> QED BY <1>f, <4>1, <4>2, <4>3
        <3>2. CASE b # a
            <4>1. attempt'[b] = attempt[b]
                BY <1>f, <3>2 DEF TypeOK
            <4>2. d \in Cosigners /\ attempt[b].vote \in signed[d]
                BY <4>1 DEF SharesAreSigned, Signers
            <4> QED BY <1>f, <4>1, <4>2
        <3> QED BY <3>1, <3>2
    <2>3. FullHasQuorum'
        BY <1>f, SignersGrow DEF FullHasQuorum
    <2> QED BY <1>f, <2>1, <2>2, <2>3
(* What FailOver makes of an attempt.                                       *)
<1>o. ASSUME NEW a \in Attempts, NEW c \in Cosigners, attempt[a] # Idle, FailOver(a, c)
      PROVE  \E r \in Attempt : /\ attempt' = [attempt EXCEPT ![a] = r]
                                /\ r.vote = attempt[a].vote /\ r.got = attempt[a].got
    <2> DEFINE q == attempt[a]
    <2>1. q \in Attempt /\ q.asked \subseteq Cosigners /\ q.reserve \subseteq Cosigners
        BY <1>t, <1>o DEF Attempt
    <2>2. ASSUME NEW d \in q.reserve,
                 attempt' = [attempt EXCEPT ![a].asked = (@ \ {c}) \cup {d}, ![a].reserve = @ \ {d}]
          PROVE  \E r \in Attempt : /\ attempt' = [attempt EXCEPT ![a] = r]
                                    /\ r.vote = attempt[a].vote /\ r.got = attempt[a].got
        <3> DEFINE r == [q EXCEPT !.asked = (@ \ {c}) \cup {d}, !.reserve = @ \ {d}]
        <3>0. (q.asked \ {c}) \cup {d} \in SUBSET Cosigners /\ q.reserve \ {d} \in SUBSET Cosigners
            BY <2>1, <2>2
        <3>1. r \in Attempt
            BY Zenon, <2>1, <3>0, AttemptTypes
        <3>3. r.vote = q.vote /\ r.got = q.got
            BY <2>1 DEF Attempt
        <3>2. attempt' = [attempt EXCEPT ![a] = r]
            BY Zenon, <2>2 DEF TypeOK
        <3> QED BY <3>1, <3>2, <3>3
    <2>3. ASSUME attempt' = [attempt EXCEPT ![a].asked = @ \ {c}, ![a].failed = TRUE]
          PROVE  \E r \in Attempt : /\ attempt' = [attempt EXCEPT ![a] = r]
                                    /\ r.vote = attempt[a].vote /\ r.got = attempt[a].got
        <3> DEFINE r == [q EXCEPT !.asked = @ \ {c}, !.failed = TRUE]
        <3>1. r \in Attempt /\ r.vote = q.vote /\ r.got = q.got
            BY Zenon, <2>1, AttemptTypes DEF Attempt
        <3>2. attempt' = [attempt EXCEPT ![a] = r]
            BY Zenon, <2>3 DEF TypeOK
        <3> QED BY <3>1, <3>2
    <2> QED BY Zenon, <1>o, <2>2, <2>3 DEF FailOver
<1>1. ASSUME NEW a \in Attempts, NEW l \in Cosigners, NEW v \in Votes, NEW chosen \in SUBSET Cosigners,
             NEW reserve \in SUBSET Cosigners, Begin(a, l, v, chosen, reserve)
      PROVE  IInv'
    <2> DEFINE r == [leader |-> l, vote |-> v, chosen |-> chosen, asked |-> chosen, reserve |-> reserve,
                     got |-> {}, failed |-> FALSE]
    <2>1. r \in Attempt /\ r.got = {}
        BY DEF Attempt
    <2> HIDE DEF r
    <2>2. attempt' = [attempt EXCEPT ![a] = r] /\ UNCHANGED <<signed, forgetful, full>>
        BY <1>1 DEF Begin, r
    <2>3. TypeOK'
        BY <2>1, <2>2 DEF TypeOK
    <2>4. SharesAreSigned'
        BY <2>1, <2>2 DEF SharesAreSigned, Signers, TypeOK
    <2> QED BY <2>2, <2>3, <2>4 DEF CosignersConsistent, FullHasQuorum, Signers
<1>2. ASSUME NEW a \in Attempts, NEW c \in Cosigners, ShareArrives(a, c)
      PROVE  IInv'
    <2> DEFINE q == attempt[a]
               r == [q EXCEPT !.asked = @ \ {c}, !.got = @ \cup {c}]
    <2>1. q # Idle /\ q \in Attempt /\ q.vote \in Votes /\ q.asked \subseteq Cosigners /\ q.got \subseteq Cosigners
        BY <1>t, <1>2 DEF ShareArrives, Attempt
    <2>2. r \in Attempt /\ r.vote = q.vote /\ r.got = q.got \cup {c}
        BY Zenon, <2>1, AttemptTypes DEF Attempt
    <2>3. attempt' = [attempt EXCEPT ![a] = r] /\ UNCHANGED <<forgetful, full>>
        BY <1>2 DEF ShareArrives, TypeOK
    <2>4. /\ signed' \in [Cosigners -> SUBSET Votes] /\ CosignersConsistent'
          /\ \A d \in Cosigners : signed[d] \subseteq signed'[d]
          /\ q.vote \in signed'[c]
        BY <1>2, <2>1, ReleaseKeeps DEF ShareArrives
    <2> QED BY <1>f, <2>1, <2>2, <2>3, <2>4
<1>3. ASSUME NEW a \in Attempts, NEW c \in Cosigners, ShareFails(a, c)
      PROVE  IInv'
    <2>1. attempt[a] # Idle /\ FailOver(a, c) /\ UNCHANGED <<signed, forgetful, full>>
        BY <1>3 DEF ShareFails
    <2>2. PICK r \in Attempt : attempt' = [attempt EXCEPT ![a] = r] /\ r.vote = attempt[a].vote /\ r.got = attempt[a].got
        BY <1>o, <2>1
    <2>3. signed' \in [Cosigners -> SUBSET Votes] /\ CosignersConsistent'
        BY <2>1 DEF TypeOK, CosignersConsistent
    <2> QED BY <1>f, <2>1, <2>2, <2>3
<1>4. ASSUME NEW a \in Attempts, NEW c \in Cosigners, ShareLost(a, c)
      PROVE  IInv'
    <2>1. attempt[a] # Idle /\ FailOver(a, c) /\ UNCHANGED <<forgetful, full>> /\ attempt[a].vote \in Votes
        BY <1>t, <1>4, IdleIsNoAttempt DEF ShareLost
    <2>2. PICK r \in Attempt : attempt' = [attempt EXCEPT ![a] = r] /\ r.vote = attempt[a].vote /\ r.got = attempt[a].got
        BY <1>o, <2>1
    <2>3. /\ signed' \in [Cosigners -> SUBSET Votes] /\ CosignersConsistent'
          /\ \A d \in Cosigners : signed[d] \subseteq signed'[d]
        BY <1>4, <2>1, ReleaseKeeps DEF ShareLost
    <2> QED BY <1>f, <2>1, <2>2, <2>3
<1>5. ASSUME NEW a \in Attempts, Combine(a)
      PROVE  IInv'
    <2>1. attempt[a] # Idle /\ attempt' = [attempt EXCEPT ![a] = Idle] /\ UNCHANGED <<signed, forgetful>>
        BY <1>5 DEF Combine
    <2>2. CASE full' = full
        BY <1>e, <2>1, <2>2
    <2>3. CASE Cardinality(attempt[a].got) >= Threshold /\ full' = full \cup {attempt[a].vote}
        <3> DEFINE v == attempt[a].vote
        <3>1. v \in Votes /\ attempt[a].got \subseteq Signers(v) /\ Signers(v) \subseteq Cosigners
            BY <1>t, <2>1, IdleIsNoAttempt DEF SharesAreSigned, Signers
        <3>2. IsFiniteSet(Signers(v)) /\ IsFiniteSet(attempt[a].got)
            BY <3>1, ThresholdAssumption, FS_Subset
        <3>3. Cardinality(attempt[a].got) <= Cardinality(Signers(v))
            BY <3>1, <3>2, FS_Subset
        <3>4. Cardinality(Signers(v)) >= Threshold
            BY <2>3, <3>2, <3>3, ThresholdAssumption, FS_CardinalityType
        <3>5. FullHasQuorum'
            BY <2>1, <2>3, <3>4 DEF FullHasQuorum, Signers
        <3>6. TypeOK'
            BY <2>1, <2>3, <3>1 DEF TypeOK
        <3>7. SharesAreSigned'
            BY <2>1 DEF SharesAreSigned, Signers, TypeOK
        <3> QED BY <2>1, <3>5, <3>6, <3>7 DEF CosignersConsistent
    <2> QED BY <1>5, <2>2, <2>3 DEF Combine
<1>6. ASSUME NEW a \in Attempts, GiveUp(a) \/ Crash(a)
      PROVE  IInv'
    BY <1>e, <1>6 DEF GiveUp, Crash
<1>7. ASSUME NEW c \in Cosigners, Forget(c)
      PROVE  IInv'
    BY <1>7 DEF Forget, TypeOK, CosignersConsistent, SharesAreSigned, FullHasQuorum, Signers
<1>8. CASE UNCHANGED vars
    BY <1>8 DEF vars, TypeOK, CosignersConsistent, SharesAreSigned, FullHasQuorum, Signers
<1>9. ASSUME NEW a \in Attempts, NEW l \in Cosigners, NEW v \in Votes, NEW chosen \in SUBSET Cosigners,
             CachedNonces(a, l, v, chosen) \/ getNoncesFallback(a, l, v, chosen)
      PROVE  IInv'
    <2>1. Begin(a, l, v, chosen, Cosigners \ chosen) \/ Begin(a, l, v, chosen, {})
        BY <1>9 DEF CachedNonces, getNoncesFallback
    <2> QED BY <1>1, <2>1
<1> QED BY <1>2, <1>3, <1>4, <1>5, <1>6, <1>7, <1>8, <1>9 DEF Next

(* No reachable state breaks the inductive invariant of the attempts.       *)
THEOREM InductiveInvariant == Spec => []IInv
BY InitIInv, NextIInv, PTL DEF Spec

(* Every reachable state of the attempts is well typed.                     *)
THEOREM TypeCorrectness == Spec => []TypeOK
<1>1. IInv => TypeOK
    BY DEF IInv
<1> QED BY InductiveInvariant, <1>1, PTL

(* Two conflicting signatures would take two quorums, which share a         *)
(* cosigner that remembers, and it has signed both.                         *)
LEMMA InvariantNoDoubleSign == IInv => NoDoubleSign
<1> SUFFICES ASSUME IInv, ~ TooForgetful, NEW v \in full, NEW w \in full, v.HRS = w.HRS
             PROVE  v.block = w.block
    BY DEF NoDoubleSign
<1>1. /\ Signers(v) \subseteq Cosigners /\ Signers(w) \subseteq Cosigners /\ forgetful \subseteq Cosigners
      /\ Cardinality(Signers(v)) >= Threshold /\ Cardinality(Signers(w)) >= Threshold
    BY DEF IInv, TypeOK, FullHasQuorum, Signers
<1>2. Cardinality(forgetful) < 2 * Threshold - Cardinality(Cosigners)
    <2>1. IsFiniteSet(forgetful)
        BY <1>1, ThresholdAssumption, FS_Subset
    <2>2. Cardinality(forgetful) \in Nat /\ Cardinality(Cosigners) \in Nat
        BY <2>1, ThresholdAssumption, FS_CardinalityType
    <2> QED BY <2>2, ThresholdAssumption DEF TooForgetful
<1>3. PICK c \in Cosigners \ forgetful : c \in Signers(v) /\ c \in Signers(w)
    BY <1>1, <1>2, QuorumsMeet
<1> QED BY <1>3 DEF IInv, CosignersConsistent, Signers

(* The validator never double signs: any number of attempts, run by any     *)
(* cosigners for any blocks, failing over, losing answers and dying at any  *)
(* point, never combine to valid signatures for two blocks at one height,   *)
(* round and step while fewer than 2t - n cosigners have lost their         *)
(* watermark.                                                               *)
THEOREM DoubleSignProtection == Spec => []NoDoubleSign
BY InductiveInvariant, InvariantNoDoubleSign, PTL

(* Forgetting is for good.                                                  *)
LEMMA ForgettingIsForGood ==
    ASSUME IInv, IInv', [Next]_vars, TooForgetful
    PROVE  TooForgetful'
<1>1. forgetful \subseteq forgetful'
    BY ZenonT(60) DEF Next, vars, CachedNonces, getNoncesFallback, Begin, ShareArrives, ShareFails, ShareLost,
           Combine, GiveUp, Crash, Forget
<1>2. IsFiniteSet(forgetful') /\ IsFiniteSet(forgetful)
    BY ThresholdAssumption, FS_Subset DEF IInv, TypeOK
<1>3. Cardinality(forgetful) <= Cardinality(forgetful')
    BY <1>1, <1>2, FS_Subset
<1>4. Cardinality(forgetful) \in Nat /\ Cardinality(forgetful') \in Nat /\ Cardinality(Cosigners) \in Nat
    BY <1>2, ThresholdAssumption, FS_CardinalityType
<1> QED BY <1>3, <1>4, ThresholdAssumption DEF TooForgetful

(* Full signatures are added one at a time, by Combine.                     *)
LEMMA FullGrowsByCombine ==
    ASSUME IInv, [Next]_vars, full' # full
    PROVE  forgetful' = forgetful /\ \E v \in Votes : full' = full \cup {v}
<1>1. ASSUME NEW a \in Attempts, Combine(a)
      PROVE  forgetful' = forgetful /\ \E v \in Votes : full' = full \cup {v}
    <2>1. attempt[a] \in Attempt
        BY <1>1 DEF IInv, TypeOK, Combine
    <2> QED BY <1>1, <2>1, IdleIsNoAttempt DEF Combine
<1>2. \E a \in Attempts : Combine(a)
    BY Zenon DEF Next, vars, CachedNonces, getNoncesFallback, Begin, ShareArrives, ShareFails, ShareLost,
           GiveUp, Crash, Forget
<1> QED BY <1>1, <1>2

(* The cluster of cosigners makes to the network the promise that each      *)
(* cosigner makes to the cluster.                                           *)
THEOREM ClusterKeepsPromise == Spec => KeepsPromise
<1>1. Init => Promise!Init
    <2> SUFFICES ASSUME Init
                 PROVE  full = {} /\ TooForgetful = FALSE
        BY DEF Promise!Init
    <2>1. Cardinality(forgetful) = 0
        BY FS_EmptySet DEF Init
    <2>2. Cardinality(Cosigners) \in Nat
        BY ThresholdAssumption, FS_CardinalityType
    <2>3. ~ TooForgetful
        BY <2>1, <2>2, ThresholdAssumption DEF TooForgetful
    <2> QED BY <2>3 DEF Init, TooForgetful
<1>2. IInv /\ IInv' /\ [Next]_vars => [Promise!Next]_(Promise!vars)
    <2> SUFFICES ASSUME IInv, IInv', [Next]_vars
                 PROVE  [Promise!Next]_(Promise!vars)
        OBVIOUS
    <2>b. TooForgetful \in BOOLEAN /\ TooForgetful' \in BOOLEAN
        BY DEF TooForgetful
    <2>1. CASE full' # full
        <3>1. PICK v \in Votes : forgetful' = forgetful /\ full' = full \cup {v}
            BY <2>1, FullGrowsByCombine
        <3>2. TooForgetful' = TooForgetful
            BY <3>1 DEF TooForgetful
        <3>3. NoDoubleSign'
            BY InvariantNoDoubleSign, PTL
        <3>4. TooForgetful \/ \A w \in full : w.HRS = v.HRS => w.block = v.block
            BY <3>1, <3>2, <3>3 DEF NoDoubleSign
        <3> QED BY <3>1, <3>2, <3>4 DEF Promise!Next, Promise!Release, Promise!Compatible
    <2>2. CASE full' = full
        <3>1. CASE TooForgetful' = TooForgetful
            BY <2>2, <3>1 DEF Promise!vars
        <3>2. CASE TooForgetful' # TooForgetful
            <4>1. TooForgetful' = TRUE
                BY <2>b, <3>2, ForgettingIsForGood
            <4> QED BY <2>2, <4>1 DEF Promise!Next, Promise!Forget
        <3> QED BY <3>1, <3>2
    <2> QED BY <2>1, <2>2
<1> QED BY <1>1, <1>2, InductiveInvariant, PTL DEF Spec, KeepsPromise, Promise!Spec
=============================================================================
