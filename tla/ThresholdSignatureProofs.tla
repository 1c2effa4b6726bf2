---------------------- MODULE ThresholdSignatureProofs ----------------------
(***************************************************************************)
(* What holds of a threshold signature for every configuration, threshold  *)
(* and number of cosigners: an accepted configuration is sound, and a      *)
(* combined signature is made by the cosigners whose nonces it uses.  Of   *)
(* the curve only NonceAssumption is used.                                 *)
(***************************************************************************)
EXTENDS ThresholdSignature, FiniteSetTheorems, TLAPS

(* The public nonce that a cosigner's partial signature is made with.       *)
NoncePub(id) == sumNonces(combinedNonces(Only(dealers \cup {id}, nonces, total)))

ConfigInv == cfg # Nil => cfg \in Configs /\ ValidateThresholdModeConfig(cfg)

(* Once an attempt has begun, threshold cosigners deal and as many sign.    *)
AttemptInv ==
    /\ digest = Nil => partials = <<>> /\ ~ Combined
    /\ digest # Nil =>
          /\ cfg # Nil
          /\ dealers \in kSubset(threshold, IDs) /\ signers \in kSubset(threshold, IDs)
          /\ DOMAIN nonces = IDs
          /\ \A id \in IDs : nonces[id] # Nil => nonces[id] \in AllNonces(cfg)

(* The nonces are all there before the first cosigner signs, and do not     *)
(* change any more.                                                         *)
PartialInv ==
    /\ partials \in Seq(Range(partials))
    /\ partials # <<>> => Unready = {}
    /\ \A i \in 1 .. Len(partials) :
          partials[i].ID \in signers /\ partials[i].noncePub = NoncePub(partials[i].ID)

(* Whoever was to sign has signed, with the same nonce.                     *)
CombinedInv == Combined => SameNonce /\ Signed = signers

IInv == ConfigInv /\ AttemptInv /\ PartialInv /\ CombinedInv

-----------------------------------------------------------------------------
(* A set of numbers that is not empty has a least member, and Min finds it. *)
LEMMA MinIsMember ==
    ASSUME NEW S \in SUBSET Nat, S # {}
    PROVE  Min(S) \in S
<1>. DEFINE R == {ss \in Nat \X Nat : ss[1] < ss[2]}
<1>1. IsWellFoundedOn(R, Nat)
  BY NatLessThanWellFounded, Zenon DEF OpToRel
<1>2. \A y, x \in Nat : y < x => <<y, x>> \in R
  BY Zenon
<1>. HIDE DEF R
<1>3. PICK x \in S : \A y \in S : ~ (<<y, x>> \in R)
  BY <1>1, WFMin, Zenon
<1>4. ASSUME NEW y \in S PROVE x <= y
  <2>1. ~ (y < x)
    BY <1>2, <1>3, Zenon
  <2>. QED
    BY <2>1
<1>. QED
  BY <1>4, Zenon DEF Min

(* An accepted configuration has at least one cosigner, and a threshold     *)
(* between half of them and all.                                            *)
LEMMA ConfigTypes ==
    ASSUME NEW c \in Configs, ValidateThresholdModeConfig(c)
    PROVE  /\ Len(c.Cosigners) \in Nat /\ DOMAIN c.Cosigners = 1 .. Len(c.Cosigners)
           /\ c.Threshold \in Nat /\ c.Threshold <= Len(c.Cosigners) /\ c.Threshold > 0
           /\ 2 * c.Threshold > Len(c.Cosigners)
<1>1. c.Threshold \in Int /\ c.Cosigners \in Seq(Range(c.Cosigners))
  BY ConfigAssumption
<1>2. c.Threshold > Len(c.Cosigners) \div 2 /\ Len(c.Cosigners) >= c.Threshold
  BY DEF ValidateThresholdModeConfig, ThresholdOK
<1>. DEFINE n == Len(c.Cosigners)
<1>3. n \in Nat /\ DOMAIN c.Cosigners = 1 .. n
  BY <1>1
<1>. HIDE DEF n
<1>4. c.Threshold > n \div 2 /\ n >= c.Threshold
  BY <1>2 DEF n
<1>5. c.Threshold > 0 /\ 2 * c.Threshold > n
  BY <1>1, <1>3, <1>4
<1>. QED
  BY <1>1, <1>3, <1>4, <1>5 DEF n

(* n distinct numbers between 1 and n are all of them.                      *)
LEMMA DistinctFillInterval ==
    ASSUME NEW n \in Nat, NEW f \in [1 .. n -> 1 .. n], IsInjective(f)
    PROVE  {f[i] : i \in 1 .. n} = 1 .. n
<1>1. IsFiniteSet(1 .. n)
  BY FS_Interval
<1>2. f \in Injection(1 .. n, 1 .. n)
  BY Zenon DEF Injection
<1>3. f \in Surjection(1 .. n, 1 .. n)
  BY <1>1, <1>2, FS_Injection, Zenon
<1>. QED
  BY <1>3, Zenon DEF Surjection

(* A list without duplicates has as many members as entries.                *)
LEMMA DistinctCount ==
    ASSUME NEW n \in Nat, NEW S, NEW f \in [1 .. n -> S], IsInjective(f)
    PROVE  Cardinality(Range(f)) = n
<1>1. IsFiniteSet(1 .. n) /\ Cardinality(1 .. n) = n
  BY FS_Interval
<1>2. f \in Surjection(1 .. n, Range(f)) /\ f \in Injection(1 .. n, Range(f))
  <2>1. f \in [1 .. n -> Range(f)]
    BY DEF Range
  <2>2. \A y \in Range(f) : \E i \in 1 .. n : f[i] = y
    BY Zenon DEF Range
  <2>. QED
    BY <2>1, <2>2, Zenon DEF Surjection, Injection
<1>. QED
  BY <1>1, <1>2, FS_Surjection, Zenon

(* The IDs of an accepted configuration are 1 to n, since there are n of    *)
(* them, between 1 and n, and no two are the same.                          *)
LEMMA IDsAreNumbers ==
    ASSUME ConfigInv, cfg # Nil
    PROVE  /\ total \in Nat /\ threshold \in Nat /\ threshold <= total /\ threshold > 0
           /\ 2 * threshold > total
           /\ IDs = 1 .. total
<1>1. cfg \in Configs /\ ValidateThresholdModeConfig(cfg)
  BY DEF ConfigInv
<1>2. /\ total \in Nat /\ threshold \in Nat /\ threshold <= total /\ threshold > 0
      /\ 2 * threshold > total /\ DOMAIN cfg.Cosigners = 1 .. total
  BY <1>1, ConfigTypes DEF total, threshold
<1>. DEFINE f == [i \in 1 .. total |-> cfg.Cosigners[i].ShardID]
<1>3. duplicateCosigners(cfg.Cosigners) = {} /\ \A i \in 1 .. total : cfg.Cosigners[i].ShardID \in 1 .. total
  BY <1>1, <1>2, Zenon DEF ValidateThresholdModeConfig, ValidateCosigners, total
<1>4. f \in [1 .. total -> 1 .. total]
  BY <1>3, Zenon
<1>5. IsInjective(f)
  <2>1. ASSUME NEW i \in 1 .. total, NEW j \in 1 .. total, i # j
        PROVE  cfg.Cosigners[i].ShardID # cfg.Cosigners[j].ShardID
    BY <1>2, <1>3, <2>1, Zenon DEF duplicateCosigners
  <2>. QED
    BY <2>1, Zenon DEF IsInjective
<1>6. {f[i] : i \in 1 .. total} = 1 .. total
  <2>. HIDE DEF f
  <2>. QED
    BY <1>2, <1>4, <1>5, DistinctFillInterval, Zenon
<1>7. {f[i] : i \in 1 .. total} = IDs
  BY Zenon DEF IDs
<1>. QED
  BY <1>2, <1>6, <1>7

(* Two sets of threshold cosigners have a member in common.                 *)
LEMMA QuorumsIntersect ==
    ASSUME ConfigInv, cfg # Nil, NEW S \in kSubset(threshold, IDs), NEW T \in kSubset(threshold, IDs)
    PROVE  S \cap T # {}
<1>1. /\ total \in Nat /\ threshold \in Nat /\ 2 * threshold > total /\ IDs = 1 .. total
  BY IDsAreNumbers
<1>2. IsFiniteSet(IDs) /\ Cardinality(IDs) = total
  BY <1>1, FS_Interval
<1>3. S \in SUBSET IDs /\ T \in SUBSET IDs /\ Cardinality(S) = threshold /\ Cardinality(T) = threshold
  BY Zenon DEF kSubset
<1>4. Cardinality(S) + Cardinality(T) > Cardinality(IDs)
  BY <1>1, <1>2, <1>3
<1>. QED
  BY <1>2, <1>3, <1>4, FS_MajoritiesIntersect, Zenon

(* An accepted configuration is sound.                                      *)
LEMMA AcceptedIsSound == ConfigInv => ConfigurationIsSound
<1>. SUFFICES ASSUME ConfigInv, cfg # Nil
              PROVE  /\ IDs = 1 .. total
                     /\ threshold <= total
                     /\ \A S, T \in kSubset(threshold, IDs) : S \cap T # {}
                     /\ cfg.ClusterKeyFile => Cardinality(Range(ClusterPeerPubKeys(cfg)) \ {Nil}) = total
  BY Zenon DEF ConfigurationIsSound
<1>1. total \in Nat /\ threshold <= total /\ IDs = 1 .. total
  BY IDsAreNumbers
<1>2. \A S, T \in kSubset(threshold, IDs) : S \cap T # {}
  BY QuorumsIntersect, Zenon
<1>3. ASSUME cfg.ClusterKeyFile
      PROVE  Cardinality(Range(ClusterPeerPubKeys(cfg)) \ {Nil}) = total
  <2>. DEFINE keys == ClusterPeerPubKeys(cfg)
  <2>1. Nil \notin Range(keys) /\ IsInjective(keys)
    BY <1>3, Zenon DEF ConfigInv, ValidateThresholdModeConfig
  <2>2. DOMAIN cfg.Cosigners = 1 .. total
    BY ConfigTypes, Zenon DEF ConfigInv, total
  <2>3. keys \in [1 .. total -> {cfg.Cosigners[i].TLSPubKey : i \in 1 .. total}]
    BY <2>2, Zenon DEF ClusterPeerPubKeys
  <2>. HIDE DEF keys
  <2>4. Cardinality(Range(keys)) = total
    BY <1>1, <2>1, <2>3, DistinctCount, Zenon
  <2>5. Range(keys) \ {Nil} = Range(keys)
    BY <2>1, Zenon
  <2>. QED
    BY <2>4, <2>5, Zenon DEF keys
<1>. QED
  BY <1>1, <1>2, <1>3, Zenon

-----------------------------------------------------------------------------
(* Before a configuration is read there is nothing.                         *)
LEMMA InitIInv == Init => IInv
<1>. SUFFICES ASSUME Init PROVE IInv
  OBVIOUS
<1>1. ConfigInv /\ AttemptInv /\ CombinedInv
  BY Zenon DEF Init, ConfigInv, AttemptInv, CombinedInv, Combined
<1>2. PartialInv
  BY DEF Init, PartialInv
<1>. QED
  BY <1>1, <1>2 DEF IInv

(* What the invariant says is about these variables.                        *)
LEMMA QuietStep ==
    ASSUME IInv, UNCHANGED <<cfg, dealers, signers, nonces, digest, partials, signature>>
    PROVE  IInv'
<1>1. total' = total /\ threshold' = threshold /\ IDs' = IDs
  BY Zenon DEF total, threshold, IDs
<1>2. Unready' = Unready /\ (\A id : NoncePub(id)' = NoncePub(id)) /\ Combined' = Combined
  BY <1>1, Zenon DEF Unready, NoncePub, Combined
<1>3. SameNonce' = SameNonce /\ Signed' = Signed
  BY Zenon DEF SameNonce, Signed
<1>4. ConfigInv'
  BY Zenon DEF IInv, ConfigInv
<1>5. AttemptInv'
  BY <1>1, <1>2, Zenon DEF IInv, AttemptInv
<1>6. PartialInv'
  BY <1>2, Zenon DEF IInv, PartialInv
<1>7. CombinedInv'
  BY <1>2, <1>3, Zenon DEF IInv, CombinedInv
<1>. QED
  BY <1>4, <1>5, <1>6, <1>7, Zenon DEF IInv

(* No partial signatures: there is nothing to say of them.                  *)
LEMMA NoPartials ==
    ASSUME partials' = <<>>, ~ Combined'
    PROVE  PartialInv' /\ CombinedInv'
<1>1. PartialInv'
  BY DEF PartialInv
<1>. QED
  BY <1>1, Zenon DEF CombinedInv

(* A configuration is read before any attempt.                              *)
LEMMA ConfigureStep ==
    ASSUME IInv, NEW c \in Configs, Configure(c)
    PROVE  IInv'
<1>1. digest = Nil
  BY Zenon DEF IInv, AttemptInv, Configure
<1>2. partials = <<>> /\ ~ Combined
  BY <1>1, Zenon DEF IInv, AttemptInv
<1>3. partials' = <<>> /\ ~ Combined' /\ digest' = Nil
  BY <1>1, <1>2, Zenon DEF Configure, Combined
<1>4. ConfigInv'
  BY Zenon DEF Configure, ConfigInv
<1>5. AttemptInv'
  BY <1>3, Zenon DEF AttemptInv
<1>. QED
  BY <1>3, <1>4, <1>5, NoPartials, Zenon DEF IInv

(* An attempt begins without nonces and without partial signatures.         *)
LEMMA AttemptStep ==
    ASSUME IInv, cfg # Nil, NEW D \in SUBSET IDs, NEW S \in SUBSET IDs, NEW h, Attempt(D, S, h)
    PROVE  IInv'
<1>1. partials' = <<>> /\ ~ Combined'
  BY Zenon DEF IInv, AttemptInv, Attempt, Combined
<1>2. total' = total /\ threshold' = threshold /\ IDs' = IDs /\ cfg' = cfg
  BY Zenon DEF Attempt, total, threshold, IDs
<1>3. D \in kSubset(threshold, IDs) /\ S \in kSubset(threshold, IDs)
  BY Zenon DEF kSubset, Attempt
<1>4. dealers' = D /\ signers' = S /\ DOMAIN nonces' = IDs /\ \A id \in IDs : nonces'[id] = Nil
  BY Zenon DEF Attempt
<1>5. AttemptInv'
  BY <1>1, <1>2, <1>3, <1>4, Zenon DEF AttemptInv
<1>6. ConfigInv'
  BY <1>2, Zenon DEF IInv, ConfigInv
<1>. QED
  BY <1>1, <1>5, <1>6, NoPartials, Zenon DEF IInv

(* A cosigner generates its nonces once, before anyone signs.               *)
LEMMA GenerateNoncesStep ==
    ASSUME IInv, digest # Nil, Unready # {}, NEW id, NEW secret \in Secrets,
           NEW random \in Coefficients(threshold), GenerateNonces(id, secret, random)
    PROVE  IInv'
<1>1. /\ total' = total /\ threshold' = threshold /\ IDs' = IDs
      /\ Combined' = Combined /\ SameNonce' = SameNonce /\ Signed' = Signed
  BY Zenon DEF GenerateNonces, total, threshold, IDs, Combined, SameNonce, Signed
<1>2. partials' = <<>>
  BY Zenon DEF IInv, PartialInv, GenerateNonces
<1>3. Nonces(secret, random, total) \in AllNonces(cfg) /\ cfg' = cfg
  BY DEF AllNonces, total, threshold, GenerateNonces
<1>4. DOMAIN nonces = IDs /\ \A x \in IDs : nonces[x] # Nil => nonces[x] \in AllNonces(cfg)
  BY Zenon DEF IInv, AttemptInv
<1>5. DOMAIN nonces' = IDs /\ \A x \in IDs : nonces'[x] # Nil => nonces'[x] \in AllNonces(cfg)
  BY <1>3, <1>4, Zenon DEF GenerateNonces
<1>6. AttemptInv'
  BY <1>1, <1>3, <1>5, Zenon DEF IInv, AttemptInv, GenerateNonces
<1>7. ConfigInv'
  BY Zenon DEF IInv, ConfigInv, GenerateNonces
<1>8. PartialInv'
  BY <1>2 DEF PartialInv
<1>9. CombinedInv'
  BY <1>1, Zenon DEF IInv, CombinedInv, GenerateNonces
<1>. QED
  BY <1>6, <1>7, <1>8, <1>9, Zenon DEF IInv

(* A partial signature is added.                                            *)
LEMMA AppendPartial ==
    ASSUME NEW s, NEW x, s \in Seq(Range(s))
    PROVE  /\ Append(s, x) \in Seq(Range(Append(s, x)))
           /\ Len(Append(s, x)) = Len(s) + 1 /\ Len(s) \in Nat
           /\ \A i \in 1 .. Len(s) : Append(s, x)[i] = s[i]
           /\ Append(s, x)[Len(s) + 1] = x
<1>. DEFINE S == Range(s) \cup {x}
<1>1. s \in Seq(S)
  BY DEF Range
<1>. HIDE DEF S
<1>2. x \in S
  BY DEF S
<1>3. /\ Append(s, x) \in Seq(S) /\ Len(Append(s, x)) = Len(s) + 1 /\ Len(s) \in Nat
      /\ \A i \in 1 .. Len(s) : Append(s, x)[i] = s[i]
      /\ Append(s, x)[Len(s) + 1] = x
  BY <1>1, <1>2
<1>4. Append(s, x) \in Seq(Range(Append(s, x)))
  BY <1>3 DEF Range
<1>. QED
  BY <1>3, <1>4

(* A cosigner adds its partial signature to the others, made with the sum   *)
(* of the dealers' nonces and its own.                                      *)
LEMMA SignStep ==
    ASSUME IInv, digest # Nil, Unready = {}, NEW id \in signers \ Signed, Sign(id)
    PROVE  IInv'
<1>1. /\ cfg' = cfg /\ dealers' = dealers /\ signers' = signers /\ nonces' = nonces
      /\ digest' = digest /\ signature' = signature
  BY Zenon DEF Sign
<1>2. /\ total' = total /\ threshold' = threshold /\ IDs' = IDs /\ Combined' = Combined /\ Unready' = Unready
      /\ \A x : NoncePub(x)' = NoncePub(x)
  <2>1. total' = total /\ threshold' = threshold /\ IDs' = IDs /\ Combined' = Combined
    BY <1>1, Zenon DEF total, threshold, IDs, Combined
  <2>. QED
    BY <1>1, <2>1, Zenon DEF Unready, NoncePub
<1>3. PICK p : partials' = Append(partials, p) /\ p.ID = id /\ p.noncePub = NoncePub(id)
  <2>. DEFINE held == combinedNonces(Only(dealers \cup {id}, nonces, total))
              share == AddScalars([i \in DOMAIN held |-> held[i].Shares[id]])
              p == [ID |-> id, noncePub |-> sumNonces(held), sig |-> SignWithShare(shards[id], share, sumNonces(held))]
  <2>1. partials' = Append(partials, p)
    BY Zenon DEF Sign
  <2>2. p.ID = id /\ p.noncePub = NoncePub(id)
    BY Zenon DEF NoncePub
  <2>. HIDE DEF p
  <2>. QED
    BY <2>1, <2>2, Zenon
<1>4. ~ Combined
  BY Zenon DEF IInv, CombinedInv
<1>5. ConfigInv' /\ CombinedInv'
  BY <1>1, <1>2, <1>4, Zenon DEF IInv, ConfigInv, CombinedInv
<1>6. AttemptInv'
  BY <1>1, <1>2, Zenon DEF IInv, AttemptInv
<1>7. PartialInv'
  <2>1. partials \in Seq(Range(partials))
    BY Zenon DEF IInv, PartialInv
  <2>. DEFINE new == partials'
  <2>2. /\ new \in Seq(Range(new)) /\ Len(new) = Len(partials) + 1 /\ Len(partials) \in Nat
        /\ \A i \in 1 .. Len(partials) : new[i] = partials[i]
        /\ new[Len(partials) + 1] = p
    <3>1. new = Append(partials, p)
      BY <1>3, Zenon
    <3>2. /\ Append(partials, p) \in Seq(Range(Append(partials, p)))
          /\ Len(Append(partials, p)) = Len(partials) + 1 /\ Len(partials) \in Nat
          /\ \A i \in 1 .. Len(partials) : Append(partials, p)[i] = partials[i]
          /\ Append(partials, p)[Len(partials) + 1] = p
      BY <2>1, AppendPartial
    <3>. HIDE DEF new
    <3>. QED
      BY <3>1, <3>2, Zenon
  <2>3. ASSUME NEW i \in 1 .. Len(partials')
        PROVE  partials'[i].ID \in signers /\ partials'[i].noncePub = NoncePub(partials'[i].ID)
    <3>1. i \in 1 .. Len(partials) \/ i = Len(partials) + 1
      BY <2>2
    <3>2. CASE i \in 1 .. Len(partials)
      BY <2>2, <3>2, Zenon DEF IInv, PartialInv
    <3>3. CASE i = Len(partials) + 1
      BY <1>3, <2>2, <3>3, Zenon
    <3>. QED
      BY <3>1, <3>2, <3>3, Zenon
  <2>. QED
    BY <1>1, <1>2, <2>2, <2>3, Zenon DEF PartialInv
<1>. QED
  BY <1>5, <1>6, <1>7, Zenon DEF IInv

(* A signature comes out only of partial signatures with one public nonce.  *)
LEMMA CombineStep ==
    ASSUME IInv, digest # Nil, signers = Signed, CombineSignatures
    PROVE  IInv'
<1>1. UNCHANGED <<cfg, dealers, signers, nonces, digest, partials>>
  BY Zenon DEF CombineSignatures
<1>2. /\ total' = total /\ threshold' = threshold /\ IDs' = IDs
      /\ SameNonce' = SameNonce /\ Signed' = Signed
  BY <1>1, Zenon DEF total, threshold, IDs, SameNonce, Signed
<1>3. Unready' = Unready /\ \A id : NoncePub(id)' = NoncePub(id)
  BY <1>1, <1>2, Zenon DEF Unready, NoncePub
<1>4. ConfigInv' /\ AttemptInv'
  BY <1>1, <1>2, Zenon DEF IInv, ConfigInv, AttemptInv
<1>5. PartialInv'
  BY <1>1, <1>3, Zenon DEF IInv, PartialInv
<1>6. CombinedInv'
  <2>1. ~ SameNonce => signature' = Refused
    BY Zenon DEF CombineSignatures
  <2>. QED
    BY <1>1, <1>2, <2>1, Zenon DEF CombinedInv, Combined
<1>. QED
  BY <1>4, <1>5, <1>6, Zenon DEF IInv

(* Whoever signs next is one of the signers.                                *)
LEMMA NextSigner ==
    ASSUME IInv, digest # Nil, signers \ Signed # {}
    PROVE  Min(signers \ Signed) \in signers \ Signed
<1>1. signers \subseteq IDs /\ cfg # Nil /\ ConfigInv
  BY Zenon DEF IInv, AttemptInv, kSubset
<1>2. IDs \subseteq Nat
  BY <1>1, IDsAreNumbers
<1>3. signers \ Signed \in SUBSET Nat
  BY <1>1, <1>2, Zenon
<1>. QED
  BY <1>3, MinIsMember, Zenon

(* Every step keeps the invariant.                                          *)
LEMMA NextIInv == IInv /\ [Next]_vars => IInv'
<1>. SUFFICES ASSUME IInv, [Next]_vars PROVE IInv'
  OBVIOUS
<1>1. ASSUME NEW c \in Configs, Configure(c) PROVE IInv'
  BY <1>1, ConfigureStep
<1>2. ASSUME NEW hash, NEW random, CreateCosignerEd25519Shards(hash, random) PROVE IInv'
  BY <1>2, QuietStep, Zenon DEF CreateCosignerEd25519Shards
<1>3. ASSUME cfg # Nil, NEW D \in SUBSET IDs, NEW S \in SUBSET IDs, NEW h, Attempt(D, S, h) PROVE IInv'
  BY <1>3, AttemptStep, Zenon
<1>4. ASSUME digest # Nil, Unready # {}, NEW id, NEW secret \in Secrets, NEW random \in Coefficients(threshold),
             GenerateNonces(id, secret, random)
      PROVE  IInv'
  BY <1>4, GenerateNoncesStep, Zenon
<1>5. ASSUME digest # Nil, Unready = {}, signers \ Signed # {}, Sign(Min(signers \ Signed)) PROVE IInv'
  BY <1>5, NextSigner, SignStep, Zenon
<1>6. ASSUME digest # Nil, signers = Signed, CombineSignatures PROVE IInv'
  BY <1>6, CombineStep, Zenon
<1>7. ASSUME UNCHANGED vars PROVE IInv'
  BY <1>7, QuietStep, Zenon DEF vars
<1>8. Done => UNCHANGED vars
  BY Zenon DEF Done
<1>. QED
  BY <1>1, <1>2, <1>3, <1>4, <1>5, <1>6, <1>7, <1>8, Zenon DEF Next

-----------------------------------------------------------------------------
(* The invariant holds from the configuration to the combined signature.    *)
THEOREM InductiveInvariant == Spec => []IInv
BY InitIInv, NextIInv, PTL DEF Spec

(* Whatever an operator writes, a configuration in use has the cosigners    *)
(* 1 to n, quorums that meet, and with mutual TLS one identity for each     *)
(* (ValidateThresholdModeConfig).                                           *)
THEOREM ConfigurationsAreSound == Spec => []ConfigurationIsSound
<1>1. IInv => ConfigurationIsSound
  BY AcceptedIsSound, Zenon DEF IInv
<1>. QED
  BY <1>1, InductiveInvariant, PTL

(* A cosigner that is no dealer signs with another nonce than the dealers.  *)
LEMMA OutsiderDiffers ==
    ASSUME IInv, digest # Nil, Unready = {}, NEW x \in signers \cap dealers, NEW y \in signers \ dealers
    PROVE  NoncePub(x) # NoncePub(y)
<1>1. cfg \in Configs /\ ValidateThresholdModeConfig(cfg) /\ cfg # Nil /\ ConfigInv
  BY Zenon DEF IInv, ConfigInv, AttemptInv
<1>2. IDs = 1 .. total /\ total = Len(cfg.Cosigners)
  BY <1>1, IDsAreNumbers DEF total
<1>3. /\ dealers \subseteq 1 .. total /\ signers \subseteq 1 .. total
      /\ \A id \in 1 .. total : nonces[id] # Nil => nonces[id] \in AllNonces(cfg)
  BY <1>2, Zenon DEF IInv, AttemptInv, kSubset
<1>4. \A id \in dealers \cup signers : nonces[id] \in AllNonces(cfg)
  BY <1>3, Zenon DEF Unready
<1>. DEFINE list == [i \in 1 .. total |-> IF i \in dealers \cup signers THEN nonces[i] ELSE nonces[x]]
<1>5. list \in [1 .. total -> AllNonces(cfg)]
  BY <1>4, Zenon
<1>6. ASSUME NEW ids \in SUBSET (dealers \cup signers)
      PROVE  Only(ids, list, total) = Only(ids, nonces, total)
  BY <1>3, Zenon DEF Only
<1>. HIDE DEF list
<1>7. dealers \cup {x} = dealers
  BY Zenon
<1>8. y \in (1 .. total) \ dealers
  BY <1>3, Zenon
<1>9. sumNonces(combinedNonces(Only(dealers \cup {y}, list, total)))
      # sumNonces(combinedNonces(Only(dealers, list, total)))
  BY <1>1, <1>2, <1>3, <1>5, <1>8, NonceAssumption, Zenon
<1>10. NoncePub(x) = sumNonces(combinedNonces(Only(dealers, list, total)))
  <2>1. Only(dealers, list, total) = Only(dealers, nonces, total)
    BY <1>6, Zenon
  <2>. QED
    BY <1>7, <2>1, Zenon DEF NoncePub
<1>11. NoncePub(y) = sumNonces(combinedNonces(Only(dealers \cup {y}, list, total)))
  <2>1. Only(dealers \cup {y}, list, total) = Only(dealers \cup {y}, nonces, total)
    BY <1>6, Zenon
  <2>. QED
    BY <2>1, Zenon DEF NoncePub
<1>. QED
  BY <1>9, <1>10, <1>11, Zenon

(* A combined signature is made by the cosigners whose nonces it uses: the  *)
(* signers and the dealers meet, so an outsider among the signers would     *)
(* have used a nonce that differs from another signer's, and                *)
(* CombineSignatures compares them.                                         *)
THEOREM CombinedByDealers == Spec => []SignersAreDealers
<1>1. ASSUME IInv, Combined PROVE signers = dealers
  <2>1. digest # Nil /\ SameNonce /\ Signed = signers
    BY <1>1, Zenon DEF IInv, AttemptInv, CombinedInv
  <2>2. /\ cfg # Nil /\ ConfigInv
        /\ dealers \in kSubset(threshold, IDs) /\ signers \in kSubset(threshold, IDs)
    BY <1>1, <2>1, Zenon DEF IInv, AttemptInv
  <2>3. PICK x : x \in signers \cap dealers
    BY <2>2, QuorumsIntersect, Zenon
  <2>4. Unready = {}
    BY <1>1, <2>1, <2>3 DEF IInv, PartialInv, Signed
  <2>5. ASSUME NEW y \in signers PROVE NoncePub(y) = partials[1].noncePub
    <3>1. PICK i \in DOMAIN partials : partials[i].ID = y
      BY <2>1, Zenon DEF Signed
    <3>2. i \in 1 .. Len(partials)
      BY <1>1, <3>1 DEF IInv, PartialInv
    <3>. QED
      BY <1>1, <2>1, <3>1, <3>2, Zenon DEF IInv, PartialInv, SameNonce
  <2>6. signers \subseteq dealers
    BY <1>1, <2>1, <2>3, <2>4, <2>5, OutsiderDiffers, Zenon
  <2>7. IsFiniteSet(dealers) /\ Cardinality(dealers) = Cardinality(signers)
    <3>1. IsFiniteSet(IDs)
      BY <2>2, IDsAreNumbers, FS_Interval
    <3>. QED
      BY <2>2, <3>1, FS_Subset, Zenon DEF kSubset
  <2>. QED
    BY <2>6, <2>7, FS_Subset, Zenon
<1>2. IInv => SignersAreDealers
  BY <1>1, Zenon DEF SignersAreDealers
<1>. QED
  BY <1>2, InductiveInvariant, PTL
=============================================================================
