------------------------- MODULE ThresholdSignature -------------------------
(***************************************************************************)
(* A threshold signature from the configuration to the combined signature: *)
(* signer/config.go, signer/cosigner_key_shares.go, signer/tsed25519 and   *)
(* signer/threshold_signer_soft.go, over the curve of Edwards25519.        *)
(* Scalars are the numbers that 32 bytes stand for; what SHA-512 and the   *)
(* random source return is any member of a small set.  int64 has WordBits  *)
(* bits.                                                                   *)
(***************************************************************************)
EXTENDS Edwards25519

CONSTANTS
    Nil, Refused,
    Configs,    \* what an operator may write in the configuration file
    Hashes,     \* what the seed of a key is hashed to
    Coefficients(_), \* the coefficients that rand.Int may return, for a threshold
    Secrets,    \* what rand.Read may return for a nonce (no multiple of L)
    Digests,    \* what a message is hashed to
    WordBits    \* bits of an int64

VARIABLES
    cfg,         \* the configuration in use
    key,         \* the expanded secret of the validator's key
    pubKey,      \* its public key
    shards,      \* the cosigners' key shards, by ID
    dealers,     \* the cosigners whose nonces the signing attempt uses
    signers,     \* those that sign: another one may have taken a dealer's place
    nonces,      \* what each cosigner has generated: secret (history), PubKey and Shares
    digest,      \* the hash of the message
    partials,    \* the partial signatures
    signature    \* the combined signature, or Refused

vars == <<cfg, key, pubKey, shards, dealers, signers, nonces, digest, partials, signature>>

Init ==
    /\ cfg = Nil /\ key = Nil /\ pubKey = Nil /\ shards = <<>> /\ dealers = {} /\ signers = {}
    /\ nonces = <<>> /\ digest = Nil /\ partials = <<>> /\ signature = Nil

-----------------------------------------------------------------------------
(* A cosigner's ShardID, address and TLS key; an address may be unparsable  *)
(* ("bad") or not reachable from others ("wildcard"), a key may be missing. *)
duplicateCosigners(cosigners) ==
    {i \in DOMAIN cosigners : \E j \in DOMAIN cosigners \ {i} : cosigners[i].ShardID = cosigners[j].ShardID}

ValidateCosigners(cosigners) ==
    /\ duplicateCosigners(cosigners) = {}
    /\ \A i \in DOMAIN cosigners :
          cosigners[i].ShardID \in 1 .. Len(cosigners) /\ cosigners[i].P2PAddr \notin {"bad", "wildcard"}

ClusterPeerPubKeys(c) == [i \in DOMAIN c.Cosigners |-> c.Cosigners[i].TLSPubKey]

(* Fault: half of the cosigners are enough.                                 *)
ThresholdHalf(threshold, numShards) == threshold >= numShards \div 2 /\ threshold > 0

ThresholdOK(threshold, numShards) == threshold > numShards \div 2

ValidateThresholdModeConfig(c) ==
    LET numShards == Len(c.Cosigners)
        keys == ClusterPeerPubKeys(c)
    IN  /\ c.ChainNodes # "bad"
        /\ ThresholdOK(c.Threshold, numShards)
        /\ numShards >= c.Threshold
        /\ c.RaftTimeout # "bad" /\ c.GRPCTimeout # "bad"
        /\ ValidateCosigners(c.Cosigners)
        /\ c.ClusterKeyFile => Nil \notin Range(keys) /\ IsInjective(keys)

threshold == cfg.Threshold
total == Len(cfg.Cosigners)
IDs == {cfg.Cosigners[i].ShardID : i \in 1 .. total}

-----------------------------------------------------------------------------
(* The clamped hash of a seed: a multiple of 8, between 1/4 and 1/2 of the  *)
(* range.                                                                   *)
ExpandSecret(hash) == 2^(Bits - 2) + ((8 * (hash \div 8)) % 2^(Bits - 2))

(* Fault: the sums are not reduced.                                         *)
HornerUnreduced(coeffs, x) ==
    FoldLeft(LAMBDA s, j : s * x + coeffs[Len(coeffs) - j], coeffs[Len(coeffs)], [j \in 1 .. Len(coeffs) - 1 |-> j])

(* The polynomial at x, from the last coefficient down.                     *)
Horner(coeffs, x) ==
    FoldLeft(LAMBDA s, j : (s * x + coeffs[Len(coeffs) - j]) % L, coeffs[Len(coeffs)],
             [j \in 1 .. Len(coeffs) - 1 |-> j])

(* Fault: the first share is the polynomial at 0.                           *)
DealSharesFromZero(secret, random, n) == [i \in 1 .. n |-> Horner(<<secret>> \o random, i - 1)]

(* DealShares, with the random coefficients as an argument.                 *)
DealShares(secret, random, n) == [i \in 1 .. n |-> Horner(<<secret>> \o random, i)]

ScalarMultiplyBase(scalar) == ToBytes(GeScalarMultBase(ScReduce(scalar)))

AddScalars(scalars) == FoldLeft(LAMBDA s, x : s + x, 0, scalars) % L

(* The sum of points, from zero, skipping elements of no length.            *)
AddElements(elements) ==
    LET AddElement[out \in Coordinates, e \in Nat] == GeAdd(FromBytes(e).p, ToCached(ToExtended(out)))
        sum == FoldLeft(LAMBDA out, e : IF e = Nil THEN out ELSE AddElement[out, e],
                        GeMixedAdd(ExtendedZero, PreComputedZero), elements)
    IN  ToBytes(ToExtended(sum))

-----------------------------------------------------------------------------
(* Integers of WordBits bits, and Go's division, which truncates.           *)
Word(x) == ((x + 2^(WordBits - 1)) % 2^WordBits) - 2^(WordBits - 1)
Abs(x) == IF x < 0 THEN -x ELSE x
Quotient(x, y) == IF (x < 0) = (y < 0) THEN Abs(x) \div Abs(y) ELSE -(Abs(x) \div Abs(y))

Factorial(n) == FoldLeft(LAMBDA f, i : f * i, 1, [i \in 1 .. n |-> i])

Others(ids, id) == SelectSeq(ids, LAMBDA j : j # id)

(* Fault: the quotients are taken first, and are not exact.                 *)
calcOmegaQuotients(id, ids, delta) ==
    LET quotient == FoldLeft(LAMBDA r, j : Quotient(r, j - id), Word(delta), Others(ids, id) \o Others(ids, id))
    IN  FoldLeft(LAMBDA r, j : Word(r * j), quotient, Others(ids, id))

(* delta times the Lagrange coefficient of id, at 0.                        *)
calcOmega(id, ids, delta) ==
    LET product == FoldLeft(LAMBDA r, j : Word(r * j), Word(delta), Others(ids, id))
    IN  FoldLeft(LAMBDA r, j : Quotient(r, j - id), product, Others(ids, id))

ModInverse(x) == CHOOSE y \in 1 .. L - 1 : (x * y) % L = 1

CombineShares(n, ids, shares) ==
    LET delta == Factorial(n)
        secret == FoldLeft(LAMBDA s, k : s + ((shares[k] * calcOmega(ids[k], ids, delta)) % L), 0,
                           [k \in DOMAIN ids |-> k])
    IN  (secret * ModInverse(delta % L)) % L

(* The hash depends on the nonce as well as on the message.                 *)
Hash(noncePub) == ScReduce(digest + noncePub)

SignWithShare(share, nonceShare, noncePub) == ScMulAdd(Hash(noncePub), share, nonceShare)

-----------------------------------------------------------------------------
(* What a cosigner generates: one nonce, dealt to the n cosigners.          *)
Nonces(secret, random, n) ==
    [secret |-> secret, PubKey |-> ScalarMultiplyBase(secret), Shares |-> DealShares(secret, random, n)]

(* The list of nonces by ID, with none for those that are not in ids.       *)
Only(ids, list, n) == [i \in 1 .. n |-> IF i \in ids THEN list[i] ELSE Nil]

(* The nonces of a list that has gaps.                                      *)
combinedNonces(list) == SelectSeq(list, LAMBDA nonce : nonce # Nil)

(* Their public sum.                                                        *)
sumNonces(held) == AddElements([i \in DOMAIN held |-> held[i].PubKey])

(* What a cosigner may generate.                                            *)
AllNonces(c) ==
    {Nonces(secret, random, Len(c.Cosigners)) : secret \in Secrets, random \in Coefficients(c.Threshold)}

(* No nonce is a multiple of L, so one more of them moves their sum on the  *)
(* curve.                                                                   *)
ASSUME NonceAssumption ==
    \A c \in Configs : ValidateThresholdModeConfig(c) =>
        LET n == Len(c.Cosigners)
        IN  \A list \in [1 .. n -> AllNonces(c)], ids \in SUBSET (1 .. n) : \A id \in (1 .. n) \ ids :
                sumNonces(combinedNonces(Only(ids \cup {id}, list, n))) # sumNonces(combinedNonces(Only(ids, list, n)))

(* Cosigners come as a list, and the uint8 that ThresholdSignerSoft keeps   *)
(* their number in holds it.                                                *)
ASSUME ConfigAssumption ==
    \A c \in Configs :
        c.Threshold \in Int /\ c.Cosigners \in Seq(Range(c.Cosigners)) /\ Len(c.Cosigners) < 256

-----------------------------------------------------------------------------
(* A threshold validator is made from a configuration that is valid.        *)
Configure(c) ==
    /\ cfg = Nil /\ ValidateThresholdModeConfig(c)
    /\ cfg' = c
    /\ UNCHANGED <<key, pubKey, shards, dealers, signers, nonces, digest, partials, signature>>

(* CreateCosignerEd25519Shards, called with the threshold and the number of *)
(* cosigners that the operator has configured.                              *)
CreateCosignerEd25519Shards(hash, random) ==
    /\ cfg # Nil /\ key = Nil
    /\ key' = ExpandSecret(hash)
    /\ pubKey' = ScalarMultiplyBase(ExpandSecret(hash))
    /\ shards' = DealShares(ExpandSecret(hash), random, total)
    /\ UNCHANGED <<cfg, dealers, signers, nonces, digest, partials, signature>>

(* A message is to be signed with the nonces of D, by S: a cosigner that    *)
(* fails is replaced by the next fastest.                                   *)
Attempt(D, S, h) ==
    /\ key # Nil /\ digest = Nil
    /\ Cardinality(D) = threshold /\ Cardinality(S) = threshold
    /\ dealers' = D /\ signers' = S /\ digest' = h
    /\ nonces' = [id \in IDs |-> Nil]
    /\ UNCHANGED <<cfg, key, pubKey, shards, partials, signature>>

(* The cosigners that take part and have no nonces yet.  One that signs     *)
(* without having any refuses (setNonce).                                   *)
Unready == {id \in dealers \cup signers : nonces[id] = Nil}

GenerateNonces(id, secret, random) ==
    /\ nonces' = [nonces EXCEPT ![id] = Nonces(secret, random, total)]
    /\ UNCHANGED <<cfg, key, pubKey, shards, dealers, signers, digest, partials, signature>>

(* ThresholdSignerSoft.Sign by the next cosigner, with what it holds: the   *)
(* dealers' nonces, which came with the request, and those it generated     *)
(* itself.                                                                  *)
Sign(id) ==
    LET held == combinedNonces(Only(dealers \cup {id}, nonces, total))
        nonceShare == AddScalars([i \in DOMAIN held |-> held[i].Shares[id]])
        noncePub == sumNonces(held)
    IN  /\ Len(held) >= threshold /\ ScMinimal(nonceShare)
        /\ partials' = Append(partials, [ID |-> id, noncePub |-> noncePub,
                                         sig |-> SignWithShare(shards[id], nonceShare, noncePub)])
        /\ UNCHANGED <<cfg, key, pubKey, shards, dealers, signers, nonces, digest, signature>>

Signed == {partials[i].ID : i \in DOMAIN partials}

(* Fault: the nonces of the partial signatures are not compared.            *)
SameNonceAny == TRUE

SameNonce == \A i \in DOMAIN partials : partials[i].noncePub = partials[1].noncePub

CombineSignatures ==
    LET ids == [i \in DOMAIN partials |-> partials[i].ID]
        sigs == [i \in DOMAIN partials |-> partials[i].sig]
    IN  /\ signature = Nil
        /\ signature' = IF SameNonce THEN [R |-> partials[1].noncePub, S |-> CombineShares(total, ids, sigs)]
                        ELSE Refused
        /\ UNCHANGED <<cfg, key, pubKey, shards, dealers, signers, nonces, digest, partials>>

Done == signature # Nil /\ UNCHANGED vars

Next ==
    \/ \E c \in Configs : Configure(c)
    \/ \E hash \in Hashes : cfg # Nil /\ \E random \in Coefficients(threshold) : CreateCosignerEd25519Shards(hash, random)
    \/ cfg # Nil /\ \E D, S \in SUBSET IDs, h \in Digests : Attempt(D, S, h)
    \/ /\ digest # Nil /\ Unready # {}
       /\ \E secret \in Secrets, random \in Coefficients(threshold) : GenerateNonces(Min(Unready), secret, random)
    \/ digest # Nil /\ Unready = {} /\ signers \ Signed # {} /\ Sign(Min(signers \ Signed))
    \/ digest # Nil /\ signers = Signed /\ CombineSignatures
    \/ Done

Spec == Init /\ [][Next]_vars

-----------------------------------------------------------------------------
(* With a single cosigner a share is the secret itself, and not reduced.    *)
Scalars == 0 .. (IF cfg = Nil \/ threshold > 1 THEN L ELSE 16^Digits) - 1

Points == {2^YBits * FeIsNegative(Times(n)[1]) + Times(n)[2] : n \in 0 .. L - 1}

(* Every variable has its type: shards and shares are scalars, and public   *)
(* nonces are encoded members of the group.                                 *)
TypeOK ==
    /\ key \in 0 .. 16^Digits \cup {Nil} /\ digest \in Digests \cup {Nil}
    /\ Range(shards) \subseteq Scalars
    /\ \A id \in DOMAIN nonces :
          nonces[id] # Nil => nonces[id].PubKey \in Points /\ Range(nonces[id].Shares) \subseteq Scalars
    /\ \A i \in DOMAIN partials : partials[i].noncePub \in Points /\ partials[i].sig \in 0 .. L - 1

(* A configuration that ValidateThresholdModeConfig accepts names the       *)
(* cosigners that shards are dealt to, 1 to n, each once; any two sets of   *)
(* threshold cosigners have a member in common, and with mutual TLS no two  *)
(* cosigners have one identity.                                             *)
ConfigurationIsSound ==
    cfg # Nil =>
        /\ IDs = 1 .. total
        /\ threshold <= total
        /\ \A S, T \in kSubset(threshold, IDs) : S \cap T # {}
        /\ cfg.ClusterKeyFile => Cardinality(Range(ClusterPeerPubKeys(cfg)) \ {Nil}) = total

(* The coefficients of these cosigners fit in an int64.  With 64 bits they  *)
(* always do up to 12 cosigners, and with the least threshold up to 14.     *)
Fits ==
    \A id \in signers : FoldSet(LAMBDA i, f : f * i, Factorial(total), signers \ {id}) < 2^(WordBits - 1)

Combined == signature \notin {Nil, Refused}

NonceSum == FoldSet(LAMBDA id, sum : sum + nonces[id].secret, 0, dealers) % L

(* Combining the shares of any threshold of cosigners gives the signature   *)
(* that the whole key makes with the sum of the nonces (CombineShares,      *)
(* SignWithShare): the polynomials, the integer Lagrange coefficients and   *)
(* the truncating divisions of calcOmega fit together.                      *)
SignatureIsPlain ==
    Combined /\ Fits => signature.S = ScMulAdd(Hash(signature.R), key, NonceSum)

(* The combined signature verifies under the validator's public key: the    *)
(* points that AddElements decodes, adds and encodes, and those of the two  *)
(* scalar multiplications, are the same.                                    *)
SignatureVerifies ==
    Combined /\ Fits =>
        \E A \in {FromBytes(pubKey).p} : \E minusA \in {Extended(FeNeg(A.X), A.Y, A.Z, FeNeg(A.T))} :
            ToBytes(GeDoubleScalarMultVartime(Hash(signature.R), minusA, signature.S)) = signature.R

(* A combined signature is made by the cosigners whose nonces it uses: one  *)
(* that takes the place of another adds nonces of its own to those that the *)
(* request brings (combinedNonces), and CombineSignatures then refuses.     *)
SignersAreDealers == Combined => signers = dealers

(* Fewer shards than the threshold fit every key (DealShares): for each     *)
(* other key there are coefficients that deal the same shards to them.      *)
FewShardsFitEveryKey ==
    key # Nil /\ digest = Nil =>
        \A C \in kSubset(threshold - 1, IDs), hash \in Hashes :
            \E random \in [1 .. threshold - 1 -> 0 .. L - 1] :
                \A i \in C : DealShares(ExpandSecret(hash), random, total)[i] = shards[i]
=============================================================================
