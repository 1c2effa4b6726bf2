----------------------------- MODULE NonceCache -----------------------------
(***************************************************************************)
(* The leader's cache of nonce rounds (signer/cosigner_nonce_cache.go) and *)
(* the health of its peers (signer/cosigner_health.go), on one node.  A    *)
(* round is collected from all cosigners before it is needed, is handed    *)
(* out to one signing attempt, and is given up when a peer fails or when   *)
(* it is too old.  Time passes in units of Tick; the cache's goroutine and *)
(* the calls it makes end no later than their timers say.  What the moving *)
(* average of the rates of consumption comes to is left open.              *)
(***************************************************************************)
EXTENDS Integers, Sequences, FiniteSets, FiniteSetsExt

CONSTANTS
    me, Peers,            \* this node's cosigner and the others
    Threshold,
    Interval,             \* defaultGetNoncesInterval (3 s)
    Timeout,              \* getNoncesTimeout, the grpcTimeout of the configuration
    Expiration,           \* defaultNonceExpiration (10 s)
    CosignerExpiration,   \* LocalCosigner's nonceExpiration (20 s)
    Idle,                 \* no load is under way
    MaxTarget,            \* bound: rounds wanted at a time
    MaxAsked,             \* bound: attempts started in a unit of time, and under way
    MaxLast               \* bound: attempts that found nothing are counted up to here

Cosigners == Peers \cup {me}

ASSUME SizeAssumption ==
    /\ me \notin Peers /\ IsFiniteSet(Peers)
    /\ Threshold \in 1 .. Cardinality(Cosigners)
    /\ {Interval, Timeout, MaxTarget} \subseteq Nat \ {0} /\ {MaxAsked, MaxLast} \subseteq Nat

(* "half of the local cosigner cache expiration": with the defaults, what   *)
(* the cache may keep for longer than Expiration is still held by the       *)
(* cosigners as long as the configured grpcTimeout is at most 7 s.         *)
ASSUME TimingAssumption ==
    /\ {Expiration, CosignerExpiration} \subseteq Nat \ {0}
    /\ Expiration + Interval + Timeout <= CosignerExpiration

(* Idle is not mistaken for a load.                                         *)
ASSUME IdleAssumption == Idle \notin [n : Nat, age : Nat, total : Nat]

VARIABLES
    leader,       \* this node leads
    down,         \* the peers that do not answer
    cache,        \* NonceCache.cache: rounds with their age and the cosigners they are from
    empty,        \* the channel holds an event
    timer,        \* time left on the timer of Start
    load,         \* the LoadN under way, or Idle
    last,         \* lastReconcileNonces
    rtt,          \* CosignerHealth.rtt: -1 for a peer that is unknown or failed
    outstanding,  \* rounds of attempts that are not over, handed out or their own
    asked,        \* attempts started in this unit of time
    burn          \* history: rounds used, given up or never loaded since the last reconciliation

healthVars == <<rtt, down>>
rateVars == <<last, burn>>
vars == <<leader, healthVars, cache, empty, timer, load, rateVars, outstanding, asked>>

Init ==
    /\ leader \in BOOLEAN /\ down = {} /\ rtt = [p \in Peers |-> -1]
    /\ cache = <<>> /\ empty = FALSE /\ timer = Interval /\ load = Idle
    /\ last = 0 /\ burn = 0
    /\ outstanding = {} /\ asked = 0

-----------------------------------------------------------------------------
(* Fault: nothing is wanted when nothing was used.                          *)
TargetsOrNone == 0 .. MaxTarget

(* target(movingAverage.average()): what one and a half intervals and a     *)
(* timeout need at the average rate, and at least one round.                *)
Targets == 1 .. MaxTarget

(* Fault: the index starts at 0, so nothing goes when all have expired.     *)
PruneFromZero(c) ==
    LET live == {i \in DOMAIN c : c[i].age < Expiration}
    IN  IF live = {} THEN c ELSE SubSeq(c, Min(live), Len(c))

(* PruneNonces: everything up to the first round that has not expired.      *)
PruneNonces(c) ==
    LET live == {i \in DOMAIN c : c[i].age < Expiration}
    IN  IF live = {} THEN <<>> ELSE SubSeq(c, Min(live), Len(c))

UUIDs(c) == {c[i].uuid : i \in DOMAIN c}

(* getUuids: n identities that are nowhere in use.                          *)
getUuids(n) ==
    LET free == 1 .. (Len(cache) + Cardinality(outstanding) + n) \ (UUIDs(cache) \cup outstanding)
    IN  CHOOSE u \in [1 .. n -> free] : IsInjective(u)

(* Fault: what is asked for is remembered without what remained.            *)
ReconciledAdditional(remaining, additional) == IF additional <= 0 THEN 0 ELSE additional

(* The new lastReconcileNonces: additional is 0 when ahead of demand.       *)
Reconciled(remaining, additional) == remaining + (IF additional <= 0 THEN 0 ELSE additional)

(* Fault: rounds are loaded also when ahead of demand.                      *)
reconcileAlwaysLoads ==
    LET kept == PruneNonces(cache)
        remaining == Len(kept)
    IN  /\ leader
        /\ cache' = kept
        /\ burn' = 0
        /\ \E t \in Targets :
              load' = [n |-> t - remaining, age |-> 0, total |-> Reconciled(remaining, t - remaining)]
        /\ UNCHANGED <<last, timer>>

(* reconcile by the leader: the rounds that are missing are asked for, if   *)
(* any are.                                                                 *)
reconcile ==
    LET kept == PruneNonces(cache)
        remaining == Len(kept)
    IN  /\ leader
        /\ cache' = kept
        /\ burn' = 0
        /\ \E t \in Targets :
              LET additional == t - remaining
              IN  \/ /\ additional <= 0
                     /\ last' = Reconciled(remaining, additional) /\ timer' = Interval
                     /\ UNCHANGED load
                  \/ /\ additional > 0
                     /\ load' = [n |-> additional, age |-> 0, total |-> Reconciled(remaining, additional)]
                     /\ UNCHANGED <<last, timer>>

(* reconcile by a follower only prunes.                                     *)
reconcileFollower ==
    LET kept == PruneNonces(cache)
    IN  /\ ~ leader
        /\ cache' = kept
        /\ burn' = burn + Len(cache) - Len(kept)
        /\ timer' = Interval
        /\ UNCHANGED <<load, last>>

(* Start: the timer fires or the cache has run empty.                       *)
Start ==
    /\ load = Idle
    /\ \/ timer = 0 /\ UNCHANGED empty
       \/ empty /\ empty' = FALSE
    /\ reconcile \/ reconcileFollower
    /\ UNCHANGED <<leader, healthVars, outstanding, asked>>

-----------------------------------------------------------------------------
Enough(answered) == Cardinality(answered) >= Threshold

(* LoadN returns when every cosigner has answered or failed: at the latest  *)
(* when the time of the calls is up.  A peer that is down is one that fails *)
(* or is too slow.  Rounds that enough cosigners know are added, with the   *)
(* age they have since the calls were made; the others are lost.            *)
LoadN ==
    LET answered == Cosigners \ down
        uuids == getUuids(load.n)
        rounds == [i \in 1 .. load.n |-> [uuid |-> uuids[i], age |-> load.age, from |-> answered]]
    IN  /\ load # Idle
        /\ cache' = IF Enough(answered) THEN cache \o rounds ELSE cache
        /\ burn' = IF Enough(answered) THEN burn ELSE burn + load.n
        /\ last' = load.total /\ timer' = Interval /\ load' = Idle
        /\ UNCHANGED <<leader, healthVars, empty, outstanding, asked>>

-----------------------------------------------------------------------------
(* GetFastest, as a relation: p may come before q.                          *)
Before(p, q) == rtt[q] = -1 \/ (rtt[p] # -1 /\ rtt[p] <= rtt[q])

(* The cosigners of an attempt: this node's and the fastest peers.          *)
Fastest ==
    {F \cup {me} : F \in {S \in SUBSET Peers : /\ Cardinality(S) = Threshold - 1
                                               /\ \A p \in S : \A q \in Peers \ S : Before(p, q)}}

(* Fault: the round that is handed out stays.                               *)
Delete0(c, i) == c

Delete(c, i) == SubSeq(c, 1, i - 1) \o SubSeq(c, i + 1, Len(c))

(* GetNonces finds the first round that all the attempt's cosigners know.   *)
GetNonces(Q) ==
    LET found == {i \in DOMAIN cache : Q \subseteq cache[i].from}
        left == Delete(cache, Min(found))
    IN  /\ asked < MaxAsked /\ Cardinality(outstanding) < MaxAsked /\ found # {}
        /\ asked' = asked + 1
        /\ cache' = left
        /\ empty' = (empty \/ left = <<>>)
        /\ outstanding' = outstanding \cup {cache[Min(found)].uuid}
        /\ burn' = burn + 1
        /\ UNCHANGED <<leader, healthVars, timer, load, last>>

(* No round is found, which counts as one used.  The attempt asks the       *)
(* cosigners for a round of its own (getNoncesFallback), or fails.          *)
NoNonces(Q) ==
    /\ asked < MaxAsked /\ Cardinality(outstanding) < MaxAsked /\ last < MaxLast
    /\ \A i \in DOMAIN cache : ~ Q \subseteq cache[i].from
    /\ asked' = asked + 1
    /\ last' = last + 1
    /\ burn' = burn + 1
    /\ outstanding' \in {outstanding, outstanding \cup {getUuids(1)[1]}}
    /\ UNCHANGED <<leader, healthVars, cache, empty, timer, load>>

(* Fault: a round is kept though too few cosigners are left.                *)
ClearNoncesKept(c) ==
    [i \in DOMAIN cache |-> [cache[i] EXCEPT !.from = @ \ {c}]]

(* The members of I, in order.                                              *)
IsInOrder(f, I) ==
    /\ \A i \in I : \E k \in DOMAIN f : f[k] = i
    /\ \A j, k \in DOMAIN f : j < k => f[j] < f[k]

InOrder(I) == CHOOSE f \in [1 .. Cardinality(I) -> I] : IsInOrder(f, I)

(* ClearNonces: the cosigner is taken off every round, and a round with too *)
(* few cosigners is deleted.                                                *)
ClearNonces(c) ==
    LET Usable(e) == c \notin e.from \/ Cardinality(e.from) - 1 >= Threshold
        kept == InOrder({i \in DOMAIN cache : Usable(cache[i])})
    IN  [k \in DOMAIN kept |-> [cache[kept[k]] EXCEPT !.from = @ \ {c}]]

(* A cosigner fails an attempt, whose round is from the cache or from the   *)
(* fallback: it has lost the round, as this node's own may have, or it is a *)
(* peer that does not answer (MarkUnhealthy).                               *)
CosignerFails(c) ==
    /\ outstanding # {}
    /\ cache' = ClearNonces(c)
    /\ burn' = burn + Len(cache) - Len(cache')
    /\ rtt' \in {rtt} \cup {[rtt EXCEPT ![p] = -1] : p \in down \cap {c}}
    /\ UNCHANGED <<leader, down, empty, timer, load, last, outstanding, asked>>

AttemptEnds(u) ==
    /\ u \in outstanding
    /\ outstanding' = outstanding \ {u}
    /\ UNCHANGED <<leader, healthVars, cache, empty, timer, load, rateVars, asked>>

(* updateRTT, called for every peer by the leader's Reconcile.              *)
updateRTT(p) ==
    /\ leader
    /\ \E r \in IF p \in down THEN {-1} ELSE {1} : rtt[p] # r /\ rtt' = [rtt EXCEPT ![p] = r]
    /\ UNCHANGED <<leader, down, cache, empty, timer, load, rateVars, outstanding, asked>>

-----------------------------------------------------------------------------
(* Time passes while nothing is due.                                        *)
Tick ==
    /\ IF load = Idle THEN timer > 0 /\ ~ empty ELSE load.age < Timeout
    /\ timer' = IF load = Idle THEN timer - 1 ELSE timer
    /\ load' = IF load = Idle THEN Idle ELSE [load EXCEPT !.age = @ + 1]
    /\ cache' = [i \in DOMAIN cache |-> [cache[i] EXCEPT !.age = @ + 1]]
    /\ UNCHANGED <<leader, healthVars, empty, last, burn, outstanding>>
    /\ asked' = 0

ChangeLeader ==
    /\ leader' = ~ leader
    /\ UNCHANGED <<healthVars, cache, empty, timer, load, rateVars, outstanding, asked>>

(* A peer goes down or comes back.                                          *)
ChangePeer(p) ==
    /\ down' = IF p \in down THEN down \ {p} ELSE down \cup {p}
    /\ UNCHANGED <<leader, rtt, cache, empty, timer, load, rateVars, outstanding, asked>>

Cache == Start \/ LoadN

Next ==
    \/ Cache
    \/ \E Q \in Fastest : GetNonces(Q) \/ NoNonces(Q)
    \/ \E c \in Cosigners : CosignerFails(c)
    \/ \E p \in Peers : updateRTT(p) \/ ChangePeer(p)
    \/ \E u \in outstanding : AttemptEnds(u)
    \/ Tick \/ ChangeLeader

Spec == Init /\ [][Next]_vars

(* The cache's goroutine runs, its calls return, and time passes.           *)
FairSpec == Spec /\ WF_vars(Cache) /\ WF_vars(Tick)

-----------------------------------------------------------------------------
(* Every variable has its type, and the cache's rounds are from cosigners.  *)
TypeOK ==
    /\ leader \in BOOLEAN /\ down \subseteq Peers /\ rtt \in [Peers -> {-1, 1}] /\ empty \in BOOLEAN
    /\ cache \in Seq([uuid : Nat, age : Nat, from : SUBSET Cosigners])
    /\ timer \in 0 .. Interval /\ asked \in 0 .. MaxAsked
    /\ load # Idle => load.age \in 0 .. Timeout /\ load.n \in 1 .. MaxTarget
    /\ {last, burn} \subseteq Nat /\ outstanding \subseteq Nat

(* A round that can be handed out is still held by every cosigner that made *)
(* it, though GetNonces does not look at its Expiration and a reconcile     *)
(* that waits for its peers delays the next pruning: no round in the cache  *)
(* is as old as nonceExpiration of local_cosigner.go.                       *)
CachedNoncesAreLive == \A i \in DOMAIN cache : cache[i].age < CosignerExpiration

(* A nonce round serves one attempt: what was handed out is not in the      *)
(* cache, and no round is there twice.                                      *)
HandedOutOnce ==
    /\ \A i, j \in DOMAIN cache : cache[i].uuid = cache[j].uuid => i = j
    /\ UUIDs(cache) \cap outstanding = {}

(* Every round in the cache is known to a threshold of cosigners, after     *)
(* partial loads and after ClearNonces.                                     *)
CachedNoncesAreUsable == \A i \in DOMAIN cache : Cardinality(cache[i].from) >= Threshold

(* "how many nonces we need to load to keep up with demand" (reconcile):    *)
(* the next reconciliation finds used what was asked for, given up with a   *)
(* failed peer, not loaded, or pruned while another node led since the last *)
(* one, never more and never a negative number, although the cache is used  *)
(* while LoadN waits and lastReconcileNonces is stored after it.            *)
UseIsExplained == load = Idle => last - Len(cache) \in 0 .. burn

(* "always target at least one nonce ready" (target): while this node leads *)
(* and enough cosigners answer, the cache is filled again and again.        *)
CacheRefills ==
    <>[](leader /\ Cardinality(Cosigners \ down) >= Threshold) => []<>(cache # <<>>)
=============================================================================
