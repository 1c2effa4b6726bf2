# Horcrux in TLA+

A specification of horcrux, the threshold remote signer of this repository: what
its parts do, what TLC checks of them on small instances, and what TLAPS proves of
them for every instance. Paths are relative to the repository (`src/`).

## The system

A validator's key is split among *n* cosigners, *t* of which (*t > n/2*) can sign.
A chain node's request goes to one signer node, which proxies it to the raft leader.
The leader collects nonces and shares from *t* cosigners and combines them.
In single-signer mode one process holds the whole key.

| part | source | in the model |
|---|---|---|
| sign state: high watermark (height, round, step), cache of recent signatures, state file | `signer/sign_state.go`, `signer/hrs.go` | `SignState` |
| local cosigner: nonces, share signing under the watermark, LSS ("last signed state") events | `signer/local_cosigner.go` | `LocalCosigner`, `CosignerPromise` |
| signing attempts: choice of cosigners, nonces, shares, failover, combination | `signer/threshold_validator.go` (`Sign`, `getNoncesFallback`) | `Cluster` |
| threshold validator: one attempt per block, waiting, existing signatures, extensions | `signer/threshold_validator.go` | `ThresholdValidator` |
| remote signer: connections to chain nodes | `signer/remote_signer.go`, `signer/remote_signer_grpc_server.go` | `RemoteSigner` |
| nonce cache, cosigner health | `signer/cosigner_nonce_cache.go`, `signer/cosigner_health.go` | `NonceCache` |
| file private validator, single-signer mode, PID file, state commands | `signer/file.go`, `signer/single_signer_validator.go`, `signer/services.go`, `cmd/horcrux/cmd/state.go` | `SingleSigner` |
| threshold signatures and the configuration they need | `signer/tsed25519`, `signer/threshold_signer_soft.go`, `signer/config.go` | `ThresholdSignature` |
| curve arithmetic | `signer/edwards25519` | `Edwards25519` |
| raft store, condition variable, cosigner RPC | `signer/raft_store.go`, `signer/cond/cond.go`, `signer/remote_cosigner.go`, ... | partly: as the parts above meet them |
| the rest | see *Not modelled* | |

`PROJECT.json` lists every part with its files, and the hazards found in the code
with the line where each bites.

## How the modules fit together

```
SignState ──► LocalCosigner ──implements──► CosignerPromise ◄──built on── Cluster
    │                                          ▲   ▲   ▲                     │
    ├──────► ThresholdValidator ─attempts obey─┘   │   └─────implements──────┘
    │                                              │   └── RemoteSigner's validator obeys
    └──────► SingleSigner ──────implements─────────┘

Edwards25519 ──► ThresholdSignature        NonceCache
```

*   `CosignerPromise` is the interface: a party releases votes, never two for
    different blocks at one height, round and step (HRS), until it has *forgotten*
    its watermark.
*   `LocalCosigner` implements it. Its shares are the released votes.
*   `Cluster` knows each cosigner by the promise alone, and implements the promise
    itself: its full signatures are the released votes, and it has forgotten when
    2*t* − *n* or more cosigners have.
*   `ThresholdValidator` takes signing attempts as the cluster's promise allows them,
    and models what `Sign` does around them on one node. `RemoteSigner` takes the
    validator behind a connection the same way.
*   `SingleSigner` implements the promise too, with the signatures of a host.
*   `ThresholdSignature` justifies what `Cluster` takes for granted: *t* shares of one
    nonce round make a signature, and fewer say nothing of the key. `NonceCache` says
    where a round comes from.

### SignState

Sign bytes are a pair of a block and a timestamp, which is what
`checkVoteOnlyDifferByTimestamp` and its proposal twin tell apart at one HRS. The
methods called under `signState.mu` are operators on a sign state.

### LocalCosigner

A *handler* (an RPC or an LSS event) is a thread with a control point; each action is
one critical section of the code, so that other handlers interleave between the map
lookup and the `Store` of `LoadSignStateIfNecessary`, between the check, `Save` and
the re-check of `sign`, and between the two halves of `generateNoncesIfNecessary`.
`pending` holds the copies that disk-write goroutines have yet to write, in no order.
`Restart` is a crash at any point, `Stop` a clean stop (`pendingDiskWG.Wait`). A nonce
is an identity, a share records the nonces it was made with, and a failure of
`signer.Sign` has the effect of an insufficient nonce round and is not told apart
from it. `forgetful` is a history variable: it becomes true when `Store` replaces a sign
state in use, or when a restart finds a file behind the memory it lost.

### Cluster

An attempt records who runs it, whose nonces it uses, who is being asked, who is in
reserve and whose shares have come. Attempts of several nodes overlap; neither raft
nor the leader's own sign state takes part. Shares collected by `signVoteExtension`
are attempts that never combine.

### ThresholdValidator

One node, with concurrent `Sign` calls, the raft FSM thread, leadership that changes,
other nodes that sign, and restarts. `disk` is the set of contents the state file may
have, because writes are unordered and a crash may lose any of them. The wait for
another attempt may end at any time, which covers broadcasts, lost wake-ups and
timeouts. A request that is proxied gets a signature of the cluster from the leader, with
the timestamp it covers or, as `RemoteCosigner.Sign` has it when none comes back (a leader
on an older build), with the request's own; the response records which (`kept`).

### RemoteSigner

Several signer nodes with `leaderOnlyChainNodeConnections`, and one chain node with a
single signer slot. `pc` is where a node's `loop` stands: parked without leadership,
dialling, in the handshake, connected, reading, signing or writing. A dial reaches the
node's listener at any time; `MakeSecretConnection` has neither a deadline nor the
loop's context, and waits until the node has its slot free. The connection is `open`, `closed` by
the leadership watcher under the loop, or `dead` without either side knowing.
`abandoned` holds the votes of sign goroutines that `signWithTimeout` gave up. The
validator signs what the cluster's promise allows, refuses a vote once another one at
its HRS or later has been put to it (some cosigner or leader may have gone on), or
fails. A refusal is a typed error or only the text of one, which is what is left of a
peer's; `signRefusal` tells both from a failure, which drops the connection. The chain node, the network and raft are external: the node repeats what was
not answered and notices, some time, that a connection is gone.

### NonceCache

The leader's cache with its goroutine (`Start`, `reconcile`, `LoadN`), the attempts that
take rounds or find none and fall back to a round of their own, and the cosigners that
fail an attempt and lose their nonces in the cache, this node's own included. Time is counted in units; rounds age,
the timer and the calls of `LoadN` run down, and nothing that is due can be put off
(`Tick`). The moving average of the demand is a free choice from 1 to `MaxTarget`:
`target` never returns less than one. `burn` is a history variable, the consumption that
the next `reconcile` may see.

### SingleSigner

Processes on one host: `start`, which checks the PID file, starts its services and only
then creates the file; its end by a signal, a crash, or the panic over an existing PID
file; `state set` and `state import`, with the time between their load and their save.
Inside a process, threads race to load the chain's `FilePV`; its mutex makes the rest of
`Sign` atomic. A file records the type that wrote it, because `FilePV` encodes its
32-bit round as a number and `SignState` its 64-bit round as a string, and neither
reads the other's. A request whose payload `verifySignPayload` rejects is refused with
nothing changed. Rounds are small, so that the conversion of a request's round to 32
bits (`file.go:204`) loses nothing. `forgetful` becomes true when two FilePVs are in memory at once, or
when a process ends and the file is behind its memory.

### Edwards25519 and ThresholdSignature

`Edwards25519` follows the vendored curve code operation by operation, with one change: a
field element is a number modulo *P* and a scalar a number, so that the limb arithmetic
(`FeMul`, `FeToBytes`, `ScMulAdd`, `ScReduce`, ...) is what it computes. Coordinates,
formulas, encodings, the signed-digit recodings, table lookups and the square root in
`FromBytes` are kept. The tables are computed as the multiples of the base point; that
the constants in `const.go` are these multiples, and that the limb code computes what is
said of it, is taken for granted.

`ThresholdSignature` is one key and one signature: a configuration is validated, the key
dealt, nonces dealt by the chosen cosigners, partial signatures made by the same or by
replacement cosigners, and combined. `int64` has `WordBits` bits. Shards are dealt with the
threshold and the number of cosigners of the configuration; the command that deals them
takes the two as arguments, and an operator who gives others is not modelled. Neither is
`NewThresholdSignerSoft`'s check of the key's ID, and a configuration has fewer than 256
cosigners, so that the `uint8`s it keeps hold them.

## What TLC checks

| run | what it shows | states |
|---|---|---|
| `cosigner_restart` | two handlers, two blocks, an LSS event, a crash at any point; refinement of `CosignerPromise` | 1.3 M |
| `cosigner_ext` | extensions, a timestamp repeat, retries from the cached vote, nonce rounds swapped between vote and extension | 1.8 M |
| `cluster_2of3` | two overlapping attempts, two blocks, a forgetful cosigner; refinement of the promise | 0.7 M |
| `validator_leaders` | proposals, precommits, extensions that change on the repeat, leadership changes, other leaders' signatures and late LSS events, proxied answers, a reloaded file and a replayed log | 1.0 M |
| `validator_liveness` | `Sign` returns, and never starts over | 35 k |
| `remote_signer` | two signer nodes and one slot, leadership changes, one of: dead connection, failed handshake, timeout, panic, failure, stop | 0.3 M |
| `nonce_cache` | three cosigners, threshold 2, cosigners that fail and return, the fallback, slow loads, lost leadership | 0.7 M |
| `single_signer` | two processes, two threads, two commands, two crashes, a failed write, an invalid payload; refinement of the promise | 1.6 M |
| `threshold_signature` | configurations of one to four cosigners, good and bad, every choice of signers, on a curve of order 257 · 8 | 14 k |

The properties:

*   `KeptWatermarkPreventsDoubleSign`, `SharesUnderWatermark`: a cosigner that has not
    forgotten never returns conflicting shares, and no share escapes the watermark.
*   `NonceSignsOneMessage`: no nonce makes shares over two messages.
*   `KeepsPromise`: the refinements above.
*   `NoDoubleSign`: no two full signatures conflict.
*   `ResponseVerifies`: what `Sign` returns verifies against the request's block, the
    returned timestamp and the requested extension, wherever it came from. The one
    exception is the window of a rolling upgrade that `docs/signing.md` describes: a
    proxied answer that came without a timestamp has the request's.
*   `InitiatedIsSettled`: no request waits for a signature that nobody is making.
*   `SignReturns`, `SignAdvances`: every call of `Sign` returns, and each of its steps brings
    it closer, whatever others do.
*   `AnswerIsTrue`: a chain node is answered about the request it has open, with a
    signature that exists, or with a refusal that has a cause.
*   `SlotIsWatched`: one open connection per slot, and never served unwatched.
*   `LeaderServes`, `StopEnds`: a leader that stays gets the slot and answers everything;
    a stopped service ends and lets go, for good, unless its handshake waits while the
    node keeps giving its slot to others.
*   `StopAdvances`: on the way there every step leaves fewer to take, no watcher is started,
    and a connection that a handshake under way still opens is closed unread.
*   `CachedNoncesAreLive`, `CachedNoncesAreUsable`, `HandedOutOnce`: a round in the cache is
    still held by its cosigners, known to *t* of them, and serves one attempt.
*   `UseIsExplained`: the demand that `reconcile` computes is never negative and never
    more than what was used, given up or not loaded.
*   `CacheRefills`: while enough cosigners answer, the cache is filled again and again.
*   `ReplyVerifies`: a single signer's reply verifies with the timestamp it returns.
*   `ConfigurationIsSound`: a configuration that validation accepts has IDs 1 to *n*, and any
    two sets of *t* cosigners meet.
*   `SignatureIsPlain`, `SignatureVerifies`: the combined signature is what the undivided
    key would give with the sum of the nonces, and the curve's own verification accepts it.
*   `SignersAreDealers`: a combined signature is by the cosigners whose nonces it uses.
*   `FewShardsFitEveryKey`: fewer than *t* shards are consistent with every key.

Three runs are expected to fail, because a comment or document says more than the
code does:

*   `cosigner_first_load`: two first requests of a process load two sign states; the
    later `Store` replaces one already signed on, and both blocks get a share.
*   `cosigner_clean_stop`: two state writes land in the wrong order, and the cosigner
    comes back from a *clean* stop with the older watermark.
*   `validator_cached_vote`: an LSS event does not raise the initiated watermark, so a
    new leader signs anew a vote that it has in its cache.

### Observations

What the models show about the code besides the properties:

*   `threshold_validator.go:1026` says that failing over to another cosigner "will only
    work if the next cosigner has the nonces we've already decided to use". It never
    does: the replacement adds its own nonces in `combinedNonces`, its nonce sum differs,
    and `CombineSignatures` refuses (`SignersAreDealers`). The attempt is lost, safely.
*   `remote_signer.go:142` says that the cancelled context aborts "any dial". It does not
    abort a handshake: a node that has accepted the TCP connection and is busy with another
    signer keeps a stopped loop waiting (`StopEnds`).
*   `calcOmega` fits in an `int64` for every threshold up to 12 cosigners, and with the
    least threshold up to 14; 13-of-13 and 8-of-15 overflow. The property is stated for
    products that fit.
*   `file.go:219` says that vote extensions are always re-signed; a repeat with equal bytes
    returns no extension signature.
*   After a failed state write a retry gets the signature from memory, and a restart
    then forgets it.
*   The PID file does not keep two signers apart: it appears after the services run, goes
    before they stop, and a stale one is removed without looking again. While two
    processes overlap, or two threads load the FilePV at once, nothing prevents a double
    sign; these are the causes of `forgetful` in `SingleSigner`.
*   A `state set` or `state import` on a single-signer host leaves a file that the signer
    cannot read. It then refuses every request, so the commands never cause a double
    sign there, and they fail on a file that the signer wrote.
*   The timing of the nonce cache is sound as long as expiration + interval + RPC timeout
    do not exceed the cosigners' 20 s: with the defaults, for a `grpcTimeout` of up to 7 s.

### Bounds

Two handlers are enough for every race in the code, which are between pairs; a third
request lets an LSS event or a retry follow. Two blocks and two timestamps give a
conflict and a repeat. Two sign states per process give the load race. `cosigner_ext`
allows one load and three nonces, enough for a vote with its extension and for the
extension of a retry. In the validator, `MaxWait` is 1 or 2 where the code has 3: a
wait changes nothing but the counter.

In `remote_signer` one fault is enough to reach each recovery; leadership changes, the
other route (`GRPCSign`) and retries are unbounded. In `nonce_cache` the times are the
smallest with the order of the code's (interval and timeout 1, expiration 2, the
cosigner's 4), `MaxTarget` 3 lets a load, a remainder and a shortfall coincide, and
`MaxLast` 2 lets attempts that find nothing be counted on top of what remained.
In `single_signer` two of everything give each overlap, and the second crash and
command let a restart follow; the commands write one state, which is behind
every request: the one that could let a second vote through.

In `threshold_signature` the field has 2029 elements and the base point order 257, so
that scalars have four hex digits with carries, and the hashes, digests and nonces are
chosen so that reduction, both square roots and both signs occur. Nine-bit words
make `calcOmega` overflow for some sets of four cosigners as 64-bit words do for
larger clusters. A single cosigner is the one case in which a share is not reduced
modulo the order, because `DealShares` then deals the secret as it is.

Threads are symmetric in the safety runs, and the cosigners and attempts of
`Cluster`, and the processes and FilePVs of `SingleSigner`. Every bound is a constant
named `Max...` and appears in the guard of the action it bounds. Requests run out in the
cosigner's, the validator's and the single signer's runs, so these may stop and do not
check deadlock; the others do.

### Fairness

*   `ThresholdValidator`: weak fairness of each `Sign` goroutine: the Go scheduler runs it,
    and every remote call and wait it makes has a timeout. Nothing is assumed of raft,
    of arriving requests or of the other nodes.
*   `RemoteSigner`: weak fairness of each connection loop (its reads, dials, writes and sign
    calls have deadlines), the handshake included as long as the node's slot is free: the
    node accepts a signer then, or the TCP connection fails, which is not bounded by
    anything in `remote_signer.go`. Also of each leadership watcher (a ticker), and of the
    chain node repeating its request and noticing a lost connection. Nothing is assumed of
    elections, of abandoned goroutines or of the network; `LeaderServes` speaks of leaders that stay.
*   `NonceCache`: weak fairness of the cache's goroutine, whose calls have timeouts, and of
    time.

## What is proved

TLAPS checks these for all values of the constants.

`LocalCosignerProofs`: `InductiveInvariant`, `TypeCorrectness`, `DoubleSignProtection`
(`[]KeptWatermarkPreventsDoubleSign`), `WatermarkCoversShares`
(`[]SharesUnderWatermark`) and `CosignerKeepsPromise` (`Spec => KeepsPromise`). The
assumptions are on the requests (well formed, above the zero HRS, with the nonce rounds
they need) and on `Nil`. `NoConflictingShares` speaks of past replies and is not
inductive: the strengthening `IInv` says that

*   votes *committed* (returned, or with nothing left but to be returned) agree;
*   while a sign state is in use it covers them and its cache agrees with them, the file
    and all pending copies are not ahead of it, and every handler works on it;
*   while none is in use the file covers them, and every sign state under construction
    equals the file.

The interesting cases are `Recheck`, where a handler commits because the watermark
holds its block already, `CachedVote`, where the cache must agree with every vote
committed at its HRS, and `Restart`, where the file is not behind.

`LocalCosignerNonces`, which has the type correctness of the cosigner's steps, too:
`NoncesAreSeparate` (`[](TypeInv /\ NonceInv)`) and
`NonceMakesOneShare` (`[]NonceSignsOneMessage`), from the same assumptions, and whether
or not the watermark was lost. The property speaks of the shares returned, but a vote
comes back from the sign state's cache, from a file read after a restart, or from a
handler that has not replied. So `NonceInv` collects every vote and extension that is
returned, held by a handler or stored anywhere, and says that no two of them have one
nonce, that none has a nonce that can still be used, and that no nonce is stored twice.
Most steps only make these sets smaller; `combinedNonces` moves a nonce from one to the
other, and `SignState.Save` and the cache hit only copy a vote.

`ClusterProofs`: `InductiveInvariant`, `TypeCorrectness`, `DoubleSignProtection`
(`[]NoDoubleSign`) and `ClusterKeepsPromise`, from *t > n/2* and finitely many
cosigners. `IInv` says that a cosigner which has not forgotten is consistent, that
the shares of an attempt were signed by the cosigners they are from, and that each
full signature has *t* signers. Two sets of *t* share at least 2*t* − *n* members
(`QuorumsMeet`), so one of them remembers.

`SingleSignerProofs`: `InductiveInvariant`, `TypeCorrectness`, `RepliesVerify`
(`[]ReplyVerifies`) and `SignerKeepsPromise` (`Spec => KeepsPromise`), for any processes,
threads, commands and failures. The assumptions are that requests are well formed with
a step above zero and that `Nil` is none of the values it stands beside. `IInv` says that

*   a FilePV is in memory exactly while a map or a thread names it, and all who name it are
    of one process, so that no step drops the FilePV of a thread that is signing;
*   a state that has bytes has their signature;
*   until the signer has forgotten, there is at most one FilePV, every signing thread has
    the one in its process's map, and it refuses whatever conflicts with a vote returned
    or about to be; while there is none, the file does, or is one that no FilePV reads.

The interesting cases are `End`, where the file takes over from the FilePV, `LoadFilePV`,
where it hands back, and `SaveState`, which may overwrite the watermark but leaves a file
of the other type.

`ThresholdValidatorProofs`: `InductiveInvariant`, `TypeCorrectness`, `ResponsesVerify`
(`[]ResponseVerifies`), `InitiatedHRSIsSettled` (`[]InitiatedIsSettled`) and
`SignNeverStartsOver` (`Spec => SignAdvances`), for any threads, requests, signatures of
other nodes, proxied answers with or without a timestamp, elections and restarts. The assumptions are that requests are well formed
and above the zero HRS, that the FSM thread is none of the handlers, and that `Nil` is
neither an extension nor a signature. `IInv` says that

*   every signature in memory, in a cache, in the raft log or in a file that the disk may
    hold covers the bytes and the HRS it is stored with;
*   a thread that is about to return has one that matches its request, its extension
    included, so that only a proxy can return a timestamp that the signature does not cover;
*   a sign state that is loaded but not stored yet belongs to one thread and has initiated
    nothing, so that storing it over another keeps `InitiatedIsSettled`.

`SignAdvances` is the part of `SignReturns` that needs no fairness: the control points of
`Sign` have an order (`PointsInOrder`), with the waits done as a second coordinate, in
which each step of a call descends and every other step leaves the call where it is. A
call takes at most `MaxWait` + 10 steps; the rest is that the scheduler runs it.

`RemoteSignerProofs`: `InductiveInvariant`, `TypeCorrectness`, `AnswersAreTrue`
(`[]AnswerIsTrue`), `SlotsAreWatched` (`[]SlotIsWatched`) and `StopIsFinal` (`Spec =>
StopAdvances`), for any signer nodes, requests and number of faults. The assumptions are
that votes have an HRS and that `None` is no node and no request. `IInv` says that the
chain node's request is in one place at a time (on the wire, with the loop whose
connection is open, or on the wire again as an answer), and that a connection has a
watcher from its first read until it is closed. What an abandoned sign goroutine ends
with thus never reaches a later request. `StopAdvances` is to `StopEnds` what
`SignAdvances` is to `SignReturns`: a stopped loop takes at most five more steps, of
which one may be the end of a handshake, and the same invariant says that at the end of them it has neither a connection nor a
watcher.

`NonceCacheProofs`: `InductiveInvariant`, `TypeCorrectness`, `NoncesAreLive`
(`[]CachedNoncesAreLive`), `RoundsAreHandedOutOnce` (`[]HandedOutOnce`), `RoundsAreUsable`
(`[]CachedNoncesAreUsable`) and `ReconciledUseIsExplained` (`[]UseIsExplained`), for any
finite set of cosigners, threshold, sizes and times in which a round that outlives its
expiration by one interval and one timeout is still held by the cosigners
(`TimingAssumption`; the defaults satisfy it). `IInv` says that

*   the rounds are distinct and in order of age. `PruneNonces` deletes up to the first round
    that has not expired, so without the order it could leave an expired one behind it;
*   the oldest round is younger than the expiration and the time since the last pruning,
    which is the load that followed it and what has run off the timer;
*   while `LoadN` waits, what it will store as `lastReconcileNonces` accounts for the
    rounds it will add.

The operations on the cache (`Delete`, `PruneNonces`, `ClearNonces`) are shown to *thin* the
sequence: what is left is in the order it had. What lies between two elements is found
with the least number principle in place of an induction.

`ThresholdSignatureProofs`: `InductiveInvariant`, `ConfigurationsAreSound`
(`[]ConfigurationIsSound`) and `CombinedByDealers` (`[]SignersAreDealers`), for any set of
configurations, keys, nonces and choices of dealers and signers, and over any curve with
`NonceAssumption`: a sum of nonces changes when one more is added to it, which is so
because no nonce is a multiple of the base point's order. TLC evaluates the assumption
on the small curve. The other assumption is that a configuration has a list of cosigners
and a number for a threshold. `IInv` says that nobody signs before all nonces are there,
that each partial signature has the public sum of the dealers' nonces and its cosigner's
own, and that signatures are combined only when these sums are equal. *n* distinct IDs
between 1 and *n* are all of them (`IDsAreNumbers`), so two sets of *t* > *n*/2 have a
member in common (`QuorumsIntersect`). A signer that is also a dealer adds nothing to
the sum and one that is no dealer does (`OutsiderDiffers`), so the sums of a combined
signature leave no place for an outsider.

`LocalCosignerProofs` and `ClusterProofs` together say of a cluster: if fewer than
2*t* − *n* cosigners ever meet the load race or come back with an older state file, the
validator does not double sign, whatever raft does.

## Only model-checked

Liveness (`SignReturns`, `LeaderServes`, `StopEnds`, `CacheRefills`), which is out of the
prover's reach; `SignAdvances` and `StopAdvances` are as much of it as can be proved. Of
`ThresholdSignature`, what the folds and recursive functions of the cryptography compute
(`SignatureIsPlain`, `SignatureVerifies`, `FewShardsFitEveryKey`, and the points and
scalars of its `TypeOK`): induction over data is out of reach, too.

Each inductive invariant was also model-checked on the instance of one of the runs.

## Not modelled

*   Raft itself (elections, log, snapshots, joining) is hashicorp's; the key-value part of
    the FSM is not read by signing. Leadership and LSS events appear where they are used.
*   The channel swap inside `cond.Cond`: a wait may end at any time instead.
*   `state set` and `state import` on a cosigner's share state file.
*   The limbs, carries and unrolled reductions of `edwards25519` (256-bit arithmetic is out
    of TLC's reach), and hashing, which returns any member of a small set.
*   Encryption between cosigners, TLS, certificates, key files: stateless or I/O.
*   The multi resolver: it serves the leader election command only.
*   Metrics, command-line wrappers, migration, generated code.
