---------------------------- MODULE LocalCosigner ----------------------------
(***************************************************************************)
(* One cosigner process for one chain (signer/local_cosigner.go), serving  *)
(* concurrent SetNoncesAndSign requests and raft LSS events.  A handler is *)
(* a thread; each of its steps is one critical section of the code: a      *)
(* sync.Map access, a section under signState.mu or noncesMu, or a file    *)
(* operation.  State files are written by goroutines of their own, and the *)
(* process may stop or crash and start again.                              *)
(***************************************************************************)
EXTENDS SignState, FiniteSets

CONSTANTS
    Threads,      \* concurrent handlers
    Requests,     \* the sign requests and LSS events that may arrive
    UUIDs,        \* nonce rounds
    Peers,        \* the other cosigners
    Me,           \* this cosigner
    Threshold,    \* nonce contributions a partial signature must draw on
    NilBlock,     \* the block of a vote for nil
    Exts,         \* vote extension payloads
    MaxLoads,     \* bound: sign states loaded by one process
    MaxNonces,    \* bound: nonces generated
    MaxRequests,  \* bound: requests and events received
    MaxRestarts   \* bound: restarts

(* A request of either kind.  An LSS event carries no nonces. *)
Request ==
    [kind : {"sign", "lss"}, HRS : HRSKey, SignBytes : SignBytes, Ext : Exts \cup {Nil},
     UUID : UUIDs \cup {Nil}, VoteExtUUID : UUIDs \cup {Nil}, From : SUBSET Peers]

(* What the state file holds.  A signature is known by the nonce it was     *)
(* made with.                                                               *)
File == [HRS : HRSKey, SignBytes : SignBytes \cup {Nil}, Signature : Nat \cup {Nil}]

ASSUME RequestAssumption ==
    /\ Requests \subseteq Request
    /\ \A r \in Requests : GreaterThan(r.HRS, ZeroHRS)
    /\ \A r \in Requests : r.kind = "sign" => r.UUID # Nil
    /\ \A r \in Requests : r.kind = "sign" /\ r.Ext # Nil => r.VoteExtUUID # Nil

ASSUME NilAssumption == Nil \notin UUIDs \cup Exts \cup Nat /\ Nil \notin File

ASSUME ClusterAssumption == Me \notin Peers /\ Threshold \in Nat

ASSUME BoundAssumption ==
    MaxLoads \in Nat /\ MaxNonces \in Nat /\ MaxRequests \in Nat /\ MaxRestarts \in Nat

Objects == 1 .. MaxLoads

VARIABLES
    chainState,   \* the sync.Map entry: the sign state in use, 0 when there is none
    signStates,   \* the sign states made by LoadOrCreateSignState in this process
    loads,        \* how many of them there are
    file,         \* the state file, Nil when it does not exist
    pending,      \* copies that disk-write goroutines have yet to write
    nonces,       \* cosigner.nonces, Nil for an absent UUID
    generating,   \* nonces generated by GetNonces and not stored yet
    nextNonce,    \* identity of the next nonce generated
    pc, req,      \* each thread's control point and request
    ccs,          \* the sign state the thread has loaded or fetched
    todo,         \* setNonce calls still to run
    vote, ext,    \* the nonces the vote and extension shares are made with, 0 for none
    shares,       \* history: the responses returned
    forgetful,    \* history: a sign state was replaced, or a restart lost the watermark
    received, restarts

stateVars == <<chainState, signStates, loads, file, pending>>
nonceVars == <<nonces, generating, nextNonce>>
locals == <<req, ccs, todo, vote, ext>>
history == <<shares, forgetful, received, restarts>>
vars == <<stateVars, nonceVars, pc, locals, history>>

NoRequest == [kind |-> "none"]

Each(v) == [t \in Threads |-> v]

Init ==
    /\ chainState = 0 /\ loads = 0 /\ file = Nil /\ pending = {}
    /\ signStates = [o \in Objects |-> EmptyState]
    /\ nonces = [u \in UUIDs |-> Nil] /\ generating = {} /\ nextNonce = 1
    /\ pc = Each("idle") /\ req = Each(NoRequest) /\ ccs = Each(0) /\ todo = Each({})
    /\ vote = Each(0) /\ ext = Each(0)
    /\ shares = {} /\ forgetful = FALSE /\ received = 0 /\ restarts = 0

Goto(t, l) == pc' = [pc EXCEPT ![t] = l]

(* The handler returns and its locals are gone.                             *)
Return(t) ==
    /\ Goto(t, "idle")
    /\ req' = [req EXCEPT ![t] = NoRequest]
    /\ ccs' = [ccs EXCEPT ![t] = 0]
    /\ todo' = [todo EXCEPT ![t] = {}]
    /\ vote' = [vote EXCEPT ![t] = 0]
    /\ ext' = [ext EXCEPT ![t] = 0]

-----------------------------------------------------------------------------
(* A request or an LSS event reaches the cosigner on an idle thread.        *)
Receive(t, r) ==
    /\ pc[t] = "idle" /\ received < MaxRequests
    /\ received' = received + 1
    /\ Goto(t, "load")
    /\ req' = [req EXCEPT ![t] = r]
    /\ UNCHANGED <<stateVars, nonceVars, ccs, todo, vote, ext, shares, forgetful, restarts>>

(* LoadSignStateIfNecessary, first step: the map is consulted.              *)
Load(t) ==
    /\ pc[t] = "load"
    /\ Goto(t, IF chainState # 0 THEN "loaded" ELSE "stat")
    /\ UNCHANGED <<stateVars, nonceVars, locals, history>>

(* Fault: an existing file is taken for a missing one.                      *)
ReadFileIgnored(t) ==
    /\ pc[t] = "stat" /\ file # Nil
    /\ loads < MaxLoads
    /\ loads' = loads + 1
    /\ signStates' = [signStates EXCEPT ![loads + 1] = EmptyState]
    /\ ccs' = [ccs EXCEPT ![t] = loads + 1]
    /\ Goto(t, "store")
    /\ UNCHANGED <<chainState, file, pending, nonceVars, req, todo, vote, ext, history>>

(* LoadOrCreateSignState: an existing file is read into a new sign state.   *)
ReadFile(t) ==
    /\ pc[t] = "stat" /\ file # Nil
    /\ loads < MaxLoads
    /\ loads' = loads + 1
    /\ signStates' = [signStates EXCEPT ![loads + 1] = FreshCache(file)]
    /\ ccs' = [ccs EXCEPT ![t] = loads + 1]
    /\ Goto(t, "store")
    /\ UNCHANGED <<chainState, file, pending, nonceVars, req, todo, vote, ext, history>>

FileMissing(t) ==
    /\ pc[t] = "stat" /\ file = Nil
    /\ Goto(t, "create")
    /\ UNCHANGED <<stateVars, nonceVars, locals, history>>

(* The file did not exist when it was looked for: an empty one is written,  *)
(* whatever has been written in the meantime.                               *)
CreateFile(t) ==
    /\ pc[t] = "create"
    /\ loads < MaxLoads
    /\ loads' = loads + 1
    /\ signStates' = [signStates EXCEPT ![loads + 1] = EmptyState]
    /\ file' = EmptyFile
    /\ ccs' = [ccs EXCEPT ![t] = loads + 1]
    /\ Goto(t, "store")
    /\ UNCHANGED <<chainState, pending, nonceVars, req, todo, vote, ext, history>>

(* chainState.Store overwrites what another thread stored meanwhile.        *)
StoreState(t) ==
    /\ pc[t] = "store"
    /\ chainState' = ccs[t]
    /\ forgetful' = (forgetful \/ chainState # 0)
    /\ Goto(t, "loaded")
    /\ UNCHANGED <<signStates, loads, file, pending, nonceVars, locals, shares, received, restarts>>

-----------------------------------------------------------------------------
(* An LSS event goes on to SaveLastSignedState, a sign request to the       *)
(* setNonce calls, one for each contribution it carries.                    *)
Loaded(t) ==
    LET rounds == {req[t].UUID, req[t].VoteExtUUID} \ {Nil}
    IN  /\ pc[t] = "loaded"
        /\ IF req[t].kind = "lss"
           THEN Goto(t, "get") /\ UNCHANGED todo
           ELSE Goto(t, "nonces") /\ todo' = [todo EXCEPT ![t] = rounds \X req[t].From]
        /\ UNCHANGED <<stateVars, nonceVars, req, ccs, vote, ext, history>>

(* Fault: the contribution is filed under its round, not its sender.        *)
setNonceUnderRound(t, u, p) ==
    /\ pc[t] \in {"nonces", "badNonces"}
    /\ <<u, p>> \in todo[t]
    /\ todo' = [todo EXCEPT ![t] = @ \ {<<u, p>>}]
    /\ IF nonces[u] = Nil
       THEN Goto(t, "badNonces") /\ UNCHANGED nonces
       ELSE nonces' = [nonces EXCEPT ![u].from = @ \cup {u}] /\ UNCHANGED pc
    /\ UNCHANGED <<stateVars, generating, nextNonce, req, ccs, vote, ext, history>>

(* setNonce, for one contribution; the calls run in parallel and one that   *)
(* fails does not stop the others.                                          *)
setNonce(t, u, p) ==
    /\ pc[t] \in {"nonces", "badNonces"}
    /\ <<u, p>> \in todo[t]
    /\ todo' = [todo EXCEPT ![t] = @ \ {<<u, p>>}]
    /\ IF nonces[u] = Nil
       THEN Goto(t, "badNonces") /\ UNCHANGED nonces
       ELSE nonces' = [nonces EXCEPT ![u].from = @ \cup {p}] /\ UNCHANGED pc
    /\ UNCHANGED <<stateVars, generating, nextNonce, req, ccs, vote, ext, history>>

NoncesSet(t) ==
    /\ pc[t] = "nonces" /\ todo[t] = {}
    /\ Goto(t, "get")
    /\ UNCHANGED <<stateVars, nonceVars, locals, history>>

NoncesFailed(t) ==
    /\ pc[t] = "badNonces" /\ todo[t] = {}
    /\ Return(t)
    /\ UNCHANGED <<stateVars, nonceVars, history>>

(* The thread keeps the sign state it finds in the map.                     *)
getChainState(t) ==
    /\ pc[t] = "get"
    /\ ccs' = [ccs EXCEPT ![t] = chainState]
    /\ Goto(t, IF req[t].kind = "lss" THEN "saveLSS" ELSE "check")
    /\ UNCHANGED <<stateVars, nonceVars, req, todo, vote, ext, history>>

-----------------------------------------------------------------------------
hasVoteExtensions(r) == r.HRS.Step = 3 /\ r.Ext # Nil /\ r.SignBytes.block # NilBlock

(* The test that the two nonce rounds differ, and the check against the     *)
(* watermark.  A refused vote with an extension is looked up in the cache.  *)
CheckRequest(t) ==
    LET r == req[t]
        sameRound == hasVoteExtensions(r) /\ r.UUID = r.VoteExtUUID
        refused == errorIfConflictOrRegression(signStates[ccs[t]], r.HRS, r.SignBytes)
    IN  /\ pc[t] = "check"
        /\ \/ ~ sameRound /\ ~ refused /\ Goto(t, "consume") /\ UNCHANGED locals
           \/ ~ sameRound /\ refused /\ hasVoteExtensions(r) /\ Goto(t, "cached") /\ UNCHANGED locals
           \/ (sameRound \/ (refused /\ ~ hasVoteExtensions(r))) /\ Return(t)
        /\ UNCHANGED <<stateVars, nonceVars, history>>

(* Fault: any cached vote at this HRS serves the request.                   *)
CachedVoteOfAnyBlock(t) ==
    LET r == req[t]
        ss == signStates[ccs[t]]
        hit == r.HRS \in DOMAIN ss.cache /\ ss.cache[r.HRS].Signature # Nil /\ ss.HRS.Height = r.HRS.Height
    IN  /\ pc[t] = "cached"
        /\ \/ /\ hit
              /\ vote' = [vote EXCEPT ![t] = ss.cache[r.HRS].Signature]
              /\ Goto(t, "extOnly")
              /\ UNCHANGED <<req, ccs, todo, ext>>
           \/ ~ hit /\ Return(t)
        /\ UNCHANGED <<stateVars, nonceVars, history>>

(* The cached vote serves the request when it is the same to the byte and   *)
(* the watermark has not left its height.                                   *)
CachedVote(t) ==
    LET r == req[t]
        ss == signStates[ccs[t]]
        hit == /\ r.HRS \in DOMAIN ss.cache
               /\ ss.cache[r.HRS].Signature # Nil
               /\ ss.HRS.Height = r.HRS.Height
               /\ ss.cache[r.HRS].SignBytes = r.SignBytes
    IN  /\ pc[t] = "cached"
        /\ \/ /\ hit
              /\ vote' = [vote EXCEPT ![t] = ss.cache[r.HRS].Signature]
              /\ Goto(t, "extOnly")
              /\ UNCHANGED <<req, ccs, todo, ext>>
           \/ ~ hit /\ Return(t)
        /\ UNCHANGED <<stateVars, nonceVars, history>>

(* Fault: the nonce is read and left where it is.                           *)
combinedNoncesKept(u) == UNCHANGED nonces

(* combinedNonces(uuid): the nonce is deleted as it is read, and must hold  *)
(* enough contributions.                                                    *)
combinedNonces(u) == nonces' = [nonces EXCEPT ![u] = Nil]

Sufficient(u) == nonces[u] # Nil /\ Cardinality(nonces[u].from) >= Threshold

ConsumeVoteNonce(t) ==
    LET r == req[t]
    IN  /\ pc[t] = "consume"
        /\ combinedNonces(r.UUID)
        /\ IF Sufficient(r.UUID)
           THEN /\ vote' = [vote EXCEPT ![t] = nonces[r.UUID].id]
                /\ Goto(t, IF hasVoteExtensions(r) THEN "consumeExt" ELSE "save")
           ELSE Goto(t, "fail") /\ UNCHANGED vote
        /\ UNCHANGED <<stateVars, generating, nextNonce, req, ccs, todo, ext, history>>

(* With a cached vote, the extension share completes the response.          *)
ConsumeExtNonce(t) ==
    LET r == req[t]
    IN  /\ pc[t] \in {"consumeExt", "extOnly"}
        /\ combinedNonces(r.VoteExtUUID)
        /\ IF Sufficient(r.VoteExtUUID)
           THEN /\ ext' = [ext EXCEPT ![t] = nonces[r.VoteExtUUID].id]
                /\ Goto(t, IF pc[t] = "extOnly" THEN "reply" ELSE "save")
           ELSE Goto(t, "fail") /\ UNCHANGED ext
        /\ UNCHANGED <<stateVars, generating, nextNonce, req, ccs, todo, vote, history>>

-----------------------------------------------------------------------------
(* SignState.Save on success: the watermark moves, and a goroutine is left  *)
(* to write the copy.                                                       *)
Saved(o, hrs, bytes, sig) ==
    LET next == blockDoubleSign(signStates[o], hrs, bytes, sig)
    IN  /\ signStates' = [signStates EXCEPT ![o] = next]
        /\ pending' = pending \cup {[by |-> o, copy |-> lockedCopy(next)]}

(* Fault: the share is returned with the watermark left where it was.       *)
SaveShareSkipped(t) ==
    /\ pc[t] = "save"
    /\ Goto(t, "reply")
    /\ UNCHANGED <<stateVars, nonceVars, locals, history>>

(* The shares are made (signer.Sign) and the watermark is saved.            *)
SaveShare(t) ==
    LET r == req[t]
        ss == signStates[ccs[t]]
    IN  /\ pc[t] = "save"
        /\ IF SaveSucceeds(ss, r.HRS)
           THEN Saved(ccs[t], r.HRS, r.SignBytes, vote[t]) /\ Goto(t, "reply")
           ELSE /\ Goto(t, IF SameHRSError(ss, r.HRS) THEN "recheck" ELSE "fail")
                /\ UNCHANGED <<signStates, pending>>
        /\ UNCHANGED <<chainState, loads, file, nonceVars, locals, history>>

(* This HRS was saved first by someone else: the share is good only if it   *)
(* does not conflict with what is stored now.                               *)
Recheck(t) ==
    LET refused == errorIfConflictOrRegression(signStates[ccs[t]], req[t].HRS, req[t].SignBytes)
    IN  /\ pc[t] = "recheck"
        /\ Goto(t, IF refused THEN "fail" ELSE "reply")
        /\ UNCHANGED <<stateVars, nonceVars, locals, history>>

(* The deferred deletion of both nonces, on every return after the check.   *)
DeleteNonces(t) ==
    nonces' = [u \in UUIDs |-> IF u \in {req[t].UUID, req[t].VoteExtUUID} THEN Nil ELSE nonces[u]]

Share(t) ==
    [HRS |-> req[t].HRS, SignBytes |-> req[t].SignBytes, Signature |-> vote[t],
     Ext |-> IF ext[t] # 0 THEN req[t].Ext ELSE Nil, ExtSignature |-> ext[t]]

ReplyShare(t) ==
    /\ pc[t] = "reply"
    /\ DeleteNonces(t)
    /\ shares' = shares \cup {Share(t)}
    /\ Return(t)
    /\ UNCHANGED <<stateVars, generating, nextNonce, forgetful, received, restarts>>

ReplyError(t) ==
    /\ pc[t] = "fail"
    /\ DeleteNonces(t)
    /\ Return(t)
    /\ UNCHANGED <<stateVars, generating, nextNonce, history>>

(* SaveLastSignedState with the leader's full signature, which is made with *)
(* no nonce of this cosigner alone: 0.                                      *)
SaveLSS(t) ==
    LET r == req[t]
    IN  /\ pc[t] = "saveLSS"
        /\ IF SaveSucceeds(signStates[ccs[t]], r.HRS)
           THEN Saved(ccs[t], r.HRS, r.SignBytes, 0)
           ELSE UNCHANGED <<signStates, pending>>
        /\ Return(t)
        /\ UNCHANGED <<chainState, loads, file, nonceVars, history>>

-----------------------------------------------------------------------------
(* A disk-write goroutine replaces the file; nothing orders the goroutines. *)
saveSignState(w) ==
    /\ pending' = pending \ {w}
    /\ file' = w.copy
    /\ UNCHANGED <<chainState, signStates, loads, nonceVars, pc, locals, history>>

(* generateNoncesIfNecessary: a UUID with no nonces gets new ones, stored   *)
(* in a second critical section over whatever is there by then.             *)
generateNonces(u) ==
    /\ nonces[u] = Nil /\ nextNonce <= MaxNonces
    /\ generating' = generating \cup {[uuid |-> u, id |-> nextNonce]}
    /\ nextNonce' = nextNonce + 1
    /\ UNCHANGED <<stateVars, nonces, pc, locals, history>>

StoreNonces(g) ==
    /\ generating' = generating \ {g}
    /\ nonces' = [nonces EXCEPT ![g.uuid] = [id |-> g.id, from |-> {Me}]]
    /\ UNCHANGED <<stateVars, nextNonce, pc, locals, history>>

(* pruneNonces, for one expired entry; which ones have expired is left open. *)
pruneNonces(u) ==
    /\ nonces[u] # Nil
    /\ nonces' = [nonces EXCEPT ![u] = Nil]
    /\ UNCHANGED <<stateVars, generating, nextNonce, pc, locals, history>>

(* The process dies and starts again: memory is gone, the file stays.       *)
Restart ==
    /\ restarts < MaxRestarts
    /\ restarts' = restarts + 1
    /\ forgetful' = (forgetful \/ (chainState # 0 /\ GreaterThan(signStates[chainState].HRS, file.HRS)))
    /\ chainState' = 0 /\ loads' = 0 /\ pending' = {}
    /\ signStates' = [o \in Objects |-> EmptyState]
    /\ nonces' = [u \in UUIDs |-> Nil] /\ generating' = {}
    /\ pc' = Each("idle") /\ req' = Each(NoRequest) /\ ccs' = Each(0) /\ todo' = Each({})
    /\ vote' = Each(0) /\ ext' = Each(0)
    /\ UNCHANGED <<file, nextNonce, shares, received>>

(* A clean stop waits for the disk-write goroutines (pendingDiskWG.Wait).   *)
Stop == pending = {} /\ Restart

-----------------------------------------------------------------------------
LoadSteps(t) == Load(t) \/ ReadFile(t) \/ FileMissing(t) \/ CreateFile(t) \/ StoreState(t) \/ Loaded(t)

SignSteps(t) ==
    \/ \E u \in UUIDs, p \in Peers : setNonce(t, u, p)
    \/ NoncesSet(t) \/ NoncesFailed(t) \/ getChainState(t)
    \/ CheckRequest(t) \/ CachedVote(t) \/ ConsumeVoteNonce(t) \/ ConsumeExtNonce(t)
    \/ SaveShare(t) \/ Recheck(t) \/ ReplyShare(t) \/ ReplyError(t) \/ SaveLSS(t)

Run ==
    \/ \E t \in Threads : (\E r \in Requests : Receive(t, r)) \/ LoadSteps(t) \/ SignSteps(t)
    \/ \E w \in pending : saveSignState(w)
    \/ \E u \in UUIDs : generateNonces(u) \/ pruneNonces(u)
    \/ \E g \in generating : StoreNonces(g)

Next == Run \/ Restart

Spec == Init /\ [][Next]_vars

(* The cosigner is only ever stopped, never killed.                         *)
CleanSpec == Init /\ [][Run \/ Stop]_vars

-----------------------------------------------------------------------------
Nonce == [id : Nat, from : SUBSET (Peers \cup {Me})]

Calls == UUIDs \X Peers

Response ==
    [HRS : HRSKey, SignBytes : SignBytes, Signature : Nat, Ext : Exts \cup {Nil}, ExtSignature : Nat]

IsSignState(ss) ==
    /\ lockedCopy(ss) \in File
    /\ DOMAIN ss.cache \subseteq HRSKey
    /\ \A h \in DOMAIN ss.cache :
          ss.cache[h] \in [SignBytes : SignBytes \cup {Nil}, Signature : Nat \cup {Nil}]

(* Every variable has its type: the sign states, the file and its pending   *)
(* writes, the nonce map, the threads' locals and the responses returned.   *)
TypeOK ==
    /\ chainState \in 0 .. MaxLoads /\ loads \in 0 .. MaxLoads
    /\ DOMAIN signStates = Objects /\ \A o \in Objects : IsSignState(signStates[o])
    /\ file \in File \cup {Nil}
    /\ \A w \in pending : w.by \in Objects /\ w.copy \in File
    /\ nextNonce \in Nat
    /\ nonces \in [UUIDs -> Nonce \cup {Nil}]
    /\ generating \subseteq [uuid : UUIDs, id : Nat]
    /\ pc \in [Threads -> {"idle", "load", "stat", "create", "store", "loaded", "nonces", "badNonces", "get",
                           "check", "cached", "consume", "consumeExt", "extOnly", "save", "recheck", "reply",
                           "fail", "saveLSS"}]
    /\ req \in [Threads -> Requests \cup {NoRequest}]
    /\ ccs \in [Threads -> 0 .. MaxLoads]
    /\ todo \in [Threads -> SUBSET Calls]
    /\ vote \in [Threads -> Nat] /\ ext \in [Threads -> Nat]
    /\ shares \subseteq Response
    /\ forgetful \in BOOLEAN /\ received \in Nat /\ restarts \in Nat

(* The watermark in force: in memory, or in the file to be loaded.          *)
Current == IF chainState # 0 THEN lockedCopy(signStates[chainState]) ELSE file

Conflict(a, b) == a.HRS = b.HRS /\ ~ OnlyDifferByTimestamp(a.SignBytes, b.SignBytes)

(* "A single cosigner never returns valid signatures over two different     *)
(* blocks at the same HRS, even when two such requests are issued           *)
(* concurrently" (double_sign_test.go), which is what the watermark of      *)
(* LocalCosigner.sign is for.                                               *)
NoConflictingShares == \A a, b \in shares : ~ Conflict(a, b)

(* Whatever requests, LSS events, cache hits, disk writes and restarts      *)
(* interleave, LocalCosigner.sign returns no two conflicting shares as long *)
(* as LoadSignStateIfNecessary never replaced a sign state in use and no    *)
(* restart came up with an older watermark than the process had.            *)
KeptWatermarkPreventsDoubleSign == ~ forgetful => NoConflictingShares

(* No response of sign escapes the watermark: once a share is returned, the *)
(* sign state in use, or the file a restarted cosigner will load, is at or  *)
(* past its HRS, and at that HRS it holds the same block.                   *)
SharesUnderWatermark ==
    ~ forgetful =>
        \A s \in shares :
            /\ Current # Nil
            /\ ~ GreaterThan(s.HRS, Current.HRS)
            /\ s.HRS = Current.HRS => Current.SignBytes # Nil /\ ~ Conflict(s, Current)

(* combinedNonces consumes a nonce as it is read: no nonce makes shares     *)
(* over two different messages, be they two votes, two extensions, or a     *)
(* vote and an extension, whichever threads race for it.                    *)
NonceSignsOneMessage ==
    \A a, b \in shares :
        /\ a.Signature = b.Signature /\ a.Signature # 0 =>
              a.HRS = b.HRS /\ a.SignBytes = b.SignBytes
        /\ a.ExtSignature = b.ExtSignature /\ a.ExtSignature # 0 =>
              a.HRS = b.HRS /\ a.Ext = b.Ext
        /\ a.Signature = b.ExtSignature => a.Signature = 0
-----------------------------------------------------------------------------
(* The cosigner keeps its promise: with the votes of the returned shares    *)
(* for the released ones, every step of the handlers, the disk writers and  *)
(* restarts is a compatible release, a loss of the watermark, or invisible. *)
Vote(s) == [HRS |-> s.HRS, block |-> s.SignBytes.block]

Promise == INSTANCE CosignerPromise WITH
               Votes <- {Vote(r) : r \in Requests},
               signed <- {Vote(s) : s \in shares}

KeepsPromise == Promise!Spec

-----------------------------------------------------------------------------
(* The inductive invariant behind KeptWatermarkPreventsDoubleSign.  A vote  *)
(* is committed once a share for it was returned, or once a thread can do   *)
(* nothing but return one.                                                  *)
Committed ==
    {Vote(s) : s \in shares} \cup {Vote(req[t]) : t \in {u \in Threads : pc[u] \in {"reply", "extOnly"}}}

Consistent(votes) == \A v, w \in votes : v.HRS = w.HRS => v.block = w.block

(* No committed vote is ahead of the watermark, nor conflicts with it.      *)
CoveredBy(f, votes) ==
    \A v \in votes :
        /\ f # Nil
        /\ ~ GreaterThan(v.HRS, f.HRS)
        /\ v.HRS = f.HRS => f.SignBytes # Nil /\ f.SignBytes.block = v.block

CacheAgrees(ss, votes) ==
    \A h \in DOMAIN ss.cache :
        /\ ~ GreaterThan(h, ss.HRS)
        /\ h = ss.HRS => ss.cache[h].SignBytes = ss.SignBytes
        /\ \A v \in votes :
              v.HRS = h => ss.cache[h].SignBytes # Nil /\ ss.cache[h].SignBytes.block = v.block

(* A copy taken from the sign state at some time.                           *)
NotAhead(f, ss) ==
    /\ ~ GreaterThan(f.HRS, ss.HRS)
    /\ f.HRS = ss.HRS => f.SignBytes = ss.SignBytes

Signing ==
    {"check", "cached", "consume", "consumeExt", "extOnly", "save", "recheck", "reply", "fail"}

(* What a control point says about the thread's locals.                     *)
ThreadInv(t) ==
    /\ pc[t] # "idle" => req[t] \in Requests
    /\ pc[t] \in Signing \cup {"nonces", "badNonces"} => req[t].kind = "sign"
    /\ pc[t] \in {"cached", "consumeExt", "extOnly"} => hasVoteExtensions(req[t])
    /\ pc[t] \in {"loaded", "nonces", "badNonces", "get"} => chainState # 0
    /\ pc[t] \in Signing \cup {"saveLSS", "store"} => ccs[t] # 0
    /\ ccs[t] <= loads

TypeInv == TypeOK /\ chainState <= loads /\ \A t \in Threads : ThreadInv(t)

(* What a sign state must be for the votes committed under it.              *)
Protects(ss, votes) ==
    Consistent(votes) /\ CoveredBy(lockedCopy(ss), votes) /\ CacheAgrees(ss, votes)

(* While a sign state is in use, it protects the committed votes, no copy   *)
(* of it, on disk or pending, is ahead of it, and every handler works on it. *)
InUseThread(t) ==
    /\ pc[t] \in Signing \cup {"saveLSS"} => ccs[t] = chainState
    /\ pc[t] = "recheck" => ~ GreaterThan(req[t].HRS, signStates[chainState].HRS)

InUseInv ==
    /\ Protects(signStates[chainState], Committed)
    /\ file # Nil /\ NotAhead(file, signStates[chainState])
    /\ \A w \in pending : NotAhead(w.copy, signStates[chainState])
    /\ \A t \in Threads : InUseThread(t)

(* Until then the file protects them, and every sign state under            *)
(* construction equals the file.                                            *)
LoadingThread(t) ==
    /\ pc[t] \notin Signing \cup {"saveLSS"}
    /\ pc[t] = "create" => file \in {Nil, EmptyFile}
    /\ pc[t] = "store" => /\ file # Nil
                          /\ signStates[ccs[t]] \in {FreshCache(file), EmptyState}
                          /\ lockedCopy(signStates[ccs[t]]) = file

LoadingInv ==
    /\ Consistent(Committed) /\ CoveredBy(file, Committed)
    /\ pending = {}
    /\ \A t \in Threads : LoadingThread(t)

(* Nothing is ever signed at the zero HRS.                                  *)
ZeroInv == Current # Nil /\ Current.HRS = ZeroHRS => Current.SignBytes = Nil

SafetyInv ==
    /\ chainState # 0 => InUseInv
    /\ chainState = 0 => LoadingInv
    /\ ZeroInv

IInv == TypeInv /\ (~ forgetful => SafetyInv)
=============================================================================
