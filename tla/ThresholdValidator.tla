------------------------- MODULE ThresholdValidator -------------------------
(***************************************************************************)
(* ThresholdValidator.Sign on one node (signer/threshold_validator.go):    *)
(* concurrent sign requests, the raft events that bring in what other      *)
(* leaders signed, leadership that comes and goes, and restarts.  A step   *)
(* is one critical section: a sync.Map access, a section under             *)
(* lastSignState.mu, or one remote call.  How an attempt gets its shares   *)
(* is Cluster's concern: here it makes a full signature that the cluster's *)
(* promise allows, or fails.                                               *)
(***************************************************************************)
EXTENDS SignState, Sequences

CONSTANTS
    Threads,      \* concurrent calls of Sign
    fsm,          \* the thread that applies raft log entries, in order
    Requests,     \* the sign requests that may arrive
    Remote,       \* what other nodes may sign while they lead
    Exts,         \* vote extension payloads
    NilBlock,     \* the block of a vote for nil
    MaxWait,      \* maxWaitForSameBlockAttempts
    MaxLoads,     \* bound: sign states loaded by one process
    MaxRequests,  \* bound: requests received
    MaxRemote,    \* bound: signatures made by other nodes
    MaxChanges    \* bound: changes of leadership and restarts

Block == [HRS : HRSKey, SignBytes : SignBytes, Ext : Exts \cup {Nil}]

ASSUME RequestAssumption ==
    /\ Requests \cup Remote \subseteq Block
    /\ \A r \in Requests \cup Remote : GreaterThan(r.HRS, ZeroHRS)

ASSUME ThreadAssumption == fsm \notin Threads
ASSUME BoundAssumption == {MaxLoads, MaxWait} \subseteq Nat

(* A full signature: what it verifies against, and an identity, since       *)
(* signing again with other nonces gives another signature.                 *)
Signature == [id : Nat, HRS : HRSKey, SignBytes : SignBytes, Ext : Exts \cup {Nil}]

ASSUME NilAssumption == Nil \notin Exts /\ Nil \notin Signature

Objects == 1 .. MaxLoads
All == Threads \cup {fsm}

VARIABLES
    chainState,   \* the sync.Map entry: the ChainSignState in use, 0 for none
    states,       \* the ChainSignStates of this process: lastSignState and the HRS
                  \* of lastSignStateInitiated, whose other fields are not read
    loads,        \* how many of them there are
    disk,         \* the contents the state file may have: disk writes are unordered
                  \* and a crash may lose any of them
    leader,       \* who leads: this node ("me"), another ("other") or "none"
    signed, made, \* the full signatures there are in the cluster, and how many were made
    log, applied, \* the LSS events in the raft log, and how many were applied here
    pc, req,      \* each thread's control point and request
    css,          \* the ChainSignState a thread has loaded or fetched
    waits,        \* waits done for another attempt at the block
    sig, stamp,   \* the signature a thread will return and its timestamp
    responses,    \* history: the signatures returned
    received, remote, changes

stateVars == <<chainState, states, loads, disk>>
clusterVars == <<leader, signed, made, log, applied>>
locals == <<req, css, waits, sig, stamp>>
history == <<responses, received, remote, changes>>
vars == <<stateVars, clusterVars, pc, locals, history>>

Empty == [lastSignState |-> EmptyState, initiated |-> ZeroHRS]

Each(v) == [t \in All |-> v]

Init ==
    /\ chainState = 0 /\ loads = 0 /\ disk = {Nil} /\ states = [o \in Objects |-> Empty]
    /\ leader \in {"me", "none", "other"} /\ signed = {} /\ made = 0 /\ log = <<>> /\ applied = 0
    /\ pc = Each("idle") /\ req = Each(Nil) /\ css = Each(0) /\ waits = Each(0)
    /\ sig = Each(Nil) /\ stamp = Each(Nil)
    /\ responses = {} /\ received = 0 /\ remote = 0 /\ changes = 0

Goto(t, l) == pc' = [pc EXCEPT ![t] = l]

(* Sign returns and its locals are gone.                                    *)
Return(t) ==
    /\ Goto(t, "idle")
    /\ req' = [req EXCEPT ![t] = Nil]
    /\ css' = [css EXCEPT ![t] = 0]
    /\ waits' = [waits EXCEPT ![t] = 0]
    /\ sig' = [sig EXCEPT ![t] = Nil]
    /\ stamp' = [stamp EXCEPT ![t] = Nil]

ReturnError(t) == Return(t) /\ UNCHANGED history

(* Sign returns signature s, an extension signature over x and timestamp    *)
(* ts; kept records that ts is the request's own, for want of a leader's.   *)
Respond(t, s, x, ts, kept) ==
    /\ responses' = responses \cup {[req |-> req[t], sig |-> s, ext |-> x, stamp |-> ts, kept |-> kept]}
    /\ Return(t)
    /\ UNCHANGED <<received, remote, changes>>

hasVoteExtensions(r) == r.HRS.Step = 3 /\ r.Ext # Nil /\ r.SignBytes.block # NilBlock

last == states[chainState].lastSignState

-----------------------------------------------------------------------------
Receive(t, r) ==
    /\ pc[t] = "idle" /\ received < MaxRequests
    /\ received' = received + 1
    /\ req' = [req EXCEPT ![t] = r]
    /\ Goto(t, "load")
    /\ UNCHANGED <<stateVars, clusterVars, css, waits, sig, stamp, responses, remote, changes>>

(* fsm.Apply hands the next LSS event to handleLSSEvent.                    *)
Apply ==
    /\ pc[fsm] = "idle" /\ applied < Len(log)
    /\ req' = [req EXCEPT ![fsm] = log[applied + 1]]
    /\ Goto(fsm, "load")
    /\ UNCHANGED <<stateVars, clusterVars, css, waits, sig, stamp, history>>

Loaded(t) == Goto(t, IF t = fsm THEN "saveLSS" ELSE "proxy")

(* LoadSignStateIfNecessary: the map is consulted, a sign state is made     *)
(* from the file, and it is stored whatever was stored in the meantime.     *)
Load(t) ==
    /\ pc[t] = "load"
    /\ IF chainState # 0 THEN Loaded(t) ELSE Goto(t, "read")
    /\ UNCHANGED <<stateVars, clusterVars, locals, history>>

LoadOrCreateSignState(t) ==
    /\ pc[t] = "read" /\ loads < MaxLoads
    /\ loads' = loads + 1
    /\ \E f \in disk :
          LET ss == IF f = Nil THEN EmptyState ELSE FreshCache(f)
          IN  states' = [states EXCEPT ![loads + 1] = [lastSignState |-> ss, initiated |-> ss.HRS]]
    /\ disk' = IF disk = {Nil} THEN {EmptyFile} ELSE disk
    /\ css' = [css EXCEPT ![t] = loads + 1]
    /\ Goto(t, "store")
    /\ UNCHANGED <<chainState, clusterVars, req, waits, sig, stamp, history>>

StoreState(t) ==
    /\ pc[t] = "store"
    /\ chainState' = css[t]
    /\ Loaded(t)
    /\ UNCHANGED <<states, loads, disk, clusterVars, locals, history>>

(* Fault: the polling for a leader has no end.                              *)
pollForLeader(t) ==
    /\ pc[t] = "proxy"
    /\ \/ leader = "me" /\ Goto(t, "initiate")
       \/ leader = "other" /\ Goto(t, "proxied")
    /\ UNCHANGED <<stateVars, clusterVars, locals, history>>

(* proxyIfNecessary: on the leader Sign goes on; with no leader it gives up *)
(* after its polls; otherwise the leader is called.                         *)
proxyIfNecessary(t) ==
    /\ pc[t] = "proxy"
    /\ \/ leader = "me" /\ Goto(t, "initiate") /\ UNCHANGED <<locals, history>>
       \/ leader = "other" /\ Goto(t, "proxied") /\ UNCHANGED <<locals, history>>
       \/ leader = "none" /\ ReturnError(t)
    /\ UNCHANGED <<stateVars, clusterVars>>

(* The leader's answer: a signature of the cluster at this HRS, for this    *)
(* block unless it is a proposal; or an error.  RemoteCosigner.Sign returns *)
(* the timestamp that came with it or, when none did (a leader on an older  *)
(* build, or a leader that proxied to one), keeps the request's.            *)
Proxied(t) ==
    LET r == req[t]
    IN  /\ pc[t] = "proxied"
        /\ \/ \E s \in signed, kept \in BOOLEAN :
                /\ s.HRS = r.HRS
                /\ r.HRS.Step = 1 \/ OnlyDifferByTimestamp(s.SignBytes, r.SignBytes)
                /\ Respond(t, s, IF hasVoteExtensions(r) THEN r.Ext ELSE Nil,
                           IF kept THEN r.SignBytes.stamp ELSE s.SignBytes.stamp, kept)
           \/ ReturnError(t)
        /\ UNCHANGED <<stateVars, clusterVars>>

-----------------------------------------------------------------------------
(* SaveLastSignedStateInitiated: lastSignStateInitiated.Save, by which the  *)
(* first request at a new HRS goes on to sign.                              *)
SaveLastSignedStateInitiated(t) ==
    LET hrs == req[t].HRS
        initiated == states[chainState].initiated
    IN  /\ pc[t] = "initiate"
        /\ css' = [css EXCEPT ![t] = chainState]
        /\ IF GreaterThan(hrs, initiated)
           THEN states' = [states EXCEPT ![chainState].initiated = hrs] /\ Goto(t, "attempt")
           ELSE Goto(t, IF hrs = initiated THEN "same" ELSE "behind") /\ UNCHANGED states
        /\ UNCHANGED <<chainState, loads, disk, clusterVars, req, waits, sig, stamp, history>>

(* Fault: any block will do.                                                *)
compareIgnoringBlock(r, entry) == entry.SignBytes # Nil

(* compareBlockSignatureAgainstSSC on a cache entry of the request's HRS:   *)
(* whether it returns the entry's signature, which is nil after a failed    *)
(* attempt, or an error.                                                    *)
compareBlockSignatureAgainstSSC(r, entry) ==
    /\ entry.SignBytes # Nil
    /\ r.HRS.Step = 1 \/ OnlyDifferByTimestamp(entry.SignBytes, r.SignBytes)

(* What the request makes of an entry: its signature, with the timestamp    *)
(* that it was made over, another attempt, or an error.                     *)
UseEntry(t, entry) ==
    \/ /\ compareBlockSignatureAgainstSSC(req[t], entry) /\ entry.Signature # Nil
       /\ sig' = [sig EXCEPT ![t] = entry.Signature]
       /\ stamp' = [stamp EXCEPT ![t] = entry.SignBytes.stamp]
       /\ Goto(t, "existing")
       /\ UNCHANGED <<req, css, waits, history>>
    \/ /\ compareBlockSignatureAgainstSSC(req[t], entry) /\ entry.Signature = Nil
       /\ Goto(t, "attempt")
       /\ UNCHANGED <<locals, history>>
    \/ ~ compareBlockSignatureAgainstSSC(req[t], entry) /\ ReturnError(t)

(* The HRS is not new.  With nothing cached for it, the request waits if it *)
(* is the one being signed, and is refused otherwise.                       *)
getExistingBlockSignature(t) ==
    LET hrs == req[t].HRS
        waiting == pc[t] = "same" /\ GreaterThan(hrs, last.HRS)
    IN  /\ pc[t] \in {"same", "behind"}
        /\ \/ hrs \in DOMAIN last.cache /\ UseEntry(t, last.cache[hrs])
           \/ hrs \notin DOMAIN last.cache /\ waiting /\ Goto(t, "wait") /\ UNCHANGED <<locals, history>>
           \/ hrs \notin DOMAIN last.cache /\ ~ waiting /\ ReturnError(t)
        /\ UNCHANGED <<stateVars, clusterVars>>

(* Fault: one wait too many.                                                *)
WaitOnceMore(t) ==
    LET cache == states[css[t]].lastSignState.cache
    IN  /\ pc[t] = "wait"
        /\ \/ waits[t] <= MaxWait /\ req[t].HRS \in DOMAIN cache /\ UseEntry(t, cache[req[t].HRS])
           \/ /\ waits[t] <= MaxWait /\ req[t].HRS \notin DOMAIN cache
              /\ waits' = [waits EXCEPT ![t] = @ + 1]
              /\ UNCHANGED <<pc, req, css, sig, stamp, history>>
           \/ waits[t] > MaxWait /\ ReturnError(t)
        /\ UNCHANGED <<stateVars, clusterVars>>

(* cond.WaitWithTimeout returns on a broadcast or on the timeout, that is,  *)
(* at any time, and the cache is looked at again.                           *)
Wait(t) ==
    LET cache == states[css[t]].lastSignState.cache
        hrs == req[t].HRS
    IN  /\ pc[t] = "wait"
        /\ \/ waits[t] < MaxWait /\ hrs \in DOMAIN cache /\ UseEntry(t, cache[hrs])
           \/ /\ waits[t] < MaxWait /\ hrs \notin DOMAIN cache
              /\ waits' = [waits EXCEPT ![t] = @ + 1]
              /\ UNCHANGED <<pc, req, css, sig, stamp, history>>
           \/ waits[t] = MaxWait /\ ReturnError(t)
        /\ UNCHANGED <<stateVars, clusterVars>>

(* Fault: the cached extension signature is returned for any extension.     *)
ExistingSignatureUnverified(t) ==
    /\ pc[t] = "existing"
    /\ Respond(t, sig[t], IF hasVoteExtensions(req[t]) THEN sig[t].Ext ELSE Nil, stamp[t], FALSE)
    /\ UNCHANGED <<stateVars, clusterVars>>

(* An existing signature is returned if its extension signature, when the   *)
(* request has an extension, is for that extension.  Otherwise the          *)
(* extension is signed, unless the watermark has left the height.           *)
ExistingSignature(t) ==
    LET r == req[t]
    IN  /\ pc[t] = "existing"
        /\ \/ ~ hasVoteExtensions(r) /\ Respond(t, sig[t], Nil, stamp[t], FALSE)
           \/ hasVoteExtensions(r) /\ sig[t].Ext = r.Ext /\ Respond(t, sig[t], r.Ext, stamp[t], FALSE)
           \/ /\ hasVoteExtensions(r) /\ sig[t].Ext # r.Ext /\ r.HRS.Height = last.HRS.Height
              /\ Goto(t, "signExt")
              /\ UNCHANGED <<locals, history>>
           \/ /\ hasVoteExtensions(r) /\ sig[t].Ext # r.Ext /\ r.HRS.Height # last.HRS.Height
              /\ ReturnError(t)
        /\ UNCHANGED <<stateVars, clusterVars>>

signVoteExtension(t) ==
    /\ pc[t] = "signExt"
    /\ Respond(t, sig[t], req[t].Ext, stamp[t], FALSE) \/ ReturnError(t)
    /\ UNCHANGED <<stateVars, clusterVars>>

-----------------------------------------------------------------------------
Vote(s) == [HRS |-> s.HRS, block |-> s.SignBytes.block]

Cluster == INSTANCE CosignerPromise WITH
               Votes <- {Vote(r) : r \in Requests \cup Remote},
               signed <- {Vote(s) : s \in signed}, forgetful <- FALSE

NewSignature(r) ==
    [id |-> made + 1, HRS |-> r.HRS, SignBytes |-> r.SignBytes,
     Ext |-> IF hasVoteExtensions(r) THEN r.Ext ELSE Nil]

(* The attempt yields a full signature, over the requested timestamp.       *)
AttemptSucceeds(t) ==
    LET s == NewSignature(req[t])
    IN  /\ pc[t] = "attempt"
        /\ Cluster!Compatible(Vote(s), {Vote(w) : w \in signed})
        /\ signed' = signed \cup {s} /\ made' = made + 1
        /\ sig' = [sig EXCEPT ![t] = s]
        /\ stamp' = [stamp EXCEPT ![t] = req[t].SignBytes.stamp]
        /\ Goto(t, "save")
        /\ UNCHANGED <<stateVars, leader, log, applied, req, css, waits, history>>

(* Fault: a failed attempt is made again from the start.                    *)
AttemptAgain(t) ==
    /\ pc[t] = "attempt"
    /\ Goto(t, "initiate")
    /\ UNCHANGED <<stateVars, clusterVars, locals, history>>

(* An error from the nonces, the cosigners, the combination or its          *)
(* verification.                                                            *)
AttemptFails(t) ==
    /\ pc[t] = "attempt"
    /\ Goto(t, "notify")
    /\ UNCHANGED <<stateVars, clusterVars, locals, history>>

(* Fault: waiters are woken, but the cache tells them nothing.              *)
notifyWithoutEntry(t) ==
    /\ pc[t] = "notify"
    /\ ReturnError(t)
    /\ UNCHANGED <<stateVars, clusterVars>>

(* notifyBlockSignError: an entry with no signature allows a retry, and     *)
(* replaces whatever the cache holds for the HRS.                           *)
notifyBlockSignError(t) ==
    LET hrs == req[t].HRS
        cache == [h \in DOMAIN last.cache \cup {hrs} |->
                     IF h = hrs THEN Entry(req[t].SignBytes, Nil) ELSE last.cache[h]]
    IN  /\ pc[t] = "notify"
        /\ states' = [states EXCEPT ![chainState].lastSignState.cache = cache]
        /\ ReturnError(t)
        /\ UNCHANGED <<chainState, loads, disk, clusterVars>>

(* lastSignState.Save when it succeeds.                                     *)
Saved(hrs, bytes, s) ==
    LET next == blockDoubleSign(last, hrs, bytes, s)
    IN  /\ states' = [states EXCEPT ![chainState].lastSignState = next]
        /\ disk' = disk \cup {lockedCopy(next)}

(* The watermark is saved; that it is already at this HRS is no error.      *)
SaveSignature(t) ==
    LET r == req[t]
    IN  /\ pc[t] = "save"
        /\ \/ SaveSucceeds(last, r.HRS) /\ Saved(r.HRS, r.SignBytes, sig[t]) /\ Goto(t, "share")
           \/ SameHRSError(last, r.HRS) /\ Goto(t, "share") /\ UNCHANGED <<states, disk>>
           \/ GreaterThan(last.HRS, r.HRS) /\ Goto(t, "notify") /\ UNCHANGED <<states, disk>>
        /\ UNCHANGED <<chainState, loads, clusterVars, locals, history>>

(* ShareSigned: raft takes the event from the leader, or it fails, which is *)
(* only logged.                                                             *)
ShareSigned(t) ==
    /\ pc[t] = "share"
    /\ \/ leader = "me" /\ log' = Append(log, sig[t])
       \/ UNCHANGED log
    /\ Respond(t, sig[t], sig[t].Ext, stamp[t], FALSE)
    /\ UNCHANGED <<stateVars, leader, signed, made, applied>>

(* SaveLastSignedState, with the signature of an LSS event.  Only           *)
(* lastSignState takes note of it.                                          *)
SaveLastSignedState ==
    LET s == req[fsm]
    IN  /\ pc[fsm] = "saveLSS"
        /\ IF SaveSucceeds(last, s.HRS)
           THEN Saved(s.HRS, s.SignBytes, s)
           ELSE UNCHANGED <<states, disk>>
        /\ applied' = applied + 1
        /\ ReturnError(fsm)
        /\ UNCHANGED <<chainState, loads, leader, signed, made, log>>

-----------------------------------------------------------------------------
(* Raft elects a leader, or loses one.                                      *)
ChangeLeader(l) ==
    /\ changes < MaxChanges /\ l # leader
    /\ leader' = l
    /\ changes' = changes + 1
    /\ UNCHANGED <<stateVars, signed, made, log, applied, pc, locals, responses, received, remote>>

(* Another node makes a signature, and shares it if it leads.               *)
RemoteSigns(r) ==
    LET s == NewSignature(r)
    IN  /\ remote < MaxRemote
        /\ Cluster!Compatible(Vote(s), {Vote(w) : w \in signed})
        /\ remote' = remote + 1
        /\ signed' = signed \cup {s} /\ made' = made + 1
        /\ \/ leader = "other" /\ log' = Append(log, s)
           \/ UNCHANGED log
        /\ UNCHANGED <<stateVars, leader, applied, pc, locals, responses, received, changes>>

(* The process dies and starts again: the file is one of its possible       *)
(* contents, and raft applies the log again from some point on.             *)
Restart ==
    /\ changes < MaxChanges
    /\ changes' = changes + 1
    /\ \E f \in disk : disk' = {f}
    /\ applied' \in 0 .. applied
    /\ chainState' = 0 /\ loads' = 0 /\ states' = [o \in Objects |-> Empty]
    /\ leader' \in {"none", "other"}
    /\ pc' = Each("idle") /\ req' = Each(Nil) /\ css' = Each(0) /\ waits' = Each(0)
    /\ sig' = Each(Nil) /\ stamp' = Each(Nil)
    /\ UNCHANGED <<signed, made, log, responses, received, remote>>

-----------------------------------------------------------------------------
LoadSteps(t) == Load(t) \/ LoadOrCreateSignState(t) \/ StoreState(t)

Sign(t) ==
    \/ LoadSteps(t) \/ proxyIfNecessary(t) \/ Proxied(t)
    \/ SaveLastSignedStateInitiated(t) \/ getExistingBlockSignature(t) \/ Wait(t)
    \/ ExistingSignature(t) \/ signVoteExtension(t)
    \/ AttemptSucceeds(t) \/ AttemptFails(t) \/ notifyBlockSignError(t)
    \/ SaveSignature(t) \/ ShareSigned(t)

handleLSSEvent == LoadSteps(fsm) \/ SaveLastSignedState

Next ==
    \/ \E t \in Threads : (\E r \in Requests : Receive(t, r)) \/ Sign(t)
    \/ Apply \/ handleLSSEvent
    \/ \E l \in {"me", "none", "other"} : ChangeLeader(l)
    \/ \E r \in Remote : RemoteSigns(r)
    \/ Restart

Spec == Init /\ [][Next]_vars

(* The scheduler runs every goroutine, and every remote call and wait has a *)
(* timeout; nothing is assumed of raft or of the requests.                  *)
FairSpec == Spec /\ \A t \in Threads : WF_vars(Sign(t))

-----------------------------------------------------------------------------
IsSignState(ss) ==
    /\ ss.HRS \in HRSKey /\ ss.SignBytes \in SignBytes \cup {Nil} /\ ss.Signature \in Signature \cup {Nil}
    /\ DOMAIN ss.cache \subseteq HRSKey
    /\ \A h \in DOMAIN ss.cache :
          ss.cache[h] \in [SignBytes : SignBytes \cup {Nil}, Signature : Signature \cup {Nil}]

(* Every variable has its type: the sign states and what the file may hold, *)
(* the raft log, the threads' locals and the responses.                     *)
TypeOK ==
    /\ chainState \in 0 .. MaxLoads /\ loads \in 0 .. MaxLoads
    /\ \A o \in Objects : IsSignState(states[o].lastSignState) /\ states[o].initiated \in HRSKey
    /\ disk \subseteq [HRS : HRSKey, SignBytes : SignBytes \cup {Nil}, Signature : Signature \cup {Nil}] \cup {Nil}
    /\ leader \in {"me", "none", "other"}
    /\ signed \subseteq Signature /\ made \in Nat /\ log \in Seq(signed) /\ applied \in 0 .. Len(log)
    /\ pc \in [All -> {"idle", "load", "read", "store", "proxy", "proxied", "initiate", "same", "behind", "wait",
                       "existing", "signExt", "attempt", "notify", "save", "share", "saveLSS"}]
    /\ \A t \in Threads : req[t] \in Requests \cup {Nil}
    /\ req[fsm] \in signed \cup {Nil}
    /\ css \in [All -> 0 .. MaxLoads] /\ waits \in [All -> 0 .. MaxWait]
    /\ sig \in [All -> signed \cup {Nil}] /\ stamp \in [All -> Stamps \cup {Nil}]
    /\ responses \subseteq [req : Requests, sig : signed, ext : Exts \cup {Nil}, stamp : Stamps, kept : BOOLEAN]

(* What Sign returns verifies, whether the signature is fresh, cached, from *)
(* an LSS event, from the file or proxied: it is of the requested height,   *)
(* round and step; for a vote it covers the requested block ("Requests for  *)
(* a conflicting block are refused", docs/signing.md); an extension         *)
(* signature is returned when the payload has an extension, for that        *)
(* extension; and the signature covers the timestamp returned with it.  The *)
(* last may fail in one case only, the window of rolling upgrades that      *)
(* docs/signing.md describes: a proxied answer came without a timestamp and *)
(* the leader had signed this HRS before over another than the request's.   *)
ResponseVerifies ==
    \A p \in responses :
        /\ p.sig.HRS = p.req.HRS
        /\ p.sig.SignBytes.stamp # p.stamp => p.kept /\ p.stamp = p.req.SignBytes.stamp
        /\ p.req.HRS.Step # 1 => p.sig.SignBytes.block = p.req.SignBytes.block
        /\ p.ext = IF hasVoteExtensions(p.req) THEN p.req.Ext ELSE Nil

(* A failed attempt can be retried: unless some thread is still signing at  *)
(* the initiated HRS, the cache has an entry for it or the watermark has    *)
(* reached it.  Otherwise every request for it would wait for a signature   *)
(* nobody is making, until it gives up.                                     *)
Attempting == {t \in Threads : pc[t] \in {"attempt", "save", "notify"}}

InitiatedIsSettled ==
    chainState # 0 =>
        LET hrs == states[chainState].initiated
        IN  \/ \E t \in Attempting : req[t].HRS = hrs
            \/ hrs \in DOMAIN last.cache
            \/ ~ GreaterThan(hrs, last.HRS)

(* Every call of Sign returns: neither the wait for another attempt at the  *)
(* block, the polling for a raft leader nor a failed attempt blocks it for  *)
(* good.                                                                    *)
SignReturns == \A t \in Threads : pc[t] # "idle" ~> pc[t] = "idle"

(* How many steps a call of Sign has left at most, from a control point and *)
(* with some of its waits done.                                             *)
StepsFrom(point, waited) ==
    CASE point = "idle" -> 0
      [] point \in {"proxied", "signExt", "notify", "share", "saveLSS"} -> 1
      [] point \in {"existing", "save"} -> 2
      [] point = "attempt" -> 3
      [] point = "wait" -> MaxWait - waited + 4
      [] point \in {"same", "behind"} -> MaxWait + 5
      [] point = "initiate" -> MaxWait + 6
      [] point = "proxy" -> MaxWait + 7
      [] point = "store" -> MaxWait + 8
      [] point = "read" -> MaxWait + 9
      [] point = "load" -> MaxWait + 10

(* No call of Sign starts over: each of its steps brings it closer to its   *)
(* return, whether the block is new, cached, being signed by another call   *)
(* or failed, and nothing that other calls, raft events, other leaders or a *)
(* restart do takes it back.  It returns within MaxWait + 10 steps.         *)
SignAdvances ==
    [][\A t \in Threads :
          pc[t] # "idle" =>
              \/ StepsFrom(pc'[t], waits'[t]) < StepsFrom(pc[t], waits[t])
              \/ UNCHANGED <<pc[t], req[t], css[t], waits[t], sig[t], stamp[t]>>]_vars

(* "For a cached vote at the same height, round, and step, requests that    *)
(* differ only in timestamp receive the existing vote signature"            *)
(* (docs/signing.md): no request goes on to sign when the cache holds a     *)
(* signature of its vote.                                                   *)
CachedVoteIsReused ==
    [][\A t \in Threads :
          pc[t] = "initiate" /\ pc'[t] = "attempt" /\ req[t].HRS \in DOMAIN last.cache =>
              \/ last.cache[req[t].HRS].Signature = Nil
              \/ ~ compareBlockSignatureAgainstSSC(req[t], last.cache[req[t].HRS])]_vars
=============================================================================
