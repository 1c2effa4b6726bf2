---------------------------- MODULE RemoteSigner ----------------------------
(***************************************************************************)
(* The connections between a chain node and the signer nodes of a cluster  *)
(* (signer/remote_signer.go), when only the raft leader may connect        *)
(* (leaderOnlyChainNodeConnections): one ReconnRemoteSigner loop per       *)
(* signer node, its leadership watcher, the sign goroutines it abandons,   *)
(* and the gRPC route of signer/remote_signer_grpc_server.go.  The chain   *)
(* node has one signer slot and repeats what gets no answer.  The          *)
(* validator behind all of this signs what the cluster's promise allows,   *)
(* refuses the rest, or fails.                                             *)
(***************************************************************************)
EXTENDS Integers

CONSTANTS
    Signers,      \* the signer nodes
    Votes,        \* what may have to be signed: records with an HRS and a block
    Queries,      \* requests answered without signing: ping, pubkey, malformed
    None,         \* no signer, no request, no answer
    MaxFaults     \* bound: broken connections, timeouts, panics, failed attempts,
                  \* stopped services

ASSUME VoteAssumption == \A v \in Votes : v.HRS \in Nat
ASSUME NoneAssumption == None \notin Signers \cup Votes \cup Queries
ASSUME BoundAssumption == MaxFaults \in Nat

Requests == Votes \cup Queries

(* What the node is sent: the signature, a RemoteSignerError by which the   *)
(* validator refuses for good, or the answer to a query.                    *)
Answer == [req : Requests, kind : {"signed", "refused", "reply"}]

VARIABLES
    leader,     \* the raft leader as isLeader reports it, or None
    running,    \* the service has not been stopped, and the context is not done
    pc,         \* where each loop is
    conn,       \* its connection: "nil", "open", "closed" (by the watcher), "dead"
    watchStop,  \* the channel of the current watcher is not nil
    watching,   \* that watcher is running
    req,        \* the vote that the current sign goroutine works on
    res,        \* the answer to be written
    abandoned,  \* votes that abandoned sign goroutines still work on
    begun,      \* the votes that were put to the validator
    signed,     \* the votes the cluster has signed
    slot,       \* the node's side: whose connection it holds
    wire,       \* the request and the answer in flight on that connection
    current,    \* the node's request that has no answer yet
    sent,       \* it was sent on the connection that the node holds
    faults

connVars == <<conn, watchStop, watching>>
loopVars == <<pc, connVars, req, res>>
signVars == <<abandoned, begun, signed>>
nodeVars == <<slot, wire, current, sent>>
envVars == <<leader, running>>
vars == <<loopVars, signVars, nodeVars, envVars, faults>>

EmptyWire == [req |-> None, res |-> None]

Each(v) == [s \in Signers |-> v]

Init ==
    /\ leader = None /\ running = Each(TRUE)
    /\ pc = Each("park") /\ conn = Each("nil") /\ watchStop = Each(FALSE) /\ watching = Each(FALSE)
    /\ req = Each(None) /\ res = Each(None)
    /\ abandoned = {} /\ begun = {} /\ signed = {}
    /\ slot = None /\ wire = EmptyWire /\ current = None /\ sent = FALSE
    /\ faults = 0

Goto(s, l) == pc' = [pc EXCEPT ![s] = l]

Fault == faults < MaxFaults /\ faults' = faults + 1

-----------------------------------------------------------------------------
(* Fault: the stopped watcher's channel is kept, so no other is started.    *)
dropConnKeepsStop(s) ==
    /\ conn' = [conn EXCEPT ![s] = "nil"]
    /\ watching' = [watching EXCEPT ![s] = FALSE]
    /\ req' = [req EXCEPT ![s] = None]
    /\ res' = [res EXCEPT ![s] = None]
    /\ UNCHANGED watchStop

(* dropConn: the connection is closed and its watcher told to end.          *)
dropConn(s) ==
    /\ conn' = [conn EXCEPT ![s] = "nil"]
    /\ watching' = [watching EXCEPT ![s] = FALSE]
    /\ req' = [req EXCEPT ![s] = None]
    /\ res' = [res EXCEPT ![s] = None]
    /\ watchStop' = [watchStop EXCEPT ![s] = FALSE]

(* The head of the loop without a connection: waitForLeadership returns     *)
(* true, or the service has stopped.                                        *)
waitForLeadership(s) ==
    /\ pc[s] = "park"
    /\ \/ leader = s /\ Goto(s, "dial")
       \/ ~ running[s] /\ Goto(s, "done")
    /\ UNCHANGED <<connVars, req, res, signVars, nodeVars, envVars, faults>>

(* Fault: the retries have no end.                                          *)
DialForever(s) ==
    /\ pc[s] = "dial" /\ running[s]
    /\ Goto(s, "handshake")
    /\ UNCHANGED <<connVars, req, res, signVars, nodeVars, envVars, faults>>

(* establishConnection: DialContext connects, were it only to the backlog   *)
(* of the node's listener.  A dial that fails is repeated, whoever leads by *)
(* then, until the context ends.                                            *)
Dial(s) ==
    /\ pc[s] = "dial"
    /\ \/ running[s] /\ Goto(s, "handshake")
       \/ ~ running[s] /\ Goto(s, "done")
    /\ UNCHANGED <<connVars, req, res, signVars, nodeVars, envVars, faults>>

(* MakeSecretConnection has no deadline and does not look at the context:   *)
(* it waits until the node has its slot free and accepts, and may be done   *)
(* after the service was stopped.                                           *)
MakeSecretConnection(s) ==
    /\ pc[s] = "handshake" /\ slot = None
    /\ conn' = [conn EXCEPT ![s] = "open"]
    /\ slot' = s /\ wire' = EmptyWire /\ sent' = FALSE
    /\ Goto(s, "connected")
    /\ UNCHANGED <<watchStop, watching, req, res, signVars, current, envVars, faults>>

(* The handshake fails, or shows another key than the node's; the dial is   *)
(* repeated.                                                                *)
HandshakeFails(s) ==
    /\ pc[s] = "handshake" /\ Fault
    /\ Goto(s, "dial")
    /\ UNCHANGED <<connVars, req, res, signVars, nodeVars, envVars>>

(* Fault: with a connection, running is not checked.                        *)
ConnectedWithoutCheck(s) ==
    /\ pc[s] = "connected"
    /\ Goto(s, "read")
    /\ watchStop' = [watchStop EXCEPT ![s] = TRUE]
    /\ watching' = [watching EXCEPT ![s] = watchStop[s] => @]
    /\ UNCHANGED <<conn, req, res, signVars, nodeVars, envVars, faults>>

(* With a connection, new or kept from the last round: running is checked,  *)
(* and the watcher is started unless the connection has had one.            *)
Connected(s) ==
    /\ pc[s] = "connected"
    /\ \/ ~ running[s] /\ dropConn(s) /\ Goto(s, "done")
       \/ /\ running[s]
          /\ Goto(s, "read")
          /\ watchStop' = [watchStop EXCEPT ![s] = TRUE]
          /\ watching' = [watching EXCEPT ![s] = watchStop[s] => @]
          /\ UNCHANGED <<conn, req, res>>
    /\ UNCHANGED <<signVars, nodeVars, envVars, faults>>

(* Fault: whatever is not a proposal is signed as a vote.                   *)
handleRequestUnsorted(s, r) ==
    /\ req' = [req EXCEPT ![s] = r]
    /\ begun' = begun \cup {r}
    /\ Goto(s, "sign")
    /\ UNCHANGED res

(* handleRequest: a query is answered at once, errors included; a vote or   *)
(* proposal gets a sign goroutine.                                          *)
handleRequest(s, r) ==
    \/ /\ r \in Queries
       /\ res' = [res EXCEPT ![s] = [req |-> r, kind |-> "reply"]]
       /\ Goto(s, "write")
       /\ UNCHANGED <<req, begun>>
    \/ /\ r \in Votes
       /\ req' = [req EXCEPT ![s] = r]
       /\ begun' = begun \cup {r}
       /\ Goto(s, "sign")
       /\ UNCHANGED res

(* Fault: the read has no deadline, and a dead connection is kept.          *)
ReadNoDeadline(s) ==
    /\ pc[s] = "read"
    /\ \/ /\ conn[s] = "open" /\ wire.req # None
          /\ handleRequest(s, wire.req)
          /\ wire' = [wire EXCEPT !.req = None]
          /\ UNCHANGED connVars
       \/ conn[s] = "closed" /\ dropConn(s) /\ Goto(s, "park") /\ UNCHANGED <<wire, begun>>
    /\ UNCHANGED <<abandoned, signed, slot, current, sent, envVars, faults>>

(* ReadMsg takes the node's request, or fails because the connection was    *)
(* closed, or by the read deadline.  The node's pings keep a live           *)
(* connection clear of the deadline; only a service that stops may meet it. *)
Read(s) ==
    /\ pc[s] = "read"
    /\ \/ /\ conn[s] = "open" /\ wire.req # None
          /\ handleRequest(s, wire.req)
          /\ wire' = [wire EXCEPT !.req = None]
          /\ UNCHANGED connVars
       \/ /\ conn[s] # "open" \/ (~ running[s] /\ wire.req = None)
          /\ dropConn(s) /\ Goto(s, "park")
          /\ UNCHANGED <<wire, begun>>
    /\ UNCHANGED <<abandoned, signed, slot, current, sent, envVars, faults>>

(* handleRequestSafely: a panic in the handler drops the connection.        *)
handleRequestSafely(s) ==
    /\ pc[s] = "read" /\ conn[s] = "open" /\ wire.req # None /\ Fault
    /\ wire' = [wire EXCEPT !.req = None]
    /\ dropConn(s) /\ Goto(s, "park")
    /\ UNCHANGED <<signVars, slot, current, sent, envVars>>

-----------------------------------------------------------------------------
Cluster == INSTANCE CosignerPromise WITH forgetful <- FALSE

(* A cosigner or a leader may have gone on to another vote at this HRS or   *)
(* a later one, whether or not the cluster signed that one in the end.      *)
Contested(v) == \E w \in begun \ {v} : w.HRS >= v.HRS

(* What the cluster has signed keeps others at and below its HRS out.       *)
Behind(v) == v \notin signed /\ \E w \in signed : w.HRS >= v.HRS

(* How a sign call ends: with a signature, with a typed refusal by the      *)
(* state of this node, with an error whose text holds a peer's refusal (the *)
(* RPC erases the type), or with any other error: a missing cosigner, a     *)
(* failed combination, a panic.                                             *)
Outcomes == {"signed", "typed", "text", "other"}

(* signAndTrack: the validator signs (again, or for the first time),        *)
(* refuses, which takes another vote in the way, or fails.                  *)
signAndTrack(v, outcome) ==
    \/ /\ outcome = "signed" /\ ~ Behind(v)
       /\ Cluster!Compatible(v, signed) /\ signed' = signed \cup {v}
    \/ outcome \in {"typed", "text"} /\ Contested(v) /\ UNCHANGED signed
    \/ outcome = "other" /\ UNCHANGED signed

(* signRefusal: the error is one of the typed refusals, or its text holds   *)
(* one of signRefusalMessages.                                              *)
signRefusal(outcome) == outcome \in {"typed", "text"}

(* The sign goroutine is done in time: a signature is written, or a refusal *)
(* as a RemoteSignerError.                                                  *)
SignReturns(s) ==
    /\ pc[s] = "sign"
    /\ \E outcome \in Outcomes :
          /\ outcome = "signed" \/ signRefusal(outcome)
          /\ signAndTrack(req[s], outcome)
          /\ res' = [res EXCEPT ![s] =
                       [req |-> req[s], kind |-> IF outcome = "signed" THEN "signed" ELSE "refused"]]
    /\ Goto(s, "write")
    /\ UNCHANGED <<connVars, req, abandoned, begun, nodeVars, envVars, faults>>

(* After an error that is no refusal the connection is dropped without an   *)
(* answer, so that the node tries again.                                    *)
SignFails(s) ==
    /\ pc[s] = "sign" /\ Fault
    /\ \E outcome \in Outcomes \ {"signed"} : ~ signRefusal(outcome) /\ signAndTrack(req[s], outcome)
    /\ dropConn(s) /\ Goto(s, "park")
    /\ UNCHANGED <<abandoned, begun, nodeVars, envVars>>

(* signWithTimeout: signRequestTimeout expires, or the service stops.  The  *)
(* goroutine is left to itself and the connection is dropped.               *)
signWithTimeout(s) ==
    /\ pc[s] = "sign"
    /\ Fault \/ (~ running[s] /\ UNCHANGED faults)
    /\ abandoned' = abandoned \cup {req[s]}
    /\ dropConn(s) /\ Goto(s, "park")
    /\ UNCHANGED <<begun, signed, nodeVars, envVars>>

(* Fault: all calls of signWithTimeout share one channel, and a late result *)
(* goes to whoever waits by then.                                           *)
FinishToWaiter(v) ==
    /\ v \in abandoned
    /\ abandoned' = abandoned \ {v}
    /\ signAndTrack(v, "signed")
    /\ \E s \in Signers :
          /\ pc[s] = "sign"
          /\ res' = [res EXCEPT ![s] = [req |-> v, kind |-> "signed"]]
          /\ Goto(s, "write")
    /\ UNCHANGED <<connVars, req, begun, nodeVars, envVars, faults>>

(* A goroutine that nobody waits for still signs, or not; its channel is    *)
(* its own.                                                                 *)
FinishAbandoned(v) ==
    /\ v \in abandoned
    /\ abandoned' = abandoned \ {v}
    /\ \E outcome \in Outcomes : signAndTrack(v, outcome)
    /\ UNCHANGED <<loopVars, begun, nodeVars, envVars, faults>>

(* WriteMsg reaches the node, or nobody on a dead connection, or fails on   *)
(* one that is not open.                                                    *)
Write(s) ==
    /\ pc[s] = "write"
    /\ \/ /\ conn[s] # "closed"
          /\ wire' = IF conn[s] = "open" THEN [wire EXCEPT !.res = res[s]] ELSE wire
          /\ req' = [req EXCEPT ![s] = None] /\ res' = [res EXCEPT ![s] = None]
          /\ Goto(s, "connected")
          /\ UNCHANGED connVars
       \/ conn[s] # "open" /\ dropConn(s) /\ Goto(s, "park") /\ UNCHANGED wire
    /\ UNCHANGED <<signVars, slot, current, sent, envVars, faults>>

(* releaseConnOnLeadershipLoss closes the connection under the loop.        *)
releaseConnOnLeadershipLoss(s) ==
    /\ watching[s] /\ leader # s
    /\ watching' = [watching EXCEPT ![s] = FALSE]
    /\ conn' = [conn EXCEPT ![s] = "closed"]
    /\ UNCHANGED <<pc, watchStop, req, res, signVars, nodeVars, envVars, faults>>

-----------------------------------------------------------------------------
(* BaseService.Stop and OnStop, which cancels the loop's context.           *)
OnStop(s) ==
    /\ running[s] /\ Fault
    /\ running' = [running EXCEPT ![s] = FALSE]
    /\ UNCHANGED <<loopVars, signVars, nodeVars, leader>>

(* RemoteSignerGRPCServer.Sign: another node's request, put to the same     *)
(* validator on a goroutine of its own, without the timeout; it may fail.   *)
GRPCSign(v) ==
    /\ begun' = begun \cup {v}
    /\ \E outcome \in Outcomes : signAndTrack(v, outcome)
    /\ UNCHANGED <<loopVars, abandoned, nodeVars, envVars, faults>>

(* Raft elects a leader or loses one.                                       *)
ChangeLeader(l) ==
    /\ l # leader
    /\ leader' = l
    /\ UNCHANGED <<loopVars, signVars, nodeVars, running, faults>>

(* The chain node asks on the connection that it holds, and asks again on   *)
(* the next one what was not answered.                                      *)
NodeAsks(r) ==
    /\ slot # None /\ ~ sent
    /\ current \in {None, r}
    /\ current' = r /\ sent' = TRUE
    /\ wire' = [req |-> r, res |-> None]
    /\ UNCHANGED <<loopVars, signVars, envVars, slot, faults>>

NodeTakesAnswer ==
    /\ wire.res # None
    /\ current' = None /\ sent' = FALSE /\ wire' = EmptyWire
    /\ UNCHANGED <<loopVars, signVars, envVars, slot, faults>>

(* The node finds the connection closed or, by its own timeout, dead.       *)
NodeLosesConn ==
    /\ slot # None /\ conn[slot] # "open"
    /\ slot' = None /\ wire' = EmptyWire /\ sent' = FALSE
    /\ UNCHANGED <<loopVars, signVars, envVars, current, faults>>

(* The network drops a connection and neither side is told.                 *)
Break(s) ==
    /\ conn[s] = "open" /\ Fault
    /\ conn' = [conn EXCEPT ![s] = "dead"]
    /\ UNCHANGED <<pc, watchStop, watching, req, res, signVars, nodeVars, envVars>>

-----------------------------------------------------------------------------
Loop(s) ==
    \/ waitForLeadership(s) \/ Dial(s) \/ MakeSecretConnection(s) \/ Connected(s)
    \/ Read(s) \/ handleRequestSafely(s)
    \/ SignReturns(s) \/ SignFails(s) \/ signWithTimeout(s) \/ Write(s)

Node == (current # None /\ NodeAsks(current)) \/ NodeTakesAnswer \/ NodeLosesConn

Next ==
    \/ \E s \in Signers :
          Loop(s) \/ HandshakeFails(s) \/ releaseConnOnLeadershipLoss(s) \/ OnStop(s) \/ Break(s)
    \/ \E v \in Votes : FinishAbandoned(v) \/ GRPCSign(v)
    \/ \E l \in Signers \cup {None} : ChangeLeader(l)
    \/ \E r \in Requests : NodeAsks(r)
    \/ NodeTakesAnswer \/ NodeLosesConn

Spec == Init /\ [][Next]_vars

(* The scheduler runs every goroutine, every read, dial and sign call has a *)
(* deadline, and tickers repeat the checks of leadership.  The node accepts *)
(* one that waits when its slot is free, repeats its request and sees what  *)
(* is closed.  Handshakes have no deadline: one waits while others are      *)
(* served.                                                                  *)
FairSpec ==
    /\ Spec
    /\ WF_vars(Node)
    /\ \A s \in Signers : WF_vars(Loop(s)) /\ WF_vars(releaseConnOnLeadershipLoss(s))

-----------------------------------------------------------------------------
(* Every variable has its type, and the bounded counters their bound.       *)
TypeOK ==
    /\ leader \in Signers \cup {None} /\ running \in [Signers -> BOOLEAN]
    /\ pc \in [Signers -> {"park", "dial", "handshake", "connected", "read", "sign", "write", "done"}]
    /\ conn \in [Signers -> {"nil", "open", "closed", "dead"}]
    /\ watchStop \in [Signers -> BOOLEAN] /\ watching \in [Signers -> BOOLEAN]
    /\ req \in [Signers -> Votes \cup {None}] /\ res \in [Signers -> Answer \cup {None}]
    /\ abandoned \subseteq begun /\ signed \subseteq begun /\ begun \subseteq Votes
    /\ slot \in Signers \cup {None} /\ wire \in [req : Requests \cup {None}, res : Answer \cup {None}]
    /\ current \in Requests \cup {None} /\ sent \in BOOLEAN
    /\ faults \in 0 .. MaxFaults

(* The node is told about the request it asked, whatever was abandoned      *)
(* before: a signature sent to it is over its own vote and was made by the  *)
(* cluster, and a RemoteSignerError, which the node never retries, is sent  *)
(* only when the validator was given another vote at that HRS or a later    *)
(* one ("Only those are answered with a RemoteSignerError", signRefusal).   *)
AnswerIsTrue ==
    wire.res # None =>
        /\ wire.res.req = current
        /\ wire.res.kind = "signed" => current \in signed
        /\ wire.res.kind = "refused" => Contested(current)

(* At most one loop has an open connection to the node's single slot, and a *)
(* loop serves requests only on a connection that is watched for the loss   *)
(* of leadership.                                                           *)
SlotIsWatched ==
    \A s \in Signers :
        /\ conn[s] = "open" => slot = s
        /\ conn[s] = "open" /\ pc[s] \in {"read", "sign", "write"} => watching[s]

(* "so a chain node holding a single signer slot always talks to the        *)
(* current raft leader" (ReconnRemoteSigner.isLeader): once a leader that   *)
(* keeps running stays, it holds the slot for good, and every request of    *)
(* the node is answered.                                                    *)
LeaderServes ==
    \A s \in Signers :
        <>[](leader = s /\ running[s]) =>
            <>[](slot = s /\ conn[s] = "open") /\ []<>(current = None)

(* A stopped service ends its loop and releases its connection, for good:   *)
(* neither the read, the dial, the leadership park nor a sign request holds *)
(* it up (OnStop).  Only the handshake does, which the context does not     *)
(* abort, and only while the node keeps giving its slot to others.          *)
StopEnds ==
    \A s \in Signers :
        <>[](~ running[s]) =>
            \/ <>[](pc[s] = "done" /\ conn[s] = "nil" /\ ~ watching[s])
            \/ <>[](pc[s] = "handshake") /\ []<>(slot \notin {s, None})

(* How many steps a loop has left at most once its service is stopped.      *)
StepsFrom(point) ==
    CASE point = "done" -> 0
      [] point \in {"dial", "connected"} -> 1
      [] point \in {"park", "handshake"} -> 2
      [] point = "write" -> 3
      [] point = "sign" -> 4
      [] point = "read" -> 5

(* A stopped service only goes towards its end, whatever the node, the      *)
(* watcher, raft and abandoned sign calls do meanwhile: it is not started   *)
(* again, and each step of its loop leaves fewer to take.  A handshake that *)
(* was under way may still open a connection; it is not read ("since        *)
(* dialing can take time, we check running again"), and no watcher is       *)
(* started for it.  At the end there is neither.                            *)
StopAdvances ==
    [][\A s \in Signers :
          ~ running[s] =>
              /\ ~ running'[s]
              /\ pc'[s] = pc[s] \/ StepsFrom(pc'[s]) < StepsFrom(pc[s])
              /\ conn'[s] = "open" => conn[s] = "open" \/ (pc[s] = "handshake" /\ pc'[s] = "connected")
              /\ watching'[s] => watching[s]
              /\ pc'[s] = "done" => conn'[s] = "nil" /\ ~ watching'[s]]_vars
=============================================================================
