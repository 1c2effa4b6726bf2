------------------------- MODULE RemoteSignerProofs -------------------------
(***************************************************************************)
(* RemoteSigner for any set of signer nodes, votes and queries, and any    *)
(* number of faults: its types, what the chain node is told, and who holds *)
(* its slot.                                                               *)
(***************************************************************************)
EXTENDS RemoteSigner, TLAPS

(* A loop without a connection has no watcher, and while an open connection *)
(* has a watcher's channel that watcher runs: the channel is made with the  *)
(* watcher, and the watcher closes the connection before it ends.           *)
ConnInv ==
    \A s \in Signers :
        /\ conn[s] = "nil" <=> pc[s] \in {"park", "dial", "handshake", "done"}
        /\ conn[s] = "nil" => ~ watchStop[s]
        /\ watching[s] => watchStop[s]
        /\ conn[s] = "open" /\ watchStop[s] => watching[s]
        /\ pc[s] \in {"read", "sign", "write"} => watchStop[s]
        /\ conn[s] = "open" => slot = s

Truthful(a) ==
    /\ a.req = current
    /\ a.kind = "signed" => current \in signed
    /\ a.kind = "refused" => Contested(current)

(* The node's request is in one place at a time: on the wire, with the loop *)
(* whose connection is open, or on the wire again as an answer.  Until then *)
(* the node asks nothing else.                                              *)
NodeInv ==
    /\ wire.req # None => sent /\ wire.req = current
    /\ wire.res # None => sent /\ Truthful(wire.res)
    /\ wire.req = None \/ wire.res = None
    /\ \A s \in Signers :
          conn[s] = "open" /\ pc[s] \in {"sign", "write"} =>
              /\ sent /\ wire.req = None /\ wire.res = None
              /\ pc[s] = "sign" => req[s] = current
              /\ pc[s] = "write" => Truthful(res[s])

(* A sign goroutine works on a vote that was put to the validator, and what *)
(* is to be written is an answer.                                           *)
SignInv ==
    \A s \in Signers :
        /\ pc[s] = "sign" => req[s] \in begun
        /\ pc[s] = "write" => res[s] \in Answer

IInv == TypeOK /\ SignInv /\ ConnInv /\ NodeInv

-----------------------------------------------------------------------------
(* The records that are written are answers, and what is on the wire.       *)
LEMMA AnswerType ==
    /\ \A r \in Requests, k \in {"signed", "refused", "reply"} : [req |-> r, kind |-> k] \in Answer
    /\ Votes \subseteq Requests /\ Queries \subseteq Requests
    /\ EmptyWire \in [req : Requests \cup {None}, res : Answer \cup {None}]
    /\ \A r \in Requests : [req |-> r, res |-> None] \in [req : Requests \cup {None}, res : Answer \cup {None}]
  BY ZenonT(60) DEF Answer, Requests, EmptyWire

(* Every step keeps the types.                                              *)
LEMMA TypeStep ==
    ASSUME TypeOK, SignInv, [Next]_vars
    PROVE  TypeOK'
<1> USE BoundAssumption, AnswerType DEF TypeOK, SignInv, connVars, loopVars, signVars, nodeVars, envVars
<1>1. ASSUME NEW s \in Signers, waitForLeadership(s)  PROVE TypeOK'
  BY <1>1 DEF waitForLeadership, Goto
<1>2. ASSUME NEW s \in Signers, Dial(s)  PROVE TypeOK'
  BY <1>2 DEF Dial, Goto
<1>2a. ASSUME NEW s \in Signers, MakeSecretConnection(s)  PROVE TypeOK'
  BY <1>2a DEF MakeSecretConnection, Goto
<1>2b. ASSUME NEW s \in Signers, HandshakeFails(s)  PROVE TypeOK'
  BY <1>2b DEF HandshakeFails, Fault, Goto
<1>3. ASSUME NEW s \in Signers, Connected(s)  PROVE TypeOK'
  <2>1. watching' \in [Signers -> BOOLEAN]
    BY <1>3, Zenon DEF Connected, dropConn
  <2>2. QED
    BY ZenonT(60), <1>3, <2>1 DEF Connected, dropConn, Goto
<1>4. ASSUME NEW s \in Signers, Read(s)  PROVE TypeOK'
  <2>1. ASSUME handleRequest(s, wire.req), conn[s] = "open", wire.req # None, wire' = [wire EXCEPT !.req = None]
        PROVE  TypeOK'
    <3>1. res' \in [Signers -> Answer \cup {None}] /\ req' \in [Signers -> Votes \cup {None}]
      <4>1. CASE wire.req \in Queries /\ res' = [res EXCEPT ![s] = [req |-> wire.req, kind |-> "reply"]] /\ req' = req
        <5>1. [req |-> wire.req, kind |-> "reply"] \in Answer
          BY <4>1
        <5>2. QED
          BY <4>1, <5>1
      <4>2. QED
        BY <2>1, <4>1 DEF handleRequest
    <3>2. wire' \in [req : Requests \cup {None}, res : Answer \cup {None}]
      BY <2>1
    <3>3. QED
      BY <1>4, <2>1, <3>1, <3>2 DEF Read, handleRequest, Goto
  <2>2. QED
    BY <1>4, <2>1 DEF Read, dropConn, Goto
<1>5. ASSUME NEW s \in Signers, handleRequestSafely(s)  PROVE TypeOK'
  BY <1>5 DEF handleRequestSafely, dropConn, Fault, Goto
<1>6. ASSUME NEW s \in Signers, SignReturns(s)  PROVE TypeOK'
  <2>1. PICK outcome \in Outcomes, kind \in {"signed", "refused"} :
            signAndTrack(req[s], outcome) /\ res' = [res EXCEPT ![s] = [req |-> req[s], kind |-> kind]]
    BY <1>6 DEF SignReturns
  <2>2. req[s] \in Votes /\ req[s] \in begun
    BY <1>6 DEF SignReturns
  <2>3. [req |-> req[s], kind |-> kind] \in Answer
    BY <2>2
  <2>4. signed' \subseteq begun
    BY <2>1, <2>2 DEF signAndTrack
  <2>5. QED
    BY <1>6, <2>1, <2>3, <2>4 DEF SignReturns, Goto
<1>7. ASSUME NEW s \in Signers, SignFails(s)  PROVE TypeOK'
  BY <1>7 DEF SignFails, signAndTrack, dropConn, Fault, Goto
<1>8. ASSUME NEW s \in Signers, signWithTimeout(s)  PROVE TypeOK'
  BY <1>8 DEF signWithTimeout, dropConn, Fault, Goto
<1>9. ASSUME NEW s \in Signers, Write(s)  PROVE TypeOK'
  BY ZenonT(60), <1>9 DEF Write, dropConn, Goto
<1>10. ASSUME NEW s \in Signers, releaseConnOnLeadershipLoss(s)  PROVE TypeOK'
  BY <1>10 DEF releaseConnOnLeadershipLoss
<1>11. ASSUME NEW s \in Signers, OnStop(s)  PROVE TypeOK'
  BY <1>11 DEF OnStop, Fault
<1>12. ASSUME NEW s \in Signers, Break(s)  PROVE TypeOK'
  BY <1>12 DEF Break, Fault
<1>13. ASSUME NEW v \in Votes, FinishAbandoned(v)  PROVE TypeOK'
  BY <1>13 DEF FinishAbandoned, signAndTrack
<1>14. ASSUME NEW v \in Votes, GRPCSign(v)  PROVE TypeOK'
  BY <1>14 DEF GRPCSign, signAndTrack
<1>15. ASSUME NEW l \in Signers \cup {None}, ChangeLeader(l)  PROVE TypeOK'
  BY <1>15 DEF ChangeLeader
<1>16. ASSUME NEW r \in Requests, NodeAsks(r)  PROVE TypeOK'
  BY <1>16 DEF NodeAsks
<1>17. CASE NodeTakesAnswer
  BY <1>17 DEF NodeTakesAnswer
<1>18. CASE NodeLosesConn
  BY <1>18 DEF NodeLosesConn
<1>19. CASE UNCHANGED vars
  BY <1>19 DEF vars
<1>20. QED
  BY ZenonT(60), <1>1, <1>2, <1>2a, <1>2b, <1>3, <1>4, <1>5, <1>6, <1>7, <1>8, <1>9, <1>10,
     <1>11, <1>12, <1>13, <1>14, <1>15, <1>16, <1>17, <1>18, <1>19
     DEF Next, Loop

(* Every step keeps SignInv.                                                *)
LEMMA SignStep ==
    ASSUME TypeOK, SignInv, [Next]_vars
    PROVE  SignInv'
<1> USE NoneAssumption DEF TypeOK, SignInv, Answer, Requests, connVars, loopVars, signVars, nodeVars, envVars
<1>1. ASSUME NEW s \in Signers, waitForLeadership(s)  PROVE SignInv'
  BY <1>1 DEF waitForLeadership, Goto
<1>2. ASSUME NEW s \in Signers, Dial(s)  PROVE SignInv'
  BY <1>2 DEF Dial, Goto
<1>2a. ASSUME NEW s \in Signers, MakeSecretConnection(s)  PROVE SignInv'
  BY <1>2a DEF MakeSecretConnection, Goto
<1>2b. ASSUME NEW s \in Signers, HandshakeFails(s)  PROVE SignInv'
  BY <1>2b DEF HandshakeFails, Fault, Goto
<1>3. ASSUME NEW s \in Signers, Connected(s)  PROVE SignInv'
  BY <1>3 DEF Connected, dropConn, Goto
<1>4. ASSUME NEW s \in Signers, Read(s)  PROVE SignInv'
  BY <1>4 DEF Read, handleRequest, dropConn, Goto
<1>5. ASSUME NEW s \in Signers, handleRequestSafely(s)  PROVE SignInv'
  BY <1>5 DEF handleRequestSafely, dropConn, Fault, Goto
<1>6. ASSUME NEW s \in Signers, SignReturns(s)  PROVE SignInv'
  BY <1>6 DEF SignReturns, signAndTrack, signRefusal, Goto
<1>7. ASSUME NEW s \in Signers, SignFails(s)  PROVE SignInv'
  BY <1>7 DEF SignFails, signAndTrack, dropConn, Fault, Goto
<1>8. ASSUME NEW s \in Signers, signWithTimeout(s)  PROVE SignInv'
  BY <1>8 DEF signWithTimeout, dropConn, Fault, Goto
<1>9. ASSUME NEW s \in Signers, Write(s)  PROVE SignInv'
  BY <1>9 DEF Write, dropConn, Goto
<1>10. ASSUME NEW s \in Signers, releaseConnOnLeadershipLoss(s)  PROVE SignInv'
  BY <1>10 DEF releaseConnOnLeadershipLoss
<1>11. ASSUME NEW s \in Signers, OnStop(s)  PROVE SignInv'
  BY <1>11 DEF OnStop, Fault
<1>12. ASSUME NEW s \in Signers, Break(s)  PROVE SignInv'
  BY <1>12 DEF Break, Fault
<1>13. ASSUME NEW v \in Votes, FinishAbandoned(v)  PROVE SignInv'
  BY <1>13 DEF FinishAbandoned, signAndTrack
<1>14. ASSUME NEW v \in Votes, GRPCSign(v)  PROVE SignInv'
  BY <1>14 DEF GRPCSign, signAndTrack
<1>15. ASSUME NEW l \in Signers \cup {None}, ChangeLeader(l)  PROVE SignInv'
  BY <1>15 DEF ChangeLeader
<1>16. ASSUME NEW r \in Requests, NodeAsks(r)  PROVE SignInv'
  BY <1>16 DEF NodeAsks
<1>17. CASE NodeTakesAnswer
  BY <1>17 DEF NodeTakesAnswer
<1>18. CASE NodeLosesConn
  BY <1>18 DEF NodeLosesConn
<1>19. CASE UNCHANGED vars
  BY ZenonT(60), <1>19 DEF vars
<1>20. QED
  BY <1>1, <1>2, <1>2a, <1>2b, <1>3, <1>4, <1>5, <1>6, <1>7, <1>8, <1>9, <1>10,
     <1>11, <1>12, <1>13, <1>14, <1>15, <1>16, <1>17, <1>18, <1>19
     DEF Next, Loop

(* Every step keeps ConnInv.                                                *)
LEMMA ConnStep ==
    ASSUME TypeOK, ConnInv, [Next]_vars
    PROVE  ConnInv'
<1> USE NoneAssumption DEF TypeOK, ConnInv, connVars, loopVars, signVars, nodeVars, envVars
<1>1. ASSUME NEW s \in Signers, waitForLeadership(s)  PROVE ConnInv'
  BY <1>1 DEF waitForLeadership, Goto
<1>2. ASSUME NEW s \in Signers, Dial(s)  PROVE ConnInv'
  BY <1>2 DEF Dial, Goto
<1>2a. ASSUME NEW s \in Signers, MakeSecretConnection(s)  PROVE ConnInv'
  BY <1>2a DEF MakeSecretConnection, Goto
<1>2b. ASSUME NEW s \in Signers, HandshakeFails(s)  PROVE ConnInv'
  BY <1>2b DEF HandshakeFails, Fault, Goto
<1>3. ASSUME NEW s \in Signers, Connected(s)  PROVE ConnInv'
  BY <1>3 DEF Connected, dropConn, Goto
<1>4. ASSUME NEW s \in Signers, Read(s)  PROVE ConnInv'
  BY <1>4 DEF Read, handleRequest, dropConn, Goto
<1>5. ASSUME NEW s \in Signers, handleRequestSafely(s)  PROVE ConnInv'
  BY <1>5 DEF handleRequestSafely, dropConn, Fault, Goto
<1>6. ASSUME NEW s \in Signers, SignReturns(s)  PROVE ConnInv'
  BY <1>6 DEF SignReturns, signAndTrack, signRefusal, Goto
<1>7. ASSUME NEW s \in Signers, SignFails(s)  PROVE ConnInv'
  BY <1>7 DEF SignFails, signAndTrack, dropConn, Fault, Goto
<1>8. ASSUME NEW s \in Signers, signWithTimeout(s)  PROVE ConnInv'
  BY <1>8 DEF signWithTimeout, dropConn, Fault, Goto
<1>9. ASSUME NEW s \in Signers, Write(s)  PROVE ConnInv'
  BY <1>9 DEF Write, dropConn, Goto
<1>10. ASSUME NEW s \in Signers, releaseConnOnLeadershipLoss(s)  PROVE ConnInv'
  BY <1>10 DEF releaseConnOnLeadershipLoss
<1>11. ASSUME NEW s \in Signers, OnStop(s)  PROVE ConnInv'
  BY <1>11 DEF OnStop, Fault
<1>12. ASSUME NEW s \in Signers, Break(s)  PROVE ConnInv'
  BY <1>12 DEF Break, Fault
<1>13. ASSUME NEW v \in Votes, FinishAbandoned(v)  PROVE ConnInv'
  BY <1>13 DEF FinishAbandoned, signAndTrack
<1>14. ASSUME NEW v \in Votes, GRPCSign(v)  PROVE ConnInv'
  BY <1>14 DEF GRPCSign, signAndTrack
<1>15. ASSUME NEW l \in Signers \cup {None}, ChangeLeader(l)  PROVE ConnInv'
  BY <1>15 DEF ChangeLeader
<1>16. ASSUME NEW r \in Requests, NodeAsks(r)  PROVE ConnInv'
  BY <1>16 DEF NodeAsks
<1>17. CASE NodeTakesAnswer
  BY <1>17 DEF NodeTakesAnswer
<1>18. CASE NodeLosesConn
  BY <1>18 DEF NodeLosesConn
<1>19. CASE UNCHANGED vars
  BY ZenonT(60), <1>19 DEF vars
<1>20. QED
  BY ZenonT(60), <1>1, <1>2, <1>2a, <1>2b, <1>3, <1>4, <1>5, <1>6, <1>7, <1>8, <1>9, <1>10,
     <1>11, <1>12, <1>13, <1>14, <1>15, <1>16, <1>17, <1>18, <1>19
     DEF Next, Loop

(* Every step keeps NodeInv.                                                *)
LEMMA NodeStep ==
    ASSUME TypeOK, ConnInv, NodeInv, [Next]_vars
    PROVE  NodeInv'
<1> USE NoneAssumption DEF TypeOK, ConnInv, NodeInv, Truthful, Contested, Answer, Requests, EmptyWire,
        connVars, loopVars, signVars, nodeVars, envVars
<1>1. ASSUME NEW s \in Signers, waitForLeadership(s)  PROVE NodeInv'
  BY <1>1 DEF waitForLeadership, Goto
<1>2. ASSUME NEW s \in Signers, Dial(s)  PROVE NodeInv'
  BY <1>2 DEF Dial, Goto
<1>2a. ASSUME NEW s \in Signers, MakeSecretConnection(s)  PROVE NodeInv'
  BY <1>2a DEF MakeSecretConnection, Goto
<1>2b. ASSUME NEW s \in Signers, HandshakeFails(s)  PROVE NodeInv'
  BY SMTT(30), <1>2b DEF HandshakeFails, Fault, Goto
<1>3. ASSUME NEW s \in Signers, Connected(s)  PROVE NodeInv'
  BY SMTT(30), <1>3 DEF Connected, dropConn, Goto
<1>4. ASSUME NEW s \in Signers, Read(s)  PROVE NodeInv'
  BY SMTT(30), <1>4 DEF Read, handleRequest, dropConn, Goto
<1>5. ASSUME NEW s \in Signers, handleRequestSafely(s)  PROVE NodeInv'
  BY SMTT(30), <1>5 DEF handleRequestSafely, dropConn, Fault, Goto
<1>6. ASSUME NEW s \in Signers, SignReturns(s)  PROVE NodeInv'
  BY SMTT(30), <1>6 DEF SignReturns, signAndTrack, signRefusal, Outcomes, Goto
<1>7. ASSUME NEW s \in Signers, SignFails(s)  PROVE NodeInv'
  BY ZenonT(60), <1>7 DEF SignFails, signAndTrack, dropConn, Fault, Goto
<1>8. ASSUME NEW s \in Signers, signWithTimeout(s)  PROVE NodeInv'
  BY ZenonT(60), <1>8 DEF signWithTimeout, dropConn, Fault, Goto
<1>9. ASSUME NEW s \in Signers, Write(s)  PROVE NodeInv'
  BY <1>9 DEF Write, dropConn, Goto
<1>10. ASSUME NEW s \in Signers, releaseConnOnLeadershipLoss(s)  PROVE NodeInv'
  BY ZenonT(60), <1>10 DEF releaseConnOnLeadershipLoss
<1>11. ASSUME NEW s \in Signers, OnStop(s)  PROVE NodeInv'
  BY <1>11 DEF OnStop, Fault
<1>12. ASSUME NEW s \in Signers, Break(s)  PROVE NodeInv'
  BY ZenonT(60), <1>12 DEF Break, Fault
<1>13. ASSUME NEW v \in Votes, FinishAbandoned(v)  PROVE NodeInv'
  BY SMTT(30), <1>13 DEF FinishAbandoned, signAndTrack
<1>14. ASSUME NEW v \in Votes, GRPCSign(v)  PROVE NodeInv'
  BY SMTT(30), <1>14 DEF GRPCSign, signAndTrack
<1>15. ASSUME NEW l \in Signers \cup {None}, ChangeLeader(l)  PROVE NodeInv'
  BY SMTT(30), <1>15 DEF ChangeLeader
<1>16. ASSUME NEW r \in Requests, NodeAsks(r)  PROVE NodeInv'
  BY SMTT(30), <1>16 DEF NodeAsks
<1>17. CASE NodeTakesAnswer
  BY SMTT(30), <1>17 DEF NodeTakesAnswer
<1>18. CASE NodeLosesConn
  BY SMTT(30), <1>18 DEF NodeLosesConn
<1>19. CASE UNCHANGED vars
  BY <1>19 DEF vars
<1>20. QED
  BY ZenonT(60), <1>1, <1>2, <1>2a, <1>2b, <1>3, <1>4, <1>5, <1>6, <1>7, <1>8, <1>9, <1>10,
     <1>11, <1>12, <1>13, <1>14, <1>15, <1>16, <1>17, <1>18, <1>19
     DEF Next, Loop

(* What the loops, the watchers and the chain node know of each other       *)
(* (remote_signer.go) holds in every reachable state.                       *)
THEOREM InductiveInvariant == Spec => []IInv
<1>1. Init => IInv
  <2> SUFFICES ASSUME Init  PROVE IInv
    OBVIOUS
  <2>1. TypeOK
    <3>1. running \in [Signers -> BOOLEAN] /\ watchStop \in [Signers -> BOOLEAN] /\ watching \in [Signers -> BOOLEAN]
      BY DEF Init, Each
    <3>2. pc \in [Signers -> {"park", "dial", "handshake", "connected", "read", "sign", "write", "done"}]
      BY DEF Init, Each
    <3>3. conn \in [Signers -> {"nil", "open", "closed", "dead"}]
      BY DEF Init, Each
    <3>4. req \in [Signers -> Votes \cup {None}] /\ res \in [Signers -> Answer \cup {None}]
      BY DEF Init, Each
    <3>5. wire \in [req : Requests \cup {None}, res : Answer \cup {None}] /\ faults \in 0 .. MaxFaults
      BY BoundAssumption, AnswerType DEF Init
    <3>6. QED
      BY <3>1, <3>2, <3>3, <3>4, <3>5, Zenon DEF Init, TypeOK
  <2>2. SignInv /\ ConnInv /\ NodeInv
    BY DEF Init, SignInv, ConnInv, NodeInv, Each, EmptyWire
  <2>3. QED
    BY <2>1, <2>2 DEF IInv
<1>2. IInv /\ [Next]_vars => IInv'
  BY TypeStep, SignStep, ConnStep, NodeStep DEF IInv
<1>3. QED
  BY <1>1, <1>2, PTL DEF Spec

(* Every variable keeps its type; what was signed or is still worked on by  *)
(* a goroutine was put to the validator before.                             *)
THEOREM TypeCorrectness == Spec => []TypeOK
  BY InductiveInvariant, PTL DEF IInv

(* The chain node is never told anything about a request but its own, and   *)
(* is told of a signature only when there is one and of a refusal only when *)
(* another vote was put to the validator (handleRequest, signWithTimeout),  *)
(* whatever loops come and go and whatever goroutines are left behind.      *)
THEOREM AnswersAreTrue == Spec => []AnswerIsTrue
<1>1. IInv => AnswerIsTrue
  BY DEF IInv, NodeInv, Truthful, AnswerIsTrue
<1>2. QED
  BY <1>1, InductiveInvariant, PTL

(* One loop at a time has an open connection to the node, and it serves     *)
(* requests only while releaseConnOnLeadershipLoss watches it: no restart   *)
(* of the loop and no order of closing leaves it without a watcher.         *)
THEOREM SlotsAreWatched == Spec => []SlotIsWatched
<1>1. IInv => SlotIsWatched
  BY DEF IInv, ConnInv, SlotIsWatched
<1>2. QED
  BY <1>1, InductiveInvariant, PTL

(* The number of steps left from each control point of a stopped loop.      *)
LEMMA StepsLeft ==
    /\ StepsFrom("done") = 0 /\ StepsFrom("dial") = 1 /\ StepsFrom("connected") = 1
    /\ StepsFrom("park") = 2 /\ StepsFrom("handshake") = 2
    /\ StepsFrom("write") = 3 /\ StepsFrom("sign") = 4 /\ StepsFrom("read") = 5
  BY DEF StepsFrom

(* What a step may do to one loop once it is stopped.                       *)
Ending(s) ==
    ~ running[s] =>
        /\ ~ running'[s]
        /\ pc'[s] = pc[s] \/ StepsFrom(pc'[s]) < StepsFrom(pc[s])
        /\ conn'[s] = "open" => conn[s] = "open" \/ (pc[s] = "handshake" /\ pc'[s] = "connected")
        /\ watching'[s] => watching[s]
        /\ pc'[s] = "done" => conn'[s] = "nil" /\ ~ watching'[s]

(* A step of the loop itself.                                               *)
LEMMA LoopEnds ==
    ASSUME IInv, NEW s \in Signers, Loop(s)
    PROVE  Ending(s)
<1> USE StepsLeft DEF IInv, TypeOK, ConnInv, connVars, loopVars, signVars, nodeVars, envVars, Ending, dropConn, Goto
<1>1. CASE waitForLeadership(s) \/ Dial(s) \/ MakeSecretConnection(s)
  BY SMTT(30), <1>1 DEF waitForLeadership, Dial, MakeSecretConnection
<1>2. CASE Connected(s)
  BY <1>2 DEF Connected
<1>3. CASE Read(s) \/ handleRequestSafely(s)
  BY SMTT(30), <1>3 DEF Read, handleRequest, handleRequestSafely
<1>4. CASE SignReturns(s) \/ SignFails(s) \/ signWithTimeout(s)
  BY SMTT(30), <1>4 DEF SignReturns, SignFails, signWithTimeout
<1>5. CASE Write(s)
  BY SMTT(30), <1>5 DEF Write
<1>6. QED
  BY ZenonT(60), <1>1, <1>2, <1>3, <1>4, <1>5 DEF Loop

(* A step of another loop leaves this one alone.                            *)
LEMMA LoopsApart ==
    ASSUME IInv, NEW s \in Signers, NEW u \in Signers, u # s, Loop(u)
    PROVE  pc'[s] = pc[s] /\ conn'[s] = conn[s] /\ watching'[s] = watching[s] /\ running' = running
<1> USE DEF IInv, TypeOK, connVars, loopVars, signVars, nodeVars, envVars, dropConn, Goto
<1>1. CASE waitForLeadership(u) \/ Dial(u) \/ MakeSecretConnection(u)
  BY <1>1 DEF waitForLeadership, Dial, MakeSecretConnection
<1>2. CASE Connected(u)
  BY <1>2 DEF Connected
<1>3. CASE Read(u) \/ handleRequestSafely(u)
  BY ZenonT(60), <1>3 DEF Read, handleRequest, handleRequestSafely
<1>4. CASE SignReturns(u) \/ SignFails(u) \/ signWithTimeout(u)
  BY <1>4 DEF SignReturns, SignFails, signWithTimeout
<1>5. CASE Write(u)
  BY <1>5 DEF Write
<1>6. QED
  BY ZenonT(60), <1>1, <1>2, <1>3, <1>4, <1>5 DEF Loop

(* A stopped loop ends within five steps of its own, with its connection    *)
(* and its watcher gone, and a handshake that ends after the stop is one of *)
(* those steps: what remains of StopEnds is that the scheduler, the         *)
(* deadlines and, in the handshake, the node let it take them.              *)
THEOREM StopIsFinal == Spec => StopAdvances
<1>1. ASSUME IInv, [Next]_vars, NEW s \in Signers  PROVE Ending(s)
  <2>a. pc[s] = "done" => conn[s] = "nil" /\ ~ watching[s]
    BY <1>1 DEF IInv, ConnInv
  <2>1. ASSUME NEW u \in Signers, Loop(u)  PROVE Ending(s)
    <3>1. CASE u = s
      BY ZenonT(60), <1>1, <2>1, <3>1, LoopEnds
    <3>2. CASE u # s
      BY ZenonT(60), <1>1, <2>1, <2>a, <3>2, LoopsApart DEF Ending
    <3>3. QED
      BY <3>1, <3>2
  <2>2. ASSUME NEW u \in Signers, HandshakeFails(u) \/ releaseConnOnLeadershipLoss(u) \/ OnStop(u) \/ Break(u)  PROVE Ending(s)
    BY <1>1, <2>2, <2>a, StepsLeft
       DEF IInv, TypeOK, ConnInv, HandshakeFails, Goto, releaseConnOnLeadershipLoss, OnStop, Break, Ending, loopVars, connVars, envVars
  <2>3. CASE \/ \E v \in Votes : FinishAbandoned(v) \/ GRPCSign(v)
             \/ \E l \in Signers \cup {None} : ChangeLeader(l)
             \/ \E r \in Requests : NodeAsks(r)
             \/ NodeTakesAnswer \/ NodeLosesConn \/ UNCHANGED vars
    BY <2>3, <2>a, Zenon
       DEF FinishAbandoned, GRPCSign, ChangeLeader, NodeAsks, NodeTakesAnswer, NodeLosesConn, vars,
           Ending, loopVars, connVars, envVars
  <2>4. QED
    BY <1>1, <2>1, <2>2, <2>3, Zenon DEF Next
<1>2. ASSUME IInv, [Next]_vars  PROVE [\A s \in Signers : Ending(s)]_vars
  BY <1>1, <1>2, Zenon
<1>3. QED
  BY <1>2, InductiveInvariant, PTL DEF Spec, StopAdvances, Ending
=============================================================================
