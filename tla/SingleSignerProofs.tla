------------------------- MODULE SingleSignerProofs -------------------------
(***************************************************************************)
(* The single signer keeps the promise of a cosigner, for every number of  *)
(* processes, threads, requests, state commands, crashes and failed        *)
(* writes.                                                                 *)
(***************************************************************************)
EXTENDS SingleSigner, TLAPS

Replies == [sig : SignBytes, stamp : Stamps, ext : BOOLEAN]

Thread ==
    [pc : {"idle", "load", "store", "sign", "reply"}, proc : Processes \cup {Nil},
     req : Requests \cup {Nil}, pv : PVs \cup {Nil}, reply : Replies \cup {Nil}]

(* A thread has a FilePV once it has loaded one, and a reply that verifies  *)
(* once it has signed.                                                      *)
ThreadOK(th) ==
    /\ th \in Thread
    /\ th.pc # "idle" => th.proc \in Processes /\ th.req \in Requests
    /\ th.pv \in PVs <=> th.pc \in {"store", "sign", "reply"}
    /\ th.pc = "reply" =>
          /\ th.reply \in Replies
          /\ th.reply.sig = [block |-> th.req.bytes.block, stamp |-> th.reply.stamp]

(* A state that was signed has the signature of its bytes.                  *)
StateOK(s) == s \in State /\ s.Signature = s.SignBytes

HostInv ==
    /\ pid \in Processes \cup {Nil}
    /\ phase \in [Processes -> {"off", "stale", "checked", "serving", "locked", "stopping", "creating", "loaded"}]
    /\ loaded \in [Processes -> State \cup {Nil}]

TypeInv ==
    /\ file \in StateFile \cup {Nil} /\ (file # Nil => StateOK(file.state))
    /\ pv \in [PVs -> State \cup {Nil}] /\ (\A i \in PVs : pv[i] # Nil => StateOK(pv[i]))
    /\ thread \in [Threads -> Thread] /\ \A t \in Threads : ThreadOK(thread[t])
    /\ chainState \in [Processes -> PVs \cup {Nil}]
    /\ signed \subseteq Votes
    /\ forgetful \in BOOLEAN

(* A FilePV belongs to one process, and is in memory as long as it is named.*)
Owned ==
    /\ \A i \in PVs : pv[i] # Nil <=> (\E p \in Processes : chainState[p] = i) \/ (\E t \in Threads : thread[t].pv = i)
    /\ \A p, q \in Processes : chainState[p] = chainState[q] /\ chainState[p] \in PVs => p = q
    /\ \A p \in Processes, t \in Threads :
          chainState[p] = thread[t].pv /\ chainState[p] \in PVs => thread[t].proc = p
    /\ \A t, u \in Threads :
          thread[t].pv = thread[u].pv /\ thread[t].pv \in PVs => thread[t].proc = thread[u].proc

VoteOf(th) == [HRS |-> th.req.HRS, block |-> th.req.bytes.block]

(* The votes whose signatures were returned or are about to be.             *)
Committed == signed \cup {VoteOf(thread[t]) : t \in {u \in Threads : thread[u].pc = "reply"}}

(* A state that refuses whatever conflicts with a vote.                     *)
Holds(s, v) ==
    \/ GreaterThan(s.HRS, v.HRS)
    \/ s.HRS = v.HRS /\ s.SignBytes # Nil /\ s.SignBytes.block = v.block

FileHolds(v) == file # Nil /\ (file.type = "FilePV" => Holds(file.state, v))

(* A thread signs with the FilePV of the map.                               *)
SignsWithMap ==
    \A t \in Threads : thread[t].pc \in {"sign", "reply"} => chainState[thread[t].proc] = thread[t].pv

(* As long as nothing was forgotten, there is one watermark, in memory or   *)
(* else in the file, and it holds every vote.                               *)
Remembers ==
    /\ \A i, j \in PVs : pv[i] # Nil /\ pv[j] # Nil => i = j
    /\ SignsWithMap
    /\ \A v, w \in Committed : v.HRS = w.HRS => v.block = w.block
    /\ \A v \in Committed, i \in PVs : pv[i] # Nil => Holds(pv[i], v)
    /\ \A v \in Committed : (\A i \in PVs : pv[i] = Nil) => FileHolds(v)

IInv == HostInv /\ TypeInv /\ Owned /\ (~ forgetful => Remembers)

-----------------------------------------------------------------------------
(* GreaterThan orders the watermarks.                                       *)
LEMMA Order ==
    /\ \A a, b, c \in HRSKey : GreaterThan(a, b) /\ GreaterThan(b, c) => GreaterThan(a, c)
    /\ \A a, b \in HRSKey : a = b \/ GreaterThan(a, b) \/ GreaterThan(b, a)
    /\ \A a, b \in HRSKey : ~ (GreaterThan(a, b) /\ (a = b \/ GreaterThan(b, a)))
<1>1. \A a, b \in HRSKey : a = b <=> a.Height = b.Height /\ a.Round = b.Round /\ a.Step = b.Step
    BY DEF HRSKey
<1>2. \A a \in HRSKey : a.Height \in Nat /\ a.Round \in Nat /\ a.Step \in Nat
    BY DEF HRSKey
<1>3. \A a, b, c \in HRSKey : GreaterThan(a, b) /\ GreaterThan(b, c) => GreaterThan(a, c)
    BY <1>2 DEF GreaterThan
<1>4. \A a, b \in HRSKey : a = b \/ GreaterThan(a, b) \/ GreaterThan(b, a)
    BY <1>1, <1>2 DEF GreaterThan
<1>5. \A a, b \in HRSKey : ~ (GreaterThan(a, b) /\ (a = b \/ GreaterThan(b, a)))
    BY <1>2 DEF GreaterThan
<1> QED BY <1>3, <1>4, <1>5

(* What CheckHRS found out when it returned no error.                       *)
LEMMA Checked ==
    ASSUME NEW s \in State, NEW hrs \in HRSKey
    PROVE  /\ CheckHRS(s, hrs) = "new" => GreaterThan(hrs, s.HRS)
           /\ CheckHRS(s, hrs) = "same" => s.HRS = hrs /\ s.SignBytes # Nil
<1>1. s.HRS \in HRSKey
    BY DEF State
<1>2. CASE GreaterThan(s.HRS, hrs)
    <2>1. s.HRS # hrs
        BY <1>1, <1>2, Order
    <2> QED BY <1>2, <2>1 DEF CheckHRS
<1>3. CASE s.HRS = hrs
    <2>1. ~ GreaterThan(s.HRS, hrs)
        BY <1>1, <1>3, Order
    <2> QED BY <1>3, <2>1 DEF CheckHRS
<1>4. CASE GreaterThan(hrs, s.HRS)
    <2>1. ~ GreaterThan(s.HRS, hrs) /\ s.HRS # hrs
        BY <1>1, <1>4, Order
    <2> QED BY <1>4, <2>1 DEF CheckHRS
<1> QED BY <1>1, <1>2, <1>3, <1>4, Order

(* A request's vote, and the state that signing it leaves.                  *)
LEMMA RequestTypes ==
    ASSUME NEW r \in Requests
    PROVE  /\ r.HRS \in HRSKey /\ r.HRS.Step > 0
           /\ r.bytes \in SignBytes /\ r.bytes # Nil /\ r.ext \in BOOLEAN
           /\ r.bytes.block \in Blocks /\ r.bytes.stamp \in Stamps
           /\ r.bytes = [block |-> r.bytes.block, stamp |-> r.bytes.stamp]
           /\ [HRS |-> r.HRS, block |-> r.bytes.block] \in Votes
           /\ StateOK([HRS |-> r.HRS, SignBytes |-> r.bytes, Signature |-> r.bytes])
<1>1. r.HRS \in HRSKey /\ r.bytes \in SignBytes /\ r.ext \in BOOLEAN /\ r.HRS.Step > 0
    BY RequestsAssumption
<1>2. /\ r.bytes = [block |-> r.bytes.block, stamp |-> r.bytes.stamp]
      /\ r.bytes.block \in Blocks /\ r.bytes.stamp \in Stamps
    BY <1>1 DEF SignBytes
<1>3. r.bytes # Nil
    BY <1>1, NilIsNotSignBytes
<1>4. StateOK([HRS |-> r.HRS, SignBytes |-> r.bytes, Signature |-> r.bytes])
    BY <1>1 DEF StateOK, State
<1> QED BY <1>1, <1>2, <1>3, <1>4 DEF Votes

(* A state that LoadFilePV makes, or LoadOrCreateSignState, is well formed. *)
LEMMA EmptyFileOK == StateOK(EmptyFile)
BY DEF StateOK, State, EmptyFile, ZeroHRS, HRSKey

(* What is written to the file is not Nil.                                  *)
LEMMA WrittenOK ==
    ASSUME NEW type \in {"FilePV", "SignState"}, NEW s, StateOK(s)
    PROVE  /\ Written(type, s) \in StateFile /\ Written(type, s) # Nil /\ s # Nil
           /\ Written(type, s).type = type /\ Written(type, s).state = s
<1>1. Written(type, s) \in StateFile
    BY DEF Written, StateFile, StateOK
<1>2. Written(type, s) # Nil /\ s # Nil
    BY <1>1, NilAssumption DEF StateOK
<1> QED BY <1>1, <1>2 DEF Written

(* A thread between requests has nothing.                                   *)
LEMMA IdleOK == ThreadOK(Idle)
BY NilAssumption DEF ThreadOK, Thread, Idle

(* What a thread becomes in the steps of its request.                       *)
LEMMA ThreadSteps ==
    ASSUME NEW th, ThreadOK(th)
    PROVE  /\ th.pc = "load" => \A i \in PVs : ThreadOK([th EXCEPT !.pc = "store", !.pv = i])
           /\ th.pc = "store" => ThreadOK([th EXCEPT !.pc = "sign"])
           /\ \A r \in Replies :
                 th.pc = "sign" /\ r.sig = [block |-> th.req.bytes.block, stamp |-> r.stamp]
                 => ThreadOK([th EXCEPT !.pc = "reply", !.reply = r])
<1>1. th \in Thread
    BY DEF ThreadOK
<1>2. ASSUME th.pc = "load", NEW i \in PVs
      PROVE  ThreadOK([th EXCEPT !.pc = "store", !.pv = i])
    BY Zenon, <1>1, <1>2 DEF ThreadOK, Thread
<1>3. ASSUME th.pc = "store"
      PROVE  ThreadOK([th EXCEPT !.pc = "sign"])
    BY <1>1, <1>3 DEF ThreadOK, Thread
<1>4. ASSUME NEW r \in Replies, th.pc = "sign", r.sig = [block |-> th.req.bytes.block, stamp |-> r.stamp]
      PROVE  ThreadOK([th EXCEPT !.pc = "reply", !.reply = r])
    BY Zenon, <1>1, <1>4 DEF ThreadOK, Thread
<1> QED BY Zenon, <1>2, <1>3, <1>4

(* A thread that takes a step leaves the others as they are.                *)
LEMMA OneThreadSteps ==
    ASSUME TypeInv, NEW t \in Threads, NEW th, ThreadOK(th), thread' = [thread EXCEPT ![t] = th]
    PROVE  thread' \in [Threads -> Thread] /\ \A u \in Threads : ThreadOK(thread'[u])
BY DEF TypeInv, ThreadOK

(* The request that a thread signs, and the state of its FilePV.            *)
LEMMA Signing ==
    ASSUME TypeInv, Owned, NEW t \in Threads, thread[t].pc \in {"sign", "reply", "store"}
    PROVE  /\ thread[t].proc \in Processes /\ thread[t].req \in Requests /\ thread[t].pv \in PVs
           /\ pv[thread[t].pv] # Nil /\ StateOK(pv[thread[t].pv]) /\ pv[thread[t].pv] \in State
<1>1. thread[t].proc \in Processes /\ thread[t].req \in Requests /\ thread[t].pv \in PVs
    BY Zenon DEF TypeInv, ThreadOK
<1>2. pv[thread[t].pv] # Nil
    BY <1>1 DEF Owned
<1> QED BY <1>1, <1>2 DEF TypeInv, StateOK

(* A signature that is returned is of the requested vote.                   *)
LEMMA ReplyIsVote ==
    ASSUME TypeInv, NEW t \in Threads, thread[t].pc = "reply"
    PROVE  /\ [HRS |-> thread[t].req.HRS, block |-> thread[t].reply.sig.block] = VoteOf(thread[t])
           /\ VoteOf(thread[t]) \in Votes
<1>1. /\ thread[t].req \in Requests
      /\ thread[t].reply.sig = [block |-> thread[t].req.bytes.block, stamp |-> thread[t].reply.stamp]
    BY DEF TypeInv, ThreadOK
<1>2. thread[t].reply.sig.block = thread[t].req.bytes.block
    BY <1>1
<1> QED BY Zenon, <1>1, <1>2, RequestTypes DEF VoteOf

(* The last signature is of the requested block, with its own timestamp.    *)
LEMMA SameHRSVerifies ==
    ASSUME NEW s, StateOK(s), NEW r \in Requests, s.SignBytes # Nil, SameBlock(s, r)
    PROVE  /\ SameHRS(s, r) \in Replies
           /\ SameHRS(s, r).sig = [block |-> r.bytes.block, stamp |-> SameHRS(s, r).stamp]
<1>1. s.SignBytes \in SignBytes /\ s.Signature = s.SignBytes
    BY DEF StateOK, State
<1>2. s.SignBytes = [block |-> r.bytes.block, stamp |-> s.SignBytes.stamp] /\ s.SignBytes.stamp \in Stamps
    BY <1>1 DEF SignBytes, SameBlock, OnlyDifferByTimestamp
<1>3. (IF s.SignBytes = r.bytes THEN FALSE ELSE r.ext) \in BOOLEAN
    BY Zenon, RequestTypes
<1> QED BY Zenon, <1>1, <1>2, <1>3 DEF SameHRS, Reply, Replies

-----------------------------------------------------------------------------
(* Nothing is running, and nothing is signed.                               *)
LEMMA InitIInv == Init => IInv
<1> SUFFICES ASSUME Init
             PROVE  IInv
    OBVIOUS
<1>1. HostInv
    BY DEF Init, HostInv
<1>2. TypeInv
    <2>1. \A t \in Threads : ThreadOK(thread[t])
        BY IdleOK DEF Init
    <2>2. thread \in [Threads -> Thread]
        BY IdleOK DEF Init, ThreadOK
    <2> QED BY Zenon, <2>1, <2>2 DEF Init, TypeInv
<1>3. Owned
    BY NilAssumption DEF Init, Owned, Idle
<1>4. Remembers
    <2>1. Committed = {}
        BY DEF Init, Committed, Idle
    <2>2. \A t \in Threads : thread[t].pc = "idle"
        BY DEF Init, Idle
    <2> QED BY <2>1, <2>2 DEF Init, Remembers, SignsWithMap
<1> QED BY <1>1, <1>2, <1>3, <1>4 DEF IInv

(* The processes and their PID file are of their types.                     *)
LEMMA NextHostInv ==
    ASSUME HostInv, TypeInv, [Next]_vars
    PROVE  HostInv'
<1>1. ASSUME NEW p \in Processes, RequireNotRunning(p) \/ RemoveStale(p) \/ StartServices(p) \/ Lock(p) \/ Terminate(p)
      PROVE  HostInv'
    BY <1>1 DEF HostInv, RequireNotRunning, RemoveStale, StartServices, Lock, Terminate
<1>2. ASSUME NEW p \in Processes, End(p)
      PROVE  HostInv'
    BY <1>2 DEF HostInv, End
<1>3. ASSUME NEW p \in Processes, LoadState(p)
      PROVE  HostInv'
    <2>1. EmptyFile \in State /\ (file # Nil => file.state \in State)
        BY EmptyFileOK DEF TypeInv, StateOK
    <2> QED BY <1>3, <2>1 DEF HostInv, LoadState
<1>4. ASSUME NEW p \in Processes, CreateState(p) \/ \E hrs \in States : SaveState(p, hrs)
      PROVE  HostInv'
    BY Zenon, <1>4 DEF HostInv, CreateState, SaveState
<1>5. CASE UNCHANGED hostVars
    BY <1>5 DEF HostInv, hostVars
<1>6. ASSUME NEW p \in Processes, NEW t \in Threads, NEW r \in Requests, Request(t, p, r)
      PROVE  HostInv'
    BY ZenonT(60), <1>5, <1>6 DEF Request
<1>7. ASSUME NEW t \in Threads,
             \/ \E i \in PVs : LoadFilePV(t, i)
             \/ LoadFails(t) \/ Store(t) \/ Refuse(t) \/ SignAgain(t) \/ Sign(t) \/ SaveFails(t) \/ Return(t)
      PROVE  HostInv'
    BY ZenonT(60), <1>5, <1>7 DEF LoadFilePV, LoadFails, Store, Refuse, SignAgain, Sign, SaveFails, Return
<1> QED BY <1>1, <1>2, <1>3, <1>4, <1>5, <1>6, <1>7 DEF Next, vars

(* The steps that only move processes and their commands.                   *)
HostStep(p) ==
    RequireNotRunning(p) \/ RemoveStale(p) \/ StartServices(p) \/ Lock(p) \/ Terminate(p) \/ LoadState(p)

signerVars == <<file, chainState, pv, thread, signed, forgetful>>

(* The PID file and the start of a command do not reach the signer.         *)
LEMMA HostStepsKeep == \A p \in Processes : HostStep(p) => UNCHANGED signerVars
BY DEF HostStep, signerVars, RequireNotRunning, RemoveStale, StartServices, Lock, Terminate, LoadState

(* The steps of Next that the proofs take one by one.                       *)
LEMMA StepsOfNext ==
    ASSUME [Next]_vars
    PROVE  \/ UNCHANGED signerVars
           \/ \E p \in Processes : End(p) \/ CreateState(p) \/ \E hrs \in States : SaveState(p, hrs)
           \/ \E p \in Processes, t \in Threads, r \in Requests : Request(t, p, r)
           \/ \E t \in Threads, i \in PVs : LoadFilePV(t, i)
           \/ \E t \in Threads :
                 LoadFails(t) \/ Store(t) \/ Refuse(t) \/ SignAgain(t) \/ Sign(t) \/ SaveFails(t) \/ Return(t)
<1>1. CASE UNCHANGED vars
    BY <1>1 DEF vars, signerVars
<1>2. CASE Next
    BY <1>2, HostStepsKeep DEF Next, HostStep
<1> QED BY <1>1, <1>2

(* A command writes a state without bytes, or none.                         *)
LEMMA CommandWrites ==
    ASSUME TypeInv, NEW p \in Processes, CreateState(p) \/ \E hrs \in States : SaveState(p, hrs)
    PROVE  /\ UNCHANGED <<chainState, pv, thread, signed, forgetful>>
           /\ \/ UNCHANGED file
              \/ file' \in StateFile /\ file' # Nil /\ file'.type = "SignState" /\ StateOK(file'.state)
<1>1. CASE CreateState(p)
    BY <1>1, EmptyFileOK, WrittenOK DEF CreateState
<1>2. ASSUME NEW hrs \in States, SaveState(p, hrs)
      PROVE  /\ UNCHANGED <<chainState, pv, thread, signed, forgetful>>
             /\ \/ UNCHANGED file
                \/ file' \in StateFile /\ file' # Nil /\ file'.type = "SignState" /\ StateOK(file'.state)
    <2>1. StateOK([HRS |-> hrs, SignBytes |-> Nil, Signature |-> Nil])
        BY RequestsAssumption DEF StateOK, State
    <2> QED BY <1>2, <2>1, WrittenOK DEF SaveState
<1> QED BY <1>1, <1>2

-----------------------------------------------------------------------------
(* The FilePVs, threads and the file are of their types.                    *)
LEMMA NextTypeInv ==
    ASSUME TypeInv, Owned, [Next]_vars
    PROVE  TypeInv'
<1> USE DEF TypeInv
<1>1. CASE UNCHANGED signerVars
    BY <1>1 DEF signerVars, ThreadOK
<1>2. ASSUME NEW p \in Processes, End(p)
      PROVE  TypeInv'
    <2>1. \A t \in Threads : thread'[t] = IF thread[t].proc = p THEN Idle ELSE thread[t]
        BY <1>2 DEF End
    <2>2. \A t \in Threads : ThreadOK(thread'[t])
        BY <2>1, IdleOK
    <2>3. thread' \in [Threads -> Thread]
        BY <1>2, IdleOK DEF End, ThreadOK
    <2>4. pv' \in [PVs -> State \cup {Nil}] /\ (\A i \in PVs : pv'[i] # Nil => StateOK(pv'[i]))
        BY <1>2 DEF End
    <2> QED BY <1>2, <2>2, <2>3, <2>4 DEF End
<1>3. ASSUME NEW p \in Processes, CreateState(p) \/ \E hrs \in States : SaveState(p, hrs)
      PROVE  TypeInv'
    BY <1>3, CommandWrites
<1>4. ASSUME NEW p \in Processes, NEW t \in Threads, NEW r \in Requests, Request(t, p, r)
      PROVE  TypeInv'
    <2> DEFINE th == [Idle EXCEPT !.pc = IF chainState[p] = Nil THEN "load" ELSE "sign",
                                  !.proc = p, !.req = r, !.pv = chainState[p]]
    <2>1. ThreadOK(th)
        BY Zenon, NilAssumption DEF ThreadOK, Thread, Idle
    <2>2. thread' = [thread EXCEPT ![t] = th]
        BY <1>4 DEF Request
    <2> QED BY Zenon, <1>4, <2>1, <2>2, OneThreadSteps DEF Request
<1>5. ASSUME NEW t \in Threads, NEW i \in PVs, LoadFilePV(t, i)
      PROVE  TypeInv'
    <2>1. ThreadOK([thread[t] EXCEPT !.pc = "store", !.pv = i])
        BY Zenon, <1>5, ThreadSteps DEF LoadFilePV
    <2>2. thread' = [thread EXCEPT ![t] = [thread[t] EXCEPT !.pc = "store", !.pv = i]]
        BY Zenon, <1>5 DEF LoadFilePV, Thread
    <2>3. StateOK(InitialState(file))
        BY EmptyFileOK DEF InitialState
    <2>4. pv' \in [PVs -> State \cup {Nil}] /\ \A j \in PVs : pv'[j] # Nil => StateOK(pv'[j])
        BY <1>5, <2>3 DEF LoadFilePV, StateOK
    <2> QED BY Zenon, <1>5, <2>1, <2>2, <2>4, OneThreadSteps DEF LoadFilePV
<1>6. ASSUME NEW t \in Threads, LoadFails(t)
      PROVE  TypeInv'
    BY Zenon, <1>6, IdleOK, OneThreadSteps DEF LoadFails
<1>7. ASSUME NEW t \in Threads, Store(t)
      PROVE  TypeInv'
    <2>1. ThreadOK([thread[t] EXCEPT !.pc = "sign"])
        BY Zenon, <1>7, ThreadSteps DEF Store
    <2>2. thread' = [thread EXCEPT ![t] = [thread[t] EXCEPT !.pc = "sign"]]
        BY <1>7 DEF Store, Thread
    <2>3. pv' \in [PVs -> State \cup {Nil}] /\ \A j \in PVs : pv'[j] # Nil => StateOK(pv'[j])
        BY <1>7 DEF Store
    <2>4. chainState' \in [Processes -> PVs \cup {Nil}]
        BY Zenon, <1>7 DEF Store, Thread
    <2> QED BY Zenon, <1>7, <2>1, <2>2, <2>3, <2>4, OneThreadSteps DEF Store
<1>8. ASSUME NEW t \in Threads, Drop(t)
      PROVE  /\ thread' \in [Threads -> Thread] /\ \A u \in Threads : ThreadOK(thread'[u])
             /\ pv' \in [PVs -> State \cup {Nil}] /\ \A j \in PVs : pv'[j] # Nil => StateOK(pv'[j])
    BY Zenon, <1>8, IdleOK, OneThreadSteps DEF Drop
<1>9. ASSUME NEW t \in Threads, Refuse(t)
      PROVE  TypeInv'
    BY <1>8, <1>9 DEF Refuse
<1>10. ASSUME NEW t \in Threads, SignAgain(t)
       PROVE  TypeInv'
    <2> DEFINE s == pv[thread[t].pv]
               r == thread[t].req
    <2>1. s \in State /\ StateOK(s) /\ r \in Requests
        BY <1>10, Signing DEF SignAgain
    <2>2. s.SignBytes # Nil /\ SameBlock(s, r)
        BY Zenon, <1>10, <2>1, Checked, RequestTypes DEF SignAgain
    <2>3. ThreadOK([thread[t] EXCEPT !.pc = "reply", !.reply = SameHRS(s, r)])
        BY Zenon, <1>10, <2>1, <2>2, ThreadSteps, SameHRSVerifies DEF SignAgain
    <2>4. thread' = [thread EXCEPT ![t] = [thread[t] EXCEPT !.pc = "reply", !.reply = SameHRS(s, r)]]
        BY Zenon, <1>10 DEF SignAgain, Thread
    <2> QED BY Zenon, <1>10, <2>3, <2>4, OneThreadSteps DEF SignAgain
<1>11. ASSUME NEW t \in Threads, Sign(t)
       PROVE  TypeInv'
    <2> DEFINE r == thread[t].req
               new == [HRS |-> r.HRS, SignBytes |-> r.bytes, Signature |-> r.bytes]
               reply == Reply(r.bytes, r.bytes.stamp, r.ext)
    <2>1. r \in Requests /\ StateOK(new)
        BY Zenon, <1>11, Signing, RequestTypes DEF Sign
    <2>2. reply \in Replies /\ reply.sig = [block |-> r.bytes.block, stamp |-> reply.stamp]
        BY Zenon, <2>1, RequestTypes DEF Reply, Replies
    <2>3. ThreadOK([thread[t] EXCEPT !.pc = "reply", !.reply = reply])
        BY Zenon, <1>11, <2>2, ThreadSteps DEF Sign
    <2>4. thread' = [thread EXCEPT ![t] = [thread[t] EXCEPT !.pc = "reply", !.reply = reply]]
        BY Zenon, <1>11 DEF Sign, Thread
    <2>5. pv' \in [PVs -> State \cup {Nil}] /\ \A j \in PVs : pv'[j] # Nil => StateOK(pv'[j])
        BY Zenon, <1>11, <2>1 DEF Sign, StateOK
    <2>6. file' \in StateFile /\ StateOK(file'.state)
        BY <1>11, <2>1, WrittenOK DEF Sign
    <2> QED BY Zenon, <1>11, <2>3, <2>4, <2>5, <2>6, OneThreadSteps DEF Sign
<1>12. ASSUME NEW t \in Threads, SaveFails(t)
       PROVE  TypeInv'
    <2> DEFINE r == thread[t].req
               new == [HRS |-> r.HRS, SignBytes |-> r.bytes, Signature |-> r.bytes]
    <2>1. StateOK(new)
        BY Zenon, <1>12, Signing, RequestTypes DEF SaveFails
    <2>2. \E s \in {new, Nil} : pv' = [pv EXCEPT ![thread[t].pv] = s]
        BY Zenon, <1>12 DEF SaveFails
    <2>3. pv' \in [PVs -> State \cup {Nil}] /\ \A j \in PVs : pv'[j] # Nil => StateOK(pv'[j])
        BY ZenonT(60), <2>1, <2>2 DEF StateOK
    <2> QED BY Zenon, <1>12, <2>3, IdleOK, OneThreadSteps DEF SaveFails
<1>13. ASSUME NEW t \in Threads, Return(t)
       PROVE  TypeInv'
    <2>1. [HRS |-> thread[t].req.HRS, block |-> thread[t].reply.sig.block] \in Votes
        BY <1>13, ReplyIsVote DEF Return
    <2> QED BY <1>8, <1>13, <2>1 DEF Return
<1> QED BY Zenon, <1>1, <1>2, <1>3, <1>4, <1>5, <1>6, <1>7, <1>9, <1>10, <1>11, <1>12, <1>13, StepsOfNext

-----------------------------------------------------------------------------
(* A FilePV is still of one process, and in memory while it is named.       *)
LEMMA NextOwned ==
    ASSUME TypeInv, Owned, [Next]_vars
    PROVE  Owned'
<1>n. \A t \in Threads : thread[t] \in Thread /\ (thread[t].pv \in PVs <=> thread[t].pc \in {"store", "sign", "reply"})
    BY Zenon DEF TypeInv, ThreadOK
<1>f. /\ thread \in [Threads -> Thread] /\ chainState \in [Processes -> PVs \cup {Nil}]
      /\ pv \in [PVs -> State \cup {Nil}] /\ Nil \notin PVs
    BY NilAssumption DEF TypeInv
<1>s. \A s : StateOK(s) => s # Nil
    BY NilAssumption DEF StateOK
<1>1. CASE UNCHANGED <<chainState, pv, thread>>
    BY <1>1 DEF Owned
<1>2. ASSUME NEW p \in Processes, End(p)
      PROVE  Owned'
    <2>1. /\ \A t \in Threads : thread'[t].pv = IF thread[t].proc = p THEN Nil ELSE thread[t].pv
          /\ \A t \in Threads : thread[t].proc # p => thread'[t].proc = thread[t].proc
          /\ \A q \in Processes : chainState'[q] = IF q = p THEN Nil ELSE chainState[q]
        BY <1>2, <1>f DEF End, Idle
    <2>2. \A i \in PVs : pv'[i] = IF chainState[p] = i \/ \E t \in Threads : thread[t].proc = p /\ thread[t].pv = i
                                      THEN Nil ELSE pv[i]
        BY <1>2 DEF End
    <2> QED BY <2>1, <2>2, <1>f DEF Owned
<1>3. ASSUME NEW p \in Processes, NEW t \in Threads, NEW r \in Requests, Request(t, p, r)
      PROVE  Owned'
    <2>1. /\ thread'[t].pv = chainState[p] /\ thread'[t].proc = p
          /\ \A u \in Threads \ {t} : thread'[u] = thread[u]
          /\ thread[t].pv = Nil
          /\ UNCHANGED <<chainState, pv>>
        BY <1>3, <1>f DEF Request, Idle
    <2> QED BY <2>1, <1>f DEF Owned
<1>4. ASSUME NEW t \in Threads, NEW i \in PVs, LoadFilePV(t, i)
      PROVE  Owned'
    <2>1. StateOK(InitialState(file))
        BY EmptyFileOK DEF InitialState, TypeInv
    <2>2. /\ thread'[t].pv = i /\ thread'[t].proc = thread[t].proc
          /\ \A u \in Threads \ {t} : thread'[u] = thread[u]
          /\ UNCHANGED chainState
          /\ thread[t].pv \notin PVs
        BY <1>4, <1>n, <1>f DEF LoadFilePV, Thread
    <2>3. pv[i] = Nil /\ pv'[i] # Nil /\ \A j \in PVs \ {i} : pv'[j] = pv[j]
        BY <1>4, <2>1, <1>f, <1>s DEF LoadFilePV
    <2> QED BY <2>2, <2>3, <1>f DEF Owned
<1>5. ASSUME NEW t \in Threads, Store(t)
      PROVE  Owned'
    <2> DEFINE p == thread[t].proc
    <2>1. p \in Processes /\ thread[t].pv \in PVs
        BY <1>5, Signing DEF Store
    <2>2. /\ \A u \in Threads : thread'[u].pv = thread[u].pv /\ thread'[u].proc = thread[u].proc
          /\ chainState'[p] = thread[t].pv
          /\ \A q \in Processes \ {p} : chainState'[q] = chainState[q]
        BY <1>5, <1>f, <2>1 DEF Store, Thread
    <2>3. \A i \in PVs : pv'[i] = IF i = chainState[p] /\ ~ (\E u \in Threads : thread[u].pv = i) THEN Nil ELSE pv[i]
        BY <1>5, <1>f DEF Store
    <2> QED BY SMTT(30), <2>1, <2>2, <2>3, <1>f DEF Owned
<1>6. ASSUME NEW t \in Threads, Drop(t), UNCHANGED chainState
      PROVE  Owned'
    <2>1. /\ thread'[t].pv = Nil
          /\ \A u \in Threads \ {t} : thread'[u] = thread[u]
        BY <1>6, <1>f DEF Drop, Idle
    <2>2. \A j \in PVs : pv'[j] = IF /\ j = thread[t].pv /\ ~ (\E q \in Processes : chainState[q] = j)
                                     /\ ~ (\E u \in Threads \ {t} : thread[u].pv = j)
                                      THEN Nil ELSE pv[j]
        BY <1>6 DEF Drop
    <2> QED BY <1>6, <2>1, <2>2, <1>f DEF Owned
<1>7. ASSUME NEW t \in Threads, LoadFails(t)
      PROVE  Owned'
    <2>1. /\ thread'[t].pv = Nil /\ thread[t].pv \notin PVs
          /\ \A u \in Threads \ {t} : thread'[u] = thread[u]
          /\ UNCHANGED <<chainState, pv>>
        BY <1>7, <1>n, <1>f DEF LoadFails, Idle
    <2> QED BY <2>1, <1>f DEF Owned
<1>8. ASSUME NEW t \in Threads, SignAgain(t) \/ Sign(t)
      PROVE  Owned'
    <2>1. /\ \A u \in Threads : thread'[u].pv = thread[u].pv /\ thread'[u].proc = thread[u].proc
          /\ UNCHANGED chainState
        BY SMTT(30), <1>8, <1>f DEF SignAgain, Sign, Thread
    <2>2. thread[t].req \in Requests /\ thread[t].pv \in PVs /\ pv[thread[t].pv] # Nil
        BY <1>8, Signing DEF SignAgain, Sign
    <2>3. \A i \in PVs : pv'[i] # Nil <=> pv[i] # Nil
        BY Zenon, <1>8, <2>2, <1>f, <1>s, RequestTypes DEF SignAgain, Sign
    <2> QED BY <2>1, <2>3 DEF Owned
<1>9. ASSUME NEW t \in Threads, SaveFails(t)
      PROVE  Owned'
    <2>1. /\ thread'[t].pv = Nil
          /\ \A u \in Threads \ {t} : thread'[u] = thread[u]
          /\ UNCHANGED chainState
        BY ZenonT(60), <1>9, <1>f DEF SaveFails, Idle
    <2>2. thread[t].req \in Requests /\ thread[t].pv \in PVs /\ pv[thread[t].pv] # Nil
        BY <1>9, Signing DEF SaveFails
    <2> DEFINE i == thread[t].pv
               new == [HRS |-> thread[t].req.HRS, SignBytes |-> thread[t].req.bytes, Signature |-> thread[t].req.bytes]
               kept == i \in {chainState[q] : q \in Processes} \/ \E u \in Threads \ {t} : thread[u].pv = i
    <2>3. new # Nil
        BY Zenon, <2>2, <1>s, RequestTypes
    <2>4. pv' = [pv EXCEPT ![i] = IF kept THEN new ELSE Nil]
        BY <1>9 DEF SaveFails
    <2>5. pv'[i] = Nil <=> ~ kept
        <3> HIDE DEF kept, new
        <3> QED BY <2>2, <2>3, <2>4, <1>f
    <2>6. \A j \in PVs \ {i} : pv'[j] = pv[j]
        <3> HIDE DEF kept, new
        <3> QED BY <2>4, <1>f
    <2> QED BY SMTT(30), <2>1, <2>2, <2>5, <2>6, <1>f DEF Owned
<1>10. ASSUME NEW p \in Processes, CreateState(p) \/ \E hrs \in States : SaveState(p, hrs)
       PROVE  Owned'
    BY <1>1, <1>10, CommandWrites
<1>11. ASSUME NEW t \in Threads, Refuse(t) \/ Return(t)
       PROVE  Owned'
    BY <1>6, <1>11 DEF Refuse, Return
<1> QED BY <1>1, <1>2, <1>3, <1>4, <1>5, <1>7, <1>8, <1>9, <1>10, <1>11, StepsOfNext DEF signerVars

-----------------------------------------------------------------------------
(* What is committed was requested, at a step of its own.                   *)
LEMMA CommittedAreVotes ==
    ASSUME TypeInv, NEW v \in Committed
    PROVE  v \in Votes /\ v.HRS \in HRSKey /\ v.HRS.Step > 0
<1>1. v \in Votes
    BY ReplyIsVote DEF Committed, TypeInv
<1>2. PICK r \in Requests : v = [HRS |-> r.HRS, block |-> r.bytes.block]
    BY <1>1 DEF Votes
<1>3. v.HRS = r.HRS
    BY <1>2
<1> QED BY Zenon, <1>1, <1>3, RequestTypes

(* A later watermark holds what an earlier one held.                        *)
LEMMA LaterHolds ==
    ASSUME NEW s \in State, NEW n \in State, GreaterThan(n.HRS, s.HRS), NEW v, v.HRS \in HRSKey, Holds(s, v)
    PROVE  Holds(n, v) /\ v.HRS # n.HRS
<1>1. s.HRS \in HRSKey /\ n.HRS \in HRSKey
    BY DEF State
<1>2. GreaterThan(n.HRS, v.HRS)
    BY <1>1, Order DEF Holds
<1> QED BY <1>1, <1>2, Order DEF Holds

(* A file that covers the watermark holds what the watermark held.          *)
LEMMA CoveringHolds ==
    ASSUME TypeInv, NEW s, StateOK(s), Covers(file, s), NEW v, v.HRS \in HRSKey, v.HRS.Step > 0, Holds(s, v)
    PROVE  FileHolds(v)
<1>1. CASE s.HRS = ZeroHRS
    <2>1. v.HRS.Height \in Nat /\ v.HRS.Round \in Nat /\ v.HRS.Step \in Nat
        BY DEF HRSKey
    <2>2. ~ GreaterThan(s.HRS, v.HRS) /\ s.HRS # v.HRS
        BY <1>1, <2>1 DEF GreaterThan, ZeroHRS
    <2> QED BY <2>2 DEF Holds
<1>2. CASE file # Nil /\ file.type = "SignState"
    BY <1>2 DEF FileHolds
<1>3. CASE file # Nil /\ GreaterThan(file.state.HRS, s.HRS)
    <2>1. file.state \in State /\ s \in State
        BY <1>3 DEF TypeInv, StateOK
    <2> QED BY <1>3, <2>1, LaterHolds DEF FileHolds
<1>4. CASE file # Nil /\ file.state.HRS = s.HRS /\ file.state.SignBytes = s.SignBytes
    BY <1>4 DEF FileHolds, Holds
<1> QED BY <1>1, <1>2, <1>3, <1>4 DEF Covers

(* No vote is added by a step that takes no thread to its reply.            *)
LEMMA FewerVotes ==
    ASSUME signed' = signed, \A u \in Threads : thread'[u].pc = "reply" => thread'[u] = thread[u]
    PROVE  Committed' \subseteq Committed
BY DEF Committed

(* A step that leaves the watermark alone, and the file as it is or written *)
(* by a command, forgets nothing.                                           *)
LEMMA QuietStep ==
    ASSUME Remembers, Committed' \subseteq Committed, \A i \in PVs : pv'[i] = pv[i],
           file' = file \/ (file' # Nil /\ file'.type = "SignState"),
           SignsWithMap'
    PROVE  Remembers'
<1>1. \A v \in Committed : (\A i \in PVs : pv[i] = Nil) => FileHolds(v)'
    BY DEF Remembers, FileHolds, Holds
<1>2. \A v \in Committed, i \in PVs : pv[i] # Nil => Holds(pv'[i], v)
    BY DEF Remembers
<1>3. \A v, w \in Committed' : v.HRS = w.HRS => v.block = w.block
    BY DEF Remembers
<1>4. (\A i, j \in PVs : pv[i] # Nil /\ pv[j] # Nil => i = j)'
    BY DEF Remembers
<1>5. \A v \in Committed', i \in PVs : pv'[i] # Nil => Holds(pv'[i], v)
    BY <1>2
<1>6. \A v \in Committed' : (\A i \in PVs : pv'[i] = Nil) => FileHolds(v)'
    BY <1>1
<1> QED BY <1>3, <1>4, <1>5, <1>6 DEF Remembers

(* A thread that has a reply, or signs, has the one FilePV of the map: it   *)
(* stays when the thread is done.                                           *)
LEMMA DropKeeps ==
    ASSUME TypeInv, Owned, Remembers, NEW t \in Threads, thread[t].pc \in {"sign", "reply"}, Drop(t)
    PROVE  \A i \in PVs : pv'[i] = pv[i]
<1>1. thread[t].proc \in Processes /\ chainState[thread[t].proc] = thread[t].pv
    BY ZenonT(60), Signing DEF Remembers, SignsWithMap
<1> QED BY <1>1 DEF Drop

(* A thread goes to its reply with a vote that the watermark holds, and     *)
(* that no earlier vote conflicts with.                                     *)
LEMMA NewVote ==
    ASSUME TypeInv, Owned, Remembers, NEW t \in Threads, thread[t].pc = "sign",
           thread'[t].req = thread[t].req, thread'[t].pv = thread[t].pv, thread'[t].proc = thread[t].proc,
           \A u \in Threads \ {t} : thread'[u] = thread[u],
           UNCHANGED <<chainState, signed>>,
           \A j \in PVs \ {thread[t].pv} : pv'[j] = pv[j],
           pv'[thread[t].pv] # Nil,
           Holds(pv'[thread[t].pv], VoteOf(thread[t])),
           \A v \in Committed : Holds(pv'[thread[t].pv], v),
           \A v \in Committed : v.HRS = thread[t].req.HRS => v.block = thread[t].req.bytes.block
    PROVE  Remembers'
<1>1. thread[t].pv \in PVs /\ pv[thread[t].pv] # Nil
    BY Signing
<1>2. VoteOf(thread'[t]) = VoteOf(thread[t])
    BY DEF VoteOf
<1>3. \A v \in Committed' : v \in Committed \/ v = VoteOf(thread[t])
    BY <1>2 DEF Committed
<1>4. VoteOf(thread[t]).HRS = thread[t].req.HRS /\ VoteOf(thread[t]).block = thread[t].req.bytes.block
    BY DEF VoteOf
<1>5. \A i \in PVs : pv[i] # Nil => i = thread[t].pv
    BY <1>1 DEF Remembers
<1>6. (\A i, j \in PVs : pv[i] # Nil /\ pv[j] # Nil => i = j)'
    BY ZenonT(60), <1>5
<1>7. SignsWithMap'
    BY SMTT(30) DEF Remembers, SignsWithMap
<1>8. \A v, w \in Committed' : v.HRS = w.HRS => v.block = w.block
    BY SMTT(30), <1>3, <1>4 DEF Remembers
<1>9. \A v \in Committed', i \in PVs : pv'[i] # Nil => Holds(pv'[i], v)
    BY <1>3, <1>5
<1>10. ~ (\A i \in PVs : pv'[i] = Nil)
    BY <1>1
<1> QED BY SMTT(30), <1>6, <1>7, <1>8, <1>9, <1>10 DEF Remembers

(* The history variables: forgetting is for good, and a return adds a vote. *)
LEMMA HistorySteps ==
    ASSUME TypeInv, [Next]_vars
    PROVE  /\ forgetful' = forgetful \/ forgetful' = TRUE
           /\ signed' = signed \/ \E t \in Threads : Return(t)
<1> DEFINE Goal == /\ forgetful' = forgetful \/ forgetful' = TRUE
                   /\ signed' = signed \/ \E t \in Threads : Return(t)
<1> HIDE DEF Goal
<1>1. (UNCHANGED <<signed, forgetful>>) => Goal
    BY DEF Goal
<1>2. ASSUME NEW p \in Processes, End(p)
      PROVE  Goal
    BY Zenon, <1>2 DEF End, TypeInv, Goal
<1>3. ASSUME NEW t \in Threads, NEW i \in PVs, LoadFilePV(t, i)
      PROVE  Goal
    BY Zenon, <1>3 DEF LoadFilePV, TypeInv, Goal
<1>4. ASSUME NEW t \in Threads, Return(t)
      PROVE  Goal
    BY <1>4 DEF Return, Goal
<1>5. ASSUME NEW p \in Processes, CreateState(p) \/ \E hrs \in States : SaveState(p, hrs)
      PROVE  Goal
    BY <1>1, <1>5, CommandWrites
<1>6. ASSUME NEW p \in Processes, NEW t \in Threads, NEW r \in Requests, Request(t, p, r)
      PROVE  Goal
    BY SMTT(30), <1>1, <1>6 DEF Request
<1>7. ASSUME NEW t \in Threads, LoadFails(t) \/ Store(t) \/ Refuse(t) \/ SignAgain(t) \/ Sign(t) \/ SaveFails(t)
      PROVE  Goal
    BY <1>1, <1>7 DEF LoadFails, Store, Refuse, SignAgain, Sign, SaveFails
<1>8. (UNCHANGED signerVars) => Goal
    BY <1>1 DEF signerVars
<1>9. Goal
    BY <1>2, <1>3, <1>4, <1>5, <1>6, <1>7, <1>8, StepsOfNext
<1> QED BY <1>9 DEF Goal

-----------------------------------------------------------------------------
(* A process ends: what its FilePV held, the file holds.                    *)
LEMMA EndRemembers ==
    ASSUME TypeInv, Owned, Remembers, NEW p \in Processes, End(p), ~ forgetful'
    PROVE  Remembers'
<1> DEFINE mine == {i \in PVs : chainState[p] = i \/ \E t \in Threads : thread[t].proc = p /\ thread[t].pv = i}
<1>1. /\ \A t \in Threads : thread'[t] = IF thread[t].proc = p THEN Idle ELSE thread[t]
      /\ \A q \in Processes : chainState'[q] = IF q = p THEN Nil ELSE chainState[q]
      /\ UNCHANGED <<file, signed>>
    BY DEF End, TypeInv
<1>2. /\ \A i \in PVs : pv'[i] = IF i \in mine THEN Nil ELSE pv[i]
      /\ \A i \in mine : Covers(file, pv[i])
    BY Zenon DEF End
<1>3. Committed' \subseteq Committed
    <2>1. \A t \in Threads : thread'[t].pc = "reply" => thread'[t] = thread[t]
        BY <1>1 DEF Idle
    <2> QED BY <1>1, <2>1, FewerVotes
<1>4. \A i \in mine : pv[i] # Nil
    BY DEF Owned
<1> HIDE DEF mine
<1>5. (\A i, j \in PVs : pv[i] # Nil /\ pv[j] # Nil => i = j)'
    BY <1>2 DEF Remembers
<1>6. SignsWithMap'
    <2> SUFFICES ASSUME NEW t \in Threads, thread'[t].pc \in {"sign", "reply"}
                 PROVE  chainState'[thread'[t].proc] = thread'[t].pv
        BY DEF SignsWithMap
    <2>1. thread[t].proc # p /\ thread'[t] = thread[t]
        BY <1>1 DEF Idle
    <2>2. thread[t].proc \in Processes
        BY <2>1, Signing
    <2> QED BY <1>1, <2>1, <2>2 DEF Remembers, SignsWithMap
<1>7. \A v, w \in Committed' : v.HRS = w.HRS => v.block = w.block
    BY <1>3 DEF Remembers
<1>8. \A v \in Committed', i \in PVs : pv'[i] # Nil => Holds(pv'[i], v)
    BY <1>2, <1>3 DEF Remembers
<1>9. \A v \in Committed' : (\A i \in PVs : pv'[i] = Nil) => FileHolds(v)
    <2> SUFFICES ASSUME NEW v \in Committed, \A i \in PVs : pv'[i] = Nil
                 PROVE  FileHolds(v)
        BY <1>3
    <2>1. CASE \A i \in PVs : pv[i] = Nil
        BY <2>1 DEF Remembers
    <2>2. ASSUME NEW i \in PVs, pv[i] # Nil
          PROVE  FileHolds(v)
        <3>1. i \in mine
            BY SMTT(30), <1>2, <2>2
        <3>2. StateOK(pv[i]) /\ Covers(file, pv[i]) /\ Holds(pv[i], v)
            BY SMTT(30), <1>2, <2>2, <3>1 DEF TypeInv, Remembers
        <3> QED BY <3>2, CoveringHolds, CommittedAreVotes
    <2> QED BY <2>1, <2>2
<1>10. \A v : FileHolds(v)' <=> FileHolds(v)
    BY SMTT(30), <1>1 DEF FileHolds, Holds
<1> QED BY SMTT(30), <1>5, <1>6, <1>7, <1>8, <1>9, <1>10 DEF Remembers

(* The first FilePV starts from the file, and nobody has another.           *)
LEMMA LoadRemembers ==
    ASSUME TypeInv, Owned, Remembers, NEW t \in Threads, NEW i \in PVs, LoadFilePV(t, i), ~ forgetful'
    PROVE  Remembers'
<1>1. \A j \in PVs : pv[j] = Nil
    BY Zenon DEF LoadFilePV, Live
<1>2. /\ pv'[i] = InitialState(file) /\ \A j \in PVs \ {i} : pv'[j] = Nil
      /\ file # Nil => file.type = "FilePV"
      /\ thread'[t].pc = "store" /\ \A u \in Threads \ {t} : thread'[u] = thread[u]
      /\ UNCHANGED <<chainState, signed>>
    BY SMTT(30), <1>1 DEF LoadFilePV, TypeInv, Thread
<1>3. Committed' \subseteq Committed
    <2>1. \A u \in Threads : thread'[u].pc = "reply" => thread'[u] = thread[u]
        BY <1>2
    <2> QED BY <1>2, <2>1, FewerVotes
<1>4. (\A j, k \in PVs : pv[j] # Nil /\ pv[k] # Nil => j = k)'
    BY SMTT(30), <1>2
<1>5. SignsWithMap'
    BY <1>2 DEF Remembers, SignsWithMap
<1>6. \A v, w \in Committed' : v.HRS = w.HRS => v.block = w.block
    BY SMTT(30), <1>3 DEF Remembers
<1>7. \A v \in Committed : file # Nil /\ Holds(file.state, v)
    BY <1>1, <1>2 DEF Remembers, FileHolds
<1>8. \A v \in Committed', j \in PVs : pv'[j] # Nil => Holds(pv'[j], v)
    BY <1>2, <1>3, <1>7 DEF InitialState
<1>9. pv'[i] # Nil
    BY <1>2, EmptyFileOK, NilAssumption DEF InitialState, TypeInv, StateOK
<1> QED BY <1>4, <1>5, <1>6, <1>8, <1>9 DEF Remembers

(* The FilePV stored in the map is the only one: nothing is replaced.       *)
LEMMA StoreRemembers ==
    ASSUME TypeInv, Owned, Remembers, NEW t \in Threads, Store(t)
    PROVE  Remembers'
<1> DEFINE p == thread[t].proc
<1>1. p \in Processes /\ thread[t].pv \in PVs /\ pv[thread[t].pv] # Nil
    BY Signing DEF Store
<1>2. /\ \A u \in Threads : thread'[u].pv = thread[u].pv /\ thread'[u].proc = thread[u].proc
      /\ thread'[t].pc = "sign" /\ \A u \in Threads \ {t} : thread'[u] = thread[u]
      /\ \A q \in Processes : chainState'[q] = IF q = p THEN thread[t].pv ELSE chainState[q]
      /\ UNCHANGED <<file, signed>>
    BY <1>1 DEF Store, Thread, TypeInv
<1>3. chainState[p] = Nil \/ chainState[p] = thread[t].pv
    BY <1>1 DEF Owned, Remembers, TypeInv
<1>4. \A i \in PVs : pv'[i] = pv[i]
    BY SMTT(30), <1>3 DEF Store
<1>5. Committed' \subseteq Committed
    <2>1. \A u \in Threads : thread'[u].pc = "reply" => thread'[u] = thread[u]
        BY <1>2
    <2> QED BY SMTT(30), <1>2, <2>1, FewerVotes
<1>6. SignsWithMap'
    <2> SUFFICES ASSUME NEW u \in Threads \ {t}, thread[u].pc \in {"sign", "reply"}
                 PROVE  chainState'[thread[u].proc] = thread[u].pv
        BY SMTT(30), <1>1, <1>2 DEF SignsWithMap
    <2>1. thread[u].proc \in Processes /\ thread[u].pv \in PVs /\ pv[thread[u].pv] # Nil
        BY Signing
    <2>2. thread[u].pv = thread[t].pv
        BY <1>1, <2>1 DEF Remembers
    <2> QED BY ZenonT(60), <1>2, <2>1, <2>2 DEF Remembers, SignsWithMap
<1> QED BY <1>2, <1>4, <1>5, <1>6, QuietStep

(* The signer remembers as long as nothing says that it has forgotten.      *)
LEMMA NextRemembers ==
    ASSUME TypeInv, Owned, Remembers, [Next]_vars, ~ forgetful'
    PROVE  Remembers'
<1>f. thread \in [Threads -> Thread] /\ pv \in [PVs -> State \cup {Nil}]
    BY DEF TypeInv
<1>1. CASE UNCHANGED signerVars
    <2>1. Committed' \subseteq Committed /\ SignsWithMap'
        BY <1>1 DEF signerVars, Committed, Remembers, SignsWithMap
    <2> QED BY ZenonT(60), <1>1, <2>1, QuietStep DEF signerVars
<1>2. ASSUME NEW p \in Processes, CreateState(p) \/ \E hrs \in States : SaveState(p, hrs)
      PROVE  Remembers'
    <2>1. /\ UNCHANGED <<chainState, pv, thread, signed>>
          /\ file' = file \/ (file' # Nil /\ file'.type = "SignState")
        BY ZenonT(60), <1>2, CommandWrites
    <2>2. Committed' \subseteq Committed /\ SignsWithMap'
        BY <2>1 DEF Committed, Remembers, SignsWithMap
    <2> QED BY <2>1, <2>2, QuietStep
<1>3. ASSUME NEW p \in Processes, NEW t \in Threads, NEW r \in Requests, Request(t, p, r)
      PROVE  Remembers'
    <2>1. /\ thread'[t].pc \in {"load", "sign"} /\ thread'[t].pv = chainState[p] /\ thread'[t].proc = p
          /\ \A u \in Threads \ {t} : thread'[u] = thread[u]
          /\ UNCHANGED <<file, chainState, pv, signed>>
        BY SMTT(30), <1>3, <1>f DEF Request, Idle
    <2>2. SignsWithMap'
        BY <2>1 DEF Remembers, SignsWithMap
    <2>3. Committed' \subseteq Committed
        BY SMTT(30), <2>1, FewerVotes
    <2> QED BY <2>1, <2>2, <2>3, QuietStep
<1>4. ASSUME NEW t \in Threads, thread' = [thread EXCEPT ![t] = Idle]
      PROVE  /\ chainState' = chainState => SignsWithMap'
             /\ signed' = signed => Committed' \subseteq Committed
    <2>1. thread'[t].pc = "idle" /\ \A u \in Threads \ {t} : thread'[u] = thread[u]
        BY <1>4, <1>f DEF Idle
    <2> QED BY <2>1, FewerVotes DEF Remembers, SignsWithMap
<1>5. ASSUME NEW t \in Threads, LoadFails(t)
      PROVE  Remembers'
    BY Zenon, <1>4, <1>5, QuietStep DEF LoadFails
<1>6. ASSUME NEW t \in Threads, Refuse(t)
      PROVE  Remembers'
    <2>1. \A i \in PVs : pv'[i] = pv[i]
        BY <1>6, DropKeeps DEF Refuse
    <2> QED BY Zenon, <1>4, <1>6, <2>1, QuietStep DEF Refuse, Drop
<1>7. ASSUME NEW t \in Threads, Return(t)
      PROVE  Remembers'
    <2>1. \A i \in PVs : pv'[i] = pv[i]
        BY <1>7, DropKeeps DEF Return
    <2>2. /\ thread' = [thread EXCEPT ![t] = Idle] /\ UNCHANGED <<file, chainState>>
          /\ signed' = signed \cup {VoteOf(thread[t])} /\ thread[t].pc = "reply"
        BY Zenon, <1>7, ReplyIsVote DEF Return, Drop
    <2>3. thread'[t].pc = "idle" /\ \A u \in Threads \ {t} : thread'[u] = thread[u]
        BY <2>2, <1>f DEF Idle
    <2>4. Committed' \subseteq Committed
        BY SMTT(30), <2>2, <2>3 DEF Committed
    <2> QED BY Zenon, <1>4, <2>1, <2>2, <2>4, QuietStep
<1>8. ASSUME NEW t \in Threads, SignAgain(t)
      PROVE  Remembers'
    <2> DEFINE s == pv[thread[t].pv]
               r == thread[t].req
    <2>1. r \in Requests /\ s \in State /\ s # Nil /\ thread[t].pv \in PVs
        BY <1>8, Signing DEF SignAgain
    <2>2. s.HRS = r.HRS /\ s.SignBytes # Nil /\ s.SignBytes.block = r.bytes.block
        BY Zenon, <1>8, <2>1, Checked, RequestTypes DEF SignAgain, SameBlock, OnlyDifferByTimestamp
    <2>3. \A v \in Committed : Holds(s, v)
        BY ZenonT(60), <2>1 DEF Remembers
    <2>4. Holds(s, VoteOf(thread[t]))
        BY <2>2 DEF Holds, VoteOf
    <2>5. \A v \in Committed : v.HRS = r.HRS => v.block = r.bytes.block
        BY Zenon, <2>1, <2>2, <2>3, Order, RequestTypes DEF Holds
    <2>6. /\ thread'[t].req = r /\ thread'[t].pv = thread[t].pv /\ thread'[t].proc = thread[t].proc
          /\ \A u \in Threads \ {t} : thread'[u] = thread[u]
          /\ thread[t].pc = "sign" /\ UNCHANGED <<chainState, signed, pv>>
        BY ZenonT(60), <1>8, <1>f DEF SignAgain, Thread
    <2> QED BY <2>1, <2>3, <2>4, <2>5, <2>6, NewVote
<1>9. ASSUME NEW t \in Threads, Sign(t) \/ SaveFails(t)
      PROVE  LET s == pv[thread[t].pv]
                 r == thread[t].req
                 new == [HRS |-> r.HRS, SignBytes |-> r.bytes, Signature |-> r.bytes]
             IN  /\ \A v \in Committed : Holds(new, v) /\ v.HRS # r.HRS
                 /\ Holds(new, VoteOf(thread[t])) /\ new # Nil
                 /\ thread[t].proc \in Processes /\ thread[t].pv \in PVs /\ s # Nil
    <2> DEFINE s == pv[thread[t].pv]
               r == thread[t].req
               new == [HRS |-> r.HRS, SignBytes |-> r.bytes, Signature |-> r.bytes]
    <2>1. thread[t].proc \in Processes /\ r \in Requests /\ s \in State /\ s # Nil /\ thread[t].pv \in PVs
        BY <1>9, Signing DEF Sign, SaveFails
    <2>2. GreaterThan(r.HRS, s.HRS)
        BY Zenon, <1>9, <2>1, Checked, RequestTypes DEF Sign, SaveFails
    <2>3. new \in State /\ new # Nil
        BY Zenon, <2>1, RequestTypes, NilAssumption DEF StateOK
    <2>4. \A v \in Committed : Holds(new, v) /\ v.HRS # r.HRS
        <3> SUFFICES ASSUME NEW v \in Committed
                     PROVE  Holds(new, v) /\ v.HRS # new.HRS
            OBVIOUS
        <3>1. Holds(s, v) /\ v.HRS \in HRSKey /\ GreaterThan(new.HRS, s.HRS)
            BY Zenon, <2>1, <2>2, CommittedAreVotes DEF Remembers
        <3> HIDE DEF new, s
        <3> QED BY SMTT(30), <2>1, <2>3, <3>1, LaterHolds DEF s
    <2>5. Holds(new, VoteOf(thread[t]))
        BY Zenon, <2>1, RequestTypes DEF Holds, VoteOf
    <2> QED BY ZenonT(60), <2>1, <2>3, <2>4, <2>5
<1>10. ASSUME NEW t \in Threads, Sign(t)
       PROVE  Remembers'
    <2> DEFINE r == thread[t].req
               new == [HRS |-> r.HRS, SignBytes |-> r.bytes, Signature |-> r.bytes]
    <2>1. /\ \A v \in Committed : Holds(new, v) /\ v.HRS # r.HRS
          /\ Holds(new, VoteOf(thread[t])) /\ new # Nil /\ thread[t].pv \in PVs
        BY <1>9, <1>10
    <2>2. pv'[thread[t].pv] = new /\ \A j \in PVs \ {thread[t].pv} : pv'[j] = pv[j]
        BY <1>10, <2>1, <1>f DEF Sign
    <2>3. /\ thread'[t].req = r /\ thread'[t].pv = thread[t].pv /\ thread'[t].proc = thread[t].proc
          /\ \A u \in Threads \ {t} : thread'[u] = thread[u]
          /\ thread[t].pc = "sign" /\ UNCHANGED <<chainState, signed>>
        BY ZenonT(60), <1>10, <1>f DEF Sign, Thread
    <2> HIDE DEF new
    <2> QED BY ZenonT(60), <2>1, <2>2, <2>3, NewVote
<1>11. ASSUME NEW t \in Threads, SaveFails(t)
       PROVE  Remembers'
    <2> DEFINE i == thread[t].pv
               r == thread[t].req
               new == [HRS |-> r.HRS, SignBytes |-> r.bytes, Signature |-> r.bytes]
    <2>1. /\ \A v \in Committed : Holds(new, v)
          /\ new # Nil /\ i \in PVs /\ pv[i] # Nil /\ thread[t].proc \in Processes
        BY ZenonT(60), <1>9, <1>11
    <2>2. chainState[thread[t].proc] = i
        BY <1>11 DEF SaveFails, Remembers, SignsWithMap
    <2>3. pv' = [pv EXCEPT ![i] = new]
        BY Zenon, <1>11, <2>1, <2>2 DEF SaveFails
    <2>4. pv'[i] = new /\ \A j \in PVs \ {i} : pv'[j] = pv[j]
        <3> HIDE DEF new
        <3> QED BY <2>1, <2>3, <1>f
    <2>5. Committed' \subseteq Committed /\ SignsWithMap'
        BY Zenon, <1>4, <1>11 DEF SaveFails
    <2> HIDE DEF new
    <2>6. \A j \in PVs : pv'[j] # Nil => j = i
        BY <2>1, <2>4 DEF Remembers
    <2>7. \A v, w \in Committed' : v.HRS = w.HRS => v.block = w.block
        BY <2>5 DEF Remembers
    <2>8. \A v \in Committed', j \in PVs : pv'[j] # Nil => Holds(pv'[j], v)
        BY <2>1, <2>4, <2>5, <2>6
    <2>9. ~ (\A j \in PVs : pv'[j] = Nil)
        BY <2>1, <2>4
    <2> QED BY ZenonT(60), <2>5, <2>6, <2>7, <2>8, <2>9 DEF Remembers
<1> QED BY <1>1, <1>2, <1>3, <1>5, <1>6, <1>7, <1>8, <1>10, <1>11, EndRemembers, LoadRemembers, StoreRemembers,
       StepsOfNext

-----------------------------------------------------------------------------
(* The invariant is inductive: as long as nothing was forgotten, the one    *)
(* FilePV in memory, or else the state file, holds every vote signed.       *)
THEOREM InductiveInvariant == Spec => []IInv
<1>1. IInv /\ [Next]_vars => IInv'
    <2> SUFFICES ASSUME IInv, [Next]_vars
                 PROVE  IInv'
        OBVIOUS
    <2>1. HostInv' /\ TypeInv' /\ Owned'
        BY NextHostInv, NextTypeInv, NextOwned DEF IInv
    <2>2. ASSUME ~ forgetful'
          PROVE  Remembers'
        <3>1. ~ forgetful
            BY Zenon, <2>2, HistorySteps DEF IInv
        <3> QED BY <2>2, <3>1, NextRemembers DEF IInv
    <2> QED BY <2>1, <2>2 DEF IInv
<1> QED BY <1>1, InitIInv, PTL DEF Spec

(* Every variable always has its type, and the FilePVs in memory are the    *)
(* ones that the maps and the threads of the processes name.                *)
THEOREM TypeCorrectness == Spec => []TypeOK
<1>1. IInv => TypeOK
    <2> SUFFICES ASSUME IInv
                 PROVE  TypeOK
        OBVIOUS
    <2>1. \A t \in Threads : thread[t].pv \in PVs \cup {Nil}
        BY DEF IInv, TypeInv, Thread
    <2>2. Live = ({chainState[p] : p \in Processes} \cup {thread[t].pv : t \in Threads}) \ {Nil}
        BY <2>1, NilAssumption DEF IInv, TypeInv, Owned, Live
    <2> QED BY <2>2 DEF IInv, HostInv, TypeInv, TypeOK
<1> QED BY <1>1, InductiveInvariant, PTL

(* FilePV.Sign never answers a request with a signature of another block or *)
(* of another timestamp than the one it returns.                            *)
THEOREM RepliesVerify == Spec => []ReplyVerifies
<1>1. IInv => ReplyVerifies
    BY DEF IInv, TypeInv, ThreadOK, ReplyVerifies
<1> QED BY <1>1, InductiveInvariant, PTL

(* The single signer implements CosignerPromise: whatever processes start,  *)
(* stop and die around the PID file and whatever the operator writes to the *)
(* state file, it signs no two blocks at one height, round and step before  *)
(* two FilePVs were in memory or a process ended ahead of its file.         *)
THEOREM SignerKeepsPromise == Spec => KeepsPromise
<1>1. Init => Promise!Init
    BY DEF Init, Promise!Init
<1>2. IInv /\ [Next]_vars => [Promise!Next]_(Promise!vars)
    <2> SUFFICES ASSUME IInv, [Next]_vars
                 PROVE  [Promise!Next]_(Promise!vars)
        OBVIOUS
    <2>1. CASE UNCHANGED <<signed, forgetful>>
        BY <2>1 DEF Promise!vars
    <2>2. CASE signed' = signed /\ forgetful' # forgetful
        <3>1. forgetful' = TRUE
            BY Zenon, <2>2, HistorySteps DEF IInv
        <3> QED BY <2>2, <3>1 DEF Promise!Next, Promise!Forget
    <2>3. ASSUME NEW t \in Threads, Return(t)
          PROVE  Promise!Next
        <3> DEFINE v == VoteOf(thread[t])
        <3>1. v \in Votes /\ signed' = signed \cup {v} /\ forgetful' = forgetful
            BY Zenon, <2>3, ReplyIsVote DEF Return, IInv
        <3>2. v \in Committed /\ signed \subseteq Committed
            BY <2>3 DEF Committed, Return
        <3>3. ~ forgetful => \A w \in signed : w.HRS = v.HRS => w.block = v.block
            BY <3>2 DEF IInv, Remembers
        <3> HIDE DEF v
        <3> QED BY <3>1, <3>3 DEF Promise!Next, Promise!Release, Promise!Compatible
    <2> QED BY Zenon, <2>1, <2>2, <2>3, HistorySteps DEF IInv
<1> QED BY <1>1, <1>2, InductiveInvariant, PTL DEF Spec, KeepsPromise, Promise!Spec
=============================================================================
