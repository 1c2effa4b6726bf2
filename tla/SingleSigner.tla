---------------------------- MODULE SingleSigner ----------------------------
(***************************************************************************)
(* Single-signer mode on one host: the processes that operators start and  *)
(* stop, the PID file that should keep them apart (signer/services.go,     *)
(* cmd/horcrux/cmd/start.go), the state commands (cmd/horcrux/cmd/         *)
(* state.go), and the validator of one chain (SingleSignerValidator and    *)
(* FilePV of signer/single_signer_validator.go and signer/file.go).        *)
(* A FilePV holds the last sign state; its mutex makes Sign atomic.  A     *)
(* signature is the sign bytes it is over.                                 *)
(***************************************************************************)
EXTENDS SignState, FiniteSets

CONSTANTS
    Processes,    \* process identities, which the system may give again
    Threads,      \* goroutines that handle requests
    PVs,          \* FilePVs in memory
    Requests,     \* blocks to sign: HRS, bytes, whether with a vote extension, and
                  \* whether verifySignPayload accepts them
    States,       \* the HRSs that an operator sets or imports
    MaxRequests,  \* bound on the requests
    MaxEnds,      \* bound on the processes that end
    MaxCommands,  \* bound on the state commands
    MaxFailures   \* bound on the writes that fail

State == [HRS : HRSKey, SignBytes : SignBytes \cup {Nil}, Signature : SignBytes \cup {Nil}]

StateFile == [type : {"FilePV", "SignState"}, state : State]

ASSUME RequestsAssumption ==
    /\ Requests \subseteq [HRS : HRSKey, bytes : SignBytes, ext : BOOLEAN, valid : BOOLEAN]
    /\ \A r \in Requests : r.HRS.Step > 0
    /\ States \subseteq HRSKey

ASSUME NilAssumption == Nil \notin Processes \cup PVs \cup Requests \cup State \cup StateFile

VARIABLES
    pid,         \* the process the PID file names, or Nil
    phase,       \* where each process is in start, or in a state command
    loaded,      \* the state that a state command has loaded
    file,        \* the state file: a state and the type that wrote it, or Nil
    chainState,  \* SingleSignerValidator.chainState of each process: a FilePV, or Nil
    pv,          \* FilePV.LastSignState of each FilePV in memory, or Nil
    thread,      \* each thread: control point, process, request, FilePV and reply
    signed,      \* history: the votes whose signatures were returned
    forgetful,   \* history: the state was lost (see Forgets)
    counts       \* requests, ends, commands and failures so far

hostVars == <<pid, phase, loaded>>
vars == <<hostVars, file, chainState, pv, thread, signed, forgetful, counts>>

Idle == [pc |-> "idle", proc |-> Nil, req |-> Nil, pv |-> Nil, reply |-> Nil]

Init ==
    /\ pid = Nil /\ phase = [p \in Processes |-> "off"] /\ loaded = [p \in Processes |-> Nil]
    /\ file = Nil /\ chainState = [p \in Processes |-> Nil] /\ pv = [i \in PVs |-> Nil]
    /\ thread = [t \in Threads |-> Idle]
    /\ signed = {} /\ forgetful = FALSE
    /\ counts = [requests |-> 0, ends |-> 0, commands |-> 0, failures |-> 0]

Count(what) == counts' = [counts EXCEPT ![what] = @ + 1]

Live == {i \in PVs : pv[i] # Nil}

(* A FilePV has a 32-bit round, which is a number in the file, and a        *)
(* SignState a 64-bit one, which is a string: neither type reads what the   *)
(* other has written.                                                       *)
Written(type, state) == [type |-> type, state |-> state]

(* The state file is not behind a state that was in memory: what can be     *)
(* signed from the file could have been signed from the state.              *)
Covers(f, s) ==
    \/ s.HRS = ZeroHRS
    \/ f # Nil /\ f.type = "SignState"
    \/ f # Nil /\ GreaterThan(f.state.HRS, s.HRS)
    \/ f # Nil /\ f.state.HRS = s.HRS /\ f.state.SignBytes = s.SignBytes

-----------------------------------------------------------------------------
(* RequireNotRunning, at the start of every command: no PID file, or one    *)
(* that names a process which is gone.  A live process or this one: error.  *)
RequireNotRunning(p) ==
    /\ phase[p] = "off"
    /\ \/ pid = Nil /\ phase' = [phase EXCEPT ![p] = "checked"]
       \/ /\ pid \in Processes \ {p} /\ phase[pid] = "off"
          /\ phase' = [phase EXCEPT ![p] = "stale"]
    /\ UNCHANGED <<pid, loaded, file, chainState, pv, thread, signed, forgetful, counts>>

(* "Removing lock file": whatever it names by now.                          *)
RemoveStale(p) ==
    /\ phase[p] = "stale"
    /\ pid' = Nil
    /\ phase' = [phase EXCEPT ![p] = IF pid = Nil THEN "off" ELSE "checked"]
    /\ UNCHANGED <<loaded, file, chainState, pv, thread, signed, forgetful, counts>>

(* start: the services run before WaitAndTerminate creates the PID file.    *)
StartServices(p) ==
    /\ phase[p] = "checked"
    /\ phase' = [phase EXCEPT ![p] = "serving"]
    /\ UNCHANGED <<pid, loaded, file, chainState, pv, thread, signed, forgetful, counts>>

Lock(p) ==
    /\ phase[p] = "serving" /\ pid = Nil
    /\ pid' = p
    /\ phase' = [phase EXCEPT ![p] = "locked"]
    /\ UNCHANGED <<loaded, file, chainState, pv, thread, signed, forgetful, counts>>

(* A signal: the PID file is removed first, and the services stop after it. *)
Terminate(p) ==
    /\ phase[p] = "locked"
    /\ pid' = Nil
    /\ phase' = [phase EXCEPT ![p] = "stopping"]
    /\ UNCHANGED <<loaded, file, chainState, pv, thread, signed, forgetful, counts>>

(* A process ends: a crash or kill at any point, the exit after its         *)
(* services have stopped, or the panic when the PID file exists already     *)
(* (O_EXCL).  What it had in memory is gone.                                *)
End(p) ==
    LET mine == {i \in PVs : chainState[p] = i \/ \E t \in Threads : thread[t].proc = p /\ thread[t].pv = i}
    IN  /\ phase[p] # "off"
        /\ counts.ends < MaxEnds /\ Count("ends")
        /\ phase' = [phase EXCEPT ![p] = "off"]
        /\ loaded' = [loaded EXCEPT ![p] = Nil]
        /\ chainState' = [chainState EXCEPT ![p] = Nil]
        /\ thread' = [t \in Threads |-> IF thread[t].proc = p THEN Idle ELSE thread[t]]
        /\ pv' = [i \in PVs |-> IF i \in mine THEN Nil ELSE pv[i]]
        /\ forgetful' = (forgetful \/ \E i \in mine : ~ Covers(file, pv[i]))
        /\ UNCHANGED <<pid, file, signed>>

-----------------------------------------------------------------------------
(* state set and state import: LoadOrCreateSignState, which fails on a file *)
(* that a FilePV wrote, then Save.  Between the two, import waits for the   *)
(* operator to paste a state.                                               *)
LoadState(p) ==
    /\ phase[p] = "checked"
    /\ counts.commands < MaxCommands /\ Count("commands")
    /\ \/ /\ file = Nil
          /\ phase' = [phase EXCEPT ![p] = "creating"]
          /\ loaded' = [loaded EXCEPT ![p] = EmptyFile]
       \/ /\ file # Nil /\ file.type = "SignState"
          /\ phase' = [phase EXCEPT ![p] = "loaded"]
          /\ loaded' = [loaded EXCEPT ![p] = file.state]
       \/ /\ file # Nil /\ file.type = "FilePV"
          /\ phase' = [phase EXCEPT ![p] = "off"]
          /\ UNCHANGED loaded
    /\ UNCHANGED <<pid, file, chainState, pv, thread, signed, forgetful>>

CreateState(p) ==
    /\ phase[p] = "creating"
    /\ phase' = [phase EXCEPT ![p] = "loaded"]
    /\ file' = Written("SignState", EmptyFile)
    /\ UNCHANGED <<pid, loaded, chainState, pv, thread, signed, forgetful, counts>>

(* Save fails (the command ends) unless the new state is after the loaded.  *)
SaveState(p, hrs) ==
    /\ phase[p] = "loaded"
    /\ phase' = [phase EXCEPT ![p] = "off"]
    /\ loaded' = [loaded EXCEPT ![p] = Nil]
    /\ file' = IF SaveSucceeds(loaded[p], hrs)
                   THEN Written("SignState", [HRS |-> hrs, SignBytes |-> Nil, Signature |-> Nil])
                   ELSE file
    /\ UNCHANGED <<pid, chainState, pv, thread, signed, forgetful, counts>>

-----------------------------------------------------------------------------
(* loadChainStateIfNecessary: the chain's FilePV is found in the map...     *)
Request(t, p, r) ==
    /\ thread[t] = Idle /\ phase[p] \in {"serving", "locked", "stopping"}
    /\ counts.requests < MaxRequests /\ Count("requests")
    /\ thread' = [thread EXCEPT ![t] =
          [Idle EXCEPT !.pc = IF chainState[p] = Nil THEN "load" ELSE "sign",
                       !.proc = p, !.req = r, !.pv = chainState[p]]]
    /\ UNCHANGED <<hostVars, file, chainState, pv, signed, forgetful>>

(* Fault: no state is made when there is no file.                           *)
InitialStateNone(f) == IF f = Nil THEN Nil ELSE f.state

(* Fault: the state is always made anew (LoadFilePV without loadState).     *)
InitialStateEmpty(f) == EmptyFile

InitialState(f) == IF f = Nil THEN EmptyFile ELSE f.state

(* ... or read from the state file, or empty when there is none.  A second  *)
(* FilePV at a time has a mutex and a state of its own.                     *)
LoadFilePV(t, i) ==
    /\ thread[t].pc = "load" /\ pv[i] = Nil
    /\ file # Nil => file.type = "FilePV"
    /\ pv' = [pv EXCEPT ![i] = InitialState(file)]
    /\ thread' = [thread EXCEPT ![t].pc = "store", ![t].pv = i]
    /\ forgetful' = (forgetful \/ Live # {})
    /\ UNCHANGED <<hostVars, file, chainState, signed, counts>>

(* "error reading PrivValidator state": the request fails.                  *)
LoadFails(t) ==
    /\ thread[t].pc = "load"
    /\ file # Nil /\ file.type = "SignState"
    /\ thread' = [thread EXCEPT ![t] = Idle]
    /\ UNCHANGED <<hostVars, file, chainState, pv, signed, forgetful, counts>>

(* The map's entry is replaced, and its FilePV is dropped when no thread    *)
(* has it any more.                                                         *)
Store(t) ==
    LET p == thread[t].proc
        old == chainState[p]
        kept == old = Nil \/ \E u \in Threads : thread[u].pv = old
    IN  /\ thread[t].pc = "store"
        /\ chainState' = [chainState EXCEPT ![p] = thread[t].pv]
        /\ thread' = [thread EXCEPT ![t].pc = "sign"]
        /\ pv' = [i \in PVs |-> IF i = old /\ ~ kept THEN Nil ELSE pv[i]]
        /\ UNCHANGED <<hostVars, file, signed, forgetful, counts>>

(* The thread is done; a FilePV that is not in the map goes with it.        *)
Drop(t) ==
    LET i == thread[t].pv
        kept == i \in {chainState[p] : p \in Processes} \/ \E u \in Threads \ {t} : thread[u].pv = i
    IN  /\ thread' = [thread EXCEPT ![t] = Idle]
        /\ pv' = [j \in PVs |-> IF j = i /\ ~ kept THEN Nil ELSE pv[j]]

-----------------------------------------------------------------------------
(* FilePVLastSignState.CheckHRS.                                            *)
CheckHRS(s, hrs) ==
    CASE GreaterThan(s.HRS, hrs) -> "error"
      [] s.HRS = hrs /\ s.SignBytes = Nil -> "error"
      [] s.HRS = hrs /\ s.SignBytes # Nil -> "same"
      [] OTHER -> "new"

(* checkVotesOnlyDifferByTimestamp and its proposal twin; equal bytes too.  *)
SameBlock(s, r) == OnlyDifferByTimestamp(s.SignBytes, r.bytes)

Reply(sig, stamp, ext) == [sig |-> sig, stamp |-> stamp, ext |-> ext]

(* Fault: the requested timestamp is returned with the old signature.       *)
SameHRSNewStamp(s, r) ==
    Reply(s.Signature, r.bytes.stamp, IF s.SignBytes = r.bytes THEN FALSE ELSE r.ext)

(* The last signature is used again, with its timestamp.  When the bytes    *)
(* are equal, and for a proposal, no extension signature is returned.       *)
SameHRS(s, r) ==
    Reply(s.Signature, s.SignBytes.stamp, IF s.SignBytes = r.bytes THEN FALSE ELSE r.ext)

(* FilePV.Sign under pvMutex, which takes the round as the 32 bits that it  *)
(* has in the chain's messages.  It refuses an HRS that is behind, a        *)
(* payload that verifySignPayload cannot read, another block...             *)
Refuse(t) ==
    LET s == pv[thread[t].pv]
        r == thread[t].req
    IN  /\ thread[t].pc = "sign"
        /\ \/ CheckHRS(s, r.HRS) = "error"
           \/ ~ r.valid
           \/ CheckHRS(s, r.HRS) = "same" /\ ~ SameBlock(s, r)
        /\ Drop(t)
        /\ UNCHANGED <<hostVars, file, chainState, signed, forgetful, counts>>

(* ... or finds that it has signed this already...                          *)
SignAgain(t) ==
    LET s == pv[thread[t].pv]
        r == thread[t].req
    IN  /\ thread[t].pc = "sign"
        /\ CheckHRS(s, r.HRS) = "same" /\ r.valid /\ SameBlock(s, r)
        /\ thread' = [thread EXCEPT ![t].pc = "reply", ![t].reply = SameHRS(s, r)]
        /\ UNCHANGED <<hostVars, file, chainState, pv, signed, forgetful, counts>>

(* ... or signs, and saveSigned sets the state and writes it to the file.   *)
Sign(t) ==
    LET r == thread[t].req
        signedState == [HRS |-> r.HRS, SignBytes |-> r.bytes, Signature |-> r.bytes]
    IN  /\ thread[t].pc = "sign"
        /\ CheckHRS(pv[thread[t].pv], r.HRS) = "new" /\ r.valid
        /\ pv' = [pv EXCEPT ![thread[t].pv] = signedState]
        /\ file' = Written("FilePV", signedState)
        /\ thread' = [thread EXCEPT ![t].pc = "reply", ![t].reply = Reply(r.bytes, r.bytes.stamp, r.ext)]
        /\ UNCHANGED <<hostVars, chainState, signed, forgetful, counts>>

(* The write panics after the state has been set; signWithTimeout recovers, *)
(* and the process goes on without having answered.                         *)
SaveFails(t) ==
    LET r == thread[t].req
        i == thread[t].pv
        kept == i \in {chainState[p] : p \in Processes} \/ \E u \in Threads \ {t} : thread[u].pv = i
    IN  /\ thread[t].pc = "sign"
        /\ counts.failures < MaxFailures /\ Count("failures")
        /\ CheckHRS(pv[i], r.HRS) = "new" /\ r.valid
        /\ pv' = [pv EXCEPT ![i] = IF kept THEN [HRS |-> r.HRS, SignBytes |-> r.bytes, Signature |-> r.bytes]
                                           ELSE Nil]
        /\ thread' = [thread EXCEPT ![t] = Idle]
        /\ UNCHANGED <<hostVars, file, chainState, signed, forgetful>>

(* The signature leaves the process.                                        *)
Return(t) ==
    /\ thread[t].pc = "reply"
    /\ signed' = signed \cup {[HRS |-> thread[t].req.HRS, block |-> thread[t].reply.sig.block]}
    /\ Drop(t)
    /\ UNCHANGED <<hostVars, file, chainState, forgetful, counts>>

Next ==
    \/ \E p \in Processes :
          \/ RequireNotRunning(p) \/ RemoveStale(p) \/ StartServices(p) \/ Lock(p) \/ Terminate(p) \/ End(p)
          \/ LoadState(p) \/ CreateState(p) \/ \E hrs \in States : SaveState(p, hrs)
          \/ \E t \in Threads, r \in Requests : Request(t, p, r)
    \/ \E t \in Threads :
          \/ \E i \in PVs : LoadFilePV(t, i)
          \/ LoadFails(t) \/ Store(t) \/ Refuse(t) \/ SignAgain(t) \/ Sign(t) \/ SaveFails(t) \/ Return(t)

Spec == Init /\ [][Next]_vars

-----------------------------------------------------------------------------
(* Every variable has its type; a FilePV that a thread or the map names     *)
(* exists, and none is kept that nobody names.                              *)
TypeOK ==
    /\ pid \in Processes \cup {Nil}
    /\ phase \in [Processes -> {"off", "stale", "checked", "serving", "locked", "stopping", "creating", "loaded"}]
    /\ loaded \in [Processes -> State \cup {Nil}]
    /\ file \in StateFile \cup {Nil}
    /\ pv \in [PVs -> State \cup {Nil}]
    /\ Live = ({chainState[p] : p \in Processes} \cup {thread[t].pv : t \in Threads}) \ {Nil}

Votes == {[HRS |-> r.HRS, block |-> r.bytes.block] : r \in Requests}

Promise == INSTANCE CosignerPromise

(* "The high-watermark/last-signed-state within the FilePV prevents double  *)
(* sign as long as operations are synchronous" (single_signer_validator.go  *)
(* 26): the signer keeps the promise of a cosigner.  It may forget only     *)
(* when two FilePVs are in memory at once or when a process ends after a    *)
(* write that failed: never by a state command.                             *)
KeepsPromise == Promise!Spec

(* A signature that is returned, new or old, is of the requested block and  *)
(* of the timestamp returned with it.                                       *)
ReplyVerifies ==
    \A t \in Threads : thread[t].pc = "reply" =>
        thread[t].reply.sig = [block |-> thread[t].req.bytes.block, stamp |-> thread[t].reply.stamp]
=============================================================================
