---------------------- MODULE ThresholdValidatorProofs ----------------------
(***************************************************************************)
(* ThresholdValidator for any number of threads, requests, signatures of   *)
(* other nodes and restarts: its types, what Sign returns, and that a      *)
(* failed attempt leaves nobody waiting for nothing.  Most leaves are      *)
(* first-order and name Zenon; arithmetic and updates are left to SMT.     *)
(***************************************************************************)
EXTENDS ThresholdValidator, TLAPS

(* A signature, if there is one, is over these bytes at this HRS.           *)
Covers(s, hrs, bytes) == s # Nil => s.HRS = hrs /\ s.SignBytes = bytes

EntrySet(S) == [SignBytes : SignBytes \cup {Nil}, Signature : S \cup {Nil}]
FileSet(S) == [HRS : HRSKey, SignBytes : SignBytes \cup {Nil}, Signature : S \cup {Nil}]

(* A state file, or a sign state in memory, with signatures of S over what  *)
(* they are stored with.                                                    *)
FileOK(f, S) == f \in FileSet(S) /\ Covers(f.Signature, f.HRS, f.SignBytes)

StateOK(ss, S) ==
    /\ ss = [HRS |-> ss.HRS, SignBytes |-> ss.SignBytes, Signature |-> ss.Signature, cache |-> ss.cache]
    /\ FileOK(lockedCopy(ss), S)
    /\ DOMAIN ss.cache \subseteq HRSKey
    /\ \A h \in DOMAIN ss.cache :
          ss.cache[h] \in EntrySet(S) /\ Covers(ss.cache[h].Signature, h, ss.cache[h].SignBytes)

ObjectOK(x, S) ==
    /\ x = [lastSignState |-> x.lastSignState, initiated |-> x.initiated]
    /\ StateOK(x.lastSignState, S) /\ x.initiated \in HRSKey

(* Everything in memory and everything that the disk may hold.              *)
StateInv ==
    /\ DOMAIN states = Objects /\ \A o \in Objects : ObjectOK(states[o], signed)
    /\ \A f \in disk : f # Nil => FileOK(f, signed)
    /\ chainState \in 0 .. loads /\ loads \in 0 .. MaxLoads

(* The raft log, which the fsm thread is applying.                          *)
LogInv ==
    /\ signed \subseteq Signature /\ made \in Nat
    /\ log \in Seq(signed) /\ applied \in 0 .. Len(log)
    /\ pc[fsm] # "idle" => req[fsm] \in signed /\ applied < Len(log)
    /\ req[fsm] \in signed \cup {Nil}

Points ==
    {"idle", "load", "read", "store", "proxy", "proxied", "initiate", "same", "behind", "wait",
     "existing", "signExt", "attempt", "notify", "save", "share", "saveLSS"}

(* The threads' locals have their types.                                    *)
Typed ==
    /\ pc \in [All -> Points] /\ DOMAIN req = All
    /\ css \in [All -> 0 .. MaxLoads] /\ waits \in [All -> 0 .. MaxWait]
    /\ sig \in [All -> signed \cup {Nil}] /\ stamp \in [All -> Stamps \cup {Nil}]

(* What has been returned is made of requests, signatures and extensions.   *)
AnswerInv ==
    /\ leader \in {"me", "none", "other"}
    /\ responses \subseteq [req : Requests, sig : signed, ext : Exts \cup {Nil}, stamp : Stamps, kept : BOOLEAN]

(* The signature that a thread is about to return is for its request.       *)
Matches(t) ==
    /\ sig[t] \in signed /\ sig[t].HRS = req[t].HRS /\ sig[t].SignBytes.stamp = stamp[t]
    /\ req[t].HRS.Step # 1 => sig[t].SignBytes.block = req[t].SignBytes.block

(* The extension that a response to r has a signature for.                  *)
Expected(r) == IF hasVoteExtensions(r) THEN r.Ext ELSE Nil

(* What a thread relies on at each control point.                           *)
ThreadInv(t) ==
    /\ IF pc[t] = "idle" THEN req[t] = Nil ELSE req[t] \in Requests
    /\ pc[t] \notin {"idle", "load", "read", "store"} => chainState # 0
    /\ pc[t] \in {"same", "wait"} => css[t] # 0
    /\ pc[t] \in {"existing", "signExt", "save", "share"} => Matches(t)
    /\ pc[t] = "signExt" => hasVoteExtensions(req[t])
    /\ pc[t] \in {"save", "share"} => sig[t].SignBytes = req[t].SignBytes /\ sig[t].Ext = Expected(req[t])

(* A sign state that is not stored yet is as it was read from the file, and *)
(* belongs to one thread.                                                   *)
StoreInv ==
    /\ pc[fsm] = "saveLSS" => chainState # 0
    /\ \A t \in All :
          pc[t] = "store" =>
              /\ css[t] \in 1 .. loads /\ css[t] # chainState
              /\ states[css[t]].initiated = states[css[t]].lastSignState.HRS
              /\ \A u \in All : pc[u] = "store" /\ css[u] = css[t] => u = t

IInv ==
    /\ StateInv /\ LogInv /\ Typed /\ AnswerInv /\ StoreInv
    /\ \A t \in Threads : ThreadInv(t)
    /\ ResponseVerifies /\ InitiatedIsSettled

-----------------------------------------------------------------------------
(* Sign states by themselves.                                               *)

(* More signatures in the cluster do no harm to what is stored.             *)
LEMMA MoreSignatures ==
    ASSUME NEW S, NEW U, S \subseteq U
    PROVE  /\ \A f : FileOK(f, S) => FileOK(f, U)
           /\ \A x : ObjectOK(x, S) => ObjectOK(x, U)
<1>1. FileSet(S) \subseteq FileSet(U) /\ EntrySet(S) \subseteq EntrySet(U)
  BY Zenon DEF FileSet, EntrySet
<1>2. \A f : FileOK(f, S) => FileOK(f, U)
  BY <1>1, Zenon DEF FileOK
<1>3. \A ss : StateOK(ss, S) => StateOK(ss, U)
  BY <1>1, <1>2, Zenon DEF StateOK
<1>4. QED
  BY <1>2, <1>3, Zenon DEF ObjectOK

(* LoadOrCreateSignState makes a good state, and a good first file.         *)
LEMMA NewStateOK ==
    ASSUME NEW S
    PROVE  /\ StateOK(EmptyState, S) /\ FileOK(EmptyFile, S) /\ ObjectOK(Empty, S)
           /\ \A f : FileOK(f, S) => StateOK(FreshCache(f), S)
<1>1. ZeroHRS \in HRSKey
  BY DEF ZeroHRS, HRSKey
<1>2. FileOK(EmptyFile, S)
  BY <1>1, Zenon DEF FileOK, EmptyFile, FileSet, Covers
<1>3. StateOK(EmptyState, S)
  BY <1>1, Zenon DEF EmptyState, StateOK, lockedCopy, FileOK, FileSet, Covers
<1>4. ASSUME NEW f, FileOK(f, S)  PROVE StateOK(FreshCache(f), S)
  BY <1>4, Zenon DEF FreshCache, StateOK, lockedCopy, FileOK, FileSet, EntrySet, Covers, Entry
<1>5. QED
  BY <1>1, <1>2, <1>3, <1>4, Zenon DEF ObjectOK, Empty

(* blockDoubleSign with a signature over the bytes it is given leaves a     *)
(* good state and file; what the cache loses is behind the new watermark.   *)
LEMMA SavedStateOK ==
    ASSUME NEW S, NEW ss, StateOK(ss, S), NEW hrs \in HRSKey, NEW bytes \in SignBytes,
           NEW s \in S, Covers(s, hrs, bytes)
    PROVE  LET next == blockDoubleSign(ss, hrs, bytes, s)
           IN  /\ StateOK(next, S) /\ FileOK(lockedCopy(next), S) /\ next.HRS = hrs
               /\ \A h \in DOMAIN ss.cache : h \in DOMAIN next.cache \/ ~ GreaterThan(h, hrs)
<1> DEFINE next == blockDoubleSign(ss, hrs, bytes, s)
<1>1. next.HRS = hrs /\ lockedCopy(next) = [HRS |-> hrs, SignBytes |-> bytes, Signature |-> s]
  BY Zenon DEF blockDoubleSign, lockedCopy
<1>2. FileOK(lockedCopy(next), S)
  BY <1>1 DEF FileOK, FileSet
<1>3. StateOK(next, S)
  BY <1>2, Zenon DEF StateOK, blockDoubleSign, EntrySet, Entry
<1>4. ASSUME NEW h \in DOMAIN ss.cache  PROVE h \in DOMAIN next.cache \/ ~ GreaterThan(h, hrs)
  <2>1. h \in HRSKey
    BY Zenon DEF StateOK
  <2>2. QED
    BY <2>1 DEF blockDoubleSign, GreaterThan, HRSKey, blocksToCache
<1>5. QED
  BY <1>1, <1>2, <1>3, <1>4, Zenon

(* The entry without a signature that notifyBlockSignError adds.            *)
LEMMA NotifiedStateOK ==
    ASSUME NEW S, NEW ss, StateOK(ss, S), NEW hrs \in HRSKey, NEW bytes \in SignBytes, NEW cache,
           cache = [h \in DOMAIN ss.cache \cup {hrs} |-> IF h = hrs THEN Entry(bytes, Nil) ELSE ss.cache[h]]
    PROVE  StateOK([ss EXCEPT !.cache = cache], S)
<1> DEFINE next == [ss EXCEPT !.cache = cache]
<1>1. next = [HRS |-> ss.HRS, SignBytes |-> ss.SignBytes, Signature |-> ss.Signature, cache |-> cache]
  BY DEF StateOK
<1>2. lockedCopy(next) = lockedCopy(ss)
  BY <1>1, Zenon DEF lockedCopy
<1>3. ASSUME NEW h \in DOMAIN cache
      PROVE  cache[h] \in EntrySet(S) /\ Covers(cache[h].Signature, h, cache[h].SignBytes)
  BY Zenon DEF StateOK, EntrySet, Covers, Entry
<1>4. QED
  BY <1>1, <1>2, <1>3, Zenon DEF StateOK

(* Sign state o becomes ss with this initiated HRS, and no other changes.   *)
Becomes(o, ss, hrs) ==
    /\ DOMAIN states' = Objects
    /\ states'[o] = [lastSignState |-> ss, initiated |-> hrs]
    /\ \A p \in Objects \ {o} : states'[p] = states[p]

(* What an assignment to a field of a sign state changes.                   *)
LEMMA ObjectUpdate ==
    ASSUME StateInv, NEW o \in Objects, NEW ss, NEW hrs
    PROVE  /\ states' = [states EXCEPT ![o].lastSignState = ss] => Becomes(o, ss, states[o].initiated)
           /\ states' = [states EXCEPT ![o].initiated = hrs] => Becomes(o, states[o].lastSignState, hrs)
BY Zenon DEF StateInv, ObjectOK, Becomes

(* An assignment of a good state keeps StateInv.                            *)
LEMMA GoodUpdate ==
    ASSUME StateInv, NEW o \in Objects, NEW ss, StateOK(ss, signed), NEW hrs \in HRSKey, Becomes(o, ss, hrs),
           signed' = signed, \A f \in disk' : f \in disk \/ f = lockedCopy(ss),
           chainState' \in 0 .. loads', loads' \in 0 .. MaxLoads
    PROVE  StateInv'
<1>1. ObjectOK([lastSignState |-> ss, initiated |-> hrs], signed)
  BY Zenon DEF ObjectOK
<1>2. FileOK(lockedCopy(ss), signed)
  BY Zenon DEF StateOK
<1>3. QED
  BY <1>1, <1>2, Zenon DEF StateInv, Becomes

(* Other steps leave the sign states alone while signatures may be added.   *)
LEMMA StateFrame ==
    ASSUME StateInv, UNCHANGED stateVars, signed \subseteq signed'
    PROVE  StateInv'
BY MoreSignatures, Zenon DEF StateInv, stateVars

(* The types of a request, of a signature, and of the sign state in use.    *)
LEMMA Typing ==
    /\ \A r \in Requests \cup Remote :
          r.HRS \in HRSKey /\ r.SignBytes \in SignBytes /\ r.Ext \in Exts \cup {Nil}
    /\ \A s \in Signature :
          s.HRS \in HRSKey /\ s.SignBytes \in SignBytes /\ s.Ext \in Exts \cup {Nil} /\ s # Nil
    /\ \A b \in SignBytes : b.stamp \in Stamps /\ b # Nil
    /\ \A o \in Objects : StateInv => StateOK(states[o].lastSignState, signed) /\ states[o].initiated \in HRSKey
    /\ StateInv /\ chainState # 0 => chainState \in Objects
<1>1. \A r \in Requests \cup Remote :
          r.HRS \in HRSKey /\ r.SignBytes \in SignBytes /\ r.Ext \in Exts \cup {Nil}
  BY RequestAssumption, Zenon DEF Block
<1>2. \A s \in Signature :
          s.HRS \in HRSKey /\ s.SignBytes \in SignBytes /\ s.Ext \in Exts \cup {Nil} /\ s # Nil
  BY NilAssumption, Zenon DEF Signature
<1>3. \A b \in SignBytes : b.stamp \in Stamps /\ b # Nil
  BY NilIsNotSignBytes, Zenon DEF SignBytes
<1>4. \A o \in Objects : StateInv => StateOK(states[o].lastSignState, signed) /\ states[o].initiated \in HRSKey
  BY Zenon DEF StateInv, ObjectOK
<1>5. StateInv /\ chainState # 0 => chainState \in Objects
  BY BoundAssumption DEF StateInv, Objects
<1>6. QED
  BY <1>1, <1>2, <1>3, <1>4, <1>5, Zenon

(* Saving a signature over the bytes it is saved with (Save, sign_state.go). *)
LEMMA SavedStep ==
    ASSUME StateInv, chainState # 0, NEW hrs \in HRSKey, NEW bytes \in SignBytes, NEW s \in signed,
           Covers(s, hrs, bytes), Saved(hrs, bytes, s), UNCHANGED <<chainState, loads, signed>>
    PROVE  /\ StateInv'
           /\ Becomes(chainState, blockDoubleSign(last, hrs, bytes, s), states[chainState].initiated)
<1> DEFINE next == blockDoubleSign(last, hrs, bytes, s)
<1>1. chainState \in Objects
  BY Typing, Zenon
<1>2. StateOK(last, signed) /\ states[chainState].initiated \in HRSKey
  BY <1>1, Typing, Zenon DEF last
<1>3. StateOK(next, signed)
  BY <1>2, SavedStateOK, Zenon
<1>4. states' = [states EXCEPT ![chainState].lastSignState = next] /\ disk' = disk \cup {lockedCopy(next)}
  BY Zenon DEF Saved
<1> HIDE DEF next
<1>5. Becomes(chainState, next, states[chainState].initiated)
  BY <1>1, <1>4, ObjectUpdate, Zenon
<1>6. StateInv'
  BY <1>1, <1>2, <1>3, <1>4, <1>5, GoodUpdate, Zenon DEF StateInv
<1>7. QED
  BY <1>5, <1>6, Zenon DEF next

(* Every step keeps StateInv.                                               *)
LEMMA StateStep ==
    ASSUME StateInv, LogInv, Typed, StoreInv, \A t \in Threads : ThreadInv(t), [Next]_vars
    PROVE  StateInv'
<1>1. ASSUME NEW t \in Threads, NEW r \in Requests, Receive(t, r)  PROVE StateInv'
  BY <1>1, StateFrame, Zenon DEF Receive, clusterVars
<1>2. ASSUME NEW t \in All, Load(t)  PROVE StateInv'
  BY <1>2, StateFrame, Zenon DEF Load, Loaded, clusterVars
<1>3. ASSUME NEW t \in All, LoadOrCreateSignState(t)  PROVE StateInv'
  <2>1. PICK f \in disk : LET ss == IF f = Nil THEN EmptyState ELSE FreshCache(f)
                           IN  states' = [states EXCEPT ![loads + 1] = [lastSignState |-> ss, initiated |-> ss.HRS]]
    BY <1>3, Zenon DEF LoadOrCreateSignState
  <2> DEFINE ss == IF f = Nil THEN EmptyState ELSE FreshCache(f)
  <2>2. StateOK(ss, signed)
    BY NewStateOK, Zenon DEF StateInv
  <2>3. ss.HRS \in HRSKey
    BY <2>2, Zenon DEF StateOK, FileOK, FileSet, lockedCopy
  <2> HIDE DEF ss
  <2>4. ObjectOK([lastSignState |-> ss, initiated |-> ss.HRS], signed)
    BY <2>2, <2>3, Zenon DEF ObjectOK
  <2>5. states' = [states EXCEPT ![loads + 1] = [lastSignState |-> ss, initiated |-> ss.HRS]]
    BY <2>1, Zenon DEF ss
  <2>6. \A g \in disk' : g # Nil => FileOK(g, signed)
    BY <1>3, NewStateOK, Zenon DEF LoadOrCreateSignState, StateInv
  <2>7. QED
    BY <1>3, <2>4, <2>5, <2>6, BoundAssumption DEF LoadOrCreateSignState, StateInv, clusterVars, Objects
<1>4. ASSUME NEW t \in All, StoreState(t)  PROVE StateInv'
  BY <1>4 DEF StoreState, StateInv, StoreInv, clusterVars
<1>5. ASSUME NEW t \in Threads, proxyIfNecessary(t)  PROVE StateInv'
  BY <1>5, StateFrame, Zenon DEF proxyIfNecessary, clusterVars
<1>6. ASSUME NEW t \in Threads, Proxied(t)  PROVE StateInv'
  BY <1>6, StateFrame, Zenon DEF Proxied, clusterVars
<1>7. ASSUME NEW t \in Threads, SaveLastSignedStateInitiated(t)  PROVE StateInv'
  <2> DEFINE hrs == req[t].HRS
  <2>1. chainState \in Objects /\ hrs \in HRSKey
    BY <1>7, Typing, Zenon DEF SaveLastSignedStateInitiated, ThreadInv
  <2>2. CASE states' = [states EXCEPT ![chainState].initiated = hrs]
    BY <1>7, <2>1, <2>2, Typing, ObjectUpdate, GoodUpdate, Zenon
       DEF SaveLastSignedStateInitiated, clusterVars, StateInv
  <2>3. CASE UNCHANGED states
    BY <1>7, <2>3, StateFrame, Zenon DEF SaveLastSignedStateInitiated, clusterVars, stateVars
  <2>4. QED
    BY <1>7, <2>2, <2>3, Zenon DEF SaveLastSignedStateInitiated
<1>8. ASSUME NEW t \in Threads, getExistingBlockSignature(t)  PROVE StateInv'
  BY <1>8, StateFrame, Zenon DEF getExistingBlockSignature, UseEntry, clusterVars
<1>9. ASSUME NEW t \in Threads, Wait(t)  PROVE StateInv'
  BY <1>9, StateFrame, Zenon DEF Wait, UseEntry, clusterVars
<1>10. ASSUME NEW t \in Threads, ExistingSignature(t)  PROVE StateInv'
  BY <1>10, StateFrame, Zenon DEF ExistingSignature, clusterVars
<1>11. ASSUME NEW t \in Threads, signVoteExtension(t)  PROVE StateInv'
  BY <1>11, StateFrame, Zenon DEF signVoteExtension, clusterVars
<1>12. ASSUME NEW t \in Threads, AttemptSucceeds(t)  PROVE StateInv'
  BY <1>12, StateFrame, Zenon DEF AttemptSucceeds, clusterVars
<1>13. ASSUME NEW t \in Threads, AttemptFails(t)  PROVE StateInv'
  BY <1>13, StateFrame, Zenon DEF AttemptFails, clusterVars
<1>14. ASSUME NEW t \in Threads, notifyBlockSignError(t)  PROVE StateInv'
  <2> DEFINE cache == [h \in DOMAIN last.cache \cup {req[t].HRS} |->
                          IF h = req[t].HRS THEN Entry(req[t].SignBytes, Nil) ELSE last.cache[h]]
             next == [last EXCEPT !.cache = cache]
  <2>1. chainState \in Objects /\ req[t].HRS \in HRSKey /\ req[t].SignBytes \in SignBytes
    BY <1>14, Typing, Zenon DEF notifyBlockSignError, ThreadInv
  <2>2. StateOK(last, signed) /\ states[chainState].initiated \in HRSKey
    BY <2>1, Typing, Zenon DEF last
  <2>3. StateOK(next, signed)
    BY <2>1, <2>2, NotifiedStateOK, Zenon
  <2>4. states' = [states EXCEPT ![chainState].lastSignState = next]
    BY <1>14, Zenon DEF notifyBlockSignError, last
  <2> HIDE DEF next
  <2>5. Becomes(chainState, next, states[chainState].initiated)
    BY <2>1, <2>4, ObjectUpdate, Zenon
  <2>6. QED
    BY <1>14, <2>1, <2>2, <2>3, <2>5, GoodUpdate, Zenon DEF notifyBlockSignError, StateInv, clusterVars
<1>15. ASSUME NEW t \in Threads, SaveSignature(t)  PROVE StateInv'
  <2>1. CASE Saved(req[t].HRS, req[t].SignBytes, sig[t])
    BY <1>15, <2>1, SavedStep, Typing, Zenon DEF SaveSignature, ThreadInv, Matches, clusterVars, Covers
  <2>2. CASE UNCHANGED <<states, disk>>
    BY <1>15, <2>2, StateFrame, Zenon DEF SaveSignature, stateVars, clusterVars
  <2>3. QED
    BY <1>15, <2>1, <2>2, Zenon DEF SaveSignature
<1>16. ASSUME NEW t \in Threads, ShareSigned(t)  PROVE StateInv'
  BY <1>16, StateFrame, Zenon DEF ShareSigned, clusterVars
<1>17. CASE Apply
  BY <1>17, StateFrame, Zenon DEF Apply, clusterVars
<1>18. CASE SaveLastSignedState
  <2>1. CASE Saved(req[fsm].HRS, req[fsm].SignBytes, req[fsm])
    BY <1>18, <2>1, SavedStep, Typing, Zenon DEF SaveLastSignedState, LogInv, StoreInv, Covers
  <2>2. CASE UNCHANGED <<states, disk>>
    BY <1>18, <2>2, StateFrame, Zenon DEF SaveLastSignedState, stateVars
  <2>3. QED
    BY <1>18, <2>1, <2>2, Zenon DEF SaveLastSignedState
<1>19. ASSUME NEW l \in {"me", "none", "other"}, ChangeLeader(l)  PROVE StateInv'
  BY <1>19, StateFrame, Zenon DEF ChangeLeader, clusterVars
<1>20. ASSUME NEW r \in Remote, RemoteSigns(r)  PROVE StateInv'
  BY <1>20, StateFrame, Zenon DEF RemoteSigns, clusterVars
<1>21. CASE Restart
  BY <1>21, NewStateOK, BoundAssumption DEF Restart, StateInv, Objects
<1>22. CASE UNCHANGED vars
  BY <1>22, StateFrame, Zenon DEF vars, clusterVars
<1>23. QED
  BY <1>1, <1>2, <1>3, <1>4, <1>5, <1>6, <1>7, <1>8, <1>9, <1>10, <1>11,
     <1>12, <1>13, <1>14, <1>15, <1>16, <1>17, <1>18, <1>19, <1>20, <1>21, <1>22, Zenon
     DEF Next, Sign, LoadSteps, handleLSSEvent, All

(* A new signature is one (NewSignature).                                   *)
LEMMA NewSignatureType ==
    ASSUME LogInv, NEW r \in Requests \cup Remote
    PROVE  /\ NewSignature(r) \in Signature
           /\ NewSignature(r).HRS = r.HRS /\ NewSignature(r).SignBytes = r.SignBytes
           /\ NewSignature(r).Ext = Expected(r)
<1>1. made + 1 \in Nat
  BY DEF LogInv
<1>2. QED
  BY <1>1, Typing, Zenon DEF NewSignature, Signature, Expected

-----------------------------------------------------------------------------
(* What the steps of one thread do to the threads' locals.                  *)
Others(t) ==
    \A u \in All \ {t} :
        /\ pc'[u] = pc[u] /\ req'[u] = req[u] /\ css'[u] = css[u]
        /\ waits'[u] = waits[u] /\ sig'[u] = sig[u] /\ stamp'[u] = stamp[u]

(* Sign returns.                                                            *)
LEMMA ReturnEffect ==
    ASSUME Typed, NEW t \in All, Return(t), signed \subseteq signed'
    PROVE  Typed' /\ Others(t) /\ pc'[t] = "idle" /\ req'[t] = Nil
BY BoundAssumption DEF Typed, Others, Return, Goto, Points

(* A thread goes on, with its locals as they are.                           *)
LEMMA GotoEffect ==
    ASSUME Typed, NEW t \in All, NEW l \in Points, Goto(t, l), UNCHANGED locals, signed \subseteq signed'
    PROVE  Typed' /\ Others(t) /\ pc'[t] = l
BY Zenon DEF Typed, Others, Goto, locals

(* A request uses a cache entry (UseEntry): its signature is for the        *)
(* request, or there is none and the request is tried again.                *)
LEMMA UseEntryEffect ==
    ASSUME Typed, NEW t \in Threads, req[t] \in Requests, UNCHANGED signed, signed \subseteq Signature,
           NEW ss, StateOK(ss, signed), req[t].HRS \in DOMAIN ss.cache, UseEntry(t, ss.cache[req[t].HRS])
    PROVE  /\ Typed' /\ Others(t) /\ UNCHANGED history
           /\ \/ pc'[t] = "idle" /\ req'[t] = Nil
              \/ pc'[t] = "attempt" /\ req'[t] = req[t]
              \/ pc'[t] = "existing" /\ req'[t] = req[t] /\ Matches(t)'
<1> DEFINE e == ss.cache[req[t].HRS]
<1>1. e \in EntrySet(signed) /\ Covers(e.Signature, req[t].HRS, e.SignBytes)
  BY Zenon DEF StateOK
<1> HIDE DEF e
<1>2. CASE compareBlockSignatureAgainstSSC(req[t], e) /\ e.Signature # Nil /\ sig' = [sig EXCEPT ![t] = e.Signature]
           /\ stamp' = [stamp EXCEPT ![t] = e.SignBytes.stamp] /\ Goto(t, "existing")
           /\ UNCHANGED <<req, css, waits, history>>
  <2>1. e.Signature \in signed /\ e.SignBytes \in SignBytes /\ e.SignBytes.stamp \in Stamps
    BY <1>1, <1>2, Typing, Zenon DEF EntrySet, compareBlockSignatureAgainstSSC
  <2>2. Typed' /\ Others(t) /\ pc'[t] = "existing" /\ sig'[t] = e.Signature /\ stamp'[t] = e.SignBytes.stamp
    BY <1>2, <2>1, Zenon DEF Typed, Others, Goto, Points, All
  <2>3. Matches(t)'
    BY <1>1, <1>2, <2>1, <2>2 DEF Matches, Covers, compareBlockSignatureAgainstSSC, OnlyDifferByTimestamp
  <2>4. QED
    BY <1>2, <2>2, <2>3, Zenon
<1>3. CASE Goto(t, "attempt") /\ UNCHANGED <<locals, history>>
  BY <1>3, GotoEffect, Zenon DEF Points, All, locals
<1>4. CASE ReturnError(t)
  BY <1>4, ReturnEffect, Zenon DEF ReturnError, All
<1>5. QED
  BY <1>2, <1>3, <1>4, Zenon DEF UseEntry, e

(* A step of Sign keeps what is known of its own thread, and is the only    *)
(* one to touch its locals.                                                 *)
LEMMA SignEffect ==
    ASSUME StateInv, LogInv, Typed, StoreInv, NEW t \in Threads, ThreadInv(t),
           Sign(t) \/ \E r \in Requests : Receive(t, r)
    PROVE  Typed' /\ Others(t) /\ ThreadInv(t)'
<1>a. t \in All /\ t # fsm /\ chainState \in 0 .. MaxLoads
  BY ThreadAssumption, BoundAssumption DEF All, StateInv
<1>b. /\ {"idle", "load", "read", "store", "proxy", "proxied", "initiate", "same", "behind", "wait",
          "existing", "signExt", "attempt", "notify", "save", "share", "saveLSS"} \subseteq Points
      /\ pc[t] # "idle" => req[t] \in Requests
  BY Zenon DEF Points, ThreadInv
<1>c. ASSUME Return(t), signed \subseteq signed'  PROVE Typed' /\ Others(t) /\ ThreadInv(t)'
  BY <1>a, <1>c, ReturnEffect, Zenon DEF ThreadInv
<1>d. ASSUME NEW l \in {"notify", "share"}, Goto(t, l), UNCHANGED <<chainState, signed, locals>>,
             pc[t] \in {"attempt", "save"}, l = "share" => pc[t] = "save"
      PROVE  Typed' /\ Others(t) /\ ThreadInv(t)'
  BY <1>a, <1>b, <1>d, GotoEffect, Zenon DEF ThreadInv, locals, Matches
<1>1. ASSUME NEW r \in Requests, Receive(t, r)  PROVE Typed' /\ Others(t) /\ ThreadInv(t)'
  <2>1. Typed' /\ Others(t) /\ pc'[t] = "load" /\ req'[t] = r
    BY <1>a, <1>b, <1>1, Zenon DEF Receive, Typed, Others, Goto, clusterVars
  <2>2. QED
    BY <2>1, Zenon DEF ThreadInv
<1>2. CASE Load(t)
  <2>1. PICK l \in {"read", "proxy"} : Goto(t, l) /\ (l = "proxy" => chainState # 0)
    BY <1>a, <1>2, Zenon DEF Load, Loaded
  <2>2. Typed' /\ Others(t) /\ pc'[t] = l
    BY <1>a, <1>b, <1>2, <2>1, GotoEffect, Zenon DEF Load, clusterVars
  <2>3. QED
    BY <1>b, <1>2, <2>1, <2>2, Zenon DEF Load, ThreadInv, locals, stateVars
<1>3. CASE LoadOrCreateSignState(t)
  <2>1. Typed' /\ Others(t) /\ pc'[t] = "store" /\ UNCHANGED req
    BY <1>a, <1>b, <1>3, BoundAssumption DEF LoadOrCreateSignState, Typed, Others, Goto, clusterVars, StateInv
  <2>2. QED
    BY <1>b, <1>3, <2>1, Zenon DEF ThreadInv, LoadOrCreateSignState
<1>4. CASE StoreState(t)
  <2>1. Typed' /\ Others(t) /\ pc'[t] = "proxy"
    BY <1>a, <1>b, <1>4, GotoEffect, Zenon DEF StoreState, Loaded, clusterVars
  <2>2. chainState' # 0
    BY <1>a, <1>4 DEF StoreState, StoreInv, StateInv
  <2>3. QED
    BY <1>b, <1>4, <2>1, <2>2, Zenon DEF ThreadInv, StoreState, locals
<1>5. CASE proxyIfNecessary(t)
  <2>1. CASE ReturnError(t)
    BY <1>c, <1>5, <2>1, Zenon DEF proxyIfNecessary, ReturnError, clusterVars
  <2>2. ASSUME NEW l \in {"initiate", "proxied"}, Goto(t, l), UNCHANGED <<locals, history>>
        PROVE  Typed' /\ Others(t) /\ ThreadInv(t)'
    <3>1. Typed' /\ Others(t) /\ pc'[t] = l
      BY <1>a, <1>b, <1>5, <2>2, GotoEffect, Zenon DEF proxyIfNecessary, clusterVars, locals
    <3>2. QED
      BY <1>5, <2>2, <3>1, Zenon DEF proxyIfNecessary, ThreadInv, locals, stateVars
  <2>3. QED
    BY <1>5, <2>1, <2>2, Zenon DEF proxyIfNecessary
<1>6. CASE Proxied(t)
  BY <1>c, <1>6, Zenon DEF Proxied, Respond, ReturnError, clusterVars
<1>7. CASE SaveLastSignedStateInitiated(t)
  <2>1. PICK l \in {"attempt", "same", "behind"} : Goto(t, l)
    BY <1>7, Zenon DEF SaveLastSignedStateInitiated
  <2>2. Typed' /\ Others(t) /\ pc'[t] = l /\ css'[t] = chainState
    BY <1>a, <1>b, <1>7, <2>1, Zenon DEF SaveLastSignedStateInitiated, Typed, Others, Goto, clusterVars
  <2>3. QED
    BY <1>7, <2>1, <2>2, Zenon DEF ThreadInv, SaveLastSignedStateInitiated
<1>8. CASE getExistingBlockSignature(t)
  <2>1. chainState # 0 /\ StateOK(last, signed) /\ signed \subseteq Signature /\ req[t] \in Requests
    BY <1>8, Typing, Zenon DEF getExistingBlockSignature, ThreadInv, last, LogInv
  <2>2. CASE req[t].HRS \in DOMAIN last.cache /\ UseEntry(t, last.cache[req[t].HRS])
    <3>1. /\ Typed' /\ Others(t)
          /\ \/ pc'[t] = "idle" /\ req'[t] = Nil
             \/ pc'[t] = "attempt" /\ req'[t] = req[t]
             \/ pc'[t] = "existing" /\ req'[t] = req[t] /\ Matches(t)'
      BY <1>8, <2>1, <2>2, UseEntryEffect, Zenon DEF getExistingBlockSignature, clusterVars
    <3>2. QED
      BY <1>8, <2>1, <3>1, Zenon DEF ThreadInv, getExistingBlockSignature, stateVars
  <2>3. CASE pc[t] = "same" /\ Goto(t, "wait") /\ UNCHANGED <<locals, history>>
    <3>1. Typed' /\ Others(t) /\ pc'[t] = "wait"
      BY <1>a, <1>b, <1>8, <2>3, GotoEffect, Zenon DEF getExistingBlockSignature, clusterVars, locals
    <3>2. QED
      BY <1>8, <2>3, <3>1, Zenon DEF ThreadInv, getExistingBlockSignature, stateVars, locals
  <2>4. CASE ReturnError(t)
    BY <1>c, <1>8, <2>4, Zenon DEF getExistingBlockSignature, ReturnError, clusterVars
  <2>5. QED
    BY <1>8, <2>2, <2>3, <2>4, Zenon DEF getExistingBlockSignature
<1>9. CASE Wait(t)
  <2> DEFINE ss == states[css[t]].lastSignState
  <2>1. chainState # 0 /\ StateOK(ss, signed) /\ signed \subseteq Signature /\ req[t] \in Requests
    BY <1>a, <1>9, Typing, BoundAssumption DEF Wait, ThreadInv, LogInv, Typed, Objects
  <2> HIDE DEF ss
  <2>2. CASE req[t].HRS \in DOMAIN ss.cache /\ UseEntry(t, ss.cache[req[t].HRS])
    <3>1. /\ Typed' /\ Others(t)
          /\ \/ pc'[t] = "idle" /\ req'[t] = Nil
             \/ pc'[t] = "attempt" /\ req'[t] = req[t]
             \/ pc'[t] = "existing" /\ req'[t] = req[t] /\ Matches(t)'
      BY <1>9, <2>1, <2>2, UseEntryEffect, Zenon DEF Wait, clusterVars
    <3>2. QED
      BY <1>9, <2>1, <3>1, Zenon DEF ThreadInv, Wait, stateVars
  <2>3. CASE /\ waits[t] < MaxWait /\ waits' = [waits EXCEPT ![t] = @ + 1]
             /\ UNCHANGED <<pc, req, css, sig, stamp, history>>
    <3>1. waits[t] \in 0 .. MaxWait /\ MaxWait \in Nat
      BY <1>a, BoundAssumption, Zenon DEF Typed
    <3>2. waits[t] + 1 \in 0 .. MaxWait
      BY <2>3, <3>1
    <3>3. UNCHANGED signed
      BY <1>9, Zenon DEF Wait, clusterVars
    <3>4. Typed' /\ Others(t)
      BY <1>a, <2>3, <3>2, <3>3, Zenon DEF Typed, Others
    <3>5. QED
      BY <1>9, <2>3, <3>4, Zenon DEF ThreadInv, Wait, stateVars, clusterVars
  <2>4. CASE ReturnError(t)
    BY <1>c, <1>9, <2>4, Zenon DEF Wait, ReturnError, clusterVars
  <2>5. QED
    BY <1>9, <2>2, <2>3, <2>4, Zenon DEF Wait, ss
<1>10. CASE ExistingSignature(t)
  <2>1. CASE Goto(t, "signExt") /\ UNCHANGED <<locals, history>> /\ hasVoteExtensions(req[t])
    <3>1. Typed' /\ Others(t) /\ pc'[t] = "signExt"
      BY <1>a, <1>b, <1>10, <2>1, GotoEffect, Zenon DEF ExistingSignature, clusterVars, locals
    <3>2. QED
      BY <1>10, <2>1, <3>1, Zenon DEF ExistingSignature, ThreadInv, Matches, locals, stateVars, clusterVars
  <2>2. CASE Return(t)
    BY <1>c, <1>10, <2>2, Zenon DEF ExistingSignature, clusterVars
  <2>3. QED
    BY <1>10, <2>1, <2>2, Zenon DEF ExistingSignature, Respond, ReturnError
<1>11. CASE signVoteExtension(t)
  BY <1>c, <1>11, Zenon DEF signVoteExtension, Respond, ReturnError, clusterVars
<1>12. CASE AttemptSucceeds(t)
  <2> DEFINE s == NewSignature(req[t])
  <2>1. req[t] \in Requests /\ chainState # 0
    BY <1>12, Zenon DEF AttemptSucceeds, ThreadInv
  <2>2. /\ s.HRS = req[t].HRS /\ s.SignBytes = req[t].SignBytes /\ s.Ext = Expected(req[t])
        /\ req[t].SignBytes.stamp \in Stamps
    BY <2>1, NewSignatureType, Typing, Zenon
  <2>3. /\ signed' = signed \cup {s} /\ sig' = [sig EXCEPT ![t] = s] /\ Goto(t, "save")
        /\ stamp' = [stamp EXCEPT ![t] = req[t].SignBytes.stamp] /\ UNCHANGED <<req, css, waits, chainState>>
    BY <1>12, Zenon DEF AttemptSucceeds, stateVars
  <2> HIDE DEF s
  <2>4. Typed' /\ Others(t) /\ pc'[t] = "save" /\ sig'[t] = s /\ stamp'[t] = req[t].SignBytes.stamp
    BY <1>a, <1>b, <2>2, <2>3, Zenon DEF Typed, Others, Goto
  <2>5. QED
    BY <2>1, <2>2, <2>3, <2>4 DEF ThreadInv, Matches
<1>13. CASE AttemptFails(t)
  BY <1>13, <1>d, Zenon DEF AttemptFails, stateVars, clusterVars
<1>14. CASE notifyBlockSignError(t)
  BY <1>14, <1>c, Zenon DEF notifyBlockSignError, ReturnError, clusterVars
<1>15. CASE SaveSignature(t)
  BY <1>15, <1>d, Zenon DEF SaveSignature, clusterVars
<1>16. CASE ShareSigned(t)
  BY <1>16, <1>c, Zenon DEF ShareSigned, Respond
<1>17. QED
  BY <1>1, <1>2, <1>3, <1>4, <1>5, <1>6, <1>7, <1>8, <1>9, <1>10, <1>11,
     <1>12, <1>13, <1>14, <1>15, <1>16, Zenon DEF Sign, LoadSteps

(* The steps of Sign that only look around: they touch neither the sign     *)
(* states nor the cluster, and end no attempt.                              *)
Quiet(t) ==
    /\ UNCHANGED <<stateVars, clusterVars, responses>>
    /\ t \notin Attempting /\ pc'[t] # "store"

(* The steps that return an existing signature, and those that write to the *)
(* sign state in use.                                                       *)
Returns(t) == Proxied(t) \/ ExistingSignature(t) \/ signVoteExtension(t)
Writes(t) == SaveLastSignedStateInitiated(t) \/ notifyBlockSignError(t) \/ SaveSignature(t)

(* The steps of Sign by what they write.                                    *)
LEMMA SignCases ==
    ASSUME Typed, NEW t \in Threads, Sign(t) \/ \E r \in Requests : Receive(t, r)
    PROVE  \/ LoadOrCreateSignState(t) \/ StoreState(t) \/ Returns(t) \/ Writes(t)
           \/ AttemptSucceeds(t) \/ AttemptFails(t) \/ ShareSigned(t) \/ Quiet(t)
<1>a. t \in All /\ t # fsm /\ \A l : Goto(t, l) => pc'[t] = l
  BY ThreadAssumption, Zenon DEF Typed, All, Goto
<1>1. ASSUME NEW r \in Requests, Receive(t, r)  PROVE Quiet(t)
  BY <1>a, <1>1, Zenon DEF Receive, Quiet, Attempting
<1>2. CASE Load(t)
  BY <1>a, <1>2, Zenon DEF Load, Loaded, Quiet, Attempting, history
<1>3. CASE proxyIfNecessary(t)
  BY <1>a, <1>3, Zenon DEF proxyIfNecessary, ReturnError, Return, Quiet, Attempting, history
<1>4. ASSUME NEW e, UseEntry(t, e)  PROVE pc'[t] # "store" /\ UNCHANGED responses
  BY <1>a, <1>4, Zenon DEF UseEntry, ReturnError, Return, history
<1>5. CASE getExistingBlockSignature(t)
  BY <1>a, <1>4, <1>5, Zenon DEF getExistingBlockSignature, ReturnError, Return, Quiet, Attempting, history
<1>6. CASE Wait(t)
  BY <1>a, <1>4, <1>6, Zenon DEF Wait, ReturnError, Return, Quiet, Attempting, history
<1>7. QED
  BY <1>1, <1>2, <1>3, <1>5, <1>6, Zenon DEF Sign, LoadSteps, Returns, Writes

(* A step of the thread that applies the raft log (handleLSSEvent).         *)
LEMMA FsmEffect ==
    ASSUME StateInv, LogInv, Typed, StoreInv, Apply \/ handleLSSEvent
    PROVE  /\ Typed' /\ Others(fsm) /\ LogInv'
           /\ pc'[fsm] = "saveLSS" => chainState' # 0
<1>a. fsm \in All /\ fsm \notin Threads /\ chainState \in 0 .. MaxLoads
  BY ThreadAssumption, BoundAssumption DEF All, StateInv
<1>b. {"idle", "load", "read", "store", "saveLSS"} \subseteq Points
  BY Zenon DEF Points
<1> DEFINE Goal == Typed' /\ Others(fsm) /\ LogInv' /\ (pc'[fsm] = "saveLSS" => chainState' # 0)
<1>1. CASE Apply
  <2>1. Typed' /\ Others(fsm) /\ pc'[fsm] = "load" /\ req'[fsm] = log[applied + 1]
    BY <1>a, <1>b, <1>1, Zenon DEF Apply, Typed, Others, Goto, clusterVars
  <2>2. log[applied + 1] \in signed
    BY <1>1 DEF Apply, LogInv
  <2>3. QED
    BY <1>1, <2>1, <2>2 DEF LogInv, Apply, clusterVars
<1>2. CASE Load(fsm)
  <2>1. PICK l \in {"read", "saveLSS"} : Goto(fsm, l) /\ (l = "saveLSS" => chainState # 0)
    BY <1>2, Zenon DEF Load, Loaded
  <2>2. Typed' /\ Others(fsm) /\ pc'[fsm] = l
    BY <1>a, <1>b, <1>2, <2>1, GotoEffect, Zenon DEF Load, clusterVars
  <2>3. QED
    BY <1>2, <2>1, <2>2, Zenon DEF LogInv, Load, clusterVars, locals, stateVars
<1>3. CASE LoadOrCreateSignState(fsm)
  <2>1. Typed' /\ Others(fsm) /\ pc'[fsm] = "store" /\ UNCHANGED req
    BY <1>a, <1>b, <1>3, BoundAssumption DEF LoadOrCreateSignState, Typed, Others, Goto, clusterVars, StateInv
  <2>2. QED
    BY <1>3, <2>1, Zenon DEF LogInv, LoadOrCreateSignState, clusterVars
<1>4. CASE StoreState(fsm)
  <2>1. Typed' /\ Others(fsm) /\ pc'[fsm] = "saveLSS"
    BY <1>a, <1>b, <1>4, GotoEffect, Zenon DEF StoreState, Loaded, clusterVars
  <2>2. chainState' # 0
    BY <1>a, <1>4 DEF StoreState, StoreInv, StateInv
  <2>3. QED
    BY <1>4, <2>1, <2>2, Zenon DEF LogInv, StoreState, clusterVars, locals
<1>5. CASE SaveLastSignedState
  <2>1. Typed' /\ Others(fsm) /\ pc'[fsm] = "idle" /\ req'[fsm] = Nil
    BY <1>a, <1>5, ReturnEffect, Zenon DEF SaveLastSignedState, ReturnError
  <2>2. QED
    BY <1>5, <2>1 DEF LogInv, SaveLastSignedState
<1>6. QED
  BY <1>1, <1>2, <1>3, <1>4, <1>5, Zenon DEF handleLSSEvent, LoadSteps

(* Steps that no thread takes leave the locals alone, but for Restart.      *)
LEMMA TypedStep ==
    ASSUME StateInv, LogInv, Typed, StoreInv, \A t \in Threads : ThreadInv(t), [Next]_vars
    PROVE  Typed'
<1>1. ASSUME NEW t \in Threads, Sign(t) \/ \E r \in Requests : Receive(t, r)  PROVE Typed'
  BY <1>1, SignEffect, Zenon
<1>2. CASE Apply \/ handleLSSEvent
  BY <1>2, FsmEffect, Zenon
<1>3. ASSUME NEW l \in {"me", "none", "other"}, ChangeLeader(l)  PROVE Typed'
  BY <1>3, Zenon DEF ChangeLeader, Typed, locals
<1>4. ASSUME NEW r \in Remote, RemoteSigns(r)  PROVE Typed'
  BY <1>4, Zenon DEF RemoteSigns, Typed, locals
<1>5. CASE Restart
  BY <1>5, BoundAssumption DEF Restart, Each, Typed, Points
<1>6. CASE UNCHANGED vars
  BY <1>6, Zenon DEF vars, clusterVars, locals, Typed
<1>7. QED
  BY <1>1, <1>2, <1>3, <1>4, <1>5, <1>6, Zenon DEF Next

(* Signatures are added, and log entries, while the fsm thread rests.       *)
LEMMA LogFrame ==
    ASSUME LogInv, signed \subseteq signed', signed' \subseteq Signature, made' \in Nat,
           pc'[fsm] = pc[fsm], req'[fsm] = req[fsm], UNCHANGED applied,
           log' = log \/ \E s \in signed' : log' = Append(log, s)
    PROVE  LogInv'
<1>1. log \in Seq(signed') /\ applied \in 0 .. Len(log) /\ (pc[fsm] # "idle" => applied < Len(log))
  BY DEF LogInv
<1>2. log' \in Seq(signed') /\ Len(log) <= Len(log') /\ Len(log') \in Nat /\ Len(log) \in Nat
  <2>1. CASE log' = log
    BY <1>1, <2>1
  <2>2. ASSUME NEW s \in signed', log' = Append(log, s)
        PROVE  log' \in Seq(signed') /\ Len(log') = Len(log) + 1 /\ Len(log) \in Nat
    BY <1>1, <2>2
  <2>3. QED
    BY <2>1, <2>2
<1>3. applied' \in 0 .. Len(log') /\ (pc[fsm] # "idle" => applied' < Len(log'))
  BY <1>1, <1>2
<1>4. QED
  BY <1>2, <1>3, Zenon DEF LogInv

(* Every step keeps LogInv.                                                 *)
LEMMA LogStep ==
    ASSUME StateInv, LogInv, Typed, StoreInv, \A t \in Threads : ThreadInv(t), [Next]_vars
    PROVE  LogInv'
<1>a. made \in Nat /\ signed \subseteq Signature
  BY Zenon DEF LogInv
<1>1. ASSUME NEW t \in Threads, Sign(t) \/ \E r \in Requests : Receive(t, r)  PROVE LogInv'
  <2>1. pc'[fsm] = pc[fsm] /\ req'[fsm] = req[fsm]
    BY <1>1, SignEffect, ThreadAssumption, Zenon DEF Others, All
  <2>2. CASE UNCHANGED clusterVars
    BY <1>a, <2>1, <2>2, LogFrame, Zenon DEF clusterVars
  <2>3. CASE AttemptSucceeds(t)
    <3>1. req[t] \in Requests
      BY <2>3, Zenon DEF AttemptSucceeds, ThreadInv
    <3>2. signed' = signed \cup {NewSignature(req[t])} /\ made' = made + 1 /\ UNCHANGED <<log, applied>>
      BY <2>3, Zenon DEF AttemptSucceeds
    <3>3. signed' \subseteq Signature /\ made' \in Nat
      BY <1>a, <3>1, <3>2, NewSignatureType
    <3>4. QED
      BY <2>1, <3>2, <3>3, LogFrame, Zenon
  <2>4. CASE ShareSigned(t)
    <3>1. sig[t] \in signed
      BY <2>4, Zenon DEF ShareSigned, ThreadInv, Matches
    <3>2. QED
      BY <1>a, <2>1, <2>4, <3>1, LogFrame, Zenon DEF ShareSigned
  <2>5. CASE Returns(t) \/ Writes(t)
    BY <2>2, <2>5, Zenon DEF Returns, Writes, Proxied, ExistingSignature, signVoteExtension,
                      SaveLastSignedStateInitiated, notifyBlockSignError, SaveSignature
  <2>6. QED
    BY <1>1, <2>2, <2>3, <2>4, <2>5, SignCases, Zenon DEF LoadOrCreateSignState, StoreState, AttemptFails, Quiet
<1>2. CASE Apply \/ handleLSSEvent
  BY <1>2, FsmEffect, Zenon
<1>3. ASSUME NEW l \in {"me", "none", "other"}, ChangeLeader(l)  PROVE LogInv'
  BY <1>a, <1>3, LogFrame, Zenon DEF ChangeLeader, locals
<1>4. ASSUME NEW r \in Remote, RemoteSigns(r)  PROVE LogInv'
  <2>1. /\ signed' = signed \cup {NewSignature(r)} /\ made' = made + 1 /\ UNCHANGED <<applied, pc, req>>
        /\ log' = log \/ log' = Append(log, NewSignature(r))
    BY <1>4, Zenon DEF RemoteSigns, locals
  <2>2. signed' \subseteq Signature /\ made' \in Nat
    BY <1>a, <2>1, NewSignatureType
  <2>3. QED
    BY <2>1, <2>2, LogFrame, Zenon
<1>5. CASE Restart
  BY <1>5 DEF Restart, LogInv, Each, All
<1>6. CASE UNCHANGED vars
  BY <1>a, <1>6, LogFrame, Zenon DEF vars, clusterVars, locals
<1>7. QED
  BY <1>1, <1>2, <1>3, <1>4, <1>5, <1>6, Zenon DEF Next

(* Every step keeps ThreadInv.                                              *)
LEMMA ThreadStep ==
    ASSUME StateInv, LogInv, Typed, StoreInv, \A t \in Threads : ThreadInv(t), [Next]_vars, NEW u \in Threads
    PROVE  ThreadInv(u)'
<1>a. ASSUME pc'[u] = pc[u], req'[u] = req[u], css'[u] = css[u], sig'[u] = sig[u], stamp'[u] = stamp[u],
             signed \subseteq signed', chainState # 0 => chainState' # 0
      PROVE  ThreadInv(u)'
  BY <1>a, Zenon DEF ThreadInv, Matches
<1>b. u \in All /\ u # fsm
  BY ThreadAssumption, Zenon DEF All
<1>1. ASSUME NEW t \in Threads, Sign(t) \/ \E r \in Requests : Receive(t, r)  PROVE ThreadInv(u)'
  <2>1. Others(t) /\ ThreadInv(t)'
    BY <1>1, SignEffect, Zenon
  <2>2. signed \subseteq signed' /\ (chainState' = chainState \/ StoreState(t))
    <3>1. CASE Returns(t)
      BY <3>1, Zenon DEF Returns, Proxied, ExistingSignature, signVoteExtension, stateVars, clusterVars
    <3>2. CASE Writes(t)
      BY <3>2, Zenon DEF Writes, SaveLastSignedStateInitiated, notifyBlockSignError, SaveSignature, clusterVars
    <3>3. CASE AttemptSucceeds(t) \/ AttemptFails(t) \/ ShareSigned(t)
      BY <3>3, Zenon DEF AttemptSucceeds, AttemptFails, ShareSigned, stateVars, clusterVars
    <3>4. CASE LoadOrCreateSignState(t) \/ StoreState(t)
      BY <3>4, Zenon DEF LoadOrCreateSignState, StoreState, clusterVars
    <3>5. CASE Quiet(t)
      BY <3>5, Zenon DEF Quiet, stateVars, clusterVars
    <3>6. QED
      BY <1>1, <3>1, <3>2, <3>3, <3>4, <3>5, SignCases, Zenon
  <2>3. StoreState(t) => chainState' # 0
    BY DEF StoreState, StoreInv, All, StateInv
  <2>4. QED
    BY <1>a, <1>b, <2>1, <2>2, <2>3, Zenon DEF Others
<1>2. CASE Apply \/ handleLSSEvent
  <2>1. Others(fsm)
    BY <1>2, FsmEffect, Zenon
  <2>2. signed' = signed /\ (chainState' = chainState \/ StoreState(fsm))
    BY <1>2, Zenon DEF Apply, handleLSSEvent, LoadSteps, Load, LoadOrCreateSignState, StoreState, SaveLastSignedState,
                stateVars, clusterVars
  <2>3. StoreState(fsm) => chainState' # 0
    BY DEF StoreState, StoreInv, All, StateInv
  <2>4. QED
    BY <1>a, <1>b, <2>1, <2>2, <2>3, Zenon DEF Others
<1>3. ASSUME NEW l \in {"me", "none", "other"}, ChangeLeader(l)  PROVE ThreadInv(u)'
  BY <1>a, <1>3, Zenon DEF ChangeLeader, locals, stateVars
<1>4. ASSUME NEW r \in Remote, RemoteSigns(r)  PROVE ThreadInv(u)'
  BY <1>a, <1>4, Zenon DEF RemoteSigns, locals, stateVars
<1>5. CASE Restart
  BY <1>b, <1>5, Zenon DEF Restart, Each, ThreadInv
<1>6. CASE UNCHANGED vars
  BY <1>a, <1>6, Zenon DEF vars, stateVars, clusterVars, locals
<1>7. QED
  BY <1>1, <1>2, <1>3, <1>4, <1>5, <1>6, Zenon DEF Next

(* What Sign returns (Respond) is right when the signature is for the       *)
(* request.                                                                 *)
LEMMA RespondStep ==
    ASSUME AnswerInv, ResponseVerifies, NEW t \in Threads, req[t] \in Requests, NEW s \in signed, NEW ts,
           NEW kept \in BOOLEAN, signed \subseteq Signature, UNCHANGED <<signed, leader>>,
           Respond(t, s, Expected(req[t]), ts, kept), s.HRS = req[t].HRS,
           s.SignBytes.stamp = ts \/ (kept /\ ts = req[t].SignBytes.stamp),
           req[t].HRS.Step # 1 => s.SignBytes.block = req[t].SignBytes.block
    PROVE  AnswerInv' /\ ResponseVerifies'
<1> DEFINE p == [req |-> req[t], sig |-> s, ext |-> Expected(req[t]), stamp |-> ts, kept |-> kept]
<1>1. responses' = responses \cup {p}
  BY Zenon DEF Respond
<1>2. ts \in Stamps /\ Expected(req[t]) \in Exts \cup {Nil}
  BY Typing, Zenon DEF Expected
<1>3. p \in [req : Requests, sig : signed, ext : Exts \cup {Nil}, stamp : Stamps, kept : BOOLEAN]
  BY <1>2, Zenon
<1>4. p.req = req[t] /\ p.sig = s /\ p.ext = Expected(req[t]) /\ p.stamp = ts /\ p.kept = kept
  BY Zenon
<1> HIDE DEF p
<1>5. AnswerInv'
  BY <1>1, <1>3, Zenon DEF AnswerInv
<1>6. ResponseVerifies'
  BY <1>1, <1>4, Zenon DEF ResponseVerifies, Expected
<1>7. QED
  BY <1>5, <1>6, Zenon

(* Every step keeps what is known of the responses.                         *)
LEMMA AnswerStep ==
    ASSUME StateInv, LogInv, Typed, StoreInv, \A t \in Threads : ThreadInv(t), AnswerInv, ResponseVerifies,
           [Next]_vars
    PROVE  AnswerInv' /\ ResponseVerifies'
<1>a. signed \subseteq Signature
  BY Zenon DEF LogInv
<1>b. ASSUME UNCHANGED responses, signed \subseteq signed', leader' \in {"me", "none", "other"}
      PROVE  AnswerInv' /\ ResponseVerifies'
  BY <1>b, Zenon DEF AnswerInv, ResponseVerifies
<1>1. ASSUME NEW t \in Threads, Sign(t) \/ \E r \in Requests : Receive(t, r)
      PROVE  AnswerInv' /\ ResponseVerifies'
  <2>a. pc[t] # "idle" => req[t] \in Requests
    BY Zenon DEF ThreadInv
  <2>1. CASE Proxied(t)
    <3>1. CASE ReturnError(t)
      BY <1>b, <2>1, <3>1, Zenon DEF Proxied, ReturnError, history, clusterVars, AnswerInv
    <3>2. ASSUME NEW s \in signed, NEW kept \in BOOLEAN, s.HRS = req[t].HRS,
                 req[t].HRS.Step = 1 \/ OnlyDifferByTimestamp(s.SignBytes, req[t].SignBytes),
                 Respond(t, s, Expected(req[t]), IF kept THEN req[t].SignBytes.stamp ELSE s.SignBytes.stamp, kept)
          PROVE  AnswerInv' /\ ResponseVerifies'
      BY <1>a, <2>a, <2>1, <3>2, RespondStep, Zenon DEF Proxied, OnlyDifferByTimestamp, clusterVars
    <3>3. QED
      BY <2>1, <3>1, <3>2, Zenon DEF Proxied, Expected
  <2>2. CASE ExistingSignature(t)
    <3>1. CASE UNCHANGED history
      BY <1>b, <2>2, <3>1, Zenon DEF ExistingSignature, history, clusterVars, AnswerInv
    <3>2. CASE Respond(t, sig[t], Expected(req[t]), stamp[t], FALSE)
      BY <1>a, <2>a, <2>2, <3>2, RespondStep, Zenon DEF ExistingSignature, ThreadInv, Matches, clusterVars
    <3>3. QED
      BY <2>2, <3>1, <3>2, Zenon DEF ExistingSignature, Expected, ReturnError, history
  <2>3. CASE signVoteExtension(t)
    <3>1. CASE ReturnError(t)
      BY <1>b, <2>3, <3>1, Zenon DEF signVoteExtension, ReturnError, history, clusterVars, AnswerInv
    <3>2. CASE Respond(t, sig[t], req[t].Ext, stamp[t], FALSE)
      <4>1. req[t].Ext = Expected(req[t])
        BY <2>3, Zenon DEF signVoteExtension, ThreadInv, Expected
      <4>2. QED
        BY <1>a, <2>a, <2>3, <3>2, <4>1, RespondStep, Zenon DEF signVoteExtension, ThreadInv, Matches, clusterVars
    <3>3. QED
      BY <2>3, <3>1, <3>2, Zenon DEF signVoteExtension
  <2>4. CASE ShareSigned(t)
    BY <1>a, <2>a, <2>4, RespondStep, Zenon DEF ShareSigned, ThreadInv, Matches
  <2>5. CASE UNCHANGED <<responses, leader>> /\ signed \subseteq signed'
    BY <1>b, <2>5, Zenon DEF AnswerInv
  <2>6. CASE Writes(t)
    BY <2>5, <2>6, Zenon DEF Writes, SaveLastSignedStateInitiated, notifyBlockSignError, SaveSignature, ReturnError,
                      history, clusterVars
  <2>7. CASE LoadOrCreateSignState(t) \/ StoreState(t) \/ AttemptSucceeds(t) \/ AttemptFails(t) \/ Quiet(t)
    BY <2>5, <2>7, Zenon
       DEF LoadOrCreateSignState, StoreState, AttemptSucceeds, AttemptFails, Quiet, history, clusterVars
  <2>8. QED
    BY <1>1, <2>1, <2>2, <2>3, <2>4, <2>6, <2>7, SignCases, Zenon DEF Returns
<1>2. CASE Apply \/ handleLSSEvent
  BY <1>b, <1>2, Zenon
     DEF Apply, handleLSSEvent, LoadSteps, Load, LoadOrCreateSignState, StoreState, SaveLastSignedState,
         ReturnError, history, clusterVars, AnswerInv
<1>3. ASSUME NEW l \in {"me", "none", "other"}, ChangeLeader(l)  PROVE AnswerInv' /\ ResponseVerifies'
  BY <1>b, <1>3, Zenon DEF ChangeLeader
<1>4. ASSUME NEW r \in Remote, RemoteSigns(r)  PROVE AnswerInv' /\ ResponseVerifies'
  BY <1>b, <1>4, Zenon DEF RemoteSigns, AnswerInv
<1>5. CASE Restart
  BY <1>b, <1>5, Zenon DEF Restart
<1>6. CASE UNCHANGED vars
  BY <1>b, <1>6, Zenon DEF vars, clusterVars, history, AnswerInv
<1>7. QED
  BY <1>1, <1>2, <1>3, <1>4, <1>5, <1>6, Zenon DEF Next

-----------------------------------------------------------------------------
(* A step of thread t that stores no sign state: those that wait to be      *)
(* stored are untouched.                                                    *)
LEMMA StoreFrame ==
    ASSUME StoreInv, StateInv, NEW t \in All, Others(t), pc'[t] # "store", UNCHANGED <<chainState, loads>>,
           \A o \in Objects : o # chainState => states'[o] = states[o],
           t = fsm /\ pc'[t] = "saveLSS" => chainState # 0
    PROVE  StoreInv'
<1>1. pc'[fsm] = "saveLSS" => chainState' # 0
  BY Zenon DEF Others, StoreInv, All
<1>2. ASSUME NEW u \in All, pc'[u] = "store"
      PROVE  /\ css'[u] \in 1 .. loads' /\ css'[u] # chainState'
             /\ states'[css'[u]].initiated = states'[css'[u]].lastSignState.HRS
             /\ \A v \in All : pc'[v] = "store" /\ css'[v] = css'[u] => v = u
  <2>1. u # t /\ pc[u] = "store" /\ css'[u] = css[u]
    BY <1>2, Zenon DEF Others
  <2>2. css[u] \in 1 .. loads /\ css[u] # chainState /\ css[u] \in Objects
    BY <2>1, BoundAssumption DEF StoreInv, StateInv, Objects
  <2>3. states'[css[u]] = states[css[u]]
    BY <2>2, Zenon
  <2>4. ASSUME NEW v \in All, pc'[v] = "store", css'[v] = css'[u]  PROVE v = u
    BY <1>2, <2>1, <2>4 DEF Others, StoreInv
  <2>5. QED
    BY <2>1, <2>2, <2>3, <2>4 DEF StoreInv
<1>3. QED
  BY <1>1, <1>2, Zenon DEF StoreInv

(* A sign state is made from the file (LoadOrCreateSignState): it is nobody *)
(* else's, and nothing was initiated on it.                                 *)
LEMMA LoadedStore ==
    ASSUME StateInv, StoreInv, Typed, NEW t \in All, LoadOrCreateSignState(t)
    PROVE  StoreInv' /\ \A o \in Objects : o = chainState => states'[o] = states[o]
<1>1. PICK ss : states' = [states EXCEPT ![loads + 1] = [lastSignState |-> ss, initiated |-> ss.HRS]]
  BY Zenon DEF LoadOrCreateSignState
<1>2. /\ loads' = loads + 1 /\ css' = [css EXCEPT ![t] = loads + 1] /\ pc' = [pc EXCEPT ![t] = "store"]
      /\ UNCHANGED chainState /\ loads \in Nat /\ loads + 1 \in Objects /\ chainState \in 0 .. loads
  BY BoundAssumption DEF LoadOrCreateSignState, Goto, StateInv, Objects
<1>3. /\ states'[loads + 1] = [lastSignState |-> ss, initiated |-> ss.HRS]
      /\ \A o \in Objects : o # loads + 1 => states'[o] = states[o]
  BY <1>1, <1>2, Zenon DEF StateInv
<1>4. /\ css'[t] = loads + 1 /\ pc'[t] = "store"
      /\ \A u \in All \ {t} : css'[u] = css[u] /\ pc'[u] = pc[u]
  BY <1>2, Zenon DEF Typed
<1>5. states'[loads + 1].initiated = states'[loads + 1].lastSignState.HRS
  BY <1>3
<1>6. \A u \in All : pc[u] = "store" => css[u] \in 1 .. loads /\ css[u] \in Objects /\ css[u] # loads + 1
  BY <1>2, BoundAssumption DEF StoreInv, StateInv, Objects
<1>7. pc'[fsm] = "saveLSS" => chainState' # 0
  BY <1>2, <1>4, Zenon DEF StoreInv, All
<1>8. ASSUME NEW u \in All, pc'[u] = "store"
      PROVE  /\ css'[u] \in 1 .. loads' /\ css'[u] # chainState'
             /\ states'[css'[u]].initiated = states'[css'[u]].lastSignState.HRS
             /\ \A v \in All : pc'[v] = "store" /\ css'[v] = css'[u] => v = u
  <2>1. CASE u = t
    BY <1>2, <1>4, <1>5, <1>6, <2>1
  <2>2. CASE u # t
    <3>1. pc[u] = "store" /\ css'[u] = css[u] /\ css[u] \in 1 .. loads /\ states'[css[u]] = states[css[u]]
      BY <1>3, <1>4, <1>6, <1>8, <2>2, Zenon
    <3>2. ASSUME NEW v \in All, pc'[v] = "store", css'[v] = css'[u]  PROVE v = u
      BY <1>4, <1>6, <1>8, <2>2, <3>1, <3>2 DEF StoreInv
    <3>3. QED
      BY <1>2, <3>1, <3>2 DEF StoreInv
  <2>3. QED
    BY <2>1, <2>2, Zenon
<1>9. \A o \in Objects : o = chainState => states'[o] = states[o]
  BY <1>2, <1>3
<1>10. QED
  BY <1>7, <1>8, <1>9, Zenon DEF StoreInv

(* Every step keeps StoreInv.                                               *)
LEMMA StoreStep ==
    ASSUME StateInv, LogInv, Typed, StoreInv, \A t \in Threads : ThreadInv(t), [Next]_vars
    PROVE  StoreInv'
<1>1. ASSUME NEW t \in All, StoreState(t)  PROVE StoreInv'
  <2>1. /\ chainState' = css[t] /\ UNCHANGED <<states, loads, css>>
        /\ pc' = [pc EXCEPT ![t] = IF t = fsm THEN "saveLSS" ELSE "proxy"] /\ pc[t] = "store"
    BY <1>1, Zenon DEF StoreState, Loaded, Goto, locals
  <2>2. css[t] \in 1 .. loads /\ \A u \in All : pc[u] = "store" /\ css[u] = css[t] => u = t
    BY <2>1, Zenon DEF StoreInv
  <2>3. \A u \in All : pc'[u] = "store" => pc[u] = "store" /\ u # t
    BY <2>1, Zenon DEF Typed
  <2>4. QED
    BY <2>1, <2>2, <2>3 DEF StoreInv, StateInv
<1>2. ASSUME NEW t \in All, LoadOrCreateSignState(t)  PROVE StoreInv'
  BY <1>2, LoadedStore, Zenon
<1>3. ASSUME NEW t \in Threads, Sign(t) \/ \E r \in Requests : Receive(t, r)  PROVE StoreInv'
  <2>1. Typed' /\ Others(t) /\ ThreadInv(t)' /\ t \in All /\ t # fsm
    BY <1>3, SignEffect, ThreadAssumption, Zenon DEF All
  <2>2. CASE StoreState(t) \/ LoadOrCreateSignState(t)
    BY <1>1, <1>2, <2>1, <2>2, Zenon
  <2>3. CASE ~ (StoreState(t) \/ LoadOrCreateSignState(t))
    <3>1. CASE Writes(t)
      <4>1. pc'[t] # "store" /\ chainState # 0 /\ UNCHANGED <<chainState, loads>>
        BY <2>1, <3>1 DEF Writes, SaveLastSignedStateInitiated, notifyBlockSignError, SaveSignature,
                          ReturnError, Return, Goto, Typed, ThreadInv
      <4>2. \A o \in Objects : o # chainState => states'[o] = states[o]
        BY <3>1, <4>1, Zenon
           DEF Writes, SaveLastSignedStateInitiated, notifyBlockSignError, SaveSignature, Saved, StateInv
      <4>3. QED
        BY <2>1, <4>1, <4>2, StoreFrame, Zenon
    <3>2. CASE UNCHANGED stateVars /\ pc'[t] # "store"
      BY <2>1, <3>2, StoreFrame, Zenon DEF stateVars
    <3>3. CASE Returns(t)
      BY <2>1, <3>2, <3>3, Zenon
         DEF Returns, Proxied, ExistingSignature, signVoteExtension, Respond, ReturnError, Return,
             Goto, Typed
    <3>4. CASE AttemptSucceeds(t) \/ AttemptFails(t) \/ ShareSigned(t)
      BY <2>1, <3>2, <3>4, Zenon DEF AttemptSucceeds, AttemptFails, ShareSigned, Respond, Return, Goto, Typed
    <3>5. QED
      BY <1>3, <2>3, <3>1, <3>2, <3>3, <3>4, SignCases, Zenon DEF Quiet
  <2>4. QED
    BY <2>2, <2>3, Zenon
<1>4. CASE Apply \/ handleLSSEvent
  <2>1. Typed' /\ Others(fsm) /\ (pc'[fsm] = "saveLSS" => chainState' # 0) /\ fsm \in All
    BY <1>4, FsmEffect, Zenon DEF All
  <2>2. CASE Apply \/ Load(fsm)
    <3>1. pc'[fsm] # "store" /\ UNCHANGED stateVars
      BY <2>1, <2>2, Zenon DEF Apply, Load, Loaded, Goto, Typed
    <3>2. QED
      BY <2>1, <3>1, StoreFrame, Zenon DEF stateVars
  <2>3. CASE SaveLastSignedState
    <3>1. pc'[fsm] # "store" /\ chainState # 0 /\ UNCHANGED <<chainState, loads>>
      BY <2>1, <2>3, Zenon DEF SaveLastSignedState, ReturnError, Return, Goto, Typed, StoreInv
    <3>2. \A o \in Objects : o # chainState => states'[o] = states[o]
      BY <2>3, <3>1, Zenon DEF SaveLastSignedState, Saved, StateInv
    <3>3. QED
      BY <2>1, <3>1, <3>2, StoreFrame, Zenon
  <2>4. QED
    BY <1>1, <1>2, <1>4, <2>1, <2>2, <2>3, Zenon DEF handleLSSEvent, LoadSteps
<1>5. ASSUME NEW l \in {"me", "none", "other"}, ChangeLeader(l)  PROVE StoreInv'
  BY <1>5, Zenon DEF ChangeLeader, StoreInv, stateVars, locals
<1>6. ASSUME NEW r \in Remote, RemoteSigns(r)  PROVE StoreInv'
  BY <1>6, Zenon DEF RemoteSigns, StoreInv, stateVars, locals
<1>7. CASE Restart
  BY <1>7, Zenon DEF Restart, Each, StoreInv, All
<1>8. CASE UNCHANGED vars
  BY <1>8, Zenon DEF vars, StoreInv, stateVars, locals
<1>9. QED
  BY <1>3, <1>4, <1>5, <1>6, <1>7, <1>8, Zenon DEF Next

-----------------------------------------------------------------------------
(* A step of thread t that leaves the sign state in use as it is, and leaves *)
(* no attempt behind.                                                       *)
LEMMA SettledFrame ==
    ASSUME InitiatedIsSettled, NEW t \in All, Others(t), UNCHANGED chainState, chainState \in 0 .. MaxLoads,
           chainState # 0 => states'[chainState] = states[chainState],
           t \in Attempting => t \in Attempting' /\ req'[t] = req[t]
    PROVE  InitiatedIsSettled'
<1>1. \A u \in Attempting : u \in Attempting' /\ req'[u] = req[u]
  BY Zenon DEF Attempting, Others, All
<1>2. QED
  BY <1>1, Zenon DEF InitiatedIsSettled, last

(* Saving a signature (Save) advances the watermark: it reaches the saved   *)
(* HRS, and what the cache loses is behind it.                              *)
LEMMA SettledSave ==
    ASSUME StateInv, InitiatedIsSettled, chainState # 0, NEW t \in All, Others(t), NEW hrs \in HRSKey,
           NEW bytes \in SignBytes, NEW s \in signed, Covers(s, hrs, bytes), Saved(hrs, bytes, s),
           SaveSucceeds(last, hrs), UNCHANGED <<chainState, loads, signed>>, t \in Threads => req[t].HRS = hrs
    PROVE  InitiatedIsSettled'
<1> DEFINE next == blockDoubleSign(last, hrs, bytes, s)
           init == states[chainState].initiated
<1>1. chainState \in Objects
  BY Typing, Zenon
<1>2. StateOK(last, signed) /\ init \in HRSKey
  BY <1>1, Typing, Zenon DEF last
<1>3. last.HRS \in HRSKey
  BY <1>2, Zenon DEF StateOK, FileOK, FileSet, lockedCopy
<1>4. next.HRS = hrs /\ \A h \in DOMAIN last.cache : h \in DOMAIN next.cache \/ ~ GreaterThan(h, hrs)
  BY <1>2, SavedStateOK
<1>5. states'[chainState] = [lastSignState |-> next, initiated |-> init]
  BY SavedStep, Zenon DEF Becomes
<1> HIDE DEF next, init
<1>6. states'[chainState].initiated = init /\ last' = next
  BY <1>5 DEF last
<1>7. CASE \E u \in Attempting : req[u].HRS = init
  <2>1. PICK u \in Attempting : req[u].HRS = init
    BY <1>7, Zenon
  <2>2. CASE u = t
    <3>1. hrs = init
      BY <2>1, <2>2, Zenon DEF Attempting
    <3>2. ~ GreaterThan(init, next.HRS)
      BY <1>2, <1>4, <3>1 DEF GreaterThan, HRSKey
    <3>3. QED
      BY <1>6, <3>2, Zenon DEF InitiatedIsSettled
  <2>3. CASE u # t
    BY <1>6, <2>1, <2>3, Zenon DEF InitiatedIsSettled, Attempting, Others, All
  <2>4. QED
    BY <2>2, <2>3, Zenon
<1>8. CASE init \in DOMAIN last.cache
  BY <1>4, <1>6, <1>8, Zenon DEF InitiatedIsSettled
<1>9. CASE ~ GreaterThan(init, last.HRS)
  <2>1. ~ GreaterThan(init, hrs)
    BY <1>2, <1>3, <1>9 DEF SaveSucceeds, GreaterThan, HRSKey
  <2>2. QED
    BY <1>4, <1>6, <2>1, Zenon DEF InitiatedIsSettled
<1>10. QED
  BY <1>7, <1>8, <1>9, Zenon DEF InitiatedIsSettled, init

(* A failed attempt (notifyBlockSignError) leaves an entry for its HRS.     *)
LEMMA SettledNotify ==
    ASSUME StateInv, InitiatedIsSettled, chainState # 0, NEW t \in Threads, Others(t), req[t] \in Requests,
           notifyBlockSignError(t)
    PROVE  InitiatedIsSettled'
<1> DEFINE cache == [h \in DOMAIN last.cache \cup {req[t].HRS} |->
                        IF h = req[t].HRS THEN Entry(req[t].SignBytes, Nil) ELSE last.cache[h]]
           next == [last EXCEPT !.cache = cache]
<1>1. chainState \in Objects
  BY Typing, Zenon
<1>2. last = [HRS |-> last.HRS, SignBytes |-> last.SignBytes, Signature |-> last.Signature, cache |-> last.cache]
  BY <1>1, Typing, Zenon DEF last, StateOK
<1>3. next.HRS = last.HRS /\ DOMAIN next.cache = DOMAIN last.cache \cup {req[t].HRS}
  BY <1>2, Zenon
<1>4. states' = [states EXCEPT ![chainState].lastSignState = next] /\ UNCHANGED chainState
  BY Zenon DEF notifyBlockSignError, last
<1> HIDE DEF next, cache
<1>5. states'[chainState] = [lastSignState |-> next, initiated |-> states[chainState].initiated]
  BY <1>1, <1>4, ObjectUpdate, Zenon DEF Becomes
<1>6. last' = next /\ states'[chainState].initiated = states[chainState].initiated
  BY <1>4, <1>5 DEF last
<1>7. \A u \in Attempting : u = t \/ (u \in Attempting' /\ req'[u] = req[u])
  BY Zenon DEF Attempting, Others, All
<1>8. QED
  BY <1>3, <1>4, <1>6, <1>7, Zenon DEF InitiatedIsSettled

(* Every step keeps InitiatedIsSettled.                                     *)
LEMMA SettledStep ==
    ASSUME StateInv, LogInv, Typed, StoreInv, \A t \in Threads : ThreadInv(t), InitiatedIsSettled, [Next]_vars
    PROVE  InitiatedIsSettled'
<1>a. chainState \in 0 .. MaxLoads /\ (chainState # 0 => chainState \in Objects)
  BY Typing, BoundAssumption DEF StateInv
<1>1. ASSUME NEW t \in All, StoreState(t)  PROVE InitiatedIsSettled'
  <2> DEFINE o == css[t]
  <2>1. chainState' = o /\ UNCHANGED states /\ pc[t] = "store"
    BY <1>1, Zenon DEF StoreState
  <2>2. o \in Objects /\ states[o].initiated = states[o].lastSignState.HRS
    BY <2>1, BoundAssumption DEF StoreInv, StateInv, Objects
  <2>3. states[o].initiated \in HRSKey
    BY <2>2, Typing, Zenon
  <2>4. ~ GreaterThan(states[o].initiated, states[o].lastSignState.HRS)
    BY <2>2, <2>3 DEF GreaterThan, HRSKey
  <2>5. QED
    BY <2>1, <2>4, Zenon DEF InitiatedIsSettled, last
<1>2. ASSUME NEW t \in All, LoadOrCreateSignState(t), Others(t)  PROVE InitiatedIsSettled'
  <2>1. chainState # 0 => states'[chainState] = states[chainState]
    BY <1>a, <1>2, LoadedStore, Zenon
  <2>2. t \notin Attempting /\ UNCHANGED chainState
    BY <1>2, Zenon DEF LoadOrCreateSignState, Attempting
  <2>3. QED
    BY <1>a, <1>2, <2>1, <2>2, SettledFrame, Zenon
<1>3. ASSUME NEW t \in Threads, Sign(t) \/ \E r \in Requests : Receive(t, r)  PROVE InitiatedIsSettled'
  <2>1. Typed' /\ Others(t) /\ ThreadInv(t)' /\ t \in All /\ t # fsm
    BY <1>3, SignEffect, ThreadAssumption, Zenon DEF All
  <2>2. CASE StoreState(t) \/ LoadOrCreateSignState(t)
    BY <1>1, <1>2, <2>1, <2>2, Zenon
  <2>3. CASE SaveLastSignedStateInitiated(t)
    <3>1. chainState \in Objects /\ UNCHANGED <<chainState, req>> /\ t \notin Attempting
      BY <1>a, <2>3, Zenon DEF SaveLastSignedStateInitiated, ThreadInv, Attempting
    <3>2. CASE states' = [states EXCEPT ![chainState].initiated = req[t].HRS] /\ Goto(t, "attempt")
      <4>1. states'[chainState].initiated = req[t].HRS
        <5>1. Becomes(chainState, last, req[t].HRS)
          BY <3>1, <3>2, ObjectUpdate, Zenon DEF last
        <5>2. QED
          BY <5>1 DEF Becomes
      <4>2. t \in Attempting'
        BY <2>1, <3>2, Zenon DEF Goto, Typed, Attempting
      <4>3. QED
        BY <3>1, <4>1, <4>2, Zenon DEF InitiatedIsSettled
    <3>3. CASE UNCHANGED states
      BY <1>a, <2>1, <3>1, <3>3, SettledFrame, Zenon
    <3>4. QED
      BY <2>3, <3>2, <3>3, Zenon DEF SaveLastSignedStateInitiated
  <2>4. CASE notifyBlockSignError(t)
    BY <2>1, <2>4, SettledNotify, Zenon DEF notifyBlockSignError, ThreadInv
  <2>5. CASE SaveSignature(t)
    <3>1. /\ chainState # 0 /\ req[t] \in Requests /\ UNCHANGED <<chainState, loads, signed, req>>
          /\ sig[t] \in signed /\ Covers(sig[t], req[t].HRS, req[t].SignBytes)
      BY <2>5, Zenon DEF SaveSignature, ThreadInv, Matches, Covers, clusterVars, locals
    <3>2. req[t].HRS \in HRSKey /\ req[t].SignBytes \in SignBytes
      BY <3>1, Typing, Zenon
    <3>3. CASE SaveSucceeds(last, req[t].HRS) /\ Saved(req[t].HRS, req[t].SignBytes, sig[t])
      BY <2>1, <3>1, <3>2, <3>3, SettledSave, Zenon
    <3>4. CASE SameHRSError(last, req[t].HRS) /\ UNCHANGED states
      <4>1. ~ GreaterThan(req[t].HRS, last.HRS)
        BY <3>2, <3>4 DEF SameHRSError, GreaterThan, HRSKey
      <4>2. \A u \in Attempting : u = t \/ (u \in Attempting' /\ req'[u] = req[u])
        BY <2>1, Zenon DEF Attempting, Others, All
      <4>3. QED
        BY <3>1, <3>4, <4>1, <4>2, Zenon DEF InitiatedIsSettled, last
    <3>5. CASE Goto(t, "notify") /\ UNCHANGED states
      <4>1. t \in Attempting'
        BY <2>1, <3>5, Zenon DEF Goto, Typed, Attempting
      <4>2. QED
        BY <1>a, <2>1, <3>1, <3>5, <4>1, SettledFrame, Zenon
    <3>6. QED
      BY <2>5, <3>3, <3>4, <3>5, Zenon DEF SaveSignature
  <2>6. CASE AttemptSucceeds(t) \/ AttemptFails(t)
    <3>1. t \in Attempting' /\ req'[t] = req[t] /\ UNCHANGED stateVars
      BY <2>1, <2>6, Zenon DEF AttemptSucceeds, AttemptFails, Goto, Typed, Attempting, locals
    <3>2. QED
      BY <1>a, <2>1, <3>1, SettledFrame, Zenon DEF stateVars
  <2>7. CASE UNCHANGED stateVars /\ t \notin Attempting
    BY <1>a, <2>1, <2>7, SettledFrame, Zenon DEF stateVars
  <2>8. CASE Returns(t) \/ ShareSigned(t)
    BY <2>7, <2>8, Zenon DEF Returns, Proxied, ExistingSignature, signVoteExtension, ShareSigned, Attempting
  <2>9. QED
    BY <1>3, <2>2, <2>3, <2>4, <2>5, <2>6, <2>7, <2>8, SignCases, Zenon DEF Writes, Quiet
<1>4. CASE Apply \/ handleLSSEvent
  <2>1. Others(fsm) /\ fsm \in All /\ fsm \notin Threads /\ fsm \notin Attempting
    BY <1>4, FsmEffect, ThreadAssumption, Zenon DEF All, Attempting
  <2>2. CASE Apply \/ Load(fsm)
    BY <1>a, <2>1, <2>2, SettledFrame, Zenon DEF Apply, Load, stateVars
  <2>3. CASE SaveLastSignedState
    <3>1. /\ chainState # 0 /\ UNCHANGED <<chainState, loads, signed>> /\ req[fsm] \in signed
          /\ Covers(req[fsm], req[fsm].HRS, req[fsm].SignBytes)
      BY <2>3, Zenon DEF SaveLastSignedState, StoreInv, LogInv, Covers
    <3>2. req[fsm].HRS \in HRSKey /\ req[fsm].SignBytes \in SignBytes
      BY <3>1, Typing, Zenon DEF LogInv
    <3>3. CASE SaveSucceeds(last, req[fsm].HRS) /\ Saved(req[fsm].HRS, req[fsm].SignBytes, req[fsm])
      BY <2>1, <3>1, <3>2, <3>3, SettledSave, Zenon
    <3>4. CASE UNCHANGED states
      BY <1>a, <2>1, <3>1, <3>4, SettledFrame, Zenon
    <3>5. QED
      BY <2>3, <3>3, <3>4, Zenon DEF SaveLastSignedState
  <2>4. QED
    BY <1>1, <1>2, <1>4, <2>1, <2>2, <2>3, Zenon DEF handleLSSEvent, LoadSteps
<1>5. ASSUME NEW l \in {"me", "none", "other"}, ChangeLeader(l)  PROVE InitiatedIsSettled'
  BY <1>5, Zenon DEF ChangeLeader, InitiatedIsSettled, Attempting, last, stateVars, locals
<1>6. ASSUME NEW r \in Remote, RemoteSigns(r)  PROVE InitiatedIsSettled'
  BY <1>6, Zenon DEF RemoteSigns, InitiatedIsSettled, Attempting, last, stateVars, locals
<1>7. CASE Restart
  BY <1>7, Zenon DEF Restart, InitiatedIsSettled
<1>8. CASE UNCHANGED vars
  BY <1>8, Zenon DEF vars, InitiatedIsSettled, Attempting, last, stateVars, locals
<1>9. QED
  BY <1>3, <1>4, <1>5, <1>6, <1>7, <1>8, Zenon DEF Next

-----------------------------------------------------------------------------
(* IInv is an inductive invariant of Sign and the raft events.              *)
THEOREM InductiveInvariant == Spec => []IInv
<1>1. Init => IInv
  <2> SUFFICES ASSUME Init PROVE IInv
    BY Zenon
  <2>1. StateInv
    BY NewStateOK, BoundAssumption DEF Init, StateInv, Objects
  <2>2. LogInv
    BY DEF Init, LogInv, Each, All
  <2>3. Typed
    BY BoundAssumption DEF Init, Typed, Each, Points
  <2>4. AnswerInv /\ ResponseVerifies /\ InitiatedIsSettled
    BY Zenon DEF Init, AnswerInv, ResponseVerifies, InitiatedIsSettled
  <2>5. StoreInv /\ \A t \in Threads : ThreadInv(t)
    BY Zenon DEF Init, StoreInv, ThreadInv, Each, All
  <2>6. QED
    BY <2>1, <2>2, <2>3, <2>4, <2>5, Zenon DEF IInv
<1>2. IInv /\ [Next]_vars => IInv'
  BY StateStep, TypedStep, LogStep, ThreadStep, AnswerStep, StoreStep, SettledStep, Zenon DEF IInv
<1>3. QED
  BY <1>1, <1>2, PTL DEF Spec

(* Every variable has its type, with any number of signatures, sign states, *)
(* log entries and threads.                                                 *)
THEOREM TypeCorrectness == Spec => []TypeOK
<1>1. IInv => TypeOK
  <2> SUFFICES ASSUME IInv PROVE TypeOK
    BY Zenon
  <2>a. StateInv /\ LogInv /\ Typed /\ AnswerInv /\ signed \subseteq Signature
    BY Zenon DEF IInv, LogInv
  <2>b. FileSet(signed) \subseteq FileSet(Signature) /\ EntrySet(signed) \subseteq EntrySet(Signature)
    BY <2>a, Zenon DEF FileSet, EntrySet
  <2>1. ASSUME NEW o \in Objects
        PROVE  IsSignState(states[o].lastSignState) /\ states[o].initiated \in HRSKey
    <3> DEFINE ss == states[o].lastSignState
    <3>1. StateOK(ss, signed) /\ states[o].initiated \in HRSKey
      BY <2>a, Typing, Zenon
    <3> HIDE DEF ss
    <3>2. lockedCopy(ss) \in FileSet(Signature)
      BY <2>b, <3>1, Zenon DEF StateOK, FileOK
    <3>3. ss.HRS \in HRSKey /\ ss.SignBytes \in SignBytes \cup {Nil} /\ ss.Signature \in Signature \cup {Nil}
      BY <3>2, Zenon DEF FileSet, lockedCopy
    <3>4. DOMAIN ss.cache \subseteq HRSKey /\ \A h \in DOMAIN ss.cache : ss.cache[h] \in EntrySet(Signature)
      BY <2>b, <3>1, Zenon DEF StateOK
    <3>5. IsSignState(ss)
      BY <3>3, <3>4, Zenon DEF IsSignState, EntrySet
    <3>6. QED
      BY <3>1, <3>5, Zenon DEF ss
  <2>2. disk \subseteq FileSet(Signature) \cup {Nil}
    BY <2>a, <2>b, Zenon DEF StateInv, FileOK
  <2>3. \A t \in Threads : req[t] \in Requests \cup {Nil}
    BY Zenon DEF IInv, ThreadInv
  <2>4. chainState \in 0 .. MaxLoads /\ loads \in 0 .. MaxLoads
    BY <2>a, BoundAssumption DEF StateInv
  <2>5. QED
    BY <2>a, <2>1, <2>2, <2>3, <2>4, Zenon DEF TypeOK, FileSet, LogInv, Typed, AnswerInv, Points
<1>2. QED
  BY <1>1, InductiveInvariant, PTL

(* Whatever Sign returns is for the request: its height, round and step,    *)
(* its block if it is a vote, and its extension.  It covers the timestamp   *)
(* returned, but for one that RemoteCosigner.Sign kept from the request     *)
(* because the leader sent none.                                            *)
THEOREM ResponsesVerify == Spec => []ResponseVerifies
<1>1. IInv => ResponseVerifies
  BY Zenon DEF IInv
<1>2. QED
  BY <1>1, InductiveInvariant, PTL

(* No request waits for a signature that nobody is making: the initiated    *)
(* HRS is being signed, is in the cache, or is behind the watermark.        *)
THEOREM InitiatedHRSIsSettled == Spec => []InitiatedIsSettled
<1>1. IInv => InitiatedIsSettled
  BY Zenon DEF IInv
<1>2. QED
  BY <1>1, InductiveInvariant, PTL

-----------------------------------------------------------------------------
(* The number of steps left from each control point.                        *)
LEMMA StepsLeft ==
    ASSUME NEW w \in 0 .. MaxWait
    PROVE  /\ StepsFrom("idle", w) = 0 /\ StepsFrom("proxied", w) = 1 /\ StepsFrom("signExt", w) = 1 /\ StepsFrom("saveLSS", w) = 1
           /\ StepsFrom("notify", w) = 1 /\ StepsFrom("share", w) = 1 /\ StepsFrom("existing", w) = 2
           /\ StepsFrom("save", w) = 2 /\ StepsFrom("attempt", w) = 3 /\ StepsFrom("wait", w) = MaxWait - w + 4
           /\ StepsFrom("same", w) = MaxWait + 5 /\ StepsFrom("behind", w) = MaxWait + 5
           /\ StepsFrom("initiate", w) = MaxWait + 6 /\ StepsFrom("proxy", w) = MaxWait + 7
           /\ StepsFrom("store", w) = MaxWait + 8 /\ StepsFrom("read", w) = MaxWait + 9
           /\ StepsFrom("load", w) = MaxWait + 10
BY DEF StepsFrom

(* One control point is closer to the return than another, whatever waits   *)
(* are done at it.                                                          *)
Closer(l, k) == \A v, w \in 0 .. MaxWait : StepsFrom(l, v) < StepsFrom(k, w)

(* The control points of Sign are in order: a step goes from the second of  *)
(* a pair to the first.                                                     *)
LEMMA PointsInOrder ==
    /\ \A k \in Points \ {"idle"} : Closer("idle", k)
    /\ Closer("read", "load") /\ Closer("proxy", "load") /\ Closer("store", "read") /\ Closer("proxy", "store")
    /\ Closer("initiate", "proxy") /\ Closer("proxied", "proxy")
    /\ \A l \in {"attempt", "same", "behind"} : Closer(l, "initiate")
    /\ \A k \in {"same", "behind"}, l \in {"existing", "attempt", "wait"} : Closer(l, k)
    /\ Closer("existing", "wait") /\ Closer("attempt", "wait") /\ Closer("signExt", "existing")
    /\ Closer("save", "attempt") /\ Closer("notify", "attempt")
    /\ Closer("share", "save") /\ Closer("notify", "save")
BY StepsLeft, BoundAssumption DEF Points, Closer

(* A step of Sign goes to a control point that is closer to its return, or  *)
(* has done one more wait.                                                  *)
LEMMA SignProgress ==
    ASSUME Typed, Typed', NEW t \in Threads, Sign(t)
    PROVE  StepsFrom(pc'[t], waits'[t]) < StepsFrom(pc[t], waits[t])
<1>a. t \in All /\ t # fsm /\ \A l : Goto(t, l) => pc'[t] = l
  BY ThreadAssumption, Zenon DEF Typed, All, Goto
<1>b. pc[t] \in Points /\ waits[t] \in 0 .. MaxWait /\ waits'[t] \in 0 .. MaxWait
  BY <1>a, Zenon DEF Typed
<1>c. ASSUME Closer(pc'[t], pc[t])  PROVE StepsFrom(pc'[t], waits'[t]) < StepsFrom(pc[t], waits[t])
  BY <1>b, <1>c, Zenon DEF Closer
<1>d. ASSUME Return(t), pc[t] # "idle"  PROVE Closer(pc'[t], pc[t])
  BY <1>a, <1>b, <1>d, PointsInOrder, Zenon DEF Return
<1>1. CASE LoadSteps(t)
  BY <1>a, <1>c, <1>1, PointsInOrder, Zenon DEF LoadSteps, Load, LoadOrCreateSignState, StoreState, Loaded
<1>2. CASE proxyIfNecessary(t)
  BY <1>a, <1>c, <1>d, <1>2, PointsInOrder, Zenon DEF proxyIfNecessary, ReturnError
<1>3. CASE Returns(t)
  BY <1>a, <1>c, <1>d, <1>3, PointsInOrder, Zenon
     DEF Returns, Proxied, ExistingSignature, signVoteExtension, Respond, ReturnError
<1>4. CASE Writes(t)
  BY <1>a, <1>c, <1>d, <1>4, PointsInOrder, Zenon
     DEF Writes, SaveLastSignedStateInitiated, notifyBlockSignError, SaveSignature, ReturnError
<1>5. CASE AttemptSucceeds(t) \/ AttemptFails(t) \/ ShareSigned(t)
  BY <1>a, <1>c, <1>d, <1>5, PointsInOrder, Zenon DEF AttemptSucceeds, AttemptFails, ShareSigned, Respond
<1>e. ASSUME NEW e, UseEntry(t, e), pc[t] \in {"same", "behind", "wait"}  PROVE Closer(pc'[t], pc[t])
  BY <1>a, <1>d, <1>e, PointsInOrder, Zenon DEF UseEntry, ReturnError
<1>6. CASE getExistingBlockSignature(t)
  BY <1>a, <1>c, <1>d, <1>e, <1>6, PointsInOrder, Zenon DEF getExistingBlockSignature, ReturnError
<1>7. CASE Wait(t)
  <2>1. CASE pc[t] = "wait" /\ waits[t] < MaxWait /\ waits' = [waits EXCEPT ![t] = @ + 1] /\ UNCHANGED pc
    <3>1. waits'[t] = waits[t] + 1
      BY <1>a, <2>1, Zenon DEF Typed
    <3>. QED
      BY <1>b, <2>1, <3>1, StepsLeft, BoundAssumption
  <2>. QED
    BY <1>c, <1>d, <1>e, <1>7, <2>1, Zenon DEF Wait, ReturnError
<1>. QED
  BY <1>1, <1>2, <1>3, <1>4, <1>5, <1>6, <1>7, Zenon DEF Sign, Returns, Writes

(* A call of Sign returns within MaxWait + 10 steps of its own, whatever    *)
(* happens around it: what remains of SignReturns is that the scheduler     *)
(* lets it take them.                                                       *)
THEOREM SignNeverStartsOver == Spec => SignAdvances
<1>. DEFINE Advances ==
       \A t \in Threads :
          pc[t] # "idle" =>
              \/ StepsFrom(pc'[t], waits'[t]) < StepsFrom(pc[t], waits[t])
              \/ UNCHANGED <<pc[t], req[t], css[t], waits[t], sig[t], stamp[t]>>
<1>1. ASSUME IInv, [Next]_vars  PROVE Advances
  <2>. SUFFICES ASSUME NEW t \in Threads, pc[t] # "idle"
                PROVE  \/ StepsFrom(pc'[t], waits'[t]) < StepsFrom(pc[t], waits[t])
                       \/ UNCHANGED <<pc[t], req[t], css[t], waits[t], sig[t], stamp[t]>>
    BY Zenon
  <2>a. StateInv /\ LogInv /\ Typed /\ StoreInv /\ \A u \in Threads : ThreadInv(u)
    BY <1>1, Zenon DEF IInv
  <2>b. Typed'
    BY <1>1, <2>a, TypedStep, Zenon
  <2>c. ASSUME NEW u \in All, u # t, Others(u)
        PROVE  UNCHANGED <<pc[t], req[t], css[t], waits[t], sig[t], stamp[t]>>
    BY <2>c, Zenon DEF Others, All
  <2>1. ASSUME NEW u \in Threads, Sign(u) \/ \E r \in Requests : Receive(u, r), u # t
        PROVE  UNCHANGED <<pc[t], req[t], css[t], waits[t], sig[t], stamp[t]>>
    BY <2>a, <2>c, <2>1, SignEffect, Zenon DEF All
  <2>2. ASSUME Sign(t) \/ \E r \in Requests : Receive(t, r)
        PROVE  StepsFrom(pc'[t], waits'[t]) < StepsFrom(pc[t], waits[t])
    BY <2>a, <2>b, <2>2, SignProgress, Zenon DEF Receive
  <2>3. CASE Apply \/ handleLSSEvent
    BY <2>a, <2>c, <2>3, FsmEffect, ThreadAssumption, Zenon DEF All
  <2>4. CASE \/ \E l \in {"me", "none", "other"} : ChangeLeader(l)
             \/ \E r \in Remote : RemoteSigns(r)
             \/ UNCHANGED vars
    BY <2>4, Zenon DEF ChangeLeader, RemoteSigns, vars, locals
  <2>5. CASE Restart
    <3>1. pc'[t] = "idle" /\ pc[t] \in Points
          /\ waits[t] \in 0 .. MaxWait /\ waits'[t] \in 0 .. MaxWait
      BY <2>a, <2>b, <2>5, Zenon DEF Restart, Each, All, Typed
    <3>. QED
      BY <3>1, PointsInOrder, Zenon DEF Closer
  <2>. QED
    BY <1>1, <2>1, <2>2, <2>3, <2>4, <2>5, Zenon DEF Next
<1>. QED
  BY <1>1, InductiveInvariant, PTL DEF Spec, SignAdvances
=============================================================================
