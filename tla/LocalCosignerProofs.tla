------------------------ MODULE LocalCosignerProofs ------------------------
(***************************************************************************)
(* Double-sign protection of LocalCosigner, for every set of threads,      *)
(* requests, nonce rounds and peers and every bound: what keeps SafetyInv, *)
(* first as facts about sign states and the votes committed under them,    *)
(* then for each shape of step; that every action keeps it, which with     *)
(* TypeInv makes an inductive invariant; and what follows from it.         *)
(***************************************************************************)
EXTENDS LocalCosignerNonces

USE BoundAssumption

(* The three ways a vote becomes committed.  A vote saved at a new          *)
(* watermark cannot meet an earlier one.                                    *)
LEMMA SaveProtects ==
    ASSUME NEW ss, IsSignState(ss), NEW votes, \A v \in votes : v.HRS \in HRSKey,
           NEW hrs \in HRSKey, NEW bytes \in SignBytes, NEW sig \in Nat,
           GreaterThan(hrs, ss.HRS), Protects(ss, votes)
    PROVE  LET next == blockDoubleSign(ss, hrs, bytes, sig)
           IN  /\ Protects(next, votes \cup {[HRS |-> hrs, block |-> bytes.block]})
               /\ NotAhead(lockedCopy(next), next)
               /\ \A f \in File : NotAhead(f, ss) => NotAhead(f, next)
<1> DEFINE next == blockDoubleSign(ss, hrs, bytes, sig)
           vote0 == [HRS |-> hrs, block |-> bytes.block]
<1>1. ss.HRS \in HRSKey
    BY Zenon DEF IsSignState, lockedCopy, File
<1>2. \A h \in HRSKey : ~ GreaterThan(h, ss.HRS) => ~ GreaterThan(h, hrs) /\ h # hrs
    BY Zenon, <1>1, GreaterThanIsTotalOrder
<1>3. \A v \in votes : ~ GreaterThan(v.HRS, hrs) /\ v.HRS # hrs
    BY Zenon, <1>2 DEF Protects, CoveredBy, lockedCopy
<1>4. bytes # Nil /\ ~ GreaterThan(hrs, hrs)
    BY Zenon, NilIsNotSignBytes, GreaterThanIsTotalOrder
<1>5. next.HRS = hrs /\ next.SignBytes = bytes /\ lockedCopy(next).HRS = hrs /\ lockedCopy(next).SignBytes = bytes
    BY Zenon DEF blockDoubleSign, lockedCopy
<1>6. \A h \in DOMAIN next.cache :
         IF h = hrs THEN next.cache[h].SignBytes = bytes
                    ELSE h \in DOMAIN ss.cache /\ next.cache[h] = ss.cache[h]
    BY Zenon DEF blockDoubleSign, Entry
<1>7. lockedCopy(next) # Nil
    BY Zenon, SavedStateType, NilAssumption
<1>8. DOMAIN ss.cache \subseteq HRSKey /\ \A h \in DOMAIN ss.cache : ~ GreaterThan(h, ss.HRS)
    BY Zenon DEF IsSignState, Protects, CacheAgrees
<1> HIDE DEF next
<1>9. Consistent(votes \cup {vote0})
    BY <1>3 DEF Protects, Consistent
<1>10. CoveredBy(lockedCopy(next), votes \cup {vote0})
    BY <1>3, <1>4, <1>5, <1>7 DEF CoveredBy
<1>11. CacheAgrees(next, votes \cup {vote0})
    BY <1>2, <1>3, <1>4, <1>5, <1>6, <1>8 DEF Protects, CacheAgrees
<1>12. NotAhead(lockedCopy(next), next)
    BY Zenon, <1>4, <1>5 DEF NotAhead
<1>13. \A f \in File : NotAhead(f, ss) => NotAhead(f, next)
    BY Zenon, <1>2, <1>5 DEF NotAhead, File
<1> QED BY <1>9, <1>10, <1>11, <1>12, <1>13 DEF Protects, next

(* A vote that the re-check lets through is for the block at the watermark. *)
LEMMA RecheckProtects ==
    ASSUME NEW ss, IsSignState(ss), NEW votes, \A v \in votes : v.HRS \in HRSKey,
           NEW hrs \in HRSKey, NEW bytes \in SignBytes,
           ~ GreaterThan(hrs, ss.HRS), Protects(ss, votes),
           ~ errorIfConflictOrRegression(ss, hrs, bytes)
    PROVE  Protects(ss, votes \cup {[HRS |-> hrs, block |-> bytes.block]})
<1>1. ss.HRS \in HRSKey
    BY Zenon DEF IsSignState, lockedCopy, File
<1>2. ss.HRS = hrs
    BY Zenon, <1>1, GreaterThanIsTotalOrder DEF errorIfConflictOrRegression
<1>3. ss.SignBytes # Nil /\ ss.SignBytes.block = bytes.block
    BY Zenon, <1>2 DEF errorIfConflictOrRegression, OnlyDifferByTimestamp
<1>4. lockedCopy(ss) # Nil /\ lockedCopy(ss).HRS = hrs /\ lockedCopy(ss).SignBytes = ss.SignBytes
    BY Zenon, <1>2, NilAssumption DEF lockedCopy, IsSignState
<1>5. \A v \in votes : v.HRS = hrs => v.block = bytes.block
    BY Zenon, <1>3, <1>4 DEF Protects, CoveredBy
<1> DEFINE new == [HRS |-> hrs, block |-> bytes.block]
           all == votes \cup {new}
<1>6. \A v \in all : v \in votes \/ (v.HRS = hrs /\ v.block = bytes.block)
    <2>1. new.HRS = hrs /\ new.block = bytes.block
        BY Zenon
    <2> HIDE DEF new
    <2> QED BY <2>1
<1> HIDE DEF all
<1>7. Consistent(all)
    BY Zenon, <1>5, <1>6 DEF Protects, Consistent
<1>8. CoveredBy(lockedCopy(ss), all)
    BY Zenon, <1>1, <1>2, <1>3, <1>4, <1>6, GreaterThanIsTotalOrder DEF Protects, CoveredBy
<1>9. CacheAgrees(ss, all)
    BY Zenon, <1>2, <1>3, <1>6 DEF Protects, CacheAgrees
<1> QED BY <1>7, <1>8, <1>9 DEF Protects, all

(* A vote found in the cache is the one signed at its HRS.                  *)
LEMMA CacheHitProtects ==
    ASSUME NEW ss, IsSignState(ss), NEW votes, Protects(ss, votes),
           NEW hrs \in DOMAIN ss.cache, NEW bytes \in SignBytes,
           ss.cache[hrs].SignBytes = bytes
    PROVE  Protects(ss, votes \cup {[HRS |-> hrs, block |-> bytes.block]})
<1>1. bytes # Nil
    BY Zenon, NilIsNotSignBytes
<1>2. lockedCopy(ss) # Nil /\ lockedCopy(ss).HRS = ss.HRS /\ lockedCopy(ss).SignBytes = ss.SignBytes
    BY Zenon, NilAssumption DEF lockedCopy, IsSignState
<1>3. \A v \in votes : v.HRS = hrs => v.block = bytes.block
    BY Zenon DEF Protects, CacheAgrees
<1>4. ~ GreaterThan(hrs, ss.HRS) /\ (hrs = ss.HRS => ss.SignBytes = bytes)
    BY Zenon DEF Protects, CacheAgrees
<1> DEFINE new == [HRS |-> hrs, block |-> bytes.block]
           all == votes \cup {new}
<1>5. \A v \in all : v \in votes \/ (v.HRS = hrs /\ v.block = bytes.block)
    <2>1. new.HRS = hrs /\ new.block = bytes.block
        BY Zenon
    <2> HIDE DEF new
    <2> QED BY <2>1
<1> HIDE DEF all
<1>6. Consistent(all)
    BY Zenon, <1>3, <1>5 DEF Protects, Consistent
<1>7. CoveredBy(lockedCopy(ss), all)
    BY Zenon, <1>1, <1>2, <1>4, <1>5 DEF Protects, CoveredBy
<1>8. CacheAgrees(ss, all)
    BY Zenon, <1>1, <1>5 DEF Protects, CacheAgrees
<1> QED BY <1>6, <1>7, <1>8 DEF Protects, all

(* Fewer votes need less.                                                   *)
LEMMA FewerVotes ==
    ASSUME NEW ss, NEW f, NEW votes, NEW fewer \in SUBSET votes
    PROVE  /\ Protects(ss, votes) => Protects(ss, fewer)
           /\ Consistent(votes) => Consistent(fewer)
           /\ CoveredBy(f, votes) => CoveredBy(f, fewer)
BY DEF Protects, Consistent, CoveredBy, CacheAgrees

-----------------------------------------------------------------------------
(* Committed votes are at well-formed heights, rounds and steps.            *)
LEMMA CommittedTypes ==
    ASSUME TypeInv
    PROVE  \A v \in Committed : v.HRS \in HRSKey
<1>1. \A s \in shares : s.HRS \in HRSKey
    BY Zenon DEF TypeInv, TypeOK, Response
<1>2. \A t \in Threads : pc[t] \in {"reply", "extOnly"} => req[t].HRS \in HRSKey
    BY Zenon, RequestAssumption DEF TypeInv, ThreadInv, Request
<1> QED BY <1>1, <1>2 DEF Committed, Vote

(* The sign state in the map is one that was loaded, and is typed.          *)
LEMMA InUseTypes ==
    ASSUME TypeInv, chainState # 0
    PROVE  /\ chainState \in Objects /\ IsSignState(signStates[chainState])
           /\ signStates[chainState].HRS \in HRSKey
<1>1. chainState \in Objects /\ IsSignState(signStates[chainState])
    BY DEF TypeInv, TypeOK, Objects
<1> QED BY <1>1 DEF IsSignState, lockedCopy, File

(* A step of thread t leaves the other threads alone.                       *)
OnlyThread(t) ==
    \A u \in Threads \ {t} : pc'[u] = pc[u] /\ req'[u] = req[u] /\ ccs'[u] = ccs[u]

(* A step of one handler that does not reach the reply commits nothing.     *)
LEMMA NothingCommitted ==
    ASSUME NEW t \in Threads, OnlyThread(t), shares' = shares,
           pc'[t] \in {"reply", "extOnly"} => pc[t] \in {"reply", "extOnly"} /\ req'[t] = req[t]
    PROVE  Committed' \in SUBSET Committed
<1> SUFFICES ASSUME NEW v \in Committed'
             PROVE  v \in Committed
    BY Zenon
<1>1. CASE \E s \in shares' : v = Vote(s)
    BY Zenon, <1>1 DEF Committed
<1>2. ASSUME NEW u \in Threads, pc'[u] \in {"reply", "extOnly"}, v = Vote(req'[u])
      PROVE  v \in Committed
    <2>1. pc[u] \in {"reply", "extOnly"} /\ req'[u] = req[u]
        BY Zenon, <1>2 DEF OnlyThread
    <2> QED BY <1>2, <2>1 DEF Committed
<1> QED BY <1>1, <1>2 DEF Committed

(* A step of one handler commits at most the vote of its own request.       *)
LEMMA OneCommitted ==
    ASSUME NEW t \in Threads, OnlyThread(t), shares' = shares, req' = req
    PROVE  Committed' \in SUBSET (Committed \cup {Vote(req[t])})
<1> SUFFICES ASSUME NEW v \in Committed'
             PROVE  v \in Committed \/ v = Vote(req[t])
    BY Zenon
<1>1. CASE \E s \in shares' : v = Vote(s)
    BY Zenon, <1>1 DEF Committed
<1>2. ASSUME NEW u \in Threads, pc'[u] \in {"reply", "extOnly"}, v = Vote(req'[u])
      PROVE  v \in Committed \/ v = Vote(req[t])
    BY Zenon, <1>2 DEF OnlyThread, Committed
<1> QED BY <1>1, <1>2 DEF Committed

(* A step that commits nothing and leaves the sign states and their copies  *)
(* alone only has to say where its thread is.                               *)
LEMMA QuietStep ==
    ASSUME SafetyInv, NEW t \in Threads, OnlyThread(t),
           UNCHANGED <<chainState, signStates, file, pending>>,
           Committed' \in SUBSET Committed,
           chainState # 0 => InUseThread(t)',
           chainState = 0 => LoadingThread(t)'
    PROVE  SafetyInv'
<1>1. CASE chainState # 0
    <2>1. Protects(signStates[chainState], Committed')
        BY Zenon, <1>1, FewerVotes DEF SafetyInv, InUseInv
    <2>2. \A u \in Threads : InUseThread(u)'
        BY Zenon, <1>1 DEF SafetyInv, InUseInv, InUseThread, OnlyThread
    <2> QED BY <1>1, <2>1, <2>2 DEF SafetyInv, InUseInv, ZeroInv, Current
<1>2. CASE chainState = 0
    <2>1. Consistent(Committed') /\ CoveredBy(file, Committed')
        BY Zenon, <1>2, FewerVotes DEF SafetyInv, LoadingInv
    <2>2. \A u \in Threads : LoadingThread(u)'
        BY Zenon, <1>2 DEF SafetyInv, LoadingInv, LoadingThread, OnlyThread
    <2> QED BY <1>2, <2>1, <2>2 DEF SafetyInv, LoadingInv, ZeroInv, Current
<1> QED BY <1>1, <1>2

(* A step that commits its thread's vote, under a sign state that protects  *)
(* it as well and is not behind the one there was.                          *)
LEMMA CommitStep ==
    ASSUME TypeInv, SafetyInv, chainState # 0, NEW t \in Threads, OnlyThread(t),
           UNCHANGED <<chainState, file>>,
           InUseThread(t)',
           ~ GreaterThan(signStates[chainState].HRS, signStates'[chainState].HRS),
           signStates'[chainState].HRS \in HRSKey,
           Protects(signStates'[chainState], Committed'),
           NotAhead(file, signStates'[chainState]),
           \A w \in pending' : NotAhead(w.copy, signStates'[chainState]),
           signStates'[chainState].HRS = ZeroHRS => signStates'[chainState].SignBytes = Nil
    PROVE  SafetyInv'
<1>1. \A u \in Threads : InUseThread(u)'
    <2> SUFFICES ASSUME NEW u \in Threads \ {t}
                 PROVE  InUseThread(u)'
        BY Zenon
    <2>1. InUseThread(u) /\ pc'[u] = pc[u] /\ req'[u] = req[u] /\ ccs'[u] = ccs[u]
        BY Zenon DEF SafetyInv, InUseInv, OnlyThread
    <2>2. pc[u] = "recheck" => req[u].HRS \in HRSKey
        BY Zenon, RequestAssumption DEF TypeInv, ThreadInv, Request
    <2>3. signStates[chainState].HRS \in HRSKey
        BY Zenon, InUseTypes
    <2>4. ASSUME pc[u] = "recheck"
          PROVE  ~ GreaterThan(req[u].HRS, signStates'[chainState].HRS)
        <3>1. req[u].HRS \in HRSKey /\ ~ GreaterThan(req[u].HRS, signStates[chainState].HRS)
            BY Zenon, <2>1, <2>2, <2>4 DEF InUseThread
        <3> QED BY <2>3, <3>1, GreaterThanIsTotalOrder
    <2> QED BY <2>1, <2>4 DEF InUseThread
<1>2. InUseInv'
    BY Zenon, <1>1 DEF SafetyInv, InUseInv
<1> QED BY SMTT(30), <1>2 DEF SafetyInv, ZeroInv, Current, lockedCopy

-----------------------------------------------------------------------------
(* Before any load no vote is committed and there is no file.               *)
LEMMA InitSafety == Init => SafetyInv
<1> SUFFICES ASSUME Init
             PROVE  SafetyInv
    BY Zenon
<1>1. chainState = 0 /\ file = Nil /\ pending = {} /\ \A t \in Threads : pc[t] = "idle"
    BY Zenon DEF Init, Each
<1>2. Committed = {}
    BY Zenon, <1>1 DEF Init, Committed
<1>3. LoadingInv
    BY Zenon, <1>1, <1>2 DEF LoadingInv, LoadingThread, Signing, Consistent, CoveredBy
<1> QED BY <1>1, <1>3 DEF SafetyInv, ZeroInv, Current

(* The steps that only move a thread.                                       *)
LEMMA MoveSafety ==
    ASSUME TypeInv, SafetyInv, NEW t \in Threads, OnlyThread(t),
           UNCHANGED <<chainState, signStates, file, pending, shares>>,
           \/ pc'[t] \in {"idle", "load", "stat", "loaded", "nonces", "badNonces", "get"}
           \/ pc'[t] = "create" /\ file = Nil
           \/ /\ pc[t] \in Signing /\ ccs'[t] = ccs[t]
              /\ pc'[t] \in {"cached", "consume", "consumeExt", "save", "fail"}
           \/ /\ pc[t] = "get" /\ ccs'[t] = chainState
              /\ pc'[t] \in {"check", "saveLSS"}
           \/ /\ pc[t] = "save" /\ pc'[t] = "recheck" /\ ccs'[t] = ccs[t] /\ req'[t] = req[t]
              /\ req[t].HRS = signStates[ccs[t]].HRS
           \/ pc[t] = "extOnly" /\ pc'[t] = "reply" /\ ccs'[t] = ccs[t] /\ req'[t] = req[t]
    PROVE  SafetyInv'
<1>1. Committed' \in SUBSET Committed
    BY Zenon, NothingCommitted DEF Signing
<1>2. chainState = 0 => LoadingThread(t)'
    <2> SUFFICES ASSUME chainState = 0
                 PROVE  LoadingThread(t)'
        BY Zenon
    <2>1. pc[t] \notin Signing /\ pc[t] # "get"
        BY Zenon DEF SafetyInv, LoadingInv, LoadingThread, TypeInv, ThreadInv
    <2> QED BY <2>1 DEF LoadingThread, Signing
<1>3. chainState # 0 => InUseThread(t)'
    <2> SUFFICES ASSUME chainState # 0
                 PROVE  InUseThread(t)'
        BY Zenon, SMTT(30)
    <2>1. pc[t] \in Signing => ccs[t] = chainState
        BY Zenon DEF SafetyInv, InUseInv, InUseThread
    <2>2. ~ GreaterThan(signStates[chainState].HRS, signStates[chainState].HRS)
        BY InUseTypes, GreaterThanIsTotalOrder
    <2> QED BY SMTT(30), <2>1, <2>2 DEF InUseThread, Signing
<1> QED BY <1>1, <1>2, <1>3, QuietStep

(* A sign state made by a loading thread is a new one: no thread has it yet. *)
LEMMA NewStateSafety ==
    ASSUME TypeInv, SafetyInv, NEW t \in Threads, OnlyThread(t),
           UNCHANGED <<chainState, pending, shares>>,
           loads < MaxLoads, NEW ss,
           signStates' = [signStates EXCEPT ![loads + 1] = ss],
           pc'[t] = "store", ccs'[t] = loads + 1,
           \/ file # Nil /\ file' = file /\ ss = FreshCache(file)
           \/ pc[t] = "create" /\ file' = EmptyFile /\ ss = EmptyState
    PROVE  SafetyInv'
<1>1. Committed' \in SUBSET Committed
    BY Zenon, NothingCommitted
<1>2. /\ signStates'[loads + 1] = ss
      /\ \A o \in Objects : o <= loads => signStates'[o] = signStates[o]
    BY SMTT(30) DEF TypeInv, TypeOK, Objects
<1>3. CASE chainState # 0
    <2>1. signStates'[chainState] = signStates[chainState]
        BY Zenon, <1>2, <1>3, InUseTypes DEF TypeInv
    <2>2. Protects(signStates[chainState], Committed')
        BY Zenon, <1>1, <1>3, FewerVotes DEF SafetyInv, InUseInv
    <2>3. \A u \in Threads : InUseThread(u)'
        BY Zenon, <1>3, <2>1 DEF SafetyInv, InUseInv, InUseThread, OnlyThread, Signing
    <2>4. file' # Nil /\ NotAhead(file', signStates[chainState])
        <3>1. CASE file' = file
            BY Zenon, <1>3, <3>1 DEF SafetyInv, InUseInv
        <3>2. CASE file' = EmptyFile
            <4>1. ~ GreaterThan(ZeroHRS, signStates[chainState].HRS)
                BY <1>3, InUseTypes DEF GreaterThan, ZeroHRS, HRSKey
            <4>2. signStates[chainState].HRS = ZeroHRS => signStates[chainState].SignBytes = Nil
                <5>1. lockedCopy(signStates[chainState]) # Nil
                    BY Zenon, <1>3, InUseTypes, NilAssumption DEF IsSignState
                <5> QED BY <1>3, <5>1 DEF SafetyInv, ZeroInv, Current, lockedCopy
            <4>3. EmptyFile # Nil
                BY Zenon, EmptyStateType, NilAssumption
            <4> QED BY <3>2, <4>1, <4>2, <4>3 DEF NotAhead, EmptyFile
        <3> QED BY <3>1, <3>2
    <2> QED BY SMTT(30), <1>3, <2>1, <2>2, <2>3, <2>4 DEF SafetyInv, InUseInv, ZeroInv, Current
<1>4. CASE chainState = 0
    <2>1. file' = file \/ file = Nil
        BY Zenon, <1>4 DEF SafetyInv, LoadingInv, LoadingThread
    <2>2. Consistent(Committed') /\ CoveredBy(file', Committed')
        <3>1. Consistent(Committed') /\ CoveredBy(file, Committed')
            BY Zenon, <1>1, <1>4, FewerVotes DEF SafetyInv, LoadingInv
        <3> QED BY <2>1, <3>1 DEF CoveredBy
    <2>3. file' \in File /\ file' # Nil /\ lockedCopy(ss) = file'
        <3>1. lockedCopy(EmptyState) = EmptyFile
            BY Zenon DEF lockedCopy, EmptyState, EmptyFile
        <3>2. \A f \in File : lockedCopy(FreshCache(f)) = f
            BY DEF lockedCopy, FreshCache, File
        <3> QED BY SMTT(30), <3>1, <3>2, EmptyStateType, NilAssumption DEF TypeInv, TypeOK
    <2>4. LoadingThread(t)'
        BY Zenon, <1>2, <2>3 DEF LoadingThread, Signing
    <2>5. ASSUME NEW u \in Threads \ {t}
          PROVE  LoadingThread(u)'
        <3>1. LoadingThread(u) /\ pc'[u] = pc[u] /\ ccs'[u] = ccs[u]
            BY Zenon, <1>4 DEF SafetyInv, LoadingInv, OnlyThread
        <3>2. pc[u] = "store" => signStates'[ccs[u]] = signStates[ccs[u]]
            BY SMTT(30), <1>2 DEF TypeInv, TypeOK, ThreadInv, Objects
        <3>3. pc[u] = "store" => file' = file
            BY Zenon, <2>1, <3>1 DEF LoadingThread
        <3>4. pc[u] = "create" => file' \in {Nil, EmptyFile}
            BY Zenon, <2>1, <3>1 DEF LoadingThread
        <3> QED BY SMTT(30), <3>1, <3>2, <3>3, <3>4 DEF LoadingThread
    <2>6. ZeroInv'
        BY SMTT(30), <1>4, <2>1 DEF SafetyInv, ZeroInv, Current, EmptyFile
    <2> QED BY <1>4, <2>2, <2>4, <2>5, <2>6 DEF SafetyInv, LoadingInv
<1> QED BY SMTT(30), <1>3, <1>4

(* The first sign state stored is the file's.                               *)
LEMMA StoreStateSafety ==
    ASSUME TypeInv, TypeInv', SafetyInv, NEW t \in Threads, StoreState(t), ~ forgetful'
    PROVE  SafetyInv'
<1> DEFINE ss == signStates[ccs[t]]
<1>1. chainState = 0 /\ pc[t] = "store" /\ chainState' = ccs[t] /\ ccs[t] # 0 /\ UNCHANGED <<signStates, file, pending>>
    BY Zenon DEF StoreState, TypeInv, ThreadInv
<1>2. OnlyThread(t) /\ shares' = shares /\ pc'[t] = "loaded"
    BY Zenon DEF StoreState, OnlyThread, Goto, locals, TypeInv, TypeOK
<1>3. Committed' \in SUBSET Committed
    BY Zenon, <1>2, NothingCommitted
<1>4. file # Nil /\ ss \in {FreshCache(file), EmptyState} /\ lockedCopy(ss) = file
    BY Zenon, <1>1 DEF SafetyInv, LoadingInv, LoadingThread
<1>5. ss.HRS = file.HRS /\ ss.SignBytes = file.SignBytes
    BY Zenon, <1>4 DEF lockedCopy
<1>6. \A h \in DOMAIN ss.cache : h = file.HRS /\ ss.cache[h].SignBytes = file.SignBytes
    BY SMTT(30), <1>4 DEF FreshCache, EmptyState, Entry
<1>7. file.HRS \in HRSKey
    BY Zenon, <1>4 DEF TypeInv, TypeOK, File
<1>8. ~ GreaterThan(file.HRS, file.HRS)
    BY Zenon, <1>7, GreaterThanIsTotalOrder
<1>9. Consistent(Committed') /\ CoveredBy(file, Committed')
    BY Zenon, <1>1, <1>3, FewerVotes DEF SafetyInv, LoadingInv
<1> HIDE DEF ss
<1>10. CacheAgrees(ss, Committed')
    BY Zenon, <1>5, <1>6, <1>8, <1>9 DEF CacheAgrees, CoveredBy
<1>11. NotAhead(file, ss)
    BY Zenon, <1>5, <1>8 DEF NotAhead
<1>12. \A u \in Threads : InUseThread(u)'
    BY Zenon, <1>1, <1>2 DEF SafetyInv, LoadingInv, LoadingThread, InUseThread, OnlyThread, Signing
<1>13. pending = {}
    BY Zenon, <1>1 DEF SafetyInv, LoadingInv
<1>14. signStates'[chainState'] = ss
    BY Zenon, <1>1 DEF ss
<1>15. InUseInv'
    BY <1>1, <1>4, <1>9, <1>10, <1>11, <1>12, <1>13, <1>14 DEF InUseInv, Protects
<1>16. Current = file /\ Current' = file
    BY Zenon, <1>1, <1>4, <1>14 DEF Current
<1> QED BY SMTT(30), <1>1, <1>15, <1>16 DEF SafetyInv, ZeroInv

(* Save moves the watermark past every committed vote, whether or not the   *)
(* vote it saves is being committed.                                        *)
LEMMA SavedSafety ==
    ASSUME TypeInv, SafetyInv, NEW t \in Threads, OnlyThread(t), chainState # 0,
           UNCHANGED <<chainState, file>>, req[t] \in Requests, NEW sig \in Nat,
           GreaterThan(req[t].HRS, signStates[chainState].HRS),
           Saved(chainState, req[t].HRS, req[t].SignBytes, sig),
           Committed' \in SUBSET (Committed \cup {Vote(req[t])}),
           InUseThread(t)'
    PROVE  SafetyInv'
<1> DEFINE ss == signStates[chainState]
           r == req[t]
           next == blockDoubleSign(ss, r.HRS, r.SignBytes, sig)
<1>1. r.HRS \in HRSKey /\ r.SignBytes \in SignBytes /\ GreaterThan(r.HRS, ZeroHRS)
    BY Zenon, RequestAssumption DEF Request
<1>2. chainState \in Objects /\ IsSignState(ss) /\ ss.HRS \in HRSKey
    BY Zenon, InUseTypes
<1>3. Protects(ss, Committed)
    BY Zenon DEF SafetyInv, InUseInv
<1>4. /\ Protects(next, Committed \cup {[HRS |-> r.HRS, block |-> r.SignBytes.block]})
      /\ NotAhead(lockedCopy(next), next)
      /\ \A f \in File : NotAhead(f, ss) => NotAhead(f, next)
    BY Zenon, <1>1, <1>2, <1>3, SaveProtects, CommittedTypes
<1>5. next.HRS = r.HRS
    BY Zenon DEF blockDoubleSign
<1>6. signStates'[chainState] = next /\ pending' = pending \cup {[by |-> chainState, copy |-> lockedCopy(next)]}
    BY Zenon, <1>2 DEF Saved, TypeInv, TypeOK
<1> HIDE DEF next
<1>7. Protects(next, Committed')
    BY Zenon, <1>4, FewerVotes DEF Vote
<1>8. file \in File /\ NotAhead(file, ss) /\ \A w \in pending : w.copy \in File /\ NotAhead(w.copy, ss)
    BY Zenon DEF SafetyInv, InUseInv, TypeInv, TypeOK
<1>9. NotAhead(file, next) /\ \A w \in pending' : NotAhead(w.copy, next)
    <2>1. NotAhead(file, next) /\ \A w \in pending : NotAhead(w.copy, next)
        BY Zenon, <1>4, <1>8
    <2>2. ASSUME NEW w, w = [by |-> chainState, copy |-> lockedCopy(next)]
          PROVE  NotAhead(w.copy, next)
        BY Zenon, <1>4, <2>2
    <2>3. \A w \in pending' : w \in pending \/ w = [by |-> chainState, copy |-> lockedCopy(next)]
        BY Zenon, <1>6
    <2> QED BY Zenon, <2>1, <2>2, <2>3
<1>10. ~ GreaterThan(ss.HRS, r.HRS) /\ r.HRS # ZeroHRS
    <2>1. ZeroHRS \in HRSKey
        BY DEF ZeroHRS, HRSKey
    <2>2. ~ GreaterThan(ZeroHRS, ZeroHRS)
        BY Zenon, <2>1, GreaterThanIsTotalOrder
    <2>3. \A x, y \in HRSKey : GreaterThan(x, y) => ~ GreaterThan(y, x)
        BY Zenon, GreaterThanIsTotalOrder
    <2>4. ~ GreaterThan(ss.HRS, r.HRS)
        BY Zenon, <1>1, <1>2, <2>3
    <2> QED BY Zenon, <1>1, <2>2, <2>4
<1>11. /\ ~ GreaterThan(ss.HRS, next.HRS) /\ next.HRS \in HRSKey
       /\ next.HRS = ZeroHRS => next.SignBytes = Nil
    BY Zenon, <1>1, <1>5, <1>10
<1>12. /\ ~ GreaterThan(signStates[chainState].HRS, signStates'[chainState].HRS)
       /\ signStates'[chainState].HRS \in HRSKey
       /\ Protects(signStates'[chainState], Committed')
       /\ NotAhead(file, signStates'[chainState])
       /\ \A w \in pending' : NotAhead(w.copy, signStates'[chainState])
       /\ signStates'[chainState].HRS = ZeroHRS => signStates'[chainState].SignBytes = Nil
    BY Zenon, <1>6, <1>7, <1>9, <1>11
<1> QED BY Zenon, <1>12, CommitStep

(* The steps after which a thread can only return its share.                *)
LEMMA CommittingSafety ==
    ASSUME TypeInv, SafetyInv, NEW t \in Threads, OnlyThread(t), req' = req, ccs' = ccs,
           pc[t] \in Signing, pc'[t] \in {"reply", "extOnly"},
           UNCHANGED <<chainState, file, signStates, pending, shares>>,
           Protects(signStates[ccs[t]], Committed \cup {Vote(req[t])})
    PROVE  SafetyInv'
<1>1. chainState # 0 /\ ccs[t] = chainState
    BY Zenon DEF SafetyInv, LoadingInv, LoadingThread, InUseInv, InUseThread
<1>2. Protects(signStates[chainState], Committed')
    BY Zenon, <1>1, OneCommitted, FewerVotes
<1>3. InUseThread(t)'
    BY Zenon, <1>1 DEF InUseThread
<1>4. \A u \in Threads : InUseThread(u)'
    BY ZenonT(60), <1>1, <1>3 DEF SafetyInv, InUseInv, InUseThread, OnlyThread
<1> QED BY <1>1, <1>2, <1>4 DEF SafetyInv, InUseInv, ZeroInv, Current

(* A thread past the check works on the sign state in use.                  *)
LEMMA WorksOnInUse ==
    ASSUME TypeInv, SafetyInv, NEW t \in Threads, pc[t] \in Signing \cup {"saveLSS"}
    PROVE  /\ chainState # 0 /\ ccs[t] = chainState /\ InUseThread(t)
           /\ Protects(signStates[chainState], Committed)
           /\ req[t] \in Requests /\ req[t].HRS \in HRSKey /\ req[t].SignBytes \in SignBytes
<1>1. req[t] \in Requests
    BY Zenon DEF TypeInv, ThreadInv, Signing
<1>2. req[t].HRS \in HRSKey /\ req[t].SignBytes \in SignBytes
    BY Zenon, <1>1, RequestAssumption DEF Request
<1> QED BY SMTT(30), <1>1, <1>2 DEF SafetyInv, LoadingInv, LoadingThread, InUseInv, InUseThread

(* A restart whose file is not behind the memory it replaces keeps every    *)
(* committed vote protected by the file.                                    *)
LEMMA RestartSafety ==
    ASSUME TypeInv, SafetyInv, Restart, ~ forgetful'
    PROVE  SafetyInv'
<1>1. chainState' = 0 /\ pending' = {} /\ file' = file /\ shares' = shares /\ \A t \in Threads : pc'[t] = "idle"
    BY Zenon DEF Restart, Each
<1>2. Committed' \in SUBSET Committed
    BY Zenon, <1>1 DEF Committed
<1>3. Consistent(Committed) /\ CoveredBy(file, Committed) /\ (file # Nil /\ file.HRS = ZeroHRS => file.SignBytes = Nil)
    <2>1. CASE chainState = 0
        BY Zenon, <2>1 DEF SafetyInv, LoadingInv, ZeroInv, Current
    <2>2. CASE chainState # 0
        <3> DEFINE ss == signStates[chainState]
        <3>1. ~ GreaterThan(ss.HRS, file.HRS)
            BY Zenon, <2>2 DEF Restart
        <3>2. file # Nil /\ NotAhead(file, ss) /\ Protects(ss, Committed)
            BY Zenon, <2>2 DEF SafetyInv, InUseInv
        <3>3. file.HRS \in HRSKey /\ ss.HRS \in HRSKey /\ lockedCopy(ss) # Nil
            BY ZenonT(60), <2>2, <3>2, InUseTypes, NilAssumption DEF TypeInv, TypeOK, File, IsSignState
        <3>4. file.HRS = ss.HRS
            BY Zenon, <3>1, <3>2, <3>3, GreaterThanIsTotalOrder DEF NotAhead
        <3>5. file.SignBytes = ss.SignBytes
            BY Zenon, <3>2, <3>4 DEF NotAhead
        <3>6. lockedCopy(ss).HRS = ss.HRS /\ lockedCopy(ss).SignBytes = ss.SignBytes
            BY Zenon DEF lockedCopy
        <3>7. ss.HRS = ZeroHRS => ss.SignBytes = Nil
            BY Zenon, <2>2, <3>3, <3>6 DEF SafetyInv, ZeroInv, Current
        <3>8. CoveredBy(file, Committed)
            BY Zenon, <3>2, <3>4, <3>5, <3>6 DEF Protects, CoveredBy
        <3> QED BY <3>2, <3>4, <3>5, <3>7, <3>8 DEF Protects
    <2> QED BY <2>1, <2>2
<1>4. Consistent(Committed') /\ CoveredBy(file', Committed')
    BY Zenon, <1>1, <1>2, <1>3, FewerVotes
<1>5. \A t \in Threads : LoadingThread(t)'
    BY Zenon, <1>1 DEF LoadingThread, Signing
<1> QED BY <1>1, <1>3, <1>4, <1>5 DEF SafetyInv, LoadingInv, ZeroInv, Current

-----------------------------------------------------------------------------
(* Every step that leaves the watermark known preserves its protection of   *)
(* the committed votes: one case per action of the handlers and of the      *)
(* process.                                                                 *)
LEMMA NextSafety ==
    ASSUME TypeInv, TypeInv', SafetyInv, [Next]_vars, ~ forgetful'
    PROVE  SafetyInv'
<1> USE DEF stateVars, nonceVars, locals, history, OnlyThread
<1>t. /\ DOMAIN pc = Threads /\ DOMAIN req = Threads /\ DOMAIN ccs = Threads
      /\ DOMAIN vote = Threads /\ vote \in [Threads -> Nat]
    BY Zenon DEF TypeInv, TypeOK
<1>1. CASE UNCHANGED <<stateVars, pc, req, ccs, shares>>
    BY Zenon, <1>1 DEF SafetyInv, InUseInv, InUseThread, LoadingInv, LoadingThread, Committed, ZeroInv, Current
<1>2. ASSUME NEW t \in Threads, NEW r \in Requests, Receive(t, r)
      PROVE  SafetyInv'
    BY Zenon, <1>t, <1>2, MoveSafety DEF Receive, Goto
<1>3. ASSUME NEW t \in Threads, Load(t)
      PROVE  SafetyInv'
    BY Zenon, <1>t, <1>3, MoveSafety DEF Load, Goto
<1>4. ASSUME NEW t \in Threads, ReadFile(t)
      PROVE  SafetyInv'
    BY Zenon, <1>t, <1>4, NewStateSafety DEF ReadFile, Goto
<1>5. ASSUME NEW t \in Threads, FileMissing(t)
      PROVE  SafetyInv'
    BY Zenon, <1>t, <1>5, MoveSafety DEF FileMissing, Goto
<1>6. ASSUME NEW t \in Threads, CreateFile(t)
      PROVE  SafetyInv'
    BY Zenon, <1>t, <1>6, NewStateSafety DEF CreateFile, Goto
<1>7. ASSUME NEW t \in Threads, StoreState(t)
      PROVE  SafetyInv'
    BY Zenon, <1>7, StoreStateSafety
<1>8. ASSUME NEW t \in Threads, Loaded(t)
      PROVE  SafetyInv'
    BY Zenon, <1>t, <1>8, MoveSafety DEF Loaded, Goto
<1>9. ASSUME NEW t \in Threads, NEW u \in UUIDs, NEW p \in Peers, setNonce(t, u, p)
      PROVE  SafetyInv'
    BY Zenon, <1>t, <1>9, MoveSafety DEF setNonce, Goto
<1>10. ASSUME NEW t \in Threads, NoncesSet(t)
       PROVE  SafetyInv'
    BY Zenon, <1>t, <1>10, MoveSafety DEF NoncesSet, Goto
<1>11. ASSUME NEW t \in Threads, NoncesFailed(t)
       PROVE  SafetyInv'
    BY Zenon, <1>t, <1>11, MoveSafety DEF NoncesFailed, Return, Goto
<1>12. ASSUME NEW t \in Threads, getChainState(t)
       PROVE  SafetyInv'
    BY ZenonT(60), <1>t, <1>12, MoveSafety DEF getChainState, Goto
<1>13. ASSUME NEW t \in Threads, CheckRequest(t)
       PROVE  SafetyInv'
    <2>1. pc[t] \in Signing /\ UNCHANGED <<stateVars, shares>>
        BY Zenon, <1>13 DEF CheckRequest, Signing
    <2>2. CASE UNCHANGED locals /\ (Goto(t, "consume") \/ Goto(t, "cached"))
        BY Zenon, <1>t, <2>1, <2>2, MoveSafety DEF Goto
    <2>3. CASE Return(t)
        BY Zenon, <1>t, <2>1, <2>3, MoveSafety DEF Return, Goto
    <2> QED BY <1>13, <2>2, <2>3 DEF CheckRequest
<1>14. ASSUME NEW t \in Threads, CachedVote(t)
       PROVE  SafetyInv'
    <2> DEFINE ss == signStates[ccs[t]]
               r == req[t]
    <2>1. pc[t] = "cached" /\ UNCHANGED <<stateVars, shares>>
        BY ZenonT(60), <1>14 DEF CachedVote
    <2>2. CASE /\ r.HRS \in DOMAIN ss.cache /\ ss.cache[r.HRS].SignBytes = r.SignBytes
               /\ Goto(t, "extOnly") /\ UNCHANGED <<req, ccs>>
        <3>1. ccs[t] = chainState /\ Protects(ss, Committed) /\ r.SignBytes \in SignBytes /\ IsSignState(ss)
            BY Zenon, <2>1, WorksOnInUse, InUseTypes DEF Signing
        <3>2. Protects(ss, Committed \cup {Vote(r)})
            BY Zenon, <2>2, <3>1, CacheHitProtects DEF Vote
        <3>3. OnlyThread(t) /\ pc'[t] = "extOnly" /\ pc[t] \in Signing
            BY Zenon, <1>t, <2>1, <2>2 DEF Goto, Signing
        <3> QED BY <2>1, <2>2, <3>2, <3>3, CommittingSafety
    <2>3. CASE Return(t)
        BY Zenon, <1>t, <2>1, <2>3, MoveSafety DEF Return, Goto
    <2> QED BY Zenon, <1>14, <2>2, <2>3 DEF CachedVote
<1>15. ASSUME NEW t \in Threads, ConsumeVoteNonce(t)
       PROVE  SafetyInv'
    BY Zenon, <1>t, <1>15, MoveSafety DEF ConsumeVoteNonce, Goto, Signing
<1>16. ASSUME NEW t \in Threads, ConsumeExtNonce(t)
       PROVE  SafetyInv'
    BY Zenon, <1>t, <1>16, MoveSafety DEF ConsumeExtNonce, Goto, Signing
<1>17. ASSUME NEW t \in Threads, SaveShare(t)
       PROVE  SafetyInv'
    <2>1. pc[t] = "save" /\ UNCHANGED <<chainState, file, locals, shares>> /\ pc[t] \in Signing
        BY Zenon, <1>17 DEF SaveShare, Signing
    <2>2. chainState # 0 /\ ccs[t] = chainState /\ req[t] \in Requests
        BY ZenonT(60), <2>1, WorksOnInUse
    <2>3. CASE SaveSucceeds(signStates[ccs[t]], req[t].HRS)
        <3>1. Saved(chainState, req[t].HRS, req[t].SignBytes, vote[t]) /\ Goto(t, "reply")
            BY Zenon, <1>17, <2>2, <2>3 DEF SaveShare
        <3>2. OnlyThread(t) /\ pc'[t] = "reply"
            BY Zenon, <1>t, <2>1, <3>1 DEF Goto
        <3>3. Committed' \in SUBSET (Committed \cup {Vote(req[t])})
            BY Zenon, <2>1, <3>2, OneCommitted
        <3>4. InUseThread(t)'
            BY Zenon, <2>1, <2>2, <3>2 DEF InUseThread
        <3>5. vote[t] \in Nat /\ GreaterThan(req[t].HRS, signStates[chainState].HRS)
            BY Zenon, <1>t, <2>2, <2>3 DEF SaveSucceeds
        <3> QED BY ZenonT(60), <2>1, <2>2, <3>1, <3>2, <3>3, <3>4, <3>5, SavedSafety
    <2>4. CASE ~ SaveSucceeds(signStates[ccs[t]], req[t].HRS)
        <3>1. /\ UNCHANGED <<signStates, pending>>
              /\ Goto(t, "fail") \/ (Goto(t, "recheck") /\ req[t].HRS = signStates[ccs[t]].HRS)
            BY Zenon, <1>17, <2>4 DEF SaveShare, SameHRSError
        <3> QED BY <1>t, <2>1, <3>1, MoveSafety DEF Goto
    <2> QED BY <2>3, <2>4
<1>18. ASSUME NEW t \in Threads, Recheck(t)
       PROVE  SafetyInv'
    <2> DEFINE ss == signStates[ccs[t]]
               r == req[t]
    <2>1. pc[t] = "recheck" /\ UNCHANGED <<stateVars, locals, shares>> /\ pc[t] \in Signing
        BY ZenonT(60), <1>18 DEF Recheck, Signing
    <2>2. CASE ~ errorIfConflictOrRegression(ss, r.HRS, r.SignBytes)
        <3>1. /\ Protects(ss, Committed) /\ r.SignBytes \in SignBytes /\ r.HRS \in HRSKey
              /\ IsSignState(ss) /\ ~ GreaterThan(r.HRS, ss.HRS)
            BY <2>1, WorksOnInUse, InUseTypes DEF InUseThread
        <3>2. Protects(ss, Committed \cup {Vote(r)})
            BY Zenon, <2>2, <3>1, CommittedTypes, RecheckProtects DEF Vote
        <3>3. OnlyThread(t) /\ pc'[t] = "reply"
            BY Zenon, <1>t, <1>18, <2>1, <2>2 DEF Recheck, Goto
        <3> QED BY ZenonT(60), <2>1, <3>2, <3>3, CommittingSafety
    <2>3. CASE errorIfConflictOrRegression(ss, r.HRS, r.SignBytes)
        BY ZenonT(60), <1>t, <1>18, <2>1, <2>3, MoveSafety DEF Recheck, Goto
    <2> QED BY <2>2, <2>3
<1>19. ASSUME NEW t \in Threads, ReplyShare(t)
       PROVE  SafetyInv'
    <2>1. /\ pc[t] = "reply" /\ shares' = shares \cup {Share(t)} /\ UNCHANGED stateVars
          /\ OnlyThread(t) /\ pc'[t] = "idle"
        BY Zenon, <1>t, <1>19 DEF ReplyShare, Return, Goto
    <2>2. Vote(Share(t)) = Vote(req[t])
        BY Zenon DEF Vote, Share
    <2>3. Committed' \in SUBSET Committed
        <3> SUFFICES ASSUME NEW v \in Committed'
                     PROVE  v \in Committed
            BY Zenon
        <3>1. CASE \E s \in shares' : v = Vote(s)
            BY Zenon, <2>1, <2>2, <3>1 DEF Committed
        <3>2. CASE \E u \in Threads : pc'[u] \in {"reply", "extOnly"} /\ v = Vote(req'[u])
            BY Zenon, <2>1, <3>2 DEF Committed
        <3> QED BY <3>1, <3>2 DEF Committed
    <2>4. InUseThread(t)' /\ LoadingThread(t)'
        BY Zenon, <2>1 DEF InUseThread, LoadingThread, Signing
    <2> QED BY ZenonT(60), <2>1, <2>3, <2>4, QuietStep
<1>20. ASSUME NEW t \in Threads, ReplyError(t)
       PROVE  SafetyInv'
    BY Zenon, <1>t, <1>20, MoveSafety DEF ReplyError, Return, Goto
<1>21. ASSUME NEW t \in Threads, SaveLSS(t)
       PROVE  SafetyInv'
    <2>1. pc[t] = "saveLSS" /\ UNCHANGED <<chainState, file, shares>> /\ OnlyThread(t) /\ pc'[t] = "idle"
        BY Zenon, <1>t, <1>21 DEF SaveLSS, Return, Goto
    <2>2. chainState # 0 /\ ccs[t] = chainState /\ req[t] \in Requests
        BY Zenon, <2>1, WorksOnInUse
    <2>3. CASE SaveSucceeds(signStates[ccs[t]], req[t].HRS)
        <3>1. Saved(chainState, req[t].HRS, req[t].SignBytes, 0)
            BY Zenon, <1>21, <2>2, <2>3 DEF SaveLSS
        <3>2. Committed' \in SUBSET Committed
            BY Zenon, <2>1, NothingCommitted
        <3>3. InUseThread(t)'
            BY Zenon, <2>1 DEF InUseThread, Signing
        <3>4. GreaterThan(req[t].HRS, signStates[chainState].HRS)
            BY Zenon, <2>2, <2>3 DEF SaveSucceeds
        <3> QED BY SMTT(30), <2>1, <2>2, <3>1, <3>2, <3>3, <3>4, SavedSafety
    <2>4. CASE ~ SaveSucceeds(signStates[ccs[t]], req[t].HRS)
        BY Zenon, <1>21, <2>1, <2>4, MoveSafety DEF SaveLSS
    <2> QED BY <2>3, <2>4
<1>22. ASSUME NEW w \in pending, saveSignState(w)
       PROVE  SafetyInv'
    <2>1. /\ UNCHANGED <<chainState, signStates, pc, req, ccs, shares>>
          /\ file' = w.copy /\ pending' \in SUBSET pending
        BY Zenon, <1>22 DEF saveSignState
    <2>2. chainState # 0 /\ InUseInv
        BY Zenon DEF SafetyInv, LoadingInv
    <2>3. w.copy # Nil /\ NotAhead(w.copy, signStates[chainState])
        BY Zenon, <2>2, NilAssumption DEF InUseInv, TypeInv, TypeOK
    <2> QED BY Zenon, <2>1, <2>2, <2>3 DEF SafetyInv, InUseInv, InUseThread, Committed, ZeroInv, Current
<1>23. CASE Restart
    BY Zenon, <1>23, RestartSafety
<1>24. CASE \/ \E u \in UUIDs : generateNonces(u) \/ pruneNonces(u)
            \/ \E g \in generating : StoreNonces(g)
            \/ UNCHANGED vars
    BY Zenon, <1>1, <1>24 DEF generateNonces, pruneNonces, StoreNonces, vars
<1> QED
    BY ZenonT(60), <1>2, <1>3, <1>4, <1>5, <1>6, <1>7, <1>8, <1>9, <1>10, <1>11, <1>12, <1>13, <1>14, <1>15,
       <1>16, <1>17, <1>18, <1>19, <1>20, <1>21, <1>22, <1>23, <1>24
    DEF Next, Run, LoadSteps, SignSteps

-----------------------------------------------------------------------------
(* The history variables: a loss of the watermark is never taken back, and  *)
(* only a reply adds a share.                                               *)
LEMMA ForgettingIsForGood ==
    ASSUME TypeOK, [Next]_vars
    PROVE  forgetful' = forgetful \/ forgetful' = TRUE
<1>1. ASSUME NEW t \in Threads, StoreState(t)
      PROVE  forgetful' = forgetful \/ forgetful' = TRUE
    BY Zenon, <1>1 DEF StoreState, TypeOK
<1>2. CASE Restart
    BY Zenon, <1>2 DEF Restart, TypeOK
<1>3. CASE forgetful' = forgetful
    BY Zenon, <1>3
<1> QED BY ZenonT(60), <1>1, <1>2, <1>3 DEF Next, Run, LoadSteps, SignSteps, vars, history,
       Receive, Load, ReadFile, FileMissing, CreateFile, Loaded, setNonce, NoncesSet, NoncesFailed,
       getChainState, CheckRequest, CachedVote, ConsumeVoteNonce, ConsumeExtNonce, SaveShare, Recheck,
       ReplyShare, ReplyError, SaveLSS, saveSignState, generateNonces, StoreNonces, pruneNonces

(* Only the return of LocalCosigner.sign adds to the released shares.       *)
LEMMA SharesGrowByReply ==
    ASSUME [Next]_vars
    PROVE  shares' = shares \/ \E t \in Threads : ReplyShare(t)
BY ZenonT(60) DEF Next, Run, LoadSteps, SignSteps, vars, history,
       Receive, Load, ReadFile, FileMissing, CreateFile, StoreState, Loaded, setNonce, NoncesSet,
       NoncesFailed, getChainState, CheckRequest, CachedVote, ConsumeVoteNonce, ConsumeExtNonce,
       SaveShare, Recheck, ReplyError, SaveLSS, saveSignState, generateNonces, StoreNonces,
       pruneNonces, Restart

(* The invariant is inductive: as long as the watermark is not lost, the    *)
(* sign state in use, or the file, protects every committed vote.           *)
THEOREM InductiveInvariant == Spec => []IInv
<1>1. Init => IInv
    BY Zenon, InitTypeInv, InitSafety DEF IInv
<1>2. IInv /\ [Next]_vars => IInv'
    <2> SUFFICES ASSUME IInv, [Next]_vars
                 PROVE  IInv'
        BY Zenon
    <2>1. TypeInv'
        BY Zenon, NextTypeInv DEF IInv
    <2>2. ASSUME ~ forgetful'
          PROVE  SafetyInv'
        <3>1. ~ forgetful
            BY Zenon, <2>2, ForgettingIsForGood DEF IInv, TypeInv
        <3> QED BY <2>1, <2>2, <3>1, NextSafety DEF IInv
    <2> QED BY <2>1, <2>2 DEF IInv
<1> QED BY <1>1, <1>2, PTL DEF Spec

(* Every variable of the cosigner always has its type, whichever handlers,  *)
(* disk writes and restarts interleave.                                     *)
THEOREM TypeCorrectness == Spec => []TypeOK
<1>1. IInv => TypeOK
    BY Zenon DEF IInv, TypeInv
<1> QED BY <1>1, InductiveInvariant, PTL

(* LocalCosigner.sign never returns shares for two blocks at one HRS unless *)
(* the watermark was lost by a racing first load or by a restart.           *)
THEOREM DoubleSignProtection == Spec => []KeptWatermarkPreventsDoubleSign
<1>1. IInv => KeptWatermarkPreventsDoubleSign
    <2> SUFFICES ASSUME IInv, ~ forgetful, NEW x \in shares, NEW y \in shares, x.HRS = y.HRS
                 PROVE  OnlyDifferByTimestamp(x.SignBytes, y.SignBytes)
        BY Zenon DEF KeptWatermarkPreventsDoubleSign, NoConflictingShares, Conflict
    <2>1. Consistent(Committed)
        BY Zenon DEF IInv, SafetyInv, InUseInv, Protects, LoadingInv
    <2>2. Vote(x) \in Committed /\ Vote(y) \in Committed
        BY Zenon DEF Committed
    <2> QED BY <2>1, <2>2 DEF Consistent, Vote, OnlyDifferByTimestamp
<1> QED BY <1>1, InductiveInvariant, PTL

(* Every share returned stays at or below the watermark in force, across    *)
(* disk writes and across restarts that do not lose it.                     *)
THEOREM WatermarkCoversShares == Spec => []SharesUnderWatermark
<1>1. IInv => SharesUnderWatermark
    <2> SUFFICES ASSUME IInv, ~ forgetful, NEW s \in shares
                 PROVE  /\ Current # Nil
                        /\ ~ GreaterThan(s.HRS, Current.HRS)
                        /\ s.HRS = Current.HRS => Current.SignBytes # Nil /\ ~ Conflict(s, Current)
        BY Zenon DEF SharesUnderWatermark
    <2>1. CoveredBy(Current, Committed)
        BY Zenon DEF IInv, SafetyInv, InUseInv, Protects, LoadingInv, Current
    <2>2. Vote(s) \in Committed /\ Vote(s).HRS = s.HRS /\ Vote(s).block = s.SignBytes.block
        BY Zenon DEF Committed, Vote
    <2> QED BY <2>1, <2>2 DEF CoveredBy, Conflict, OnlyDifferByTimestamp
<1> QED BY <1>1, InductiveInvariant, PTL

(* The cosigner implements CosignerPromise, the interface on which the      *)
(* cluster relies: every step releases a compatible vote, loses the         *)
(* watermark, or is invisible.                                              *)
THEOREM CosignerKeepsPromise == Spec => KeepsPromise
<1>1. Init => Promise!Init
    BY Zenon DEF Init, Promise!Init
<1>2. IInv /\ IInv' /\ [Next]_vars => [Promise!Next]_(Promise!vars)
    <2> SUFFICES ASSUME IInv, IInv', [Next]_vars
                 PROVE  [Promise!Next]_(Promise!vars)
        BY Zenon
    <2> DEFINE signed == {Vote(s) : s \in shares}
    <2>1. CASE UNCHANGED <<shares, forgetful>>
        BY Zenon, <2>1 DEF Promise!vars
    <2>2. CASE shares' = shares /\ forgetful' # forgetful
        <3>1. forgetful' = TRUE
            BY Zenon, <2>2, ForgettingIsForGood DEF IInv, TypeInv, TypeOK
        <3> QED BY <2>2, <3>1 DEF Promise!Next, Promise!Forget
    <2>3. ASSUME NEW t \in Threads, ReplyShare(t)
          PROVE  Promise!Next
        <3>1. /\ shares' = shares \cup {Share(t)} /\ forgetful' = forgetful
              /\ pc[t] = "reply" /\ req[t] \in Requests
            BY Zenon, <2>3 DEF ReplyShare, IInv, TypeInv, ThreadInv
        <3>2. Vote(Share(t)) = Vote(req[t])
            BY Zenon DEF Vote, Share
        <3>3. {Vote(s) : s \in shares'} = signed \cup {Vote(req[t])}
            BY Zenon, <3>1, <3>2
        <3>4. ~ forgetful => \A v \in signed : v.HRS = Vote(req[t]).HRS => v.block = Vote(req[t]).block
            <4>1. Vote(req[t]) \in Committed /\ signed \subseteq Committed
                BY Zenon, <3>1 DEF Committed
            <4>2. ~ forgetful => Consistent(Committed)
                BY Zenon DEF IInv, SafetyInv, InUseInv, Protects, LoadingInv
            <4> QED BY <4>1, <4>2 DEF Consistent
        <3>5. Promise!Release(Vote(req[t]))
            BY Zenon, <3>1, <3>3, <3>4 DEF Promise!Release, Promise!Compatible
        <3> QED BY <3>1, <3>5 DEF Promise!Next
    <2> QED BY <2>1, <2>2, <2>3, SharesGrowByReply
<1> QED BY <1>1, <1>2, InductiveInvariant, PTL DEF Spec, KeepsPromise, Promise!Spec
=============================================================================
