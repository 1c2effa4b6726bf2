------------------------ MODULE LocalCosignerNonces ------------------------
(***************************************************************************)
(* Type correctness of LocalCosigner, and that no nonce of a cosigner      *)
(* signs two messages, for every set of threads, requests, nonce rounds    *)
(* and peers and every bound: every action keeps TypeInv, and with it      *)
(* NonceInv.                                                               *)
(***************************************************************************)
EXTENDS LocalCosigner, TLAPS

(* GreaterThan (hrs.go) is a strict total order on HRS keys.                *)
LEMMA GreaterThanIsTotalOrder ==
    ASSUME NEW x \in HRSKey, NEW y \in HRSKey, NEW z \in HRSKey
    PROVE  /\ ~ GreaterThan(x, x)
           /\ GreaterThan(x, y) => ~ GreaterThan(y, x)
           /\ GreaterThan(x, y) /\ GreaterThan(y, z) => GreaterThan(x, z)
           /\ x = y \/ GreaterThan(x, y) \/ GreaterThan(y, x)
           /\ ~ GreaterThan(x, y) /\ ~ GreaterThan(y, z) => ~ GreaterThan(x, z)
<1>1. ~ GreaterThan(x, x)
    BY DEF GreaterThan, HRSKey
<1>2. GreaterThan(x, y) => ~ GreaterThan(y, x)
    BY DEF GreaterThan, HRSKey
<1>3. GreaterThan(x, y) /\ GreaterThan(y, z) => GreaterThan(x, z)
    BY DEF GreaterThan, HRSKey
<1>4. x = y \/ GreaterThan(x, y) \/ GreaterThan(y, x)
    <2>1. x = [Height |-> x.Height, Round |-> x.Round, Step |-> x.Step]
        BY Zenon DEF HRSKey
    <2>2. y = [Height |-> y.Height, Round |-> y.Round, Step |-> y.Step]
        BY Zenon DEF HRSKey
    <2> QED BY <2>1, <2>2 DEF GreaterThan, HRSKey
<1>5. ~ GreaterThan(x, y) /\ ~ GreaterThan(y, z) => ~ GreaterThan(x, z)
    BY DEF GreaterThan, HRSKey
<1> QED BY <1>1, <1>2, <1>3, <1>4, <1>5

-----------------------------------------------------------------------------
(* The sign states that LoadOrCreateSignState and Save make are well typed. *)
LEMMA FreshCacheType ==
    ASSUME NEW f \in File
    PROVE  IsSignState(FreshCache(f))
BY Zenon DEF IsSignState, FreshCache, lockedCopy, File, Entry

(* LoadOrCreateSignState's empty state and its file are typed.              *)
LEMMA EmptyStateType == IsSignState(EmptyState) /\ EmptyFile \in File
BY DEF IsSignState, EmptyState, EmptyFile, ZeroHRS, HRSKey, lockedCopy, File, Entry

(* What blockDoubleSign leaves, and the copy it returns for the disk, are   *)
(* typed.                                                                   *)
LEMMA SavedStateType ==
    ASSUME NEW ss, IsSignState(ss),
           NEW hrs \in HRSKey, NEW bytes \in SignBytes, NEW sig \in Nat
    PROVE  /\ IsSignState(blockDoubleSign(ss, hrs, bytes, sig))
           /\ lockedCopy(blockDoubleSign(ss, hrs, bytes, sig)) \in File
BY Zenon DEF IsSignState, blockDoubleSign, lockedCopy, File, Entry

(* What SignState.Save can disturb: the sign states and the pending writes. *)
StateTypes ==
    /\ DOMAIN signStates = Objects /\ \A o \in Objects : IsSignState(signStates[o])
    /\ \A w \in pending : w.by \in Objects /\ w.copy \in File

(* A Save, successful or refused, keeps sign states and pending writes      *)
(* typed.                                                                   *)
LEMMA SavedTypes ==
    ASSUME StateTypes, NEW o \in Objects,
           NEW hrs \in HRSKey, NEW bytes \in SignBytes, NEW sig \in Nat,
           Saved(o, hrs, bytes, sig) \/ UNCHANGED <<signStates, pending>>
    PROVE  StateTypes'
<1>1. CASE Saved(o, hrs, bytes, sig)
    <2> DEFINE next == blockDoubleSign(signStates[o], hrs, bytes, sig)
    <2>1. IsSignState(next) /\ lockedCopy(next) \in File
        BY Zenon, SavedStateType DEF StateTypes
    <2> HIDE DEF next
    <2>2. /\ signStates' = [signStates EXCEPT ![o] = next]
          /\ pending' = pending \cup {[by |-> o, copy |-> lockedCopy(next)]}
        BY Zenon, <1>1 DEF Saved, next
    <2> QED BY <2>1, <2>2 DEF StateTypes
<1>2. CASE UNCHANGED <<signStates, pending>>
    BY Zenon, <1>2 DEF StateTypes
<1> QED BY <1>1, <1>2

(* What RequestAssumption says of one request.                              *)
LEMMA RequestTypes ==
    \A r \in Requests :
        /\ r \in Request
        /\ r.kind # "lss" => r.kind = "sign"
        /\ r.kind = "sign" => r.UUID \in UUIDs
        /\ r.kind = "sign" /\ r.Ext # Nil => r.VoteExtUUID \in UUIDs
BY Zenon, RequestAssumption DEF Request

USE BoundAssumption

(* A new process is well typed, with every handler idle.                    *)
LEMMA InitTypeInv == Init => TypeInv
<1> SUFFICES ASSUME Init
             PROVE  TypeInv
    BY Zenon
<1>1. DOMAIN signStates = Objects /\ \A o \in Objects : IsSignState(signStates[o])
    BY Zenon, EmptyStateType DEF Init
<1>2. pc \in [Threads -> {"idle"}] /\ req \in [Threads -> {NoRequest}] /\ ccs \in [Threads -> {0}]
    BY Zenon DEF Init, Each
<1>3. todo \in [Threads -> SUBSET Calls] /\ vote \in [Threads -> Nat] /\ ext \in [Threads -> Nat]
    BY Zenon DEF Init, Each
<1>4. TypeOK
    <2>1. nonces \in [UUIDs -> Nonce \cup {Nil}] /\ generating \subseteq [uuid : UUIDs, id : Nat] /\ nextNonce \in Nat
        BY Zenon DEF Init
    <2>2. forgetful \in BOOLEAN
        BY Zenon DEF Init
    <2>3. shares \subseteq Response /\ received \in Nat /\ restarts \in Nat
        BY Zenon DEF Init
    <2>4. chainState \in 0 .. MaxLoads /\ loads \in 0 .. MaxLoads /\ ccs \in [Threads -> 0 .. MaxLoads]
        BY <1>2 DEF Init
    <2>5. file \in File \cup {Nil} /\ \A w \in pending : w.by \in Objects /\ w.copy \in File
        BY Zenon DEF Init
    <2> QED BY <1>1, <1>2, <1>3, <2>1, <2>2, <2>3, <2>4, <2>5 DEF TypeOK
<1>5. chainState <= loads /\ \A t \in Threads : ThreadInv(t)
    BY <1>2 DEF Init, ThreadInv, Signing
<1> QED BY <1>4, <1>5 DEF TypeInv

(* Every action keeps the types and what control points say of the locals.  *)
LEMMA NextTypeInv == TypeInv /\ [Next]_vars => TypeInv'
<1> SUFFICES ASSUME TypeInv, [Next]_vars
             PROVE  TypeInv'
    BY Zenon
<1> USE DEF TypeInv, TypeOK, ThreadInv, Objects, Signing, stateVars, nonceVars, locals, history
<1>1. CASE UNCHANGED vars
    BY Zenon, <1>1 DEF vars
<1>2. ASSUME NEW t \in Threads, NEW r \in Requests, Receive(t, r)
      PROVE  TypeInv'
    BY <1>2 DEF Receive, Goto
<1>3. ASSUME NEW t \in Threads, Load(t)
      PROVE  TypeInv'
    BY <1>3 DEF Load, Goto
<1>4. ASSUME NEW t \in Threads, ReadFile(t)
      PROVE  TypeInv'
    BY <1>4, FreshCacheType DEF ReadFile, Goto
<1>5. ASSUME NEW t \in Threads, FileMissing(t)
      PROVE  TypeInv'
    BY <1>5 DEF FileMissing, Goto
<1>6. ASSUME NEW t \in Threads, CreateFile(t)
      PROVE  TypeInv'
    BY SMTT(30), <1>6, EmptyStateType DEF CreateFile, Goto
<1>7. ASSUME NEW t \in Threads, StoreState(t)
      PROVE  TypeInv'
    BY SMTT(30), <1>7 DEF StoreState, Goto
<1>8. ASSUME NEW t \in Threads, Loaded(t)
      PROVE  TypeInv'
    <2>1. req[t] \in Request
        BY Zenon, <1>8, RequestAssumption DEF Loaded
    <2>2. todo' \in [Threads -> SUBSET Calls]
        <3>1. ({req[t].UUID, req[t].VoteExtUUID} \ {Nil}) \X req[t].From \in SUBSET Calls
            BY Zenon, <2>1 DEF Request, Calls
        <3> QED BY Zenon, <1>8, <3>1 DEF Loaded
    <2>3. req[t].kind # "lss" => req[t].kind = "sign"
        BY Zenon, <2>1 DEF Request
    <2>4. CASE req[t].kind = "lss"
        BY ZenonT(60), <1>8, <2>2, <2>4 DEF Loaded, Goto
    <2>5. CASE req[t].kind # "lss"
        BY ZenonT(60), <1>8, <2>2, <2>3, <2>5 DEF Loaded, Goto
    <2> QED BY ZenonT(60), <2>4, <2>5
<1>9. ASSUME NEW t \in Threads, NEW u \in UUIDs, NEW p \in Peers, setNonce(t, u, p)
      PROVE  TypeInv'
    <2>1. nonces' \in [UUIDs -> Nonce \cup {Nil}]
        <3>1. nonces[u] # Nil => [nonces[u] EXCEPT !.from = @ \cup {p}] \in Nonce
            <4>1. SUFFICES ASSUME nonces[u] \in Nonce
                           PROVE  [nonces[u] EXCEPT !.from = @ \cup {p}] \in Nonce
                BY Zenon
            <4>2. nonces[u].from \cup {p} \in SUBSET (Peers \cup {Me})
                BY Zenon, <4>1 DEF Nonce
            <4> QED BY <4>1, <4>2 DEF Nonce
        <3> QED BY <1>9, <3>1 DEF setNonce
    <2>2. todo' \in [Threads -> SUBSET Calls]
        BY Zenon, <1>9 DEF setNonce
    <2>3. pc' = [pc EXCEPT ![t] = "badNonces"] \/ pc' = pc
        BY Zenon, <1>9 DEF setNonce, Goto
    <2>4. /\ UNCHANGED <<stateVars, generating, nextNonce, req, ccs, vote, ext, history>>
          /\ pc[t] \in {"nonces", "badNonces"}
        BY Zenon, <1>9 DEF setNonce
    <2> QED BY ZenonT(60), <2>1, <2>2, <2>3, <2>4
<1>10. ASSUME NEW t \in Threads, NoncesSet(t)
       PROVE  TypeInv'
    BY Zenon, <1>10 DEF NoncesSet, Goto
<1>11. ASSUME NEW t \in Threads, NoncesFailed(t)
       PROVE  TypeInv'
    BY <1>11 DEF NoncesFailed, Return, Goto
<1>12. ASSUME NEW t \in Threads, getChainState(t)
       PROVE  TypeInv'
    <2>1. req[t].kind # "lss" => req[t].kind = "sign"
        BY Zenon, <1>12, RequestTypes DEF getChainState
    <2> QED BY ZenonT(60), <1>12, <2>1 DEF getChainState, Goto
<1>13. ASSUME NEW t \in Threads, CheckRequest(t)
       PROVE  TypeInv'
    <2>1. CASE UNCHANGED locals /\ Goto(t, "consume")
        BY SMTT(30), <1>13, <2>1 DEF CheckRequest, Goto
    <2>2. CASE UNCHANGED locals /\ Goto(t, "cached") /\ hasVoteExtensions(req[t])
        BY SMTT(30), <1>13, <2>2 DEF CheckRequest, Goto
    <2>3. CASE Return(t)
        BY SMTT(30), <1>13, <2>3 DEF CheckRequest, Return, Goto
    <2> QED BY <1>13, <2>1, <2>2, <2>3 DEF CheckRequest
<1>14. ASSUME NEW t \in Threads, CachedVote(t)
       PROVE  TypeInv'
    <2>1. CASE Goto(t, "extOnly") /\ UNCHANGED <<req, ccs, todo, ext>> /\ vote' \in [Threads -> Nat]
        BY Zenon, <1>14, <2>1 DEF CachedVote, Goto
    <2>2. CASE Return(t)
        <3>1. UNCHANGED <<stateVars, nonceVars, history>>
            BY Zenon, <1>14 DEF CachedVote
        <3> QED BY SMTT(30), <2>2, <3>1 DEF Return, Goto
    <2>3. signStates[ccs[t]].cache[req[t].HRS].Signature # Nil /\ req[t].HRS \in DOMAIN signStates[ccs[t]].cache
          => signStates[ccs[t]].cache[req[t].HRS].Signature \in Nat
        <3>1. pc[t] = "cached"
            BY Zenon, <1>14 DEF CachedVote
        <3>2. ccs[t] \in Objects
            BY <3>1
        <3> QED BY <3>2 DEF IsSignState
    <2> QED BY Zenon, <1>14, <2>1, <2>2, <2>3 DEF CachedVote
<1>15. ASSUME NEW t \in Threads, ConsumeVoteNonce(t)
       PROVE  TypeInv'
    <2>1. nonces' \in [UUIDs -> Nonce \cup {Nil}]
        BY Zenon, <1>15 DEF ConsumeVoteNonce, combinedNonces
    <2>2. req[t].UUID \in UUIDs
        BY Zenon, <1>15, RequestTypes DEF ConsumeVoteNonce
    <2>3. vote' \in [Threads -> Nat]
        BY Zenon, <1>15, <2>2 DEF ConsumeVoteNonce, Sufficient, Nonce
    <2>4. UNCHANGED <<stateVars, generating, nextNonce, req, ccs, todo, ext, history>> /\ pc[t] = "consume"
        BY Zenon, <1>15 DEF ConsumeVoteNonce
    <2>5. \/ pc' = [pc EXCEPT ![t] = "save"] \/ pc' = [pc EXCEPT ![t] = "fail"]
          \/ hasVoteExtensions(req[t]) /\ pc' = [pc EXCEPT ![t] = "consumeExt"]
        BY Zenon, <1>15 DEF ConsumeVoteNonce, Goto
    <2> QED BY ZenonT(60), <2>1, <2>3, <2>4, <2>5
<1>16. ASSUME NEW t \in Threads, ConsumeExtNonce(t)
       PROVE  TypeInv'
    <2>1. nonces' \in [UUIDs -> Nonce \cup {Nil}]
        BY Zenon, <1>16 DEF ConsumeExtNonce, combinedNonces
    <2>2. req[t].VoteExtUUID \in UUIDs
        BY Zenon, <1>16, RequestTypes DEF ConsumeExtNonce, hasVoteExtensions
    <2>3. ext' \in [Threads -> Nat]
        BY Zenon, <1>16, <2>2 DEF ConsumeExtNonce, Sufficient, Nonce
    <2> QED BY ZenonT(60), <1>16, <2>1, <2>3 DEF ConsumeExtNonce, Goto
<1>17. ASSUME NEW t \in Threads, SaveShare(t)
       PROVE  TypeInv'
    <2>0. pc[t] = "save"
        BY Zenon, <1>17 DEF SaveShare
    <2>1. ccs[t] \in Objects /\ req[t] \in Request
        BY SMTT(30), <2>0, RequestTypes
    <2>2. StateTypes'
        <3>1. StateTypes /\ vote[t] \in Nat /\ req[t].HRS \in HRSKey /\ req[t].SignBytes \in SignBytes
            BY Zenon, <2>1 DEF StateTypes, Request
        <3>2. Saved(ccs[t], req[t].HRS, req[t].SignBytes, vote[t]) \/ UNCHANGED <<signStates, pending>>
            BY Zenon, <1>17 DEF SaveShare
        <3> QED BY <2>1, <3>1, <3>2, SavedTypes
    <2> QED BY ZenonT(60), <1>17, <2>2 DEF SaveShare, StateTypes, Goto
<1>18. ASSUME NEW t \in Threads, Recheck(t)
       PROVE  TypeInv'
    BY SMTT(30), <1>18 DEF Recheck, Goto
<1>19. ASSUME NEW t \in Threads, ReplyShare(t)
       PROVE  TypeInv'
    <2>0. req[t] \in Request
        BY Zenon, <1>19, RequestAssumption DEF ReplyShare
    <2>1. Share(t) \in Response
        <3>1. /\ req[t].HRS \in HRSKey /\ req[t].SignBytes \in SignBytes
              /\ req[t].Ext \in Exts \cup {Nil}
            BY Zenon, <2>0 DEF Request
        <3>2. vote[t] \in Nat /\ ext[t] \in Nat
            BY Zenon
        <3>3. (IF ext[t] # 0 THEN req[t].Ext ELSE Nil) \in Exts \cup {Nil}
            BY Zenon, <3>1
        <3> QED BY Zenon, <3>1, <3>2, <3>3 DEF Share, Response
    <2>2. nonces' \in [UUIDs -> Nonce \cup {Nil}]
        BY Zenon, <1>19 DEF ReplyShare, DeleteNonces
    <2>3. /\ Return(t) /\ shares' = shares \cup {Share(t)}
          /\ UNCHANGED <<stateVars, generating, nextNonce, forgetful, received, restarts>>
        BY Zenon, <1>19 DEF ReplyShare
    <2> QED BY SMTT(30), <2>1, <2>2, <2>3 DEF Return, Goto
<1>20. ASSUME NEW t \in Threads, ReplyError(t)
       PROVE  TypeInv'
    BY SMTT(30), <1>20 DEF ReplyError, DeleteNonces, Return, Goto
<1>21. ASSUME NEW t \in Threads, SaveLSS(t)
       PROVE  TypeInv'
    <2>0. pc[t] = "saveLSS"
        BY Zenon, <1>21 DEF SaveLSS
    <2>1. ccs[t] \in Objects /\ req[t] \in Request
        BY <2>0, RequestTypes
    <2>2. StateTypes'
        <3>1. StateTypes /\ req[t].HRS \in HRSKey /\ req[t].SignBytes \in SignBytes
            BY Zenon, <2>1 DEF StateTypes, Request
        <3>2. Saved(ccs[t], req[t].HRS, req[t].SignBytes, 0) \/ UNCHANGED <<signStates, pending>>
            BY Zenon, <1>21 DEF SaveLSS
        <3> QED BY <2>1, <3>1, <3>2, SavedTypes
    <2>3. Return(t) /\ UNCHANGED <<chainState, loads, file, nonceVars, history>>
        BY Zenon, <1>21 DEF SaveLSS
    <2> QED BY <2>2, <2>3 DEF StateTypes, Return, Goto
<1>22. ASSUME NEW w \in pending, saveSignState(w)
       PROVE  TypeInv'
    BY Zenon, <1>22 DEF saveSignState
<1>23. ASSUME NEW u \in UUIDs, generateNonces(u)
       PROVE  TypeInv'
    BY SMTT(30), <1>23 DEF generateNonces
<1>24. ASSUME NEW u \in UUIDs, pruneNonces(u)
       PROVE  TypeInv'
    BY Zenon, <1>24 DEF pruneNonces
<1>25. ASSUME NEW g \in generating, StoreNonces(g)
       PROVE  TypeInv'
    <2>1. [id |-> g.id, from |-> {Me}] \in Nonce
        BY ZenonT(60) DEF Nonce
    <2>2. nonces' \in [UUIDs -> Nonce \cup {Nil}]
        BY Zenon, <1>25, <2>1 DEF StoreNonces
    <2> QED BY <1>25, <2>2 DEF StoreNonces
<1>26. CASE Restart
    <2>1. DOMAIN signStates' = Objects /\ \A o \in Objects : IsSignState(signStates'[o])
        BY Zenon, <1>26, EmptyStateType DEF Restart
    <2>2. pc' \in [Threads -> {"idle"}] /\ req' \in [Threads -> {NoRequest}] /\ ccs' \in [Threads -> {0}]
        BY Zenon, <1>26 DEF Restart, Each
    <2>3. todo' \in [Threads -> SUBSET Calls] /\ vote' \in [Threads -> Nat] /\ ext' \in [Threads -> Nat]
        BY Zenon, <1>26 DEF Restart, Each
    <2>4. nonces' \in [UUIDs -> Nonce \cup {Nil}] /\ generating' = {} /\ pending' = {}
        BY Zenon, <1>26 DEF Restart
    <2>5. forgetful' \in BOOLEAN
        BY Zenon, <1>26 DEF Restart
    <2>6. /\ chainState' = 0 /\ loads' = 0 /\ restarts' = restarts + 1
          /\ UNCHANGED <<file, nextNonce, shares, received>>
        BY Zenon, <1>26 DEF Restart
    <2> QED BY SMTT(60), <2>1, <2>2, <2>3, <2>4, <2>5, <2>6
<1> QED
    BY ZenonT(60), <1>1, <1>2, <1>3, <1>4, <1>5, <1>6, <1>7, <1>8, <1>9, <1>10, <1>11, <1>12, <1>13, <1>14, <1>15,
       <1>16, <1>17, <1>18, <1>19, <1>20, <1>21, <1>22, <1>23, <1>24, <1>25, <1>26
    DEF Next, Run, LoadSteps, SignSteps

-----------------------------------------------------------------------------
(* The votes that were made with a nonce: those returned, those that the    *)
(* file, its pending writes and the sign states keep, and those the threads *)
(* hold.                                                                    *)
Kept(ss) ==
    {lockedCopy(ss)} \cup
    {[HRS |-> h, SignBytes |-> ss.cache[h].SignBytes, Signature |-> ss.cache[h].Signature] :
        h \in DOMAIN ss.cache}

StateVotes ==
    ({file} \ {Nil}) \cup {w.copy : w \in pending} \cup UNION {Kept(signStates[o]) : o \in Objects}

ThreadVote(t) == [HRS |-> req[t].HRS, SignBytes |-> req[t].SignBytes, Signature |-> vote[t]]

VotesSigned ==
    {v \in {lockedCopy(s) : s \in shares} \cup StateVotes
           \cup {ThreadVote(t) : t \in {u \in Threads : vote[u] # 0}} : v.Signature \notin {0, Nil}}

(* The extensions that were made with a nonce.                              *)
ShareExt(s) == [HRS |-> s.HRS, Ext |-> s.Ext, Signature |-> s.ExtSignature]

ThreadExt(t) == [HRS |-> req[t].HRS, Ext |-> req[t].Ext, Signature |-> ext[t]]

ExtsSigned ==
    {x \in {ShareExt(s) : s \in shares}
           \cup {ThreadExt(t) : t \in {u \in Threads : ext[u] # 0}} : x.Signature # 0}

(* The nonces that can still be used.                                       *)
Unused == {nonces[u].id : u \in {v \in UUIDs : nonces[v] # Nil}} \cup {g.id : g \in generating}

(* No two votes, no two extensions and no vote and extension were made with *)
(* one nonce, and none with a nonce that can still be used.                 *)
SignedOnce(votes, exts, unused, next) ==
    /\ \A v, w \in votes : v.Signature = w.Signature => v = w
    /\ \A x, y \in exts : x.Signature = y.Signature => x = y
    /\ \A v \in votes, x \in exts : v.Signature # x.Signature
    /\ \A m \in votes \cup exts : m.Signature \in 1 .. next - 1 /\ m.Signature \notin unused

(* No nonce is stored twice, under two UUIDs or before it is stored.        *)
UnusedOnce ==
    /\ nextNonce >= 1 /\ Unused \subseteq 1 .. nextNonce - 1
    /\ \A u, v \in UUIDs : nonces[u] # Nil /\ nonces[v] # Nil /\ nonces[u].id = nonces[v].id => u = v
    /\ \A g, h \in generating : g.id = h.id => g = h
    /\ \A u \in UUIDs, g \in generating : nonces[u] # Nil => nonces[u].id # g.id

(* An idle thread holds no signature.                                       *)
HoldsNothing(t) == pc[t] = "idle" => vote[t] = 0 /\ ext[t] = 0

(* The inductive invariant.                                                 *)
NonceInv ==
    /\ UnusedOnce /\ SignedOnce(VotesSigned, ExtsSigned, Unused, nextNonce)
    /\ \A t \in Threads : HoldsNothing(t)

-----------------------------------------------------------------------------
(* What was signed stays signed once when less is signed or can be.         *)
LEMMA FewerSigned ==
    ASSUME NEW V, NEW E, NEW U, NEW n, SignedOnce(V, E, U, n),
           NEW V2 \in SUBSET V, NEW E2 \in SUBSET E, NEW U2 \in SUBSET U
    PROVE  SignedOnce(V2, E2, U2, n)
BY Zenon DEF SignedOnce

(* A vote made with an unused nonce, which is consumed.                     *)
LEMMA VoteSigned ==
    ASSUME NEW V, NEW E, NEW U, NEW n, SignedOnce(V, E, U, n), U \subseteq 1 .. n - 1,
           NEW v, v.Signature \in U,
           NEW V2 \in SUBSET (V \cup {v}), NEW E2 \in SUBSET E, NEW U2 \in SUBSET U, v.Signature \notin U2
    PROVE  SignedOnce(V2, E2, U2, n)
BY Zenon DEF SignedOnce

(* An extension made with an unused nonce, which is consumed.               *)
LEMMA ExtSigned ==
    ASSUME NEW V, NEW E, NEW U, NEW n, SignedOnce(V, E, U, n), U \subseteq 1 .. n - 1,
           NEW x, x.Signature \in U,
           NEW V2 \in SUBSET V, NEW E2 \in SUBSET (E \cup {x}), NEW U2 \in SUBSET U, x.Signature \notin U2
    PROVE  SignedOnce(V2, E2, U2, n)
BY Zenon DEF SignedOnce

(* A nonce that is generated has signed nothing.                            *)
LEMMA NonceGenerated ==
    ASSUME NEW V, NEW E, NEW U, NEW n \in Nat, SignedOnce(V, E, U, n)
    PROVE  SignedOnce(V, E, U \cup {n}, n + 1)
<1>1. 1 .. n - 1 \subseteq 1 .. (n + 1) - 1 /\ n \notin 1 .. n - 1
    OBVIOUS
<1> HIDE DEF SignedOnce
<1> QED BY Zenon, <1>1 DEF SignedOnce

-----------------------------------------------------------------------------
(* A step of thread t leaves what the other threads hold alone.             *)
OthersHold(t) ==
    \A u \in Threads \ {t} : pc'[u] = pc[u] /\ req'[u] = req[u] /\ vote'[u] = vote[u] /\ ext'[u] = ext[u]

(* The votes after a step of a thread that stores or returns only its own.  *)
LEMMA VotesStep ==
    ASSUME NEW t \in Threads, OthersHold(t), shares' \subseteq shares \cup {Share(t)},
           \A v \in StateVotes' : v.Signature \in {0, Nil} \/ v \in StateVotes \/ v = ThreadVote(t),
           vote[t] # Nil
    PROVE  \A v \in VotesSigned' : v \in VotesSigned \/ (vote'[t] # 0 /\ v = ThreadVote(t)')
<1> SUFFICES ASSUME NEW v \in VotesSigned'
             PROVE  v \in VotesSigned \/ (vote'[t] # 0 /\ v = ThreadVote(t)')
    BY Zenon
<1>0. v.Signature \notin {0, Nil}
    BY Zenon DEF VotesSigned
<1>1. v = ThreadVote(t) => v \in VotesSigned
    <2>1. ThreadVote(t).Signature = vote[t]
        BY Zenon DEF ThreadVote
    <2> QED BY Zenon, <1>0, <2>1 DEF VotesSigned
<1>2. ASSUME NEW s \in shares', v = lockedCopy(s)
      PROVE  v \in VotesSigned
    <2>1. lockedCopy(Share(t)) = ThreadVote(t)
        BY Zenon DEF lockedCopy, Share, ThreadVote
    <2>2. CASE s \in shares
        BY Zenon, <1>0, <1>2, <2>2 DEF VotesSigned
    <2>3. CASE s = Share(t)
        BY Zenon, <1>1, <1>2, <2>1, <2>3
    <2> QED BY Zenon, <2>2, <2>3
<1>3. CASE v \in StateVotes'
    BY Zenon, <1>0, <1>1, <1>3 DEF VotesSigned
<1>4. ASSUME NEW u \in Threads, vote'[u] # 0, v = ThreadVote(u)'
      PROVE  v \in VotesSigned \/ (vote'[t] # 0 /\ v = ThreadVote(t)')
    <2>1. CASE u = t
        BY Zenon, <1>4, <2>1
    <2>2. CASE u # t
        <3>1. vote[u] # 0 /\ ThreadVote(u)' = ThreadVote(u)
            BY Zenon, <1>4, <2>2 DEF OthersHold, ThreadVote
        <3> QED BY Zenon, <1>0, <1>4, <3>1 DEF VotesSigned
    <2> QED BY Zenon, <2>1, <2>2
<1>5. \/ v \in StateVotes' \/ \E s \in shares' : v = lockedCopy(s)
      \/ \E u \in Threads : vote'[u] # 0 /\ v = ThreadVote(u)'
    BY Zenon DEF VotesSigned, lockedCopy
<1> QED BY Zenon, <1>2, <1>3, <1>4, <1>5

(* The same of the extensions, which are stored nowhere.                    *)
LEMMA ExtsStep ==
    ASSUME NEW t \in Threads, OthersHold(t), shares' \subseteq shares \cup {Share(t)}
    PROVE  \A x \in ExtsSigned' : x \in ExtsSigned \/ (ext'[t] # 0 /\ x = ThreadExt(t)')
<1> SUFFICES ASSUME NEW x \in ExtsSigned'
             PROVE  x \in ExtsSigned \/ (ext'[t] # 0 /\ x = ThreadExt(t)')
    BY Zenon
<1>0. x.Signature # 0
    BY Zenon DEF ExtsSigned
<1>2. ASSUME NEW s \in shares', x = ShareExt(s)
      PROVE  x \in ExtsSigned
    <2>2. CASE s \in shares
        BY Zenon, <1>0, <1>2, <2>2 DEF ExtsSigned
    <2>3. CASE s = Share(t)
        <3>1. ShareExt(Share(t)).Signature = ext[t]
            BY Zenon DEF Share, ShareExt
        <3>2. ext[t] # 0 => ShareExt(Share(t)) = ThreadExt(t)
            BY Zenon DEF Share, ShareExt, ThreadExt
        <3> QED BY Zenon, <1>0, <1>2, <2>3, <3>1, <3>2 DEF ExtsSigned
    <2> QED BY Zenon, <2>2, <2>3
<1>4. ASSUME NEW u \in Threads, ext'[u] # 0, x = ThreadExt(u)'
      PROVE  x \in ExtsSigned \/ (ext'[t] # 0 /\ x = ThreadExt(t)')
    <2>1. CASE u = t
        BY Zenon, <1>4, <2>1
    <2>2. CASE u # t
        <3>1. ext[u] # 0 /\ ThreadExt(u)' = ThreadExt(u)
            BY Zenon, <1>4, <2>2 DEF OthersHold, ThreadExt
        <3> QED BY Zenon, <1>0, <1>4, <3>1 DEF ExtsSigned
    <2> QED BY Zenon, <2>1, <2>2
<1>5. \/ \E s \in shares' : x = ShareExt(s)
      \/ \E u \in Threads : ext'[u] # 0 /\ x = ThreadExt(u)'
    BY Zenon DEF ExtsSigned, ShareExt
<1> QED BY Zenon, <1>2, <1>4, <1>5

(* The nonce map and the nonces being generated only lose entries.          *)
NoncesShrink ==
    /\ nextNonce' = nextNonce /\ generating' \in SUBSET generating
    /\ \A u \in UUIDs : nonces'[u] # Nil => nonces[u] # Nil /\ nonces'[u].id = nonces[u].id

(* Then no nonce becomes usable that was not.                               *)
LEMMA UnusedShrinks ==
    ASSUME UnusedOnce, NoncesShrink
    PROVE  UnusedOnce' /\ Unused' \in SUBSET Unused
<1>1. Unused' \in SUBSET Unused
    BY Zenon DEF Unused, NoncesShrink
<1> QED BY ZenonT(60), <1>1 DEF UnusedOnce, NoncesShrink

(* A step of a thread that consumes no nonce: what it holds afterwards it   *)
(* held before, or finds among the votes already made.                      *)
LEMMA ThreadStep ==
    ASSUME NonceInv, TypeOK, NEW t \in Threads, OthersHold(t), NoncesShrink,
           shares' \subseteq shares \cup {Share(t)},
           \A v \in StateVotes' : v.Signature \in {0, Nil} \/ v \in StateVotes \/ v = ThreadVote(t),
           \/ vote'[t] = 0
           \/ vote'[t] = vote[t] /\ req'[t] = req[t]
           \/ ThreadVote(t)' \in StateVotes,
           ext'[t] = 0 \/ (ext'[t] = ext[t] /\ req'[t] = req[t]),
           HoldsNothing(t)'
    PROVE  NonceInv'
<1>1. vote[t] # Nil
    BY SMTT(30), NilAssumption DEF TypeOK
<1>2. VotesSigned' \in SUBSET VotesSigned
    <2> SUFFICES ASSUME NEW v \in VotesSigned'
                 PROVE  v \in VotesSigned
        BY Zenon
    <2>1. v \in VotesSigned \/ (vote'[t] # 0 /\ v = ThreadVote(t)')
        BY Zenon, <1>1, VotesStep
    <2>2. v.Signature \notin {0, Nil}
        BY Zenon DEF VotesSigned
    <2>3. CASE vote'[t] # 0 /\ v = ThreadVote(t)' /\ vote'[t] = vote[t] /\ req'[t] = req[t]
        <3>1. v = ThreadVote(t) /\ vote[t] # 0
            BY Zenon, <2>3 DEF ThreadVote
        <3> QED BY Zenon, <2>2, <3>1 DEF VotesSigned
    <2>4. CASE v = ThreadVote(t)' /\ ThreadVote(t)' \in StateVotes
        BY Zenon, <2>2, <2>4 DEF VotesSigned
    <2> QED BY Zenon, <2>1, <2>3, <2>4
<1>3. ExtsSigned' \in SUBSET ExtsSigned
    <2> SUFFICES ASSUME NEW x \in ExtsSigned'
                 PROVE  x \in ExtsSigned
        BY Zenon
    <2>1. x \in ExtsSigned \/ (ext'[t] # 0 /\ x = ThreadExt(t)')
        BY Zenon, ExtsStep
    <2>2. x.Signature # 0
        BY Zenon DEF ExtsSigned
    <2>3. CASE ext'[t] # 0 /\ x = ThreadExt(t)'
        <3>1. x = ThreadExt(t) /\ ext[t] # 0
            BY Zenon, <2>3 DEF ThreadExt
        <3> QED BY Zenon, <2>2, <3>1 DEF ExtsSigned
    <2> QED BY Zenon, <2>1, <2>3
<1>4. UnusedOnce' /\ Unused' \in SUBSET Unused /\ nextNonce' = nextNonce
    BY Zenon, UnusedShrinks DEF NonceInv, NoncesShrink
<1>5. SignedOnce(VotesSigned', ExtsSigned', Unused', nextNonce')
    BY Zenon, <1>2, <1>3, <1>4, FewerSigned DEF NonceInv
<1>6. \A u \in Threads : HoldsNothing(u)'
    BY Zenon DEF NonceInv, OthersHold, HoldsNothing
<1> QED BY Zenon, <1>4, <1>5, <1>6 DEF NonceInv

-----------------------------------------------------------------------------
(* What SignState.Save stores, in memory, in its cache and for the disk, is *)
(* the vote it was called with, or was stored before.                       *)
LEMMA SavedVotes ==
    ASSUME NEW o \in Objects, DOMAIN signStates = Objects, file' = file,
           NEW hrs, NEW bytes, NEW sig, Saved(o, hrs, bytes, sig)
    PROVE  \A v \in StateVotes' :
               v \in StateVotes \/ v = [HRS |-> hrs, SignBytes |-> bytes, Signature |-> sig]
<1> DEFINE next == blockDoubleSign(signStates[o], hrs, bytes, sig)
           new == [HRS |-> hrs, SignBytes |-> bytes, Signature |-> sig]
<1>1. lockedCopy(next) = new
    BY Zenon DEF lockedCopy, blockDoubleSign
<1>2. \A v \in Kept(next) : v = new \/ v \in Kept(signStates[o])
    <2> SUFFICES ASSUME NEW h \in DOMAIN next.cache
                 PROVE  LET e == next.cache[h]
                            v == [HRS |-> h, SignBytes |-> e.SignBytes, Signature |-> e.Signature]
                        IN  v = new \/ v \in Kept(signStates[o])
        BY Zenon, <1>1 DEF Kept
    <2>1. h = hrs => next.cache[h] = Entry(bytes, sig)
        BY Zenon DEF blockDoubleSign
    <2>2. h # hrs => h \in DOMAIN signStates[o].cache /\ next.cache[h] = signStates[o].cache[h]
        BY Zenon DEF blockDoubleSign
    <2>3. Entry(bytes, sig).SignBytes = bytes /\ Entry(bytes, sig).Signature = sig
        BY Zenon DEF Entry
    <2> HIDE DEF next
    <2> QED BY Zenon, <2>1, <2>2, <2>3 DEF Kept
<1>3. /\ signStates' = [signStates EXCEPT ![o] = next]
      /\ pending' = pending \cup {[by |-> o, copy |-> new]}
    BY Zenon, <1>1 DEF Saved
<1> HIDE DEF next
<1>4. \A w \in pending' : w \in pending \/ w.copy = new
    BY <1>3
<1>5. \A q \in Objects : signStates'[q] = IF q = o THEN next ELSE signStates[q]
    BY Zenon, <1>3
<1> HIDE DEF new
<1>6. \A v \in StateVotes' : v \in StateVotes \/ v = new
    <2> SUFFICES ASSUME NEW v \in StateVotes'
                 PROVE  v \in StateVotes \/ v = new
        BY Zenon
    <2>1. CASE v \in {file'} \ {Nil}
        BY Zenon, <2>1 DEF StateVotes
    <2>2. ASSUME NEW w \in pending', v = w.copy
          PROVE  v \in StateVotes \/ v = new
        BY Zenon, <1>4, <2>2 DEF StateVotes
    <2>3. ASSUME NEW q \in Objects, v \in Kept(signStates'[q])
          PROVE  v \in StateVotes \/ v = new
        <3>1. v = new \/ v \in Kept(signStates[q])
            BY Zenon, <1>2, <1>5, <2>3
        <3> QED BY Zenon, <3>1 DEF StateVotes
    <2> QED BY ZenonT(60), <2>1, <2>2, <2>3 DEF StateVotes, Kept
<1> QED BY Zenon, <1>6 DEF new

(* What LoadOrCreateSignState makes stores what the file does, or nothing.  *)
LEMMA LoadedVotes ==
    ASSUME TypeOK, loads < MaxLoads, pending' = pending, NEW ss,
           signStates' = [signStates EXCEPT ![loads + 1] = ss],
           \/ file # Nil /\ file' = file /\ ss = FreshCache(file)
           \/ file' = EmptyFile /\ ss = EmptyState
    PROVE  \A v \in StateVotes' : v.Signature \in {0, Nil} \/ v \in StateVotes
<1>1. /\ loads + 1 \in Objects
      /\ \A q \in Objects : signStates'[q] = IF q = loads + 1 THEN ss ELSE signStates[q]
    BY DEF TypeOK, Objects
<1>2. Kept(EmptyState) = {EmptyFile} /\ EmptyFile.Signature = Nil
    BY Zenon DEF Kept, EmptyState, EmptyFile, lockedCopy
<1>3. file # Nil => Kept(FreshCache(file)) = {file}
    <2>1. SUFFICES ASSUME file \in File
                   PROVE  Kept(FreshCache(file)) = {file}
        BY Zenon DEF TypeOK
    <2>2. file = [HRS |-> file.HRS, SignBytes |-> file.SignBytes, Signature |-> file.Signature]
        BY Zenon, <2>1 DEF File
    <2>3. /\ lockedCopy(FreshCache(file)) = file /\ DOMAIN FreshCache(file).cache = {file.HRS}
          /\ FreshCache(file).cache[file.HRS] = Entry(file.SignBytes, file.Signature)
        BY Zenon, <2>2 DEF lockedCopy, FreshCache
    <2>4. /\ Entry(file.SignBytes, file.Signature).SignBytes = file.SignBytes
          /\ Entry(file.SignBytes, file.Signature).Signature = file.Signature
        BY Zenon DEF Entry
    <2> QED BY Zenon, <2>2, <2>3, <2>4 DEF Kept
<1>4. CASE file # Nil /\ file' = file /\ ss = FreshCache(file)
    BY ZenonT(60), <1>1, <1>3, <1>4 DEF StateVotes
<1>5. CASE file' = EmptyFile /\ ss = EmptyState
    <2>1. \A q \in Objects : \A v \in Kept(signStates'[q]) : v.Signature = Nil \/ v \in Kept(signStates[q])
        BY Zenon, <1>1, <1>2, <1>5
    <2> SUFFICES ASSUME NEW v \in StateVotes'
                 PROVE  v.Signature = Nil \/ v \in StateVotes
        BY Zenon
    <2>2. CASE v = file'
        BY Zenon, <1>2, <1>5, <2>2
    <2>3. CASE \E w \in pending : v = w.copy
        BY Zenon, <2>3 DEF StateVotes
    <2>4. ASSUME NEW q \in Objects, v \in Kept(signStates'[q])
          PROVE  v.Signature = Nil \/ v \in StateVotes
        BY Zenon, <2>1, <2>4 DEF StateVotes
    <2> QED BY Zenon, <2>2, <2>3, <2>4 DEF StateVotes, Kept
<1> QED BY Zenon, <1>4, <1>5

(* The locals of a thread that moves on, or returns.                        *)
LEMMA ThreadMoves ==
    ASSUME TypeOK, NEW t \in Threads
    PROVE  /\ \A l : Goto(t, l) /\ UNCHANGED <<req, vote, ext>> => OthersHold(t) /\ pc'[t] = l
           /\ Return(t) => OthersHold(t) /\ vote'[t] = 0 /\ ext'[t] = 0
<1>1. /\ DOMAIN pc = Threads /\ DOMAIN req = Threads /\ DOMAIN vote = Threads /\ DOMAIN ext = Threads
    BY Zenon DEF TypeOK
<1> QED BY Zenon, <1>1 DEF Goto, Return, OthersHold

(* A nonce that combinedNonces returned cannot be used again.               *)
LEMMA ConsumedForGood ==
    ASSUME UnusedOnce, NoncesShrink, NEW u \in UUIDs, nonces[u] # Nil, nonces'[u] = Nil
    PROVE  nonces[u].id \in Unused /\ nonces[u].id \notin Unused'
<1>1. nonces[u].id \in Unused
    BY Zenon DEF Unused
<1>2. ASSUME NEW v \in UUIDs, nonces'[v] # Nil
      PROVE  nonces'[v].id # nonces[u].id
    <2>1. nonces[v] # Nil /\ nonces'[v].id = nonces[v].id /\ v # u
        BY Zenon, <1>2 DEF NoncesShrink
    <2> QED BY Zenon, <2>1 DEF UnusedOnce
<1>3. ASSUME NEW g \in generating'
      PROVE  g.id # nonces[u].id
    BY Zenon DEF UnusedOnce, NoncesShrink
<1> QED BY Zenon, <1>1, <1>2, <1>3 DEF Unused

(* A thread that consumes a nonce to make its vote.                         *)
LEMMA ConsumeVoteStep ==
    ASSUME NonceInv, TypeInv, NEW t \in Threads, ConsumeVoteNonce(t)
    PROVE  NonceInv'
<1> DEFINE u == req[t].UUID
<1>1. /\ pc[t] = "consume" /\ nonces' = [nonces EXCEPT ![u] = Nil]
      /\ UNCHANGED <<stateVars, generating, nextNonce, req, ext, shares>>
    BY Zenon DEF ConsumeVoteNonce, combinedNonces, history
<1>2. u \in UUIDs /\ nonces \in [UUIDs -> Nonce \cup {Nil}] /\ TypeOK
    BY Zenon, <1>1, RequestTypes DEF TypeInv, TypeOK, ThreadInv, Signing
<1>3. NoncesShrink /\ nonces'[u] = Nil
    BY Zenon, <1>1, <1>2 DEF NoncesShrink
<1>4. StateVotes' = StateVotes
    BY Zenon, <1>1 DEF StateVotes, stateVars
<1>5. /\ DOMAIN pc = Threads /\ DOMAIN vote = Threads
    BY Zenon, <1>2 DEF TypeOK
<1>6. OthersHold(t) /\ pc'[t] # "idle"
    BY Zenon, <1>1, <1>5 DEF ConsumeVoteNonce, Goto, OthersHold
<1>7. CASE ~ Sufficient(u)
    <2>1. vote' = vote
        BY Zenon, <1>7 DEF ConsumeVoteNonce
    <2> QED BY Zenon, <1>1, <1>2, <1>3, <1>4, <1>6, <2>1, ThreadStep DEF HoldsNothing
<1>8. CASE Sufficient(u)
    <2>1. vote'[t] = nonces[u].id /\ nonces[u] # Nil
        BY Zenon, <1>5, <1>8 DEF ConsumeVoteNonce, Sufficient
    <2>2. nonces[u].id \in Unused /\ nonces[u].id \notin Unused'
        BY Zenon, <1>1, <1>2, <1>3, <2>1, ConsumedForGood DEF NonceInv
    <2>3. ThreadVote(t)'.Signature = nonces[u].id
        BY Zenon, <2>1 DEF ThreadVote
    <2>4. vote[t] # Nil
        BY <1>2, NilAssumption DEF TypeOK
    <2>5. VotesSigned' \in SUBSET (VotesSigned \cup {ThreadVote(t)'})
        BY Zenon, <1>1, <1>4, <1>6, <2>4, VotesStep
    <2>6. ExtsSigned' \in SUBSET ExtsSigned
        BY Zenon, <1>1 DEF ExtsSigned, ThreadExt
    <2>7. UnusedOnce' /\ Unused' \in SUBSET Unused
        BY Zenon, <1>3, UnusedShrinks DEF NonceInv
    <2>8. SignedOnce(VotesSigned', ExtsSigned', Unused', nextNonce)
        BY Zenon, <2>2, <2>3, <2>5, <2>6, <2>7, VoteSigned DEF NonceInv, UnusedOnce
    <2>9. \A q \in Threads : HoldsNothing(q)'
        BY Zenon, <1>6 DEF NonceInv, OthersHold, HoldsNothing
    <2> QED BY Zenon, <1>1, <2>7, <2>8, <2>9 DEF NonceInv
<1> QED BY Zenon, <1>7, <1>8

(* A thread that consumes a nonce to make its extension.                    *)
LEMMA ConsumeExtStep ==
    ASSUME NonceInv, TypeInv, NEW t \in Threads, ConsumeExtNonce(t)
    PROVE  NonceInv'
<1> DEFINE u == req[t].VoteExtUUID
<1>1. /\ pc[t] \in {"consumeExt", "extOnly"} /\ nonces' = [nonces EXCEPT ![u] = Nil]
      /\ UNCHANGED <<stateVars, generating, nextNonce, req, vote, shares>>
    BY Zenon DEF ConsumeExtNonce, combinedNonces, history
<1>2. u \in UUIDs /\ nonces \in [UUIDs -> Nonce \cup {Nil}] /\ TypeOK
    BY Zenon, <1>1, RequestTypes DEF TypeInv, TypeOK, ThreadInv, Signing, hasVoteExtensions
<1>3. NoncesShrink /\ nonces'[u] = Nil
    BY Zenon, <1>1, <1>2 DEF NoncesShrink
<1>4. StateVotes' = StateVotes
    BY Zenon, <1>1 DEF StateVotes, stateVars
<1>5. /\ DOMAIN pc = Threads /\ DOMAIN ext = Threads
    BY Zenon, <1>2 DEF TypeOK
<1>6. OthersHold(t) /\ pc'[t] # "idle"
    BY Zenon, <1>1, <1>5 DEF ConsumeExtNonce, Goto, OthersHold
<1>7. CASE ~ Sufficient(u)
    <2>1. ext' = ext
        BY Zenon, <1>7 DEF ConsumeExtNonce
    <2> QED BY Zenon, <1>1, <1>2, <1>3, <1>4, <1>6, <2>1, ThreadStep DEF HoldsNothing
<1>8. CASE Sufficient(u)
    <2>1. ext'[t] = nonces[u].id /\ nonces[u] # Nil
        BY Zenon, <1>5, <1>8 DEF ConsumeExtNonce, Sufficient
    <2>2. nonces[u].id \in Unused /\ nonces[u].id \notin Unused'
        BY Zenon, <1>1, <1>2, <1>3, <2>1, ConsumedForGood DEF NonceInv
    <2>3. ThreadExt(t)'.Signature = nonces[u].id
        BY Zenon, <2>1 DEF ThreadExt
    <2>4. VotesSigned' \in SUBSET VotesSigned
        BY Zenon, <1>1, <1>4 DEF VotesSigned, ThreadVote
    <2>5. ExtsSigned' \in SUBSET (ExtsSigned \cup {ThreadExt(t)'})
        BY Zenon, <1>1, <1>6, ExtsStep
    <2>6. UnusedOnce' /\ Unused' \in SUBSET Unused
        BY Zenon, <1>3, UnusedShrinks DEF NonceInv
    <2>7. SignedOnce(VotesSigned', ExtsSigned', Unused', nextNonce)
        BY Zenon, <2>2, <2>3, <2>4, <2>5, <2>6, ExtSigned DEF NonceInv, UnusedOnce
    <2>8. \A q \in Threads : HoldsNothing(q)'
        BY Zenon, <1>6 DEF NonceInv, OthersHold, HoldsNothing
    <2> QED BY Zenon, <1>1, <2>6, <2>7, <2>8 DEF NonceInv
<1> QED BY Zenon, <1>7, <1>8

-----------------------------------------------------------------------------
(* A step that touches neither signatures nor the threads.                  *)
LEMMA NonceStep ==
    ASSUME NonceInv, UNCHANGED <<stateVars, pc, req, vote, ext, shares>>
    PROVE  /\ VotesSigned' = VotesSigned /\ ExtsSigned' = ExtsSigned
           /\ \A t \in Threads : HoldsNothing(t)'
<1>1. StateVotes' = StateVotes
    BY Zenon DEF StateVotes, stateVars
<1> QED BY Zenon, <1>1 DEF VotesSigned, ExtsSigned, ThreadVote, ThreadExt, NonceInv, HoldsNothing

(* generateNoncesIfNecessary makes a nonce that nothing knows yet.          *)
LEMMA GenerateStep ==
    ASSUME NonceInv, TypeOK, NEW u \in UUIDs, generateNonces(u)
    PROVE  NonceInv'
<1> DEFINE g == [uuid |-> u, id |-> nextNonce]
<1>1. /\ generating' = generating \cup {g} /\ nextNonce' = nextNonce + 1
      /\ UNCHANGED <<stateVars, nonces, pc, req, vote, ext, shares>>
    BY Zenon DEF generateNonces, locals, history
<1>2. g.id = nextNonce
    BY Zenon
<1> HIDE DEF g
<1>3. Unused' = Unused \cup {nextNonce}
    BY Zenon, <1>1, <1>2 DEF Unused
<1>4. nextNonce \in Nat /\ nextNonce >= 1 /\ Unused \subseteq 1 .. nextNonce - 1
    BY Zenon DEF NonceInv, UnusedOnce, TypeOK
<1>5. /\ nextNonce + 1 >= 1 /\ Unused \cup {nextNonce} \subseteq 1 .. (nextNonce + 1) - 1
      /\ nextNonce \notin Unused
    BY <1>4
<1>6. /\ \A v \in UUIDs : nonces[v] # Nil => nonces[v].id # nextNonce
      /\ \A h \in generating : h.id # nextNonce
    BY Zenon, <1>5 DEF Unused
<1>7. UnusedOnce'
    BY Zenon, <1>1, <1>2, <1>3, <1>5, <1>6 DEF NonceInv, UnusedOnce
<1>8. SignedOnce(VotesSigned, ExtsSigned, Unused \cup {nextNonce}, nextNonce + 1)
    BY Zenon, <1>4, NonceGenerated DEF NonceInv
<1> QED BY Zenon, <1>1, <1>3, <1>7, <1>8, NonceStep DEF NonceInv

(* Storing a generated nonce only moves it.                                 *)
LEMMA StoreNoncesStep ==
    ASSUME NonceInv, TypeOK, NEW g \in generating, StoreNonces(g)
    PROVE  NonceInv'
<1> DEFINE n == [id |-> g.id, from |-> {Me}]
<1>1. /\ generating' = generating \ {g} /\ nextNonce' = nextNonce /\ nonces' = [nonces EXCEPT ![g.uuid] = n]
      /\ UNCHANGED <<stateVars, pc, req, vote, ext, shares>>
    BY Zenon DEF StoreNonces, locals, history
<1>2. n.id = g.id /\ g.uuid \in UUIDs /\ DOMAIN nonces = UUIDs
    BY Zenon DEF TypeOK
<1> HIDE DEF n
<1>3. \A u \in UUIDs : nonces'[u] = IF u = g.uuid THEN n ELSE nonces[u]
    BY Zenon, <1>1, <1>2
<1>4. Unused' \in SUBSET Unused
    <2>1. \A u \in UUIDs : nonces'[u] # Nil => nonces'[u].id \in Unused
        <3>1. g.id \in Unused /\ \A u \in UUIDs : nonces[u] # Nil => nonces[u].id \in Unused
            BY Zenon DEF Unused
        <3> QED BY Zenon, <1>2, <1>3, <3>1
    <2>2. \A h \in generating' : h.id \in Unused
        BY Zenon, <1>1 DEF Unused
    <2> QED BY Zenon, <2>1, <2>2 DEF Unused
<1>5. UnusedOnce'
    <2>1. \A u \in UUIDs : nonces'[u] # Nil =>
              \/ u = g.uuid /\ nonces'[u].id = g.id
              \/ u # g.uuid /\ nonces[u] # Nil /\ nonces'[u].id = nonces[u].id /\ nonces[u].id # g.id
        BY ZenonT(60), <1>2, <1>3 DEF NonceInv, UnusedOnce
    <2>2. \A u, v \in UUIDs : nonces'[u] # Nil /\ nonces'[v] # Nil /\ nonces'[u].id = nonces'[v].id => u = v
        <3>1. \A u, v \in UUIDs : nonces[u] # Nil /\ nonces[v] # Nil /\ nonces[u].id = nonces[v].id => u = v
            BY Zenon DEF NonceInv, UnusedOnce
        <3> QED BY Zenon, <2>1, <3>1
    <2>3. \A h \in generating' : h.id # g.id /\ h \in generating
        BY Zenon, <1>1 DEF NonceInv, UnusedOnce
    <2>4. \A u \in UUIDs, h \in generating' : nonces'[u] # Nil => nonces'[u].id # h.id
        <3>1. \A u \in UUIDs, h \in generating : nonces[u] # Nil => nonces[u].id # h.id
            BY Zenon DEF NonceInv, UnusedOnce
        <3> QED BY ZenonT(60), <2>1, <2>3, <3>1
    <2> QED BY Zenon, <1>1, <1>4, <2>2, <2>3, <2>4 DEF NonceInv, UnusedOnce
<1>6. SignedOnce(VotesSigned, ExtsSigned, Unused', nextNonce)
    BY Zenon, <1>4, FewerSigned DEF NonceInv
<1> QED BY Zenon, <1>1, <1>5, <1>6, NonceStep DEF NonceInv

(* A disk write moves a stored vote from the pending writes to the file.    *)
LEMMA DiskWriteStep ==
    ASSUME NonceInv, NEW w \in pending, saveSignState(w)
    PROVE  NonceInv'
<1>1. /\ pending' = pending \ {w} /\ file' = w.copy
      /\ UNCHANGED <<signStates, nonceVars, pc, req, vote, ext, shares>>
    BY Zenon DEF saveSignState, locals, history
<1>2. StateVotes' \in SUBSET StateVotes
    BY Zenon, <1>1 DEF StateVotes
<1>3. VotesSigned' \in SUBSET VotesSigned /\ ExtsSigned' = ExtsSigned
    BY Zenon, <1>1, <1>2 DEF VotesSigned, ThreadVote, ExtsSigned, ThreadExt
<1>4. Unused' = Unused /\ UnusedOnce'
    <2>1. UNCHANGED <<nonces, generating, nextNonce>>
        BY Zenon, <1>1 DEF nonceVars
    <2>2. Unused' = Unused
        BY Zenon, <2>1 DEF Unused
    <2> QED BY Zenon, <2>1, <2>2 DEF NonceInv, UnusedOnce
<1>5. SignedOnce(VotesSigned', ExtsSigned', Unused', nextNonce')
    BY Zenon, <1>1, <1>3, <1>4, FewerSigned DEF NonceInv, nonceVars
<1> QED BY Zenon, <1>1, <1>4, <1>5 DEF NonceInv, HoldsNothing

(* A restart leaves the file and the shares returned, and no nonce.         *)
LEMMA RestartNonceStep ==
    ASSUME NonceInv, Restart
    PROVE  NonceInv'
<1>1. /\ pending' = {} /\ signStates' = [o \in Objects |-> EmptyState] /\ generating' = {}
      /\ UNCHANGED <<file, nextNonce, shares>>
      /\ \A u \in UUIDs : nonces'[u] = Nil
      /\ \A t \in Threads : vote'[t] = 0 /\ ext'[t] = 0
    BY Zenon DEF Restart, Each
<1>2. \A v \in StateVotes' : v.Signature = Nil \/ v \in StateVotes
    <2>1. Kept(EmptyState) = {EmptyFile} /\ EmptyFile.Signature = Nil
        BY Zenon DEF Kept, EmptyState, EmptyFile, lockedCopy
    <2>2. \A o \in Objects : Kept(signStates'[o]) = {EmptyFile}
        BY Zenon, <1>1, <2>1
    <2>3. \A v \in StateVotes' : v = EmptyFile \/ v \in {file} \ {Nil}
        <3> SUFFICES ASSUME NEW v \in StateVotes'
                     PROVE  v = EmptyFile \/ v \in {file} \ {Nil}
            BY Zenon
        <3>1. CASE \E o \in Objects : v \in Kept(signStates'[o])
            BY Zenon, <2>2, <3>1
        <3> QED BY Zenon, <1>1, <3>1 DEF StateVotes, Kept
    <2> QED BY Zenon, <2>1, <2>3 DEF StateVotes
<1>3. VotesSigned' \in SUBSET VotesSigned
    BY Zenon, <1>1, <1>2 DEF VotesSigned
<1>4. ExtsSigned' \in SUBSET ExtsSigned
    BY Zenon, <1>1 DEF ExtsSigned
<1>5. UnusedOnce' /\ Unused' \in SUBSET Unused
    BY Zenon, <1>1, UnusedShrinks DEF NoncesShrink, NonceInv
<1>6. SignedOnce(VotesSigned', ExtsSigned', Unused', nextNonce')
    BY Zenon, <1>1, <1>3, <1>4, <1>5, FewerSigned DEF NonceInv
<1> QED BY Zenon, <1>1, <1>5, <1>6 DEF NonceInv, HoldsNothing

(* A new process has signed nothing and has no nonce.                       *)
LEMMA InitNonceInv == Init => NonceInv
<1> SUFFICES ASSUME Init
             PROVE  NonceInv
    BY Zenon
<1>1. /\ pending = {} /\ file = Nil /\ shares = {} /\ generating = {} /\ nextNonce = 1
      /\ \A o \in Objects : signStates[o] = EmptyState
      /\ \A u \in UUIDs : nonces[u] = Nil
      /\ \A t \in Threads : vote[t] = 0 /\ ext[t] = 0
    BY Zenon DEF Init, Each
<1>2. Unused = {}
    BY Zenon, <1>1 DEF Unused
<1>3. VotesSigned = {}
    <2>1. Kept(EmptyState) = {EmptyFile} /\ EmptyFile.Signature = Nil
        BY Zenon DEF Kept, EmptyState, EmptyFile, lockedCopy
    <2>2. \A o \in Objects : Kept(signStates[o]) = {EmptyFile}
        BY Zenon, <1>1, <2>1
    <2>3. \A v \in StateVotes : v.Signature = Nil
        BY ZenonT(60), <1>1, <2>1, <2>2 DEF StateVotes
    <2> QED BY Zenon, <1>1, <2>3 DEF VotesSigned
<1>4. ExtsSigned = {}
    BY Zenon, <1>1 DEF ExtsSigned
<1>5. UnusedOnce
    BY SMTT(30), <1>1, <1>2 DEF UnusedOnce
<1>6. SignedOnce({}, {}, {}, 1)
    BY Zenon DEF SignedOnce
<1> QED BY Zenon, <1>1, <1>2, <1>3, <1>4, <1>5, <1>6 DEF NonceInv, HoldsNothing

(* Every action keeps what was signed with a nonce apart from what can be.  *)
LEMMA NextNonceInv == TypeInv /\ NonceInv /\ [Next]_vars => NonceInv'
<1> SUFFICES ASSUME TypeInv, NonceInv, [Next]_vars
             PROVE  NonceInv'
    BY Zenon
<1> USE DEF stateVars, nonceVars, locals, history
<1>t. TypeOK /\ DOMAIN pc = Threads /\ DOMAIN nonces = UUIDs
    BY Zenon DEF TypeInv, TypeOK
<1>s. ASSUME UNCHANGED <<signStates, file, pending>>
      PROVE  \A v \in StateVotes' : v \in StateVotes
    BY Zenon, <1>s DEF StateVotes
<1>n. ASSUME UNCHANGED nonceVars
      PROVE  NoncesShrink
    BY Zenon, <1>n DEF NoncesShrink
<1>m. ASSUME NEW t \in Threads, NEW l, Goto(t, l), l # "idle",
             UNCHANGED <<signStates, file, pending, req, vote, ext, shares>>, NoncesShrink
      PROVE  NonceInv'
    BY Zenon, <1>t, <1>s, <1>m, ThreadMoves, ThreadStep DEF HoldsNothing
<1>r. ASSUME NEW t \in Threads, Return(t), UNCHANGED <<signStates, file, pending>>,
             shares' \subseteq shares \cup {Share(t)}, NoncesShrink
      PROVE  NonceInv'
    BY Zenon, <1>t, <1>s, <1>r, ThreadMoves, ThreadStep DEF HoldsNothing
<1>d. ASSUME NEW t \in Threads, DeleteNonces(t), UNCHANGED <<generating, nextNonce>>
      PROVE  NoncesShrink
    BY Zenon, <1>d DEF NoncesShrink, DeleteNonces
<1>1. CASE UNCHANGED vars
    BY Zenon, <1>1, NonceStep, <1>n, UnusedShrinks, FewerSigned DEF vars, NonceInv
<1>2. ASSUME NEW t \in Threads, NEW r \in Requests, Receive(t, r)
      PROVE  NonceInv'
    <2>1. /\ pc[t] = "idle" /\ Goto(t, "load") /\ req' = [req EXCEPT ![t] = r]
          /\ UNCHANGED <<stateVars, nonceVars, vote, ext, shares>>
        BY Zenon, <1>2 DEF Receive
    <2>2. vote'[t] = 0 /\ ext'[t] = 0
        BY Zenon, <2>1 DEF NonceInv, HoldsNothing
    <2>3. OthersHold(t)
        BY Zenon, <1>t, <2>1 DEF OthersHold, Goto, TypeOK
    <2> QED BY Zenon, <1>t, <1>s, <1>n, <2>1, <2>2, <2>3, ThreadStep DEF HoldsNothing
<1>3. ASSUME NEW t \in Threads, Load(t) \/ FileMissing(t) \/ NoncesSet(t) \/ getChainState(t) \/ Recheck(t)
      PROVE  NonceInv'
    BY Zenon, <1>m, <1>n, <1>3 DEF Load, FileMissing, NoncesSet, getChainState, Recheck
<1>4. ASSUME NEW t \in Threads, StoreState(t) \/ Loaded(t)
      PROVE  NonceInv'
    BY Zenon, <1>m, <1>n, <1>4 DEF StoreState, Loaded
<1>5. ASSUME NEW t \in Threads, ReadFile(t) \/ CreateFile(t)
      PROVE  NonceInv'
    <2>1. /\ Goto(t, "store") /\ UNCHANGED <<pending, nonceVars, req, vote, ext, shares>> /\ loads < MaxLoads
          /\ \/ /\ signStates' = [signStates EXCEPT ![loads + 1] = FreshCache(file)]
                /\ file # Nil /\ file' = file
             \/ /\ signStates' = [signStates EXCEPT ![loads + 1] = EmptyState]
                /\ file' = EmptyFile
        BY Zenon, <1>5 DEF ReadFile, CreateFile
    <2>2. \A v \in StateVotes' : v.Signature \in {0, Nil} \/ v \in StateVotes
        BY Zenon, <1>t, <2>1, LoadedVotes
    <2>3. OthersHold(t) /\ pc'[t] = "store"
        BY Zenon, <1>t, <2>1, ThreadMoves
    <2> QED BY Zenon, <1>t, <1>n, <2>1, <2>2, <2>3, ThreadStep DEF HoldsNothing
<1>6. ASSUME NEW t \in Threads, NEW u \in UUIDs, NEW p \in Peers, setNonce(t, u, p)
      PROVE  NonceInv'
    <2>1. UNCHANGED <<stateVars, generating, nextNonce, req, vote, ext, shares>> /\ pc[t] # "idle"
        BY Zenon, <1>6 DEF setNonce
    <2>2. NoncesShrink
        <3>1. CASE nonces[u] = Nil
            BY Zenon, <1>6, <2>1, <3>1 DEF setNonce, NoncesShrink
        <3>2. CASE nonces[u] # Nil
            <4>1. nonces' = [nonces EXCEPT ![u].from = @ \cup {p}] /\ nonces[u] \in Nonce
                BY Zenon, <1>6, <3>2 DEF setNonce, TypeInv, TypeOK
            <4>2. [nonces[u] EXCEPT !.from = @ \cup {p}].id = nonces[u].id
                BY Zenon, <4>1 DEF Nonce
            <4> QED BY Zenon, <1>t, <2>1, <3>2, <4>1, <4>2 DEF NoncesShrink
        <3> QED BY Zenon, <3>1, <3>2
    <2>3. OthersHold(t) /\ pc'[t] # "idle"
        BY Zenon, <1>t, <1>6, <2>1 DEF setNonce, Goto, OthersHold
    <2> QED BY Zenon, <1>t, <1>s, <2>1, <2>2, <2>3, ThreadStep DEF HoldsNothing
<1>7. ASSUME NEW t \in Threads, NoncesFailed(t) \/ ReplyShare(t) \/ ReplyError(t)
      PROVE  NonceInv'
    BY Zenon, <1>n, <1>r, <1>d, <1>7 DEF NoncesFailed, ReplyShare, ReplyError
<1>8. ASSUME NEW t \in Threads, CheckRequest(t)
      PROVE  NonceInv'
    BY Zenon, <1>m, <1>n, <1>r, <1>8 DEF CheckRequest
<1>9. ASSUME NEW t \in Threads, CachedVote(t)
      PROVE  NonceInv'
    <2> DEFINE ss == signStates[ccs[t]]
               r == req[t]
    <2>1. pc[t] = "cached" /\ UNCHANGED <<stateVars, nonceVars, shares>>
        BY Zenon, <1>9 DEF CachedVote
    <2>2. CASE /\ r.HRS \in DOMAIN ss.cache /\ ss.cache[r.HRS].SignBytes = r.SignBytes
               /\ vote' = [vote EXCEPT ![t] = ss.cache[r.HRS].Signature]
               /\ Goto(t, "extOnly") /\ UNCHANGED <<req, ext>>
        <3>1. ccs[t] \in Objects
            BY <2>1 DEF TypeInv, TypeOK, ThreadInv, Signing, Objects
        <3>2. OthersHold(t) /\ vote'[t] = ss.cache[r.HRS].Signature /\ pc'[t] # "idle"
            BY Zenon, <1>t, <2>2 DEF OthersHold, Goto, TypeOK
        <3>3. ThreadVote(t)' \in Kept(ss)
            BY Zenon, <2>2, <3>2 DEF ThreadVote, Kept
        <3>4. ThreadVote(t)' \in StateVotes
            BY Zenon, <3>1, <3>3 DEF StateVotes
        <3> QED BY Zenon, <1>t, <1>s, <1>n, <2>1, <2>2, <3>2, <3>4, ThreadStep DEF HoldsNothing
    <2>3. CASE Return(t)
        BY Zenon, <1>n, <1>r, <2>1, <2>3
    <2> QED BY Zenon, <1>9, <2>2, <2>3 DEF CachedVote
<1>10. ASSUME NEW t \in Threads, ConsumeVoteNonce(t) \/ ConsumeExtNonce(t)
       PROVE  NonceInv'
    BY Zenon, <1>10, ConsumeVoteStep, ConsumeExtStep
<1>11. ASSUME NEW t \in Threads, SaveShare(t)
       PROVE  NonceInv'
    <2>1. pc[t] = "save" /\ UNCHANGED <<file, nonceVars, req, vote, ext, shares>>
        BY Zenon, <1>11 DEF SaveShare
    <2>2. ccs[t] \in Objects /\ DOMAIN signStates = Objects
        BY <2>1 DEF TypeInv, TypeOK, ThreadInv, Signing, Objects
    <2>3. CASE Saved(ccs[t], req[t].HRS, req[t].SignBytes, vote[t]) /\ Goto(t, "reply")
        <3>1. \A v \in StateVotes' :
                  v \in StateVotes \/ v = [HRS |-> req[t].HRS, SignBytes |-> req[t].SignBytes, Signature |-> vote[t]]
            BY <2>1, <2>2, <2>3, SavedVotes
        <3>2. OthersHold(t) /\ pc'[t] = "reply"
            BY Zenon, <1>t, <2>1, <2>3, ThreadMoves
        <3>3. \A v \in StateVotes' : v \in StateVotes \/ v = ThreadVote(t)
            BY Zenon, <3>1 DEF ThreadVote
        <3> QED BY Zenon, <1>t, <1>n, <2>1, <3>2, <3>3, ThreadStep DEF HoldsNothing
    <2>4. CASE (Goto(t, "recheck") \/ Goto(t, "fail")) /\ UNCHANGED <<signStates, pending>>
        BY Zenon, <1>m, <1>n, <2>1, <2>4
    <2> QED BY Zenon, <1>11, <2>3, <2>4 DEF SaveShare
<1>12. ASSUME NEW t \in Threads, SaveLSS(t)
       PROVE  NonceInv'
    <2>1. pc[t] = "saveLSS" /\ Return(t) /\ UNCHANGED <<file, nonceVars, shares>>
        BY Zenon, <1>12 DEF SaveLSS
    <2>2. ccs[t] \in Objects /\ DOMAIN signStates = Objects
        BY <2>1 DEF TypeInv, TypeOK, ThreadInv, Signing, Objects
    <2>3. CASE Saved(ccs[t], req[t].HRS, req[t].SignBytes, 0)
        <3>0. \A v \in StateVotes' :
                  v \in StateVotes \/ v = [HRS |-> req[t].HRS, SignBytes |-> req[t].SignBytes, Signature |-> 0]
            BY <2>1, <2>2, <2>3, SavedVotes
        <3>1. \A v \in StateVotes' : v.Signature = 0 \/ v \in StateVotes
            BY <3>0
        <3> QED BY Zenon, <1>t, <1>n, <2>1, <3>1, ThreadMoves, ThreadStep DEF HoldsNothing
    <2>4. CASE UNCHANGED <<signStates, pending>>
        BY Zenon, <1>n, <1>r, <2>1, <2>4
    <2> QED BY Zenon, <1>12, <2>3, <2>4 DEF SaveLSS
<1>13. ASSUME NEW u \in UUIDs, pruneNonces(u)
       PROVE  NonceInv'
    <2>1. NoncesShrink /\ UNCHANGED <<stateVars, pc, req, vote, ext, shares, nextNonce>>
        BY Zenon, <1>t, <1>13 DEF pruneNonces, NoncesShrink
    <2> QED BY Zenon, <2>1, NonceStep, UnusedShrinks, FewerSigned DEF NonceInv
<1> QED BY Zenon, <1>t, <1>1, <1>2, <1>3, <1>4, <1>5, <1>6, <1>7, <1>8, <1>9, <1>10, <1>11, <1>12, <1>13,
           GenerateStep, StoreNoncesStep, DiskWriteStep, RestartNonceStep
       DEF Next, Run, LoadSteps, SignSteps

(* With the types, the invariant is inductive: no vote and no extension     *)
(* ever made shares its nonce with another, or with one still to be used.   *)
THEOREM NoncesAreSeparate == Spec => [](TypeInv /\ NonceInv)
<1>1. TypeInv /\ NonceInv /\ [Next]_vars => TypeInv' /\ NonceInv'
    BY Zenon, NextTypeInv, NextNonceInv
<1>2. Init => TypeInv /\ NonceInv
    BY Zenon, InitTypeInv, InitNonceInv
<1> QED BY <1>1, <1>2, PTL DEF Spec

(* No nonce of a cosigner ever makes shares over two messages, whichever    *)
(* handlers race for it in combinedNonces and whatever the caches serve.    *)
THEOREM NonceMakesOneShare == Spec => []NonceSignsOneMessage
<1>1. TypeInv /\ NonceInv => NonceSignsOneMessage
    <2> SUFFICES ASSUME TypeInv, NonceInv, NEW x \in shares, NEW y \in shares
                 PROVE  /\ x.Signature = y.Signature /\ x.Signature # 0 => x.HRS = y.HRS /\ x.SignBytes = y.SignBytes
                        /\ x.ExtSignature = y.ExtSignature /\ x.ExtSignature # 0 => x.HRS = y.HRS /\ x.Ext = y.Ext
                        /\ x.Signature = y.ExtSignature => x.Signature = 0
        BY Zenon DEF NonceSignsOneMessage
    <2>1. \A s \in shares : s.Signature # Nil
        BY NilAssumption DEF TypeInv, TypeOK, Response
    <2>2. \A s \in shares :
              /\ lockedCopy(s).HRS = s.HRS /\ lockedCopy(s).SignBytes = s.SignBytes
              /\ lockedCopy(s).Signature = s.Signature
        BY Zenon DEF lockedCopy
    <2>3. \A s \in shares :
              ShareExt(s).HRS = s.HRS /\ ShareExt(s).Ext = s.Ext /\ ShareExt(s).Signature = s.ExtSignature
        BY Zenon DEF ShareExt
    <2>4. \A s \in shares : s.Signature # 0 => lockedCopy(s) \in VotesSigned
        BY Zenon, <2>1, <2>2 DEF VotesSigned
    <2>5. \A s \in shares : s.ExtSignature # 0 => ShareExt(s) \in ExtsSigned
        BY Zenon, <2>3 DEF ExtsSigned
    <2>6. /\ \A v, w \in VotesSigned : v.Signature = w.Signature => v = w
          /\ \A e, f \in ExtsSigned : e.Signature = f.Signature => e = f
          /\ \A v \in VotesSigned, e \in ExtsSigned : v.Signature # e.Signature
        BY Zenon DEF NonceInv, SignedOnce
    <2>7. x.Signature = y.Signature /\ x.Signature # 0 => lockedCopy(x) = lockedCopy(y)
        <3> SUFFICES ASSUME x.Signature = y.Signature, x.Signature # 0
                     PROVE  lockedCopy(x) = lockedCopy(y)
            BY Zenon
        <3>1. lockedCopy(x) \in VotesSigned /\ lockedCopy(y) \in VotesSigned
            BY Zenon, <2>4
        <3>2. lockedCopy(x).Signature = lockedCopy(y).Signature
            BY Zenon, <2>2
        <3> QED BY Zenon, <2>6, <3>1, <3>2
    <2>8. x.ExtSignature = y.ExtSignature /\ x.ExtSignature # 0 => ShareExt(x) = ShareExt(y)
        BY Zenon, <2>3, <2>5, <2>6
    <2>9. x.Signature = y.ExtSignature => x.Signature = 0
        <3> SUFFICES ASSUME x.Signature = y.ExtSignature, x.Signature # 0
                     PROVE  FALSE
            BY Zenon
        <3>1. lockedCopy(x) \in VotesSigned /\ ShareExt(y) \in ExtsSigned
            BY Zenon, <2>4, <2>5
        <3>2. lockedCopy(x).Signature = ShareExt(y).Signature
            BY Zenon, <2>2, <2>3
        <3> QED BY Zenon, <2>6, <3>1, <3>2
    <2> QED BY ZenonT(60), <2>2, <2>3, <2>7, <2>8, <2>9
<1> QED BY <1>1, NoncesAreSeparate, PTL
=============================================================================
