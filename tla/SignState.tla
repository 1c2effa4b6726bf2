------------------------------ MODULE SignState ------------------------------
(***************************************************************************)
(* The sign state of signer/sign_state.go and signer/hrs.go: a high        *)
(* watermark (height, round, step) with the bytes signed there, and a      *)
(* cache of the states signed at recent heights.  The methods that         *)
(* LocalCosigner and ThresholdValidator call under signState.mu are        *)
(* operators on values here; the modules that own a SignState decide which *)
(* calls are atomic together.                                              *)
(*                                                                         *)
(* Sign bytes are a block and a timestamp: the two parts of a canonical    *)
(* vote or proposal that signing tells apart at one height, round and      *)
(* step.  A signature is a value of the owner's choosing; Nil is Go's nil  *)
(* in both fields.                                                         *)
(***************************************************************************)
EXTENDS Integers

CONSTANTS
    Blocks,   \* what a payload votes for or proposes, at one HRS
    Stamps,   \* timestamps a payload may carry
    Nil       \* Go's nil slice, and the absence of a state file

SignBytes == [block : Blocks, stamp : Stamps]

ASSUME NilIsNotSignBytes == Nil \notin SignBytes

HRSKey == [Height : Nat, Round : Nat, Step : 0 .. 3]

(* Lexicographic, most significant field first. *)
GreaterThan(hrs, other) ==
    \/ hrs.Height > other.Height
    \/ hrs.Height = other.Height /\ hrs.Round > other.Round
    \/ hrs.Height = other.Height /\ hrs.Round = other.Round /\ hrs.Step > other.Step

blocksToCache == 3

-----------------------------------------------------------------------------
(* A SignState in memory: the watermark's fields and the cache.  A cache    *)
(* entry is the SignStateConsensus saved under its HRS.                     *)
Entry(bytes, sig) == [SignBytes |-> bytes, Signature |-> sig]

(* A deep copy without the cache: what lockedCopy returns and what the      *)
(* state file holds.                                                        *)
lockedCopy(ss) == [HRS |-> ss.HRS, SignBytes |-> ss.SignBytes, Signature |-> ss.Signature]

ZeroHRS == [Height |-> 0, Round |-> 0, Step |-> 0]

EmptyFile == [HRS |-> ZeroHRS, SignBytes |-> Nil, Signature |-> Nil]

(* The two ways LoadOrCreateSignState makes a state: from a file, with the  *)
(* cache holding the file's own entry, or empty, with an empty cache.       *)
FreshCache(file) ==
    [HRS |-> file.HRS, SignBytes |-> file.SignBytes, Signature |-> file.Signature,
     cache |-> [hrs \in {file.HRS} |-> Entry(file.SignBytes, file.Signature)]]

EmptyState ==
    [HRS |-> ZeroHRS, SignBytes |-> Nil, Signature |-> Nil, cache |-> [hrs \in {} |-> Entry(Nil, Nil)]]

-----------------------------------------------------------------------------
OnlyDifferByTimestamp(existing, bytes) == existing.block = bytes.block

(* errorIfConflictOrRegression(hrst, signBytes) # nil: the watermark is     *)
(* ahead; or it is at this HRS and either holds no bytes (ErrEmptySignBytes) *)
(* or bytes that differ in more than the timestamp.                         *)
errorIfConflictOrRegression(ss, hrs, bytes) ==
    \/ GreaterThan(ss.HRS, hrs)
    \/ /\ ss.HRS = hrs
       /\ \/ ss.SignBytes = Nil
          \/ ss.SignBytes # bytes /\ ~ OnlyDifferByTimestamp(ss.SignBytes, bytes)

(* lockedGetErrorIfLessOrEqual: nil, a SameHRSError, or any other error.    *)
SaveSucceeds(ss, hrs) == GreaterThan(hrs, ss.HRS)

SameHRSError(ss, hrs) == hrs = ss.HRS

(* The state blockDoubleSign leaves behind when it returns no error.        *)
blockDoubleSign(ss, hrs, bytes, sig) ==
    LET kept == {h \in DOMAIN ss.cache \cup {hrs} : h.Height >= hrs.Height - blocksToCache}
    IN  [HRS |-> hrs, SignBytes |-> bytes, Signature |-> sig,
         cache |-> [h \in kept |-> IF h = hrs THEN Entry(bytes, sig) ELSE ss.cache[h]]]
=============================================================================
