------------------------------ MODULE NymKeys ------------------------------
(***************************************************************************)
(* The Go wrapper's `Keys` (go/nymauth/nymauth.go): goroutines that call   *)
(* Verify, Prove and Close on one resident circuit, the finalizer that     *)
(* closes it when it is unreachable, and the C memory each call allocates, *)
(* the copy of the holder's secret seed above all.  The native side of a   *)
(* call (src/nymauth_go_ffi.rs) is what it does to that memory.            *)
(***************************************************************************)
EXTENDS FiniteSets

CONSTANTS
  Threads,     \* the caller's goroutines
  Finalizer,   \* the goroutine the Go runtime runs finalizers on
  Holders,     \* the caller's Holder structs; two calls may share one
  NoProc       \* nobody

ASSUME ProcAssumption ==
  /\ Finalizer \notin Threads
  /\ NoProc \notin Threads \cup {Finalizer}
  /\ Holders # {}

Procs == Threads \cup {Finalizer}

VARIABLES
  p,        \* k.p: "nil" or "handle"
  native,   \* the allocation behind the handle: "none", "live", "freed", "corrupt"
  readers,  \* k.mu: goroutines that hold the read lock
  rwait,    \* k.mu: goroutines queued behind an announced writer
  wlock,    \* k.mu: the writer that announced itself
  pc,       \* where each goroutine is
  kind,     \* which operation it runs
  holder,   \* the Holder its Prove was given
  arg,      \* the value of k.p it passed to the native call
  status,   \* what the native call returned
  seed,     \* h.SecretSeed of each Holder: "secret", "torn" (half zeroed), "zero"
  cseed,    \* the C copy of the seed: "none" or as seed
  cbuf,     \* the other C buffers the call owns: "args", "out"
  spent,    \* Holders some Prove has returned from
  users,    \* goroutines that still reference k
  finalized \* the runtime has started k's finalizer

lockVars   == <<readers, rwait, wlock>>
handleVars == <<p, native>>
callVars   == <<kind, holder, arg, status>>
seedVars   == <<seed, cseed, spent>>
vars == <<lockVars, handleVars, callVars, seedVars, pc, cbuf, users, finalized>>

ReaderPCs == {"copy", "ready", "call", "zero", "zeroing", "take", "cleanup"}
WriterPCs == {"wheld", "wnil", "wunlock"}
PCs == {"idle", "rlock", "runlock", "lzero", "lzeroing", "wlock", "wwait"} \cup ReaderPCs \cup WriterPCs
Seeds == {"secret", "torn", "zero"}

\* k.p is nil or the handle LoadKeys returned, and a status is one of the wrapper's.
TypeOK ==
  /\ p \in {"nil", "handle"}
  /\ native \in {"none", "live", "freed", "corrupt"}
  /\ readers \in SUBSET Procs
  /\ rwait \in SUBSET Procs
  /\ wlock \in Procs \cup {NoProc}
  /\ pc \in [Procs -> PCs]
  /\ kind \in [Procs -> {"none", "verify", "prove", "close"}]
  /\ holder \in [Procs -> Holders]
  /\ arg \in [Procs -> {"nil", "handle"}]
  /\ status \in [Procs -> {"none", "ok", "InvalidArg", "error"}]
  /\ seed \in [Holders -> Seeds]
  /\ cseed \in [Procs -> Seeds \cup {"none"}]
  /\ cbuf \in [Procs -> SUBSET {"args", "out"}]
  /\ spent \in SUBSET Holders
  /\ users \in SUBSET Threads
  /\ finalized \in BOOLEAN

Init ==
  /\ p = "nil" /\ native = "none"
  /\ readers = {} /\ rwait = {} /\ wlock = NoProc
  /\ pc = [t \in Procs |-> "idle"]
  /\ kind = [t \in Procs |-> "none"]
  /\ holder \in [Procs -> Holders]
  /\ arg = [t \in Procs |-> "nil"]
  /\ status = [t \in Procs |-> "none"]
  /\ seed = [h \in Holders |-> "secret"]
  /\ cseed = [t \in Procs |-> "none"]
  /\ cbuf = [t \in Procs |-> {}]
  /\ spent = {}
  /\ users = {}
  /\ finalized = FALSE

Goto(t, from, to) == pc[t] = from /\ pc' = [pc EXCEPT ![t] = to]

\* LoadKeys that succeeds: the native side boxes the keys, the wrapper keeps the
\* pointer and installs the finalizer.  A refused LoadKeys leaves no handle behind.
LoadKeys ==
  /\ native = "none"
  /\ native' = "live" /\ p' = "handle"
  /\ users' = Threads
  /\ UNCHANGED <<lockVars, callVars, seedVars, pc, cbuf, finalized>>

-----------------------------------------------------------------------------
(* sync.RWMutex: an announced writer holds back every new reader, waits for *)
(* the readers in flight, and hands the lock to the readers it held back.   *)

RLock(t) ==
  IF wlock = NoProc
  THEN /\ Goto(t, "idle", "copy")
       /\ readers' = readers \cup {t} /\ UNCHANGED <<rwait, wlock>>
  ELSE /\ Goto(t, "idle", "rlock")
       /\ rwait' = rwait \cup {t} /\ UNCHANGED <<readers, wlock>>

RLockGranted(t) ==
  /\ t \in readers
  /\ Goto(t, "rlock", "copy")
  /\ UNCHANGED <<lockVars, handleVars, callVars, seedVars, cbuf, users, finalized>>

\* Lock by one writer at a time: the others queue on the mutex inside.
LockAnnounce(t) ==
  /\ wlock = NoProc
  /\ Goto(t, "wlock", "wwait")
  /\ wlock' = t
  /\ UNCHANGED <<readers, rwait, handleVars, callVars, seedVars, cbuf, users, finalized>>

\* Mutant: a Close that finds operations in flight gives up.
LockAcquire_TryLock(t) ==
  /\ IF readers = {} THEN Goto(t, "wwait", "wheld") /\ UNCHANGED <<wlock, kind>>
     ELSE /\ Goto(t, "wwait", "idle") /\ wlock' = NoProc
          /\ kind' = [kind EXCEPT ![t] = "none"]
  /\ UNCHANGED <<readers, rwait, handleVars, holder, arg, status, seedVars, cbuf, users, finalized>>

LockAcquire(t) ==
  /\ readers = {}
  /\ Goto(t, "wwait", "wheld")
  /\ UNCHANGED <<lockVars, handleVars, callVars, seedVars, cbuf, users, finalized>>

-----------------------------------------------------------------------------
(* Verify and Prove.                                                        *)

\* Arguments past the limits are refused before the lock and before any copy.
VerifyTooLong(t) ==
  /\ t \in users /\ pc[t] = "idle"
  /\ status' = [status EXCEPT ![t] = "InvalidArg"]
  /\ UNCHANGED <<lockVars, handleVars, kind, holder, arg, seedVars, pc, cbuf, users, finalized>>

Verify(t) ==
  /\ t \in users
  /\ RLock(t)
  /\ kind' = [kind EXCEPT ![t] = "verify"]
  /\ UNCHANGED <<handleVars, holder, arg, status, seedVars, cbuf, users, finalized>>

\* Mutant: the refusal returns before the zeroing loop.
ProveTooLong_KeepsSeed(t, h) ==
  /\ t \in users
  /\ Goto(t, "idle", "runlock")
  /\ kind' = [kind EXCEPT ![t] = "prove"]
  /\ holder' = [holder EXCEPT ![t] = h]
  /\ status' = [status EXCEPT ![t] = "InvalidArg"]
  /\ UNCHANGED <<lockVars, handleVars, arg, seedVars, cbuf, users, finalized>>

\* Prove's own refusal still zeroes the caller's seed, byte by byte.
ProveTooLong(t, h) ==
  /\ t \in users
  /\ Goto(t, "idle", "lzero")
  /\ kind' = [kind EXCEPT ![t] = "prove"]
  /\ holder' = [holder EXCEPT ![t] = h]
  /\ status' = [status EXCEPT ![t] = "InvalidArg"]
  /\ UNCHANGED <<lockVars, handleVars, arg, seedVars, cbuf, users, finalized>>

Prove(t, h) ==
  /\ t \in users
  /\ RLock(t)
  /\ kind' = [kind EXCEPT ![t] = "prove"]
  /\ holder' = [holder EXCEPT ![t] = h]
  /\ UNCHANGED <<handleVars, arg, status, seedVars, cbuf, users, finalized>>

\* The statement, the proof or the holder's parts, and for Prove the seed, are copied
\* into C memory.  The copy of a seed another Prove is zeroing is torn or zero.
CopyArgs(t) ==
  /\ Goto(t, "copy", "ready")
  /\ cbuf' = [cbuf EXCEPT ![t] = {"args"}]
  /\ cseed' = IF kind[t] = "prove" THEN [cseed EXCEPT ![t] = seed[holder[t]]] ELSE cseed
  /\ UNCHANGED <<lockVars, handleVars, callVars, seed, spent, users, finalized>>

\* Mutant: the read lock covers the arguments only, not the native call.
EnterNative_Unlocked(t) ==
  /\ Goto(t, "ready", "call")
  /\ arg' = [arg EXCEPT ![t] = p]
  /\ readers' = readers \ {t}
  /\ UNCHANGED <<rwait, wlock, handleVars, kind, holder, status, seedVars, cbuf, users, finalized>>

EnterNative(t) ==
  /\ Goto(t, "ready", "call")
  /\ arg' = [arg EXCEPT ![t] = p]
  /\ UNCHANGED <<lockVars, handleVars, kind, holder, status, seedVars, cbuf, users, finalized>>

\* zk_cred_vega_nymauth_verify: a null handle is refused, any other outcome is the engine's.
NativeVerify(t, s) ==
  /\ kind[t] = "verify"
  /\ s \in IF arg[t] = "nil" THEN {"InvalidArg"} ELSE {"ok", "error"}
  /\ Goto(t, "call", "cleanup")
  /\ status' = [status EXCEPT ![t] = s]
  /\ UNCHANGED <<lockVars, handleVars, kind, holder, arg, seedVars, cbuf, users, finalized>>

\* zk_cred_vega_nymauth_prove: a null handle is refused, a seed that does not open the
\* credential's ssc is refused, and the C copy of the seed is zeroed whatever the outcome,
\* a panic included.  A proof is handed over in a buffer of its own.
NativeProve(t, s) ==
  /\ kind[t] = "prove"
  /\ s \in IF arg[t] = "nil" THEN {"InvalidArg"}
           ELSE IF cseed[t] = "secret" THEN {"ok", "error"} ELSE {"error"}
  /\ Goto(t, "call", "zero")
  /\ status' = [status EXCEPT ![t] = s]
  /\ cseed' = [cseed EXCEPT ![t] = "zero"]
  /\ cbuf' = IF s = "ok" THEN [cbuf EXCEPT ![t] = @ \cup {"out"}] ELSE cbuf
  /\ UNCHANGED <<lockVars, handleVars, kind, holder, arg, seed, spent, users, finalized>>

\* The caller's seed is zeroed after the call, whatever it returned.
ZeroSeed(t) ==
  \/ /\ \/ Goto(t, "zero", "zeroing")
        \/ Goto(t, "lzero", "lzeroing")
     /\ seed' = [seed EXCEPT ![holder[t]] = IF @ = "zero" THEN "zero" ELSE "torn"]
     /\ UNCHANGED <<lockVars, handleVars, callVars, cseed, spent, cbuf, users, finalized>>
  \/ /\ \/ Goto(t, "zeroing", IF status[t] = "ok" THEN "take" ELSE "cleanup")
        \/ Goto(t, "lzeroing", "runlock")
     /\ seed' = [seed EXCEPT ![holder[t]] = "zero"]
     /\ UNCHANGED <<lockVars, handleVars, callVars, cseed, spent, cbuf, users, finalized>>

\* Mutant: the proof is copied and its buffer never freed.
TakeProof_Leaks(t) ==
  /\ Goto(t, "take", "cleanup")
  /\ UNCHANGED <<lockVars, handleVars, callVars, seedVars, cbuf, users, finalized>>

\* C.GoBytes, then zk_cred_vega_nymauth_free_buffer.
TakeProof(t) ==
  /\ Goto(t, "take", "cleanup")
  /\ cbuf' = [cbuf EXCEPT ![t] = @ \ {"out"}]
  /\ UNCHANGED <<lockVars, handleVars, callVars, seedVars, users, finalized>>

\* The deferred frees; freeSeed wipes the C copy first.
Cleanup(t) ==
  /\ Goto(t, "cleanup", "runlock")
  /\ cbuf' = [cbuf EXCEPT ![t] = @ \ {"args"}]
  /\ cseed' = [cseed EXCEPT ![t] = "none"]
  /\ UNCHANGED <<lockVars, handleVars, callVars, seed, spent, users, finalized>>

\* Mutant: the error return forgets the read lock.
ReturnOp_KeepsLock(t) ==
  /\ Goto(t, "runlock", "idle")
  /\ readers' = IF status[t] = "error" THEN readers ELSE readers \ {t}
  /\ kind' = [kind EXCEPT ![t] = "none"]
  /\ spent' = IF kind[t] = "prove" THEN spent \cup {holder[t]} ELSE spent
  /\ UNCHANGED <<rwait, wlock, handleVars, holder, arg, status, seed, cseed, cbuf, users, finalized>>

\* The deferred RUnlock, and the return.  (A refused too-long Prove returns with no lock
\* to release.)
ReturnOp(t) ==
  /\ Goto(t, "runlock", "idle")
  /\ readers' = readers \ {t}
  /\ kind' = [kind EXCEPT ![t] = "none"]
  /\ spent' = IF kind[t] = "prove" THEN spent \cup {holder[t]} ELSE spent
  /\ UNCHANGED <<rwait, wlock, handleVars, holder, arg, status, seed, cseed, cbuf, users, finalized>>

-----------------------------------------------------------------------------
(* Close, by a caller or by the finalizer.                                  *)

\* Mutant: the pointer is cleared before the lock is held.
Close_ClearsFirst(t) ==
  /\ t \in users
  /\ Goto(t, "idle", "wlock")
  /\ kind' = [kind EXCEPT ![t] = "close"]
  /\ p' = "nil"
  /\ UNCHANGED <<lockVars, native, holder, arg, status, seedVars, cbuf, users, finalized>>

Close(t) ==
  /\ t \in users
  /\ Goto(t, "idle", "wlock")
  /\ kind' = [kind EXCEPT ![t] = "close"]
  /\ UNCHANGED <<lockVars, handleVars, holder, arg, status, seedVars, cbuf, users, finalized>>

\* The runtime finalizes k once, when no goroutine references it any more.
Finalize ==
  /\ native # "none" /\ users = {}
  /\ ~finalized /\ finalized' = TRUE
  /\ Goto(Finalizer, "idle", "wlock")
  /\ kind' = [kind EXCEPT ![Finalizer] = "close"]
  /\ UNCHANGED <<lockVars, handleVars, holder, arg, status, seedVars, cbuf, users>>

\* Mutant: the test for nil is dropped, in Close and in free_keys.
FreeKeys_NoNilCheck(t) ==
  /\ Goto(t, "wheld", "wnil")
  /\ native' = IF native = "live" THEN "freed" ELSE "corrupt"
  /\ UNCHANGED <<p, lockVars, callVars, seedVars, cbuf, users, finalized>>

\* free_keys drops the box: of a live allocation it frees it, of a freed one it corrupts
\* the heap.
FreeKeys(t) ==
  /\ Goto(t, "wheld", IF p = "nil" THEN "wunlock" ELSE "wnil")
  /\ native' = IF p = "nil" THEN native
               ELSE IF native = "live" THEN "freed" ELSE "corrupt"
  /\ UNCHANGED <<p, lockVars, callVars, seedVars, cbuf, users, finalized>>

SetNil(t) ==
  /\ Goto(t, "wnil", "wunlock")
  /\ p' = "nil"
  /\ UNCHANGED <<native, lockVars, callVars, seedVars, cbuf, users, finalized>>

\* Unlock lets in every reader the writer held back.
Unlock(t) ==
  /\ Goto(t, "wunlock", "idle")
  /\ readers' = rwait /\ rwait' = {} /\ wlock' = NoProc
  /\ kind' = [kind EXCEPT ![t] = "none"]
  /\ UNCHANGED <<handleVars, holder, arg, status, seedVars, cbuf, users, finalized>>

\* A goroutine that is in no call drops its last reference to k.
Drop(t) ==
  /\ t \in users /\ pc[t] = "idle"
  /\ users' = users \ {t}
  /\ UNCHANGED <<lockVars, handleVars, callVars, seedVars, pc, cbuf, finalized>>

-----------------------------------------------------------------------------
\* The steps of a call that has begun, each the goroutine's own.
Continue(t) ==
  \/ RLockGranted(t) \/ CopyArgs(t) \/ EnterNative(t)
  \/ \E s \in {"ok", "InvalidArg", "error"} : NativeVerify(t, s) \/ NativeProve(t, s)
  \/ ZeroSeed(t) \/ TakeProof(t) \/ Cleanup(t) \/ ReturnOp(t)
  \/ LockAcquire(t) \/ FreeKeys(t) \/ SetNil(t) \/ Unlock(t)

Next ==
  \/ LoadKeys
  \/ Finalize
  \/ \E t \in Threads :
       \/ VerifyTooLong(t) \/ Verify(t) \/ Close(t) \/ Drop(t)
       \/ \E h \in Holders : ProveTooLong(t, h) \/ Prove(t, h)
  \/ \E t \in Procs : LockAnnounce(t) \/ Continue(t)

\* A goroutine inside a call keeps running and a native call terminates (weak fairness of
\* its steps); sync.Mutex hands itself to its longest waiter after a millisecond, so a
\* waiting writer is not passed over for ever (strong fairness).  Nothing makes a caller
\* call, or the runtime collect garbage.
Fairness ==
  \A t \in Procs : WF_vars(Continue(t)) /\ SF_vars(LockAnnounce(t))

Spec == Init /\ [][Next]_vars
FairSpec == Spec /\ Fairness

-----------------------------------------------------------------------------
(* Properties.                                                              *)

\* While the native code runs with a handle, that handle's keys are allocated, whatever
\* Close, second Close or finalizer runs meanwhile (Keys, "Verify and Prove hold a read
\* lock for the whole native call and Close the write lock").
NoUseAfterFree ==
  \A t \in Procs : pc[t] = "call" /\ arg[t] = "handle" => native = "live"

\* However many goroutines and the finalizer close the keys, free_keys runs once.
NoDoubleFree == native # "corrupt"

\* Every Prove that has returned left the caller's seed zeroed, the too-long refusal
\* included, although two Proves may zero one Holder's seed at once.
SeedsErased == \A h \in spent : seed[h] = "zero"

\* A goroutine that is back in its caller has released everything the call allocated in C
\* memory (arguments, seed copy, the proof buffer) and holds no read lock.
NothingLeftBehind ==
  \A t \in Procs : pc[t] \in {"idle", "wlock"} =>
    cbuf[t] = {} /\ cseed[t] = "none" /\ t \notin readers \cup rwait

-----------------------------------------------------------------------------
(* The inductive invariant behind them (NymKeysProofs).                     *)

\* The RWMutex excludes: the announced writer is unique, it works only when no reader
\* holds the lock, and a reader at work holds it.
LockInv ==
  /\ \A t \in Procs : pc[t] \in WriterPCs \cup {"wwait"} => wlock = t
  /\ \A t \in Procs : pc[t] \in WriterPCs => readers = {}
  /\ \A t \in Procs : pc[t] \in ReaderPCs => t \in readers

\* k.p points at live keys, except between free_keys and the assignment of nil.
HandleInv ==
  /\ native # "corrupt"
  /\ p = "nil" => native \in {"none", "freed"}
  /\ \A t \in Procs : pc[t] = "wnil" => p = "handle" /\ native = "freed"
  /\ p = "handle" /\ native # "live" => \E t \in Procs : pc[t] = "wnil"
  /\ native = "none" => p = "nil" /\ users = {} /\ \A t \in Procs : pc[t] = "idle"

\* The handle a running native call was given is still the one in k.p.
CallInv == \A t \in Procs : pc[t] = "call" => arg[t] = p

\* Past its zeroing loop, a Prove's seed is zero for good.
SeedInv ==
  /\ \A t \in Procs : pc[t] \in {"take", "cleanup", "runlock"} /\ kind[t] = "prove" =>
        seed[holder[t]] = "zero"
  /\ SeedsErased

\* Which C buffers a call owns at each of its steps, and where lock holders are.
MemInv ==
  \A t \in Procs :
    /\ pc[t] \notin {"ready", "call", "zero", "zeroing", "take", "cleanup"} =>
         cbuf[t] = {} /\ cseed[t] = "none"
    /\ pc[t] \in {"ready", "call", "cleanup"} => cbuf[t] = {"args"}
    /\ pc[t] \in {"zero", "zeroing"} /\ status[t] # "ok" => cbuf[t] = {"args"}
    /\ pc[t] \in {"zero", "zeroing", "take"} => cbuf[t] \ {"out"} = {"args"}
    /\ t \in rwait => pc[t] = "rlock" /\ t \notin readers
    /\ t \in readers => pc[t] \in ReaderPCs \cup {"rlock", "runlock"}

IInv == TypeOK /\ LockInv /\ HandleInv /\ CallInv /\ SeedInv /\ MemInv

-----------------------------------------------------------------------------
(* What a caller sees: the wrapper implements KeyLifetime.                  *)

Circuit ==
  IF native = "none" THEN "absent" ELSE IF native = "live" THEN "open" ELSE "closed"

\* An operation is past its native call until its deferred functions have run.
PastNative == {"zero", "zeroing", "take", "cleanup"}

CallOf(t) ==
  IF pc[t] = "call" /\ arg[t] = "handle" THEN "using"
  ELSE IF pc[t] \in PastNative
       THEN IF arg[t] = "handle" THEN "ran" ELSE "refused"
       ELSE "out"

Lifetime == INSTANCE KeyLifetime WITH
  circuit <- Circuit, call <- [t \in Procs |-> CallOf(t)]

\* Close waits for the operations in flight, frees once, and an operation is refused with
\* InvalidArg only when the keys were closed (Keys).
LifetimeSpec == Lifetime!Spec

\* Every call returns: no Close starves behind Verifies, no Verify behind Closes, and
\* nobody waits for ever for a lock some path forgot to release.
CallsReturn == \A t \in Procs : (pc[t] # "idle") ~> (pc[t] = "idle")

\* Once a goroutine calls Close, the native keys are released.
CloseReleases == \A t \in Procs : (kind[t] = "close") ~> (native = "freed")
=============================================================================
