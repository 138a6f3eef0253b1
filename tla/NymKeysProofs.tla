--------------------------- MODULE NymKeysProofs ---------------------------
(***************************************************************************)
(* Proofs about NymKeys for any number of goroutines and Holders: its type *)
(* invariant, its safety invariants through the inductive invariant IInv,  *)
(* and that it implements KeyLifetime.                                     *)
(***************************************************************************)
EXTENDS NymKeys, TLAPS

\* Every step keeps every variable in its type.
LEMMA TypeStep == TypeOK /\ [Next]_vars => TypeOK'
<1> SUFFICES ASSUME TypeOK, [Next]_vars PROVE TypeOK' OBVIOUS
<1> USE ProcAssumption DEF TypeOK, Procs, PCs, ReaderPCs, WriterPCs, Seeds, lockVars, handleVars, callVars, seedVars
<1>1. ASSUME LoadKeys PROVE TypeOK'
  BY <1>1 DEF LoadKeys
<1>2. ASSUME Finalize PROVE TypeOK'
  BY <1>2 DEF Finalize, Goto
<1>3. ASSUME NEW t \in Threads, VerifyTooLong(t) PROVE TypeOK'
  BY <1>3 DEF VerifyTooLong
<1>4. ASSUME NEW t \in Threads, Verify(t) PROVE TypeOK'
  BY <1>4 DEF Verify, RLock, Goto
<1>5. ASSUME NEW t \in Threads, Close(t) PROVE TypeOK'
  BY <1>5 DEF Close, Goto
<1>6. ASSUME NEW t \in Threads, Drop(t) PROVE TypeOK'
  BY <1>6 DEF Drop
<1>7. ASSUME NEW t \in Threads, NEW h \in Holders, ProveTooLong(t, h) PROVE TypeOK'
  BY <1>7 DEF ProveTooLong, Goto
<1>8. ASSUME NEW t \in Threads, NEW h \in Holders, Prove(t, h) PROVE TypeOK'
  BY <1>8 DEF Prove, RLock, Goto
<1>9. ASSUME NEW t \in Procs, LockAnnounce(t) PROVE TypeOK'
  BY <1>9 DEF LockAnnounce, Goto
<1>10. ASSUME NEW t \in Procs, RLockGranted(t) PROVE TypeOK'
  BY <1>10 DEF RLockGranted, Goto
<1>11. ASSUME NEW t \in Procs, CopyArgs(t) PROVE TypeOK'
  BY <1>11 DEF CopyArgs, Goto
<1>12. ASSUME NEW t \in Procs, EnterNative(t) PROVE TypeOK'
  BY <1>12 DEF EnterNative, Goto
<1>13. ASSUME NEW t \in Procs, NEW s \in {"ok", "InvalidArg", "error"}, NativeVerify(t, s) PROVE TypeOK'
  BY <1>13 DEF NativeVerify, Goto
<1>14. ASSUME NEW t \in Procs, NEW s \in {"ok", "InvalidArg", "error"}, NativeProve(t, s) PROVE TypeOK'
  BY <1>14 DEF NativeProve, Goto
<1>15. ASSUME NEW t \in Procs, ZeroSeed(t) PROVE TypeOK'
  BY <1>15 DEF ZeroSeed, Goto
<1>16. ASSUME NEW t \in Procs, TakeProof(t) PROVE TypeOK'
  BY <1>16 DEF TakeProof, Goto
<1>17. ASSUME NEW t \in Procs, Cleanup(t) PROVE TypeOK'
  BY <1>17 DEF Cleanup, Goto
<1>18. ASSUME NEW t \in Procs, ReturnOp(t) PROVE TypeOK'
  BY <1>18 DEF ReturnOp, Goto
<1>19. ASSUME NEW t \in Procs, LockAcquire(t) PROVE TypeOK'
  BY <1>19 DEF LockAcquire, Goto
<1>20. ASSUME NEW t \in Procs, FreeKeys(t) PROVE TypeOK'
  BY <1>20 DEF FreeKeys, Goto
<1>21. ASSUME NEW t \in Procs, SetNil(t) PROVE TypeOK'
  BY <1>21 DEF SetNil, Goto
<1>22. ASSUME NEW t \in Procs, Unlock(t) PROVE TypeOK'
  BY <1>22 DEF Unlock, Goto
<1>23. ASSUME UNCHANGED vars PROVE TypeOK'
  BY <1>23 DEF vars
<1>24. QED
  BY <1>1, <1>2, <1>3, <1>4, <1>5, <1>6, <1>7, <1>8, <1>9, <1>10, <1>11, <1>12, <1>13, <1>14, <1>15, <1>16, <1>17, <1>18, <1>19, <1>20, <1>21, <1>22, <1>23 DEF Next, Continue


\* The initial state has the right type.
LEMMA InitType == Init => TypeOK
<1> SUFFICES ASSUME Init PROVE TypeOK OBVIOUS
<1> USE DEF Init
<1>1. p \in {"nil", "handle"} /\ native \in {"none", "live", "freed", "corrupt"}
  OBVIOUS
<1>2. readers \in SUBSET Procs /\ rwait \in SUBSET Procs /\ wlock \in Procs \cup {NoProc}
  OBVIOUS
<1>3. pc \in [Procs -> PCs]
  BY DEF PCs
<1>4. kind \in [Procs -> {"none", "verify", "prove", "close"}]
  OBVIOUS
<1>5. cbuf \in [Procs -> SUBSET {"args", "out"}]
  OBVIOUS
<1>6. seed \in [Holders -> Seeds] /\ cseed \in [Procs -> Seeds \cup {"none"}]
  BY DEF Seeds
<1>7. QED
  BY <1>1, <1>2, <1>3, <1>4, <1>5, <1>6 DEF TypeOK

\* Type correctness of the wrapper's state: lock, handle, calls, seeds and C buffers.
THEOREM TypeCorrect == Spec => []TypeOK
  BY InitType, TypeStep, PTL DEF Spec

\* Every step keeps the exclusion of readers and writer.
LEMMA LockStep == TypeOK /\ LockInv /\ [Next]_vars => LockInv'
<1> SUFFICES ASSUME TypeOK, LockInv, [Next]_vars PROVE LockInv' OBVIOUS
<1> USE ProcAssumption DEF TypeOK, LockInv, Procs, PCs, ReaderPCs, WriterPCs, lockVars, handleVars, callVars, seedVars
<1>1. ASSUME LoadKeys PROVE LockInv'
  BY <1>1 DEF LoadKeys
<1>2. ASSUME Finalize PROVE LockInv'
  BY <1>2 DEF Finalize, Goto
<1>3. ASSUME NEW t \in Threads, VerifyTooLong(t) PROVE LockInv'
  BY <1>3 DEF VerifyTooLong
<1>4. ASSUME NEW t \in Threads, Verify(t) PROVE LockInv'
  BY <1>4 DEF Verify, RLock, Goto
<1>5. ASSUME NEW t \in Threads, Close(t) PROVE LockInv'
  BY <1>5 DEF Close, Goto
<1>6. ASSUME NEW t \in Threads, Drop(t) PROVE LockInv'
  BY <1>6 DEF Drop
<1>7. ASSUME NEW t \in Threads, NEW h \in Holders, ProveTooLong(t, h) PROVE LockInv'
  BY <1>7 DEF ProveTooLong, Goto
<1>8. ASSUME NEW t \in Threads, NEW h \in Holders, Prove(t, h) PROVE LockInv'
  BY <1>8 DEF Prove, RLock, Goto
<1>9. ASSUME NEW t \in Procs, LockAnnounce(t) PROVE LockInv'
  BY <1>9 DEF LockAnnounce, Goto
<1>10. ASSUME NEW t \in Procs, RLockGranted(t) PROVE LockInv'
  BY <1>10 DEF RLockGranted, Goto
<1>11. ASSUME NEW t \in Procs, CopyArgs(t) PROVE LockInv'
  BY <1>11 DEF CopyArgs, Goto
<1>12. ASSUME NEW t \in Procs, EnterNative(t) PROVE LockInv'
  BY <1>12 DEF EnterNative, Goto
<1>13. ASSUME NEW t \in Procs, NEW s \in {"ok", "InvalidArg", "error"}, NativeVerify(t, s) PROVE LockInv'
  BY <1>13 DEF NativeVerify, Goto
<1>14. ASSUME NEW t \in Procs, NEW s \in {"ok", "InvalidArg", "error"}, NativeProve(t, s) PROVE LockInv'
  BY <1>14 DEF NativeProve, Goto
<1>15. ASSUME NEW t \in Procs, ZeroSeed(t) PROVE LockInv'
  BY <1>15 DEF ZeroSeed, Goto
<1>16. ASSUME NEW t \in Procs, TakeProof(t) PROVE LockInv'
  BY <1>16 DEF TakeProof, Goto
<1>17. ASSUME NEW t \in Procs, Cleanup(t) PROVE LockInv'
  BY <1>17 DEF Cleanup, Goto
<1>18. ASSUME NEW t \in Procs, ReturnOp(t) PROVE LockInv'
  BY <1>18 DEF ReturnOp, Goto
<1>19. ASSUME NEW t \in Procs, LockAcquire(t) PROVE LockInv'
  BY <1>19 DEF LockAcquire, Goto
<1>20. ASSUME NEW t \in Procs, FreeKeys(t) PROVE LockInv'
  BY <1>20 DEF FreeKeys, Goto
<1>21. ASSUME NEW t \in Procs, SetNil(t) PROVE LockInv'
  BY <1>21 DEF SetNil, Goto
<1>22. ASSUME NEW t \in Procs, Unlock(t) PROVE LockInv'
  BY <1>22 DEF Unlock, Goto
<1>23. ASSUME UNCHANGED vars PROVE LockInv'
  BY <1>23 DEF vars
<1>24. QED
  BY <1>1, <1>2, <1>3, <1>4, <1>5, <1>6, <1>7, <1>8, <1>9, <1>10, <1>11, <1>12, <1>13, <1>14, <1>15, <1>16, <1>17, <1>18, <1>19, <1>20, <1>21, <1>22, <1>23 DEF Next, Continue

\* Every step keeps k.p pointing at live keys outside Close's critical section.
LEMMA HandleStep == TypeOK /\ LockInv /\ HandleInv /\ [Next]_vars => HandleInv'
<1> SUFFICES ASSUME TypeOK, LockInv, HandleInv, [Next]_vars PROVE HandleInv' OBVIOUS
<1> USE ProcAssumption DEF TypeOK, LockInv, HandleInv, Procs, PCs, ReaderPCs, WriterPCs, lockVars, handleVars, callVars, seedVars
<1>1. ASSUME LoadKeys PROVE HandleInv'
  BY <1>1 DEF LoadKeys
<1>2. ASSUME Finalize PROVE HandleInv'
  BY <1>2 DEF Finalize, Goto
<1>3. ASSUME NEW t \in Threads, VerifyTooLong(t) PROVE HandleInv'
  BY <1>3 DEF VerifyTooLong
<1>4. ASSUME NEW t \in Threads, Verify(t) PROVE HandleInv'
  BY <1>4 DEF Verify, RLock, Goto
<1>5. ASSUME NEW t \in Threads, Close(t) PROVE HandleInv'
  BY <1>5 DEF Close, Goto
<1>6. ASSUME NEW t \in Threads, Drop(t) PROVE HandleInv'
  BY <1>6 DEF Drop
<1>7. ASSUME NEW t \in Threads, NEW h \in Holders, ProveTooLong(t, h) PROVE HandleInv'
  BY <1>7 DEF ProveTooLong, Goto
<1>8. ASSUME NEW t \in Threads, NEW h \in Holders, Prove(t, h) PROVE HandleInv'
  BY <1>8 DEF Prove, RLock, Goto
<1>9. ASSUME NEW t \in Procs, LockAnnounce(t) PROVE HandleInv'
  BY <1>9 DEF LockAnnounce, Goto
<1>10. ASSUME NEW t \in Procs, RLockGranted(t) PROVE HandleInv'
  BY <1>10 DEF RLockGranted, Goto
<1>11. ASSUME NEW t \in Procs, CopyArgs(t) PROVE HandleInv'
  BY <1>11 DEF CopyArgs, Goto
<1>12. ASSUME NEW t \in Procs, EnterNative(t) PROVE HandleInv'
  BY <1>12 DEF EnterNative, Goto
<1>13. ASSUME NEW t \in Procs, NEW s \in {"ok", "InvalidArg", "error"}, NativeVerify(t, s) PROVE HandleInv'
  BY <1>13 DEF NativeVerify, Goto
<1>14. ASSUME NEW t \in Procs, NEW s \in {"ok", "InvalidArg", "error"}, NativeProve(t, s) PROVE HandleInv'
  BY <1>14 DEF NativeProve, Goto
<1>15. ASSUME NEW t \in Procs, ZeroSeed(t) PROVE HandleInv'
  BY <1>15 DEF ZeroSeed, Goto
<1>16. ASSUME NEW t \in Procs, TakeProof(t) PROVE HandleInv'
  BY <1>16 DEF TakeProof, Goto
<1>17. ASSUME NEW t \in Procs, Cleanup(t) PROVE HandleInv'
  BY <1>17 DEF Cleanup, Goto
<1>18. ASSUME NEW t \in Procs, ReturnOp(t) PROVE HandleInv'
  BY <1>18 DEF ReturnOp, Goto
<1>19. ASSUME NEW t \in Procs, LockAcquire(t) PROVE HandleInv'
  BY <1>19 DEF LockAcquire, Goto
<1>20. ASSUME NEW t \in Procs, FreeKeys(t) PROVE HandleInv'
  BY <1>20 DEF FreeKeys, Goto
<1>21. ASSUME NEW t \in Procs, SetNil(t) PROVE HandleInv'
  BY <1>21 DEF SetNil, Goto
<1>22. ASSUME NEW t \in Procs, Unlock(t) PROVE HandleInv'
  BY <1>22 DEF Unlock, Goto
<1>23. ASSUME UNCHANGED vars PROVE HandleInv'
  BY <1>23 DEF vars
<1>24. QED
  BY <1>1, <1>2, <1>3, <1>4, <1>5, <1>6, <1>7, <1>8, <1>9, <1>10, <1>11, <1>12, <1>13, <1>14, <1>15, <1>16, <1>17, <1>18, <1>19, <1>20, <1>21, <1>22, <1>23 DEF Next, Continue

\* No step changes k.p under a running native call.
LEMMA CallStep == TypeOK /\ LockInv /\ HandleInv /\ CallInv /\ [Next]_vars => CallInv'
<1> SUFFICES ASSUME TypeOK, LockInv, HandleInv, CallInv, [Next]_vars PROVE CallInv' OBVIOUS
<1> USE ProcAssumption DEF TypeOK, LockInv, HandleInv, CallInv, Procs, PCs, ReaderPCs, WriterPCs, lockVars, handleVars, callVars, seedVars
<1>1. ASSUME LoadKeys PROVE CallInv'
  BY <1>1 DEF LoadKeys
<1>2. ASSUME Finalize PROVE CallInv'
  BY <1>2 DEF Finalize, Goto
<1>3. ASSUME NEW t \in Threads, VerifyTooLong(t) PROVE CallInv'
  BY <1>3 DEF VerifyTooLong
<1>4. ASSUME NEW t \in Threads, Verify(t) PROVE CallInv'
  BY <1>4 DEF Verify, RLock, Goto
<1>5. ASSUME NEW t \in Threads, Close(t) PROVE CallInv'
  BY <1>5 DEF Close, Goto
<1>6. ASSUME NEW t \in Threads, Drop(t) PROVE CallInv'
  BY <1>6 DEF Drop
<1>7. ASSUME NEW t \in Threads, NEW h \in Holders, ProveTooLong(t, h) PROVE CallInv'
  BY <1>7 DEF ProveTooLong, Goto
<1>8. ASSUME NEW t \in Threads, NEW h \in Holders, Prove(t, h) PROVE CallInv'
  BY <1>8 DEF Prove, RLock, Goto
<1>9. ASSUME NEW t \in Procs, LockAnnounce(t) PROVE CallInv'
  BY <1>9 DEF LockAnnounce, Goto
<1>10. ASSUME NEW t \in Procs, RLockGranted(t) PROVE CallInv'
  BY <1>10 DEF RLockGranted, Goto
<1>11. ASSUME NEW t \in Procs, CopyArgs(t) PROVE CallInv'
  BY <1>11 DEF CopyArgs, Goto
<1>12. ASSUME NEW t \in Procs, EnterNative(t) PROVE CallInv'
  BY <1>12 DEF EnterNative, Goto
<1>13. ASSUME NEW t \in Procs, NEW s \in {"ok", "InvalidArg", "error"}, NativeVerify(t, s) PROVE CallInv'
  BY <1>13 DEF NativeVerify, Goto
<1>14. ASSUME NEW t \in Procs, NEW s \in {"ok", "InvalidArg", "error"}, NativeProve(t, s) PROVE CallInv'
  BY <1>14 DEF NativeProve, Goto
<1>15. ASSUME NEW t \in Procs, ZeroSeed(t) PROVE CallInv'
  BY <1>15 DEF ZeroSeed, Goto
<1>16. ASSUME NEW t \in Procs, TakeProof(t) PROVE CallInv'
  BY <1>16 DEF TakeProof, Goto
<1>17. ASSUME NEW t \in Procs, Cleanup(t) PROVE CallInv'
  BY <1>17 DEF Cleanup, Goto
<1>18. ASSUME NEW t \in Procs, ReturnOp(t) PROVE CallInv'
  BY <1>18 DEF ReturnOp, Goto
<1>19. ASSUME NEW t \in Procs, LockAcquire(t) PROVE CallInv'
  BY <1>19 DEF LockAcquire, Goto
<1>20. ASSUME NEW t \in Procs, FreeKeys(t) PROVE CallInv'
  BY <1>20 DEF FreeKeys, Goto
<1>21. ASSUME NEW t \in Procs, SetNil(t) PROVE CallInv'
  BY <1>21 DEF SetNil, Goto
<1>22. ASSUME NEW t \in Procs, Unlock(t) PROVE CallInv'
  BY <1>22 DEF Unlock, Goto
<1>23. ASSUME UNCHANGED vars PROVE CallInv'
  BY <1>23 DEF vars
<1>24. QED
  BY <1>1, <1>2, <1>3, <1>4, <1>5, <1>6, <1>7, <1>8, <1>9, <1>10, <1>11, <1>12, <1>13, <1>14, <1>15, <1>16, <1>17, <1>18, <1>19, <1>20, <1>21, <1>22, <1>23 DEF Next, Continue

\* No step brings back a seed that was zeroed.
LEMMA SeedStep == TypeOK /\ SeedInv /\ [Next]_vars => SeedInv'
<1> SUFFICES ASSUME TypeOK, SeedInv, [Next]_vars PROVE SeedInv' OBVIOUS
<1> USE ProcAssumption DEF TypeOK, SeedInv, SeedsErased, Procs, PCs, Seeds, lockVars, handleVars, callVars, seedVars
<1>1. ASSUME LoadKeys PROVE SeedInv'
  BY <1>1 DEF LoadKeys
<1>2. ASSUME Finalize PROVE SeedInv'
  BY <1>2 DEF Finalize, Goto
<1>3. ASSUME NEW t \in Threads, VerifyTooLong(t) PROVE SeedInv'
  BY <1>3 DEF VerifyTooLong
<1>4. ASSUME NEW t \in Threads, Verify(t) PROVE SeedInv'
  BY <1>4 DEF Verify, RLock, Goto
<1>5. ASSUME NEW t \in Threads, Close(t) PROVE SeedInv'
  BY <1>5 DEF Close, Goto
<1>6. ASSUME NEW t \in Threads, Drop(t) PROVE SeedInv'
  BY <1>6 DEF Drop
<1>7. ASSUME NEW t \in Threads, NEW h \in Holders, ProveTooLong(t, h) PROVE SeedInv'
  BY <1>7 DEF ProveTooLong, Goto
<1>8. ASSUME NEW t \in Threads, NEW h \in Holders, Prove(t, h) PROVE SeedInv'
  BY <1>8 DEF Prove, RLock, Goto
<1>9. ASSUME NEW t \in Procs, LockAnnounce(t) PROVE SeedInv'
  BY <1>9 DEF LockAnnounce, Goto
<1>10. ASSUME NEW t \in Procs, RLockGranted(t) PROVE SeedInv'
  BY <1>10 DEF RLockGranted, Goto
<1>11. ASSUME NEW t \in Procs, CopyArgs(t) PROVE SeedInv'
  BY <1>11 DEF CopyArgs, Goto
<1>12. ASSUME NEW t \in Procs, EnterNative(t) PROVE SeedInv'
  BY <1>12 DEF EnterNative, Goto
<1>13. ASSUME NEW t \in Procs, NEW s \in {"ok", "InvalidArg", "error"}, NativeVerify(t, s) PROVE SeedInv'
  BY <1>13 DEF NativeVerify, Goto
<1>14. ASSUME NEW t \in Procs, NEW s \in {"ok", "InvalidArg", "error"}, NativeProve(t, s) PROVE SeedInv'
  BY <1>14 DEF NativeProve, Goto
<1>15. ASSUME NEW t \in Procs, ZeroSeed(t) PROVE SeedInv'
  BY <1>15 DEF ZeroSeed, Goto
<1>16. ASSUME NEW t \in Procs, TakeProof(t) PROVE SeedInv'
  BY <1>16 DEF TakeProof, Goto
<1>17. ASSUME NEW t \in Procs, Cleanup(t) PROVE SeedInv'
  BY <1>17 DEF Cleanup, Goto
<1>18. ASSUME NEW t \in Procs, ReturnOp(t) PROVE SeedInv'
  BY <1>18 DEF ReturnOp, Goto
<1>19. ASSUME NEW t \in Procs, LockAcquire(t) PROVE SeedInv'
  BY <1>19 DEF LockAcquire, Goto
<1>20. ASSUME NEW t \in Procs, FreeKeys(t) PROVE SeedInv'
  BY <1>20 DEF FreeKeys, Goto
<1>21. ASSUME NEW t \in Procs, SetNil(t) PROVE SeedInv'
  BY <1>21 DEF SetNil, Goto
<1>22. ASSUME NEW t \in Procs, Unlock(t) PROVE SeedInv'
  BY <1>22 DEF Unlock, Goto
<1>23. ASSUME UNCHANGED vars PROVE SeedInv'
  BY <1>23 DEF vars
<1>24. QED
  BY <1>1, <1>2, <1>3, <1>4, <1>5, <1>6, <1>7, <1>8, <1>9, <1>10, <1>11, <1>12, <1>13, <1>14, <1>15, <1>16, <1>17, <1>18, <1>19, <1>20, <1>21, <1>22, <1>23 DEF Next, Continue

\* Every step keeps the account of the C buffers a call owns.
LEMMA MemStep == TypeOK /\ LockInv /\ MemInv /\ [Next]_vars => MemInv'
<1> SUFFICES ASSUME TypeOK, LockInv, MemInv, [Next]_vars PROVE MemInv' OBVIOUS
<1> USE ProcAssumption DEF TypeOK, LockInv, MemInv, Procs, PCs, ReaderPCs, WriterPCs, lockVars, handleVars, callVars, seedVars
<1>1. ASSUME LoadKeys PROVE MemInv'
  BY <1>1 DEF LoadKeys
<1>2. ASSUME Finalize PROVE MemInv'
  BY <1>2 DEF Finalize, Goto
<1>3. ASSUME NEW t \in Threads, VerifyTooLong(t) PROVE MemInv'
  BY <1>3 DEF VerifyTooLong
<1>4. ASSUME NEW t \in Threads, Verify(t) PROVE MemInv'
  BY <1>4 DEF Verify, RLock, Goto
<1>5. ASSUME NEW t \in Threads, Close(t) PROVE MemInv'
  BY <1>5 DEF Close, Goto
<1>6. ASSUME NEW t \in Threads, Drop(t) PROVE MemInv'
  BY <1>6 DEF Drop
<1>7. ASSUME NEW t \in Threads, NEW h \in Holders, ProveTooLong(t, h) PROVE MemInv'
  BY <1>7 DEF ProveTooLong, Goto
<1>8. ASSUME NEW t \in Threads, NEW h \in Holders, Prove(t, h) PROVE MemInv'
  BY <1>8 DEF Prove, RLock, Goto
<1>9. ASSUME NEW t \in Procs, LockAnnounce(t) PROVE MemInv'
  BY <1>9 DEF LockAnnounce, Goto
<1>10. ASSUME NEW t \in Procs, RLockGranted(t) PROVE MemInv'
  BY <1>10 DEF RLockGranted, Goto
<1>11. ASSUME NEW t \in Procs, CopyArgs(t) PROVE MemInv'
  BY <1>11 DEF CopyArgs, Goto
<1>12. ASSUME NEW t \in Procs, EnterNative(t) PROVE MemInv'
  BY <1>12 DEF EnterNative, Goto
<1>13. ASSUME NEW t \in Procs, NEW s \in {"ok", "InvalidArg", "error"}, NativeVerify(t, s) PROVE MemInv'
  BY <1>13 DEF NativeVerify, Goto
<1>14. ASSUME NEW t \in Procs, NEW s \in {"ok", "InvalidArg", "error"}, NativeProve(t, s) PROVE MemInv'
  BY <1>14 DEF NativeProve, Goto
<1>15. ASSUME NEW t \in Procs, ZeroSeed(t) PROVE MemInv'
  <2>1. CASE pc[t] \in {"zero", "lzero"} BY <1>15, <2>1 DEF ZeroSeed, Goto
  <2>2. CASE pc[t] = "zeroing" /\ status[t] = "ok"
    <3>1. /\ pc' = [pc EXCEPT ![t] = "take"]
          /\ UNCHANGED <<readers, rwait, cbuf, cseed, status>>
      BY <1>15, <2>2 DEF ZeroSeed, Goto
    <3>2. QED BY <2>2, <3>1
  <2>3. CASE pc[t] = "zeroing" /\ status[t] # "ok" BY <1>15, <2>3 DEF ZeroSeed, Goto
  <2>4. CASE pc[t] = "lzeroing" BY <1>15, <2>4 DEF ZeroSeed, Goto
  <2>5. QED BY <1>15, <2>1, <2>2, <2>3, <2>4 DEF ZeroSeed, Goto
<1>16. ASSUME NEW t \in Procs, TakeProof(t) PROVE MemInv'
  BY <1>16 DEF TakeProof, Goto
<1>17. ASSUME NEW t \in Procs, Cleanup(t) PROVE MemInv'
  BY <1>17 DEF Cleanup, Goto
<1>18. ASSUME NEW t \in Procs, ReturnOp(t) PROVE MemInv'
  BY <1>18 DEF ReturnOp, Goto
<1>19. ASSUME NEW t \in Procs, LockAcquire(t) PROVE MemInv'
  BY <1>19 DEF LockAcquire, Goto
<1>20. ASSUME NEW t \in Procs, FreeKeys(t) PROVE MemInv'
  BY <1>20 DEF FreeKeys, Goto
<1>21. ASSUME NEW t \in Procs, SetNil(t) PROVE MemInv'
  BY <1>21 DEF SetNil, Goto
<1>22. ASSUME NEW t \in Procs, Unlock(t) PROVE MemInv'
  BY <1>22 DEF Unlock, Goto
<1>23. ASSUME UNCHANGED vars PROVE MemInv'
  BY <1>23 DEF vars
<1>24. QED
  BY <1>1, <1>2, <1>3, <1>4, <1>5, <1>6, <1>7, <1>8, <1>9, <1>10, <1>11, <1>12, <1>13, <1>14, <1>15, <1>16, <1>17, <1>18, <1>19, <1>20, <1>21, <1>22, <1>23 DEF Next, Continue


\* The inductive invariant holds in every reachable state.
THEOREM Invariance == Spec => []IInv
<1>1. Init => IInv
  BY InitType
  DEF Init, IInv, LockInv, HandleInv, CallInv, SeedInv, SeedsErased, MemInv, ReaderPCs, WriterPCs
<1>2. IInv /\ [Next]_vars => IInv'
  BY TypeStep, LockStep, HandleStep, CallStep, SeedStep, MemStep DEF IInv
<1>3. QED
  BY <1>1, <1>2, PTL DEF Spec

\* Under the read lock the keys are live or k.p is nil: a Close cannot be half done.
LEMMA ReaderSeesWholeClose ==
  ASSUME IInv, NEW t \in Procs, pc[t] \in ReaderPCs
  PROVE  p = "handle" => native = "live"
  BY ProcAssumption DEF IInv, TypeOK, LockInv, HandleInv, WriterPCs

\* No native call ever runs on freed keys, for any number of goroutines that verify, prove
\* and close, and the finalizer.
THEOREM NoUseAfterFreeAlways == Spec => []NoUseAfterFree
<1>1. IInv => NoUseAfterFree
  BY ReaderSeesWholeClose DEF IInv, CallInv, NoUseAfterFree, ReaderPCs
<1>2. QED
  BY <1>1, Invariance, PTL

\* free_keys never runs on a handle that was already freed.
THEOREM NoDoubleFreeAlways == Spec => []NoDoubleFree
<1>1. IInv => NoDoubleFree
  BY DEF IInv, HandleInv, NoDoubleFree
<1>2. QED
  BY <1>1, Invariance, PTL

\* A Holder some Prove has returned from never holds its seed again.
THEOREM SeedsErasedAlways == Spec => []SeedsErased
<1>1. IInv => SeedsErased
  BY DEF IInv, SeedInv
<1>2. QED
  BY <1>1, Invariance, PTL

\* A call that has returned left no C buffer, no seed copy and no lock behind.
THEOREM NothingLeftBehindAlways == Spec => []NothingLeftBehind
<1>1. IInv => NothingLeftBehind
  BY DEF IInv, MemInv, NothingLeftBehind, ReaderPCs
<1>2. QED
  BY <1>1, Invariance, PTL

\* Every step of the wrapper is a step of KeyLifetime or leaves the caller's view alone.
LEMMA LifetimeStep == IInv /\ [Next]_vars => [Lifetime!Next]_(Lifetime!lifetimeVars)
<1> SUFFICES ASSUME IInv, [Next]_vars PROVE [Lifetime!Next]_(Lifetime!lifetimeVars) OBVIOUS
<1> USE ProcAssumption DEF IInv, TypeOK, LockInv, Circuit, CallOf, PastNative, Lifetime!lifetimeVars, Procs, ReaderPCs, WriterPCs, lockVars, handleVars, callVars, seedVars
<1>1. ASSUME LoadKeys PROVE [Lifetime!Next]_(Lifetime!lifetimeVars)
  <2>1. Lifetime!Load
    BY <1>1 DEF LoadKeys, Lifetime!Load
  <2>2. QED BY <2>1 DEF Lifetime!Next
<1>2. ASSUME Finalize PROVE [Lifetime!Next]_(Lifetime!lifetimeVars)
  BY <1>2 DEF Finalize, Goto
<1>3. ASSUME NEW t \in Threads, VerifyTooLong(t) PROVE [Lifetime!Next]_(Lifetime!lifetimeVars)
  BY <1>3 DEF VerifyTooLong
<1>4. ASSUME NEW t \in Threads, Verify(t) PROVE [Lifetime!Next]_(Lifetime!lifetimeVars)
  BY <1>4 DEF Verify, RLock, Goto
<1>5. ASSUME NEW t \in Threads, Close(t) PROVE [Lifetime!Next]_(Lifetime!lifetimeVars)
  BY <1>5 DEF Close, Goto
<1>6. ASSUME NEW t \in Threads, Drop(t) PROVE [Lifetime!Next]_(Lifetime!lifetimeVars)
  BY <1>6 DEF Drop
<1>7. ASSUME NEW t \in Threads, NEW h \in Holders, ProveTooLong(t, h) PROVE [Lifetime!Next]_(Lifetime!lifetimeVars)
  BY <1>7 DEF ProveTooLong, Goto
<1>8. ASSUME NEW t \in Threads, NEW h \in Holders, Prove(t, h) PROVE [Lifetime!Next]_(Lifetime!lifetimeVars)
  BY <1>8 DEF Prove, RLock, Goto
<1>9. ASSUME NEW t \in Procs, LockAnnounce(t) PROVE [Lifetime!Next]_(Lifetime!lifetimeVars)
  BY <1>9 DEF LockAnnounce, Goto
<1>10. ASSUME NEW t \in Procs, RLockGranted(t) PROVE [Lifetime!Next]_(Lifetime!lifetimeVars)
  BY <1>10 DEF RLockGranted, Goto
<1>11. ASSUME NEW t \in Procs, CopyArgs(t) PROVE [Lifetime!Next]_(Lifetime!lifetimeVars)
  BY <1>11 DEF CopyArgs, Goto
<1>12. ASSUME NEW t \in Procs, EnterNative(t) PROVE [Lifetime!Next]_(Lifetime!lifetimeVars)
  <2>1. CASE p = "nil"
    BY <1>12, <2>1 DEF EnterNative, Goto
  <2>2. CASE p = "handle"
    <3>1. native = "live"
      BY <1>12, <2>2, ReaderSeesWholeClose DEF EnterNative, Goto
    <3>2. Lifetime!Begin(t)
      BY <1>12, <2>2, <3>1 DEF EnterNative, Goto, Lifetime!Begin
    <3>3. QED BY <3>2 DEF Lifetime!Next
  <2>3. QED BY <2>1, <2>2
<1>13. ASSUME NEW t \in Procs, NEW s \in {"ok", "InvalidArg", "error"}, NativeVerify(t, s) PROVE [Lifetime!Next]_(Lifetime!lifetimeVars)
  <2>1. CASE arg[t] = "handle"
    <3>1. Lifetime!End(t)
      BY <1>13, <2>1 DEF NativeVerify, Goto, Lifetime!End
    <3>2. QED BY <3>1 DEF Lifetime!Next
  <2>2. CASE arg[t] = "nil"
    <3>1. native = "freed"
      BY <1>13, <2>2 DEF NativeVerify, Goto, CallInv, HandleInv
    <3>2. Lifetime!Refuse(t)
      BY <1>13, <2>2, <3>1 DEF NativeVerify, Goto, Lifetime!Refuse
    <3>3. QED BY <3>2 DEF Lifetime!Next
  <2>3. QED BY <2>1, <2>2
<1>14. ASSUME NEW t \in Procs, NEW s \in {"ok", "InvalidArg", "error"}, NativeProve(t, s) PROVE [Lifetime!Next]_(Lifetime!lifetimeVars)
  <2>1. CASE arg[t] = "handle"
    <3>1. Lifetime!End(t)
      BY <1>14, <2>1 DEF NativeProve, Goto, Lifetime!End
    <3>2. QED BY <3>1 DEF Lifetime!Next
  <2>2. CASE arg[t] = "nil"
    <3>1. native = "freed"
      BY <1>14, <2>2 DEF NativeProve, Goto, CallInv, HandleInv
    <3>2. Lifetime!Refuse(t)
      BY <1>14, <2>2, <3>1 DEF NativeProve, Goto, Lifetime!Refuse
    <3>3. QED BY <3>2 DEF Lifetime!Next
  <2>3. QED BY <2>1, <2>2
<1>15. ASSUME NEW t \in Procs, ZeroSeed(t) PROVE [Lifetime!Next]_(Lifetime!lifetimeVars)
  BY <1>15 DEF ZeroSeed, Goto
<1>16. ASSUME NEW t \in Procs, TakeProof(t) PROVE [Lifetime!Next]_(Lifetime!lifetimeVars)
  BY <1>16 DEF TakeProof, Goto
<1>17. ASSUME NEW t \in Procs, Cleanup(t) PROVE [Lifetime!Next]_(Lifetime!lifetimeVars)
  <2>1. Lifetime!Return(t)
    BY <1>17 DEF Cleanup, Goto, Lifetime!Return
  <2>2. QED BY <2>1 DEF Lifetime!Next
<1>18. ASSUME NEW t \in Procs, ReturnOp(t) PROVE [Lifetime!Next]_(Lifetime!lifetimeVars)
  BY <1>18 DEF ReturnOp, Goto
<1>19. ASSUME NEW t \in Procs, LockAcquire(t) PROVE [Lifetime!Next]_(Lifetime!lifetimeVars)
  BY <1>19 DEF LockAcquire, Goto
<1>20. ASSUME NEW t \in Procs, FreeKeys(t) PROVE [Lifetime!Next]_(Lifetime!lifetimeVars)
  <2>1. CASE p = "nil"
    BY <1>20, <2>1 DEF FreeKeys, Goto
  <2>2. CASE p = "handle"
    <3>1. native = "live"
      BY <1>20, <2>2 DEF FreeKeys, Goto, HandleInv
    <3>2. Lifetime!Close
      BY <1>20, <2>2, <3>1 DEF FreeKeys, Goto, Lifetime!Close
    <3>3. QED BY <3>2 DEF Lifetime!Next
  <2>3. QED BY <2>1, <2>2
<1>21. ASSUME NEW t \in Procs, SetNil(t) PROVE [Lifetime!Next]_(Lifetime!lifetimeVars)
  BY <1>21 DEF SetNil, Goto
<1>22. ASSUME NEW t \in Procs, Unlock(t) PROVE [Lifetime!Next]_(Lifetime!lifetimeVars)
  BY <1>22 DEF Unlock, Goto
<1>23. ASSUME UNCHANGED vars PROVE [Lifetime!Next]_(Lifetime!lifetimeVars)
  BY <1>23 DEF vars
<1>24. QED
  BY <1>1, <1>2, <1>3, <1>4, <1>5, <1>6, <1>7, <1>8, <1>9, <1>10, <1>11, <1>12, <1>13, <1>14, <1>15, <1>16, <1>17, <1>18, <1>19, <1>20, <1>21, <1>22, <1>23 DEF Next, Continue


\* The wrapper implements KeyLifetime.
THEOREM ImplementsLifetime == Spec => LifetimeSpec
<1>1. Init => Lifetime!Init
  BY DEF Init, Lifetime!Init, Circuit, CallOf, PastNative
<1>2. IInv /\ [Next]_vars => [Lifetime!Next]_(Lifetime!lifetimeVars)
  BY LifetimeStep
<1>3. QED
  BY <1>1, <1>2, Invariance, PTL DEF Spec, LifetimeSpec, Lifetime!Spec
=============================================================================
