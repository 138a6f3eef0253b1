---------------------------- MODULE NymAbiProofs ----------------------------
(* Proofs about NymAbi for any number of calls.                             *)
EXTENDS NymAbi, TLAPS

\* Every step keeps every variable in its type.
LEMMA TypeStep == TypeOK /\ OutputInv /\ [Next]_vars => TypeOK'
<1> SUFFICES ASSUME TypeOK, OutputInv, [Next]_vars PROVE TypeOK' OBVIOUS
<1> USE CallsAssumption DEF TypeOK, Arguments, Failures, Null
<1>1. ASSUME NEW a \in Arguments, Call(a) PROVE TypeOK'
  BY <1>1 DEF Call
<1>2. ASSUME CheckPointers PROVE TypeOK'
  BY <1>2 DEF CheckPointers, End
<1>3. ASSUME ReadSlices PROVE TypeOK'
  BY <1>3 DEF ReadSlices, End
<1>4. ASSUME NEW code \in Failures \cup {"OK"}, Engine(code) PROVE TypeOK'
  BY <1>4 DEF Engine, End
<1>5. ASSUME Panic PROVE TypeOK'
  BY <1>5 DEF Panic, End
<1>6. ASSUME ZeroSeed PROVE TypeOK'
  BY <1>6 DEF ZeroSeed
<1>7. ASSUME Return PROVE TypeOK'
  <2>1. calls \in 1..MaxCalls /\ calls \in 0..MaxCalls BY <1>7 DEF Return, OutputInv
  <2>2. CASE answer = "OK"
    <3>1. live' \in SUBSET (1..MaxCalls) BY <1>7, <2>1, <2>2 DEF Return
    <3>2. QED BY <1>7, <2>1, <2>2, <3>1 DEF Return
  <2>3. CASE answer # "OK" BY <1>7, <2>3 DEF Return
  <2>4. QED BY <2>2, <2>3
<1>8. ASSUME FreeBuffer PROVE TypeOK'
  BY <1>8 DEF FreeBuffer
<1>9. CASE UNCHANGED vars
  BY <1>9 DEF vars
<1>10. QED
  BY <1>1, <1>2, <1>3, <1>4, <1>5, <1>6, <1>7, <1>8, <1>9 DEF Next

\* Every step keeps the account of the caller's seed.
LEMMA SeedStep == TypeOK /\ SeedInv /\ [Next]_vars => SeedInv'
<1> SUFFICES ASSUME TypeOK, SeedInv, [Next]_vars PROVE SeedInv' OBVIOUS
<1> USE DEF TypeOK, SeedInv, SeedView, Checked, Arguments
<1>1. ASSUME NEW a \in Arguments, Call(a) PROVE SeedInv'
  BY <1>1 DEF Call
<1>2. ASSUME CheckPointers PROVE SeedInv'
  BY <1>2 DEF CheckPointers, End
<1>3. ASSUME ReadSlices PROVE SeedInv'
  BY <1>3 DEF ReadSlices, End
<1>4. ASSUME NEW code \in Failures \cup {"OK"}, Engine(code) PROVE SeedInv'
  BY <1>4 DEF Engine, End
<1>5. ASSUME Panic PROVE SeedInv'
  BY <1>5 DEF Panic, End
<1>6. ASSUME ZeroSeed PROVE SeedInv'
  BY <1>6 DEF ZeroSeed
<1>7. ASSUME Return PROVE SeedInv'
  BY <1>7 DEF Return
<1>8. ASSUME FreeBuffer PROVE SeedInv'
  BY <1>8 DEF FreeBuffer
<1>9. CASE UNCHANGED vars
  BY <1>9 DEF vars
<1>10. QED
  BY <1>1, <1>2, <1>3, <1>4, <1>5, <1>6, <1>7, <1>8, <1>9 DEF Next

\* Every step keeps the account of the caller's output variables.
LEMMA OutputStep == TypeOK /\ SeedInv /\ OutputInv /\ [Next]_vars => OutputInv'
<1> SUFFICES ASSUME TypeOK, SeedInv, OutputInv, [Next]_vars PROVE OutputInv' OBVIOUS
<1> USE CallsAssumption DEF TypeOK, SeedInv, OutputInv, OutputsAreThisCalls, SeedView, Checked, Arguments,
  Failures, Null
<1>1. ASSUME NEW a \in Arguments, Call(a) PROVE OutputInv'
  BY <1>1 DEF Call
<1>2. ASSUME CheckPointers PROVE OutputInv'
  BY <1>2 DEF CheckPointers, End
<1>3. ASSUME ReadSlices PROVE OutputInv'
  BY <1>3 DEF ReadSlices, End
<1>4. ASSUME NEW code \in Failures \cup {"OK"}, Engine(code) PROVE OutputInv'
  BY <1>4 DEF Engine, End
<1>5. ASSUME Panic PROVE OutputInv'
  BY <1>5 DEF Panic, End
<1>6. ASSUME ZeroSeed PROVE OutputInv'
  BY <1>6 DEF ZeroSeed
<1>7. ASSUME Return PROVE OutputInv'
  BY <1>7 DEF Return
<1>8. ASSUME FreeBuffer PROVE OutputInv'
  BY <1>8 DEF FreeBuffer
<1>9. CASE UNCHANGED vars
  BY <1>9 DEF vars
<1>10. QED
  BY <1>1, <1>2, <1>3, <1>4, <1>5, <1>6, <1>7, <1>8, <1>9 DEF Next

\* The inductive invariant holds in every reachable state.
THEOREM Invariance == Spec => []IInv
<1>1. Init => IInv
  BY CallsAssumption DEF Init, IInv, TypeOK, SeedInv, OutputInv, OutputsAreThisCalls, SeedView,
    Checked, Arguments, Failures, Null
<1>2. IInv /\ [Next]_vars => IInv'
  BY TypeStep, SeedStep, OutputStep DEF IInv
<1>3. QED
  BY <1>1, <1>2, PTL DEF Spec

\* However often prove is called and however a call ends, a writable seed of sane length is
\* zero when the call has returned.
THEOREM SaneSeedIsZeroedAlways == Spec => []SaneSeedIsZeroed
<1>1. IInv => SaneSeedIsZeroed
  BY DEF IInv, SeedInv, SaneSeedIsZeroed
<1>2. QED
  BY <1>1, Invariance, PTL

\* After any number of calls, the output variables hold this call's results or none.
THEOREM OutputsAreThisCallsAlways == Spec => []OutputsAreThisCalls
<1>1. IInv => OutputsAreThisCalls
  BY DEF IInv, OutputInv
<1>2. QED
  BY <1>1, Invariance, PTL
=============================================================================
