---------------------------- MODULE GoFfiProofs ----------------------------
(***************************************************************************)
(* Proofs about the C ABI of the generic verifier, for any threads, any    *)
(* caps, any proofs and inputs and any number of calls.                    *)
(***************************************************************************)
EXTENDS GoFfi, SequenceTheorems, FiniteSetTheorems, TLAPS

-----------------------------------------------------------------------------
(* What a call computes.                                                   *)

\* The bytes of a disclosed slot, when they fit.
LEMMA DisclosedBytes ==
  ASSUME CapsAssumption, NEW d \in CDisclosedInput, disclosed_bytes(d).ok
  PROVE  LET b == disclosed_bytes(d).value
         IN  /\ b.bytes \in Seq(Nat) /\ Len(b.bytes) <= MAX_CLAIM_BYTES_V1
             /\ b = IF d.present = 0 THEN None ELSE Some(SubSeq(d.bytes, 1, d.len))
<1>1. CASE d.present = 0
  <2>1. disclosed_bytes(d).value = None
    BY <1>1 DEF disclosed_bytes, Ok
  <2>2. None.bytes = <<>> /\ <<>> \in Seq(Nat) /\ Len(<<>>) = 0
    BY DEF None
  <2>3. QED BY <1>1, <2>1, <2>2 DEF CapsAssumption
<1>2. CASE d.present # 0
  <2>1. d.len \in Nat /\ d.bytes \in [1..MAX_CLAIM_BYTES_V1 -> Nat]
    BY DEF CDisclosedInput
  <2>2. ~(d.len > MAX_CLAIM_BYTES_V1)
    BY <1>2 DEF disclosed_bytes, Error
  <2>3. disclosed_bytes(d).value = Some(SubSeq(d.bytes, 1, d.len))
    BY <1>2, <2>2 DEF disclosed_bytes, Ok
  <2>4. /\ SubSeq(d.bytes, 1, d.len) \in Seq(Nat)
        /\ Len(SubSeq(d.bytes, 1, d.len)) = IF 1 <= d.len THEN d.len - 1 + 1 ELSE 0
    <3>1. \A i \in 1..d.len : d.bytes[i] \in Nat
      BY <2>1, <2>2 DEF CapsAssumption
    <3>2. QED BY <2>1, <3>1, SubSeqProperties
  <2>5. Some(SubSeq(d.bytes, 1, d.len)).bytes = SubSeq(d.bytes, 1, d.len)
    BY DEF Some
  <2>6. Len(SubSeq(d.bytes, 1, d.len)) <= MAX_CLAIM_BYTES_V1
    BY <2>1, <2>2, <2>4 DEF CapsAssumption
  <2>7. QED BY <1>2, <2>3, <2>4, <2>5, <2>6
<1>3. QED BY <1>1, <1>2

\* What the slots disclose, as the caller's array has it.
Pieces(a) == [i \in Slots |-> disclosed_bytes(a.disclosed[i]).value]

\* One claim as verify_and_check_binding reports it.
Reported(b) ==
  [disclosed |-> IF b.some THEN 1 ELSE 0, real_len |-> Len(b.bytes), plaintext |-> b.bytes]

\* The conditions of zk_cred_vega_verify.
Accepts(key, a) ==
  /\ a.handle # Null /\ a.proof.is = "data" /\ a.disclosed # <<>>
  /\ Len(a.disclosed) = MAX_CLAIMS_V1
  /\ \A i \in Slots : disclosed_bytes(a.disclosed[i]).ok
  /\ a.proof.of.key = key /\ Pieces(a) = a.proof.of.slots

\* The array of a call that passes the count is one input per slot.
LEMMA OnePerSlot ==
  ASSUME CapsAssumption, NEW ds \in Inputs, Len(ds) = MAX_CLAIMS_V1
  PROVE  DOMAIN ds = Slots /\ \A i \in Slots : ds[i] \in CDisclosedInput
<1>1. ds \in Seq(CDisclosedInput)
  BY DEF CapsAssumption
<1>2. QED BY <1>1, LenProperties, ElementOfSeq DEF Slots

\* zk_cred_vega_verify succeeds under those conditions and under no others.
LEMMA VerifyIff ==
  ASSUME CapsAssumption, NEW key, NEW a, a.disclosed \in Inputs
  PROVE  /\ verify(key, a).ok <=> Accepts(key, a)
         /\ verify(key, a).ok =>
              verify(key, a).value = to_c_result([i \in Slots |-> Reported(Pieces(a)[i])])
<1> DEFINE ds == [i \in DOMAIN a.disclosed |-> disclosed_bytes(a.disclosed[i])]
           pr == deserialize(a.proof)
<1>1. /\ pr.ok <=> a.proof.is = "data"
      /\ pr.ok => pr.value = a.proof.of
  BY DEF deserialize, Error, Ok
<1>2. CASE \/ a.handle = Null \/ ~pr.ok \/ a.disclosed = <<>> \/ Len(a.disclosed) # MAX_CLAIMS_V1
  <2>1. ~verify(key, a).ok
    BY <1>2 DEF verify, Error
  <2>2. QED BY <1>1, <1>2, <2>1 DEF Accepts
<1>3. CASE ~(\/ a.handle = Null \/ ~pr.ok \/ a.disclosed = <<>> \/ Len(a.disclosed) # MAX_CLAIMS_V1)
  <2>1. DOMAIN a.disclosed = Slots
    BY <1>3, OnePerSlot
  <2>2. \A i \in Slots : ds[i] = disclosed_bytes(a.disclosed[i])
    BY <2>1
  <2>3. [i \in Slots |-> ds[i].value] = Pieces(a)
    BY <2>2 DEF Pieces
  <2> DEFINE v == verified(key, pr.value, Pieces(a))
  <2>4. verify(key, a) = IF \E i \in Slots : ~ds[i].ok THEN Error
                         ELSE IF v.ok THEN Ok(to_c_result(v.value)) ELSE Error
    BY <1>3, <2>3 DEF verify
  <2>5. /\ v.ok <=> pr.value.key = key /\ Pieces(a) = pr.value.slots
        /\ v.ok => v.value = [i \in Slots |-> Reported(Pieces(a)[i])]
    BY DEF verified, Reported, Error, Ok
  <2> HIDE DEF v, ds, pr
  <2>6. verify(key, a).ok <=> v.ok /\ \A i \in Slots : ds[i].ok
    BY <2>4 DEF Error, Ok
  <2>7. verify(key, a).ok => verify(key, a).value = to_c_result(v.value)
    BY <2>4, <2>6 DEF Ok
  <2>8. verify(key, a).ok <=> Accepts(key, a)
    BY <1>1, <1>3, <2>2, <2>5, <2>6 DEF Accepts
  <2>9. QED BY <2>5, <2>6, <2>7, <2>8
<1>4. QED BY <1>2, <1>3

\* The fixed-size twin of a claim is its bytes and zeros behind them.
LEMMA FixedSizeTwin ==
  ASSUME CapsAssumption, NEW b \in Seq(Nat), Len(b) <= MAX_CLAIM_BYTES_V1
  PROVE  [j \in 1..MAX_CLAIM_BYTES_V1 |-> IF j <= Len(b) THEN b[j] ELSE 0]
           = b \o [j \in 1..MAX_CLAIM_BYTES_V1 - Len(b) |-> 0]
<1> DEFINE n == MAX_CLAIM_BYTES_V1
           z == [j \in 1..n - Len(b) |-> 0]
           l == [j \in 1..n |-> IF j <= Len(b) THEN b[j] ELSE 0]
<1>1. n \in Nat /\ Len(b) \in Nat /\ n - Len(b) \in Nat
  BY LenProperties DEF CapsAssumption
<1>2. z \in Seq(Nat) /\ Len(z) = n - Len(b) /\ \A j \in 1..n - Len(b) : z[j] = 0
  BY <1>1
<1>3. /\ b \o z \in Seq(Nat) /\ Len(b \o z) = Len(b) + Len(z)
      /\ \A i \in 1..Len(b) + Len(z) : (b \o z)[i] = IF i <= Len(b) THEN b[i] ELSE z[i - Len(b)]
  <2> HIDE DEF z
  <2>1. QED BY <1>2, ConcatProperties
<1>4. l \in Seq(Nat) /\ Len(l) = n /\ \A j \in 1..n : l[j] = IF j <= Len(b) THEN b[j] ELSE 0
  <2>1. \A j \in 1..n : (IF j <= Len(b) THEN b[j] ELSE 0) \in Nat
    BY <1>1, LenProperties
  <2>2. l \in [1..n -> Nat]
    BY <2>1
  <2>3. QED BY <1>1, <2>2
<1> HIDE DEF z, l, n
<1>5. Len(l) = Len(b \o z)
  BY <1>1, <1>2, <1>3, <1>4
<1>6. ASSUME NEW i \in 1..Len(l) PROVE l[i] = (b \o z)[i]
  BY <1>1, <1>2, <1>3, <1>4
<1>7. l = b \o z
  BY <1>3, <1>4, <1>5, <1>6, SeqEqual
<1>8. QED BY <1>7 DEF l, z, n

\* The fixed-size twin of a reported claim, field by field.
LEMMA TwinOfReported ==
  ASSUME CapsAssumption, NEW b, b.bytes \in Seq(Nat), Len(b.bytes) <= MAX_CLAIM_BYTES_V1
  PROVE  to_c_claim(Reported(b))
           = [disclosed |-> IF b.some THEN 1 ELSE 0, real_len |-> Len(b.bytes),
              plaintext |-> b.bytes \o [j \in 1..MAX_CLAIM_BYTES_V1 - Len(b.bytes) |-> 0]]
<1> DEFINE twin == [j \in 1..MAX_CLAIM_BYTES_V1 |->
                      IF j <= Len(b.bytes) THEN b.bytes[j] ELSE 0]
<1>1. PICK c : c = Reported(b)
  OBVIOUS
<1>2. PICK flag, len, bytes : /\ flag = (IF b.some THEN 1 ELSE 0) /\ len = Len(b.bytes)
                              /\ bytes = b.bytes
                              /\ c = [disclosed |-> flag, real_len |-> len, plaintext |-> bytes]
  BY <1>1 DEF Reported
<1>3. c.plaintext = b.bytes
  BY <1>2
<1>4. to_c_claim(c) = [c EXCEPT !.plaintext = twin]
  BY <1>3 DEF to_c_claim
<1> HIDE DEF twin
<1>5. [c EXCEPT !.plaintext = twin] = [disclosed |-> flag, real_len |-> len, plaintext |-> twin]
  BY <1>2, SMT
<1>6. twin = b.bytes \o [j \in 1..MAX_CLAIM_BYTES_V1 - Len(b.bytes) |-> 0]
  BY FixedSizeTwin DEF twin
<1>7. QED BY <1>1, <1>2, <1>4, <1>5, <1>6

\* The result of a successful call is what its proof shows.
LEMMA VerifyShows ==
  ASSUME CapsAssumption, NEW key, NEW a, a.disclosed \in Inputs, verify(key, a).ok
  PROVE  verify(key, a).value = Shown(a.proof.of)
<1> DEFINE p == a.proof.of
           r == [i \in Slots |-> Reported(Pieces(a)[i])]
<1>1. /\ Accepts(key, a)
      /\ verify(key, a).value = to_c_result(r)
  BY VerifyIff
<1>2. Pieces(a) = p.slots /\ \A i \in Slots : a.disclosed[i] \in CDisclosedInput
  BY <1>1, OnePerSlot DEF Accepts
<1>3. \A i \in Slots : p.slots[i].bytes \in Seq(Nat) /\ Len(p.slots[i].bytes) <= MAX_CLAIM_BYTES_V1
  <2> SUFFICES ASSUME NEW i \in Slots
               PROVE  p.slots[i].bytes \in Seq(Nat) /\ Len(p.slots[i].bytes) <= MAX_CLAIM_BYTES_V1
    OBVIOUS
  <2>1. disclosed_bytes(a.disclosed[i]).ok /\ a.disclosed[i] \in CDisclosedInput
    BY <1>1, <1>2 DEF Accepts
  <2>2. p.slots[i] = disclosed_bytes(a.disclosed[i]).value
    BY <1>2 DEF Pieces
  <2>3. QED BY <2>1, <2>2, DisclosedBytes
<1>4. \A i \in Slots : r[i] = Reported(p.slots[i])
  BY <1>2
<1> HIDE DEF r, p
<1>5. ASSUME NEW i \in Slots PROVE to_c_claim(r[i]) = Shown(p)[i]
  <2> DEFINE b == p.slots[i]
  <2>1. to_c_claim(Reported(b))
          = [disclosed |-> IF b.some THEN 1 ELSE 0, real_len |-> Len(b.bytes),
             plaintext |-> b.bytes \o [j \in 1..MAX_CLAIM_BYTES_V1 - Len(b.bytes) |-> 0]]
    BY <1>3, TwinOfReported
  <2>2. QED BY <1>4, <2>1 DEF Shown
<1>6. to_c_result(r) = Shown(p)
  BY <1>5 DEF to_c_result, Shown
<1>7. QED BY <1>1, <1>6 DEF r, p

\* An entry of the UniFFI caller for one slot, and what the UniFFI surface reads it as.
Entry(d) == IF d.present = 0 THEN <<>> ELSE SubSeq(d.bytes, 1, d.len)
ReadAs(e) == IF e = <<>> THEN None ELSE Some(e)

\* The slots both surfaces are documented for: no entry present and empty, none too long.
Documented(ds) ==
  \A i \in DOMAIN ds : ds[i].present # 0 => ds[i].len \in 1..MAX_CLAIM_BYTES_V1

\* On a documented slot both surfaces read the same.
LEMMA SlotsAgree ==
  ASSUME CapsAssumption, NEW d \in CDisclosedInput,
         d.present # 0 => d.len \in 1..MAX_CLAIM_BYTES_V1
  PROVE  disclosed_bytes(d).ok /\ disclosed_bytes(d).value = ReadAs(Entry(d))
<1>1. CASE d.present = 0
  BY <1>1 DEF disclosed_bytes, Ok, ReadAs, Entry
<1>2. CASE d.present # 0
  <2>1. d.len \in 1..MAX_CLAIM_BYTES_V1 /\ d.bytes \in [1..MAX_CLAIM_BYTES_V1 -> Nat]
    BY <1>2 DEF CDisclosedInput
  <2>2. ~(d.len > MAX_CLAIM_BYTES_V1)
    BY <2>1 DEF CapsAssumption
  <2>3. disclosed_bytes(d).ok /\ disclosed_bytes(d).value = Some(SubSeq(d.bytes, 1, d.len))
    BY <1>2, <2>2 DEF disclosed_bytes, Ok
  <2>4. SubSeq(d.bytes, 1, d.len) # <<>>
    <3>1. \A i \in 1..d.len : d.bytes[i] \in Nat
      BY <2>1 DEF CapsAssumption
    <3>2. Len(SubSeq(d.bytes, 1, d.len)) = d.len
      BY <2>1, <3>1, SubSeqProperties DEF CapsAssumption
    <3>3. d.len # 0 /\ Len(<<>>) = 0
      BY <2>1
    <3>4. QED BY <3>2, <3>3
  <2>5. QED BY <1>2, <2>3, <2>4 DEF ReadAs, Entry
<1>3. QED BY <1>1, <1>2

\* With documented slots, a key and a handle, the C entry point and the UniFFI one agree.
LEMMA CallsAgree ==
  ASSUME CapsAssumption, NEW key, NEW a, a.disclosed \in Inputs, a.handle # Null,
         Documented(a.disclosed)
  PROVE  LET u == uniffi_verify(key, a.proof, Entries(a.disclosed))
         IN  /\ verify(key, a).ok <=> u.ok
             /\ u.ok => u.value = [i \in Slots |-> Reported(Pieces(a)[i])]
<1> DEFINE es == Entries(a.disclosed)
           u == uniffi_verify(key, a.proof, es)
           pr == deserialize(a.proof)
<1>1. /\ pr.ok <=> a.proof.is = "data"
      /\ pr.ok => pr.value = a.proof.of
  BY DEF deserialize, Error, Ok
<1>2. a.disclosed \in Seq(CDisclosedInput)
  BY DEF CapsAssumption
<1>3. Len(es) = Len(a.disclosed) /\ DOMAIN es = DOMAIN a.disclosed
  <2>1. Len(a.disclosed) \in Nat /\ DOMAIN a.disclosed = 1..Len(a.disclosed)
    BY <1>2, LenProperties
  <2>2. QED BY <2>1 DEF Entries
<1>4. CASE Len(a.disclosed) # MAX_CLAIMS_V1
  <2>1. ~u.ok
    BY <1>3, <1>4 DEF uniffi_verify, Error
  <2>2. ~verify(key, a).ok
    BY <1>4, VerifyIff DEF Accepts
  <2>3. QED BY <2>1, <2>2
<1>5. CASE Len(a.disclosed) = MAX_CLAIMS_V1
  <2>1. DOMAIN a.disclosed = Slots /\ \A i \in Slots : a.disclosed[i] \in CDisclosedInput
    BY <1>5, OnePerSlot
  <2>2. \A i \in Slots : es[i] = Entry(a.disclosed[i])
    BY <2>1 DEF Entries, Entry
  <2>3. \A i \in Slots : /\ disclosed_bytes(a.disclosed[i]).ok
                         /\ disclosed_bytes(a.disclosed[i]).value = ReadAs(Entry(a.disclosed[i]))
    BY <2>1, SlotsAgree DEF Documented
  <2>4. Pieces(a) = [i \in Slots |-> IF es[i] = <<>> THEN None ELSE Some(es[i])]
    <3>1. \A i \in Slots : Pieces(a)[i] = IF es[i] = <<>> THEN None ELSE Some(es[i])
      BY <2>2, <2>3 DEF Pieces, ReadAs
    <3>2. QED BY <3>1 DEF Pieces
  <2> DEFINE v == verified(key, pr.value, Pieces(a))
  <2>5. u = IF ~pr.ok THEN Error ELSE v
    BY <1>3, <1>5, <2>4 DEF uniffi_verify
  <2>6. /\ v.ok <=> pr.value.key = key /\ Pieces(a) = pr.value.slots
        /\ v.ok => v.value = [i \in Slots |-> Reported(Pieces(a)[i])]
    BY DEF verified, Reported, Error, Ok
  <2>7. a.disclosed # <<>>
    BY <1>5 DEF CapsAssumption
  <2> HIDE DEF v, u, pr, es
  <2>8. /\ u.ok <=> pr.ok /\ v.ok
        /\ u.ok => u.value = v.value
    BY <2>5 DEF Error
  <2>9. verify(key, a).ok <=> u.ok
    BY <1>1, <1>5, <2>3, <2>6, <2>7, <2>8, VerifyIff DEF Accepts
  <2>10. QED BY <2>6, <2>8, <2>9 DEF u, es
<1>6. QED BY <1>4, <1>5

-----------------------------------------------------------------------------
(* Pointers.                                                               *)

\* The pointers somebody holds, and the threads in a call.
Held == (strings \cup DOMAIN keys \cup {error_out[t] : t \in Threads}) \ {Null}
Busy == {t \in Threads : pc[t] # "idle"}

\* A call allocates at most one string or handle, when it returns.
Counted ==
  /\ IsFiniteSet(Held) /\ IsFiniteSet(Busy)
  /\ Cardinality(Held) + Cardinality(Busy) <= calls
  /\ calls \in Nat /\ calls <= MaxCalls

\* The variables' shapes.
Shapes ==
  /\ strings \subseteq Nat \ {Null} /\ DOMAIN keys \subseteq Nat \ {Null}
  /\ pc \in [Threads -> {"idle", "body", "return"}]
  /\ error_out \in [Threads -> Nat] /\ handle_out \in [Threads -> Nat]
  /\ status \in [Threads -> Int]
  /\ DOMAIN args = Threads /\ DOMAIN out = Threads
  /\ DOMAIN result_out = Threads /\ DOMAIN before = Threads

\* A call that returns finds a pointer nobody holds.
LEMMA FreshExists ==
  ASSUME CapsAssumption, Counted, Shapes, NEW t \in Threads, pc[t] # "idle"
  PROVE  /\ Fresh \in Nat \ {Null} /\ Fresh \notin Held
         /\ Fresh \notin strings /\ Fresh \notin DOMAIN keys
         /\ \A u \in Threads : error_out[u] # Fresh
<1> DEFINE all == 1..2 * MaxCalls
<1>1. MaxCalls \in Nat
  BY DEF CapsAssumption
<1>2. Cardinality(Held) \in Nat /\ Cardinality(Busy) \in Nat
  BY FS_CardinalityType DEF Counted
<1>3. Cardinality(Busy) # 0
  <2>1. t \in Busy
    BY DEF Busy
  <2>2. QED BY <2>1, FS_EmptySet DEF Counted
<1>4. Cardinality(Held) < MaxCalls
  BY <1>1, <1>2, <1>3 DEF Counted
<1>5. IsFiniteSet(all) /\ Cardinality(all) = 2 * MaxCalls
  <2>1. 1 \in Int /\ 2 * MaxCalls \in Int /\ 2 * MaxCalls >= 1
    BY <1>1, <1>2, <1>4
  <2>2. QED BY <2>1, FS_Interval
<1>6. ~(all \subseteq Held)
  <2> SUFFICES ASSUME all \subseteq Held PROVE FALSE
    OBVIOUS
  <2>1. Cardinality(all) <= Cardinality(Held)
    <3>1. IsFiniteSet(Held) /\ all \in SUBSET Held
      BY DEF Counted
    <3> HIDE DEF all
    <3>2. QED BY <3>1, FS_Subset
  <2>2. QED BY <1>1, <1>2, <1>4, <1>5, <2>1
<1>7. PICK n \in all : n \notin Held
  BY <1>6
<1>8. n \in Nat \ {Null}
  BY <1>1, <1>7 DEF Null
<1>9. n \notin strings \cup DOMAIN keys /\ \A u \in Threads : error_out[u] # n
  BY <1>7, <1>8 DEF Held
<1>10. /\ Fresh \in all /\ Fresh \notin strings \cup DOMAIN keys
       /\ \A u \in Threads : error_out[u] # Fresh
  BY <1>7, <1>9 DEF Fresh
<1>11. Fresh \in Nat \ {Null}
  BY <1>1, <1>10 DEF Null
<1>12. QED BY <1>10, <1>11 DEF Held

\* A call starts: the caller gives up its pointer or keeps it, and one more thread is busy.
LEMMA CountCall ==
  ASSUME CapsAssumption, Counted, NEW t \in Threads, t \notin Busy, calls < MaxCalls,
         Held' \subseteq Held, Busy' = Busy \cup {t}, calls' = calls + 1
  PROVE  Counted'
<1>1. Cardinality(Held) \in Nat /\ Cardinality(Busy) \in Nat
  BY FS_CardinalityType DEF Counted
<1>2. IsFiniteSet(Held') /\ Cardinality(Held') <= Cardinality(Held)
  BY FS_Subset DEF Counted
<1>3. IsFiniteSet(Busy') /\ Cardinality(Busy') = Cardinality(Busy) + 1
  BY FS_AddElement DEF Counted
<1>4. Cardinality(Held') \in Nat /\ MaxCalls \in Nat
  BY <1>2, FS_CardinalityType DEF CapsAssumption
<1>5. QED BY <1>1, <1>2, <1>3, <1>4 DEF Counted

\* A call returns: one pointer more, one busy thread less.
LEMMA CountReturn ==
  ASSUME Counted, NEW t \in Busy, NEW p,
         Held' \subseteq Held \cup {p}, Busy' = Busy \ {t}, calls' = calls
  PROVE  Counted'
<1>1. Cardinality(Held) \in Nat /\ Cardinality(Busy) \in Nat
  BY FS_CardinalityType DEF Counted
<1>2. /\ IsFiniteSet(Held \cup {p})
      /\ Cardinality(Held \cup {p}) = IF p \in Held THEN Cardinality(Held) ELSE Cardinality(Held) + 1
  BY FS_AddElement DEF Counted
<1>3. IsFiniteSet(Held') /\ Cardinality(Held') <= Cardinality(Held \cup {p})
  BY <1>2, FS_Subset
<1>4. IsFiniteSet(Busy') /\ Cardinality(Busy') = Cardinality(Busy) - 1
  BY FS_RemoveElement DEF Counted
<1>5. Cardinality(Held') \in Nat
  BY <1>3, FS_CardinalityType
<1>6. QED BY <1>1, <1>2, <1>3, <1>4, <1>5 DEF Counted

\* Nothing is allocated and nobody calls or returns.
LEMMA CountKept ==
  ASSUME Counted, Held' \subseteq Held, Busy' = Busy, calls' = calls
  PROVE  Counted'
<1>1. Cardinality(Held) \in Nat /\ Cardinality(Busy) \in Nat
  BY FS_CardinalityType DEF Counted
<1>2. IsFiniteSet(Held') /\ Cardinality(Held') <= Cardinality(Held) /\ Cardinality(Held') \in Nat
  BY FS_Subset, FS_CardinalityType DEF Counted
<1>3. QED BY <1>1, <1>2 DEF Counted

\* Each live string has one owner.
Owned ==
  \A s \in strings : \E t \in Threads :
    error_out[t] = s /\ \A u \in Threads : error_out[u] = s => u = t

\* During a call that was passed a variable, the variable is null: set_error_out never
\* overwrites a live string.
Cleared == \A t \in Threads : pc[t] # "idle" /\ args[t].wants => error_out[t] = Null

\* The second half of ErrorsAreOwnedOnce.
Told ==
  \A t \in Threads : pc[t] = "idle" /\ args[t].wants => (Succeeded(t) <=> error_out[t] = Null)

Pointers == Shapes /\ Counted /\ Owned /\ Cleared /\ Told

\* What set_error_out does to the pointers.
LEMMA SetErrorOut ==
  ASSUME CapsAssumption, Pointers, NEW t \in Threads, pc[t] # "idle", set_error_out(t)
  PROVE  /\ strings' \subseteq Nat \ {Null} /\ error_out' \in [Threads -> Nat]
         /\ Owned'
         /\ \A u \in Threads \ {t} : error_out'[u] = error_out[u]
         /\ args[t].wants => error_out'[t] # Null
         /\ ~args[t].wants => error_out' = error_out
         /\ strings' \subseteq strings \cup {Fresh}
         /\ \A u \in Threads : error_out'[u] \in {error_out[u], Fresh}
<1> USE DEF Pointers
<1>1. /\ Fresh \in Nat \ {Null} /\ Fresh \notin strings
      /\ \A u \in Threads : error_out[u] # Fresh
  BY FreshExists
<1>2. strings \subseteq Nat \ {Null} /\ error_out \in [Threads -> Nat]
  BY DEF Shapes
<1>3. CASE args[t].wants
  <2>1. /\ strings' = strings \cup {Fresh}
        /\ error_out' = [error_out EXCEPT ![t] = Fresh]
    BY <1>3 DEF set_error_out
  <2>2. error_out[t] \notin strings
    BY <1>2, <1>3 DEF Cleared
  <2>3. Owned'
    <3> SUFFICES ASSUME NEW s \in strings'
                 PROVE  \E u \in Threads : /\ error_out'[u] = s
                                           /\ \A w \in Threads : error_out'[w] = s => w = u
      BY DEF Owned
    <3>1. CASE s = Fresh
      BY <1>1, <1>2, <2>1, <3>1
    <3>2. CASE s \in strings
      <4>1. PICK u \in Threads : error_out[u] = s /\ \A w \in Threads : error_out[w] = s => w = u
        BY <3>2 DEF Owned
      <4>2. u # t
        BY <2>2, <3>2, <4>1
      <4>3. QED BY <1>1, <1>2, <2>1, <3>2, <4>1, <4>2
    <3>3. QED BY <2>1, <3>1, <3>2
  <2>4. QED BY <1>1, <1>2, <1>3, <2>1, <2>3
<1>4. CASE ~args[t].wants
  <2>1. strings' = strings /\ error_out' = error_out
    BY <1>4 DEF set_error_out
  <2>2. Owned'
    BY <2>1 DEF Owned
  <2>3. QED BY <1>2, <1>4, <2>1, <2>2
<1>5. QED BY <1>3, <1>4

\* Every step keeps each string with its owner and a free pointer for the next.
LEMMA PointersStep ==
  ASSUME CapsAssumption, Pointers, [Next]_vars
  PROVE  Pointers'
<1> USE DEF Pointers
<1>1. ASSUME NEW t \in Threads, NEW a, Call(t, a) PROVE Pointers'
  <2>1. /\ pc[t] = "idle" /\ calls < MaxCalls /\ calls' = calls + 1
        /\ a.wants => error_out[t] \notin strings
        /\ error_out' = IF a.wants THEN [error_out EXCEPT ![t] = Null] ELSE error_out
        /\ pc' = [pc EXCEPT ![t] = "body"] /\ args' = [args EXCEPT ![t] = a]
        /\ before' = [before EXCEPT ![t] = result_out[t]]
        /\ UNCHANGED <<keys, strings, out, status, result_out, handle_out>>
    BY <1>1 DEF Call, clear_error_out
  <2>2. Shapes'
    BY <2>1 DEF Shapes, Null
  <2>3. Held' \subseteq Held
    BY <2>1 DEF Held, Shapes
  <2>4. t \notin Busy /\ Busy' = Busy \cup {t}
    BY <2>1 DEF Busy, Shapes
  <2>5. Counted'
    BY <2>1, <2>3, <2>4, CountCall
  <2>6. Owned'
    <3> SUFFICES ASSUME NEW s \in strings
                 PROVE  \E u \in Threads : /\ error_out'[u] = s
                                           /\ \A w \in Threads : error_out'[w] = s => w = u
      BY <2>1 DEF Owned
    <3>1. PICK u \in Threads : error_out[u] = s /\ \A w \in Threads : error_out[w] = s => w = u
      BY DEF Owned
    <3>2. s # Null
      BY DEF Shapes
    <3>3. QED BY <2>1, <3>1, <3>2 DEF Shapes
  <2>7. Cleared'
    <3> SUFFICES ASSUME NEW u \in Threads, pc'[u] # "idle", args'[u].wants
                 PROVE  error_out'[u] = Null
      BY DEF Cleared
    <3>1. CASE u = t
      BY <2>1, <3>1 DEF Shapes
    <3>2. CASE u # t
      BY <2>1, <3>2 DEF Shapes, Cleared
    <3>3. QED BY <3>1, <3>2
  <2>8. Told'
    <3> SUFFICES ASSUME NEW u \in Threads, pc'[u] = "idle", args'[u].wants
                 PROVE  Succeeded(u)' <=> error_out'[u] = Null
      BY DEF Told
    <3>1. u # t
      BY <2>1 DEF Shapes
    <3>2. args'[u] = args[u] /\ error_out'[u] = error_out[u] /\ pc[u] = "idle"
          /\ status' = status /\ handle_out' = handle_out
      BY <2>1, <3>1 DEF Shapes
    <3>3. Succeeded(u)' <=> Succeeded(u)
      BY <3>2 DEF Succeeded
    <3>4. QED BY <3>2, <3>3 DEF Told
  <2>9. QED BY <2>2, <2>5, <2>6, <2>7, <2>8
<1>2. ASSUME NEW t \in Threads, Body(t) \/ Panic(t) PROVE Pointers'
  <2>1. /\ pc[t] = "body" /\ pc' = [pc EXCEPT ![t] = "return"]
        /\ DOMAIN out' = DOMAIN out
        /\ UNCHANGED <<keys, strings, args, status, result_out, error_out, handle_out, before, calls>>
    BY <1>2 DEF Body, Panic
  <2>2. Shapes'
    BY <2>1 DEF Shapes
  <2>3. Held' = Held /\ Busy' = Busy
    BY <2>1 DEF Held, Busy, Shapes
  <2>4. Counted'
    BY <2>1, <2>3, CountKept
  <2>5. Owned' /\ Cleared' /\ Told'
    BY <2>1 DEF Owned, Cleared, Told, Shapes, Succeeded
  <2>6. QED BY <2>2, <2>4, <2>5
<1>3. ASSUME NEW t \in Threads, ReturnKey(t) PROVE Pointers'
  <2>1. /\ pc[t] = "return" /\ args[t].op = "deserialize"
        /\ pc' = [pc EXCEPT ![t] = "idle"] /\ out' = [out EXCEPT ![t] = Error]
        /\ UNCHANGED <<args, status, result_out, before, calls>>
    BY <1>3 DEF ReturnKey
  <2>2. /\ Fresh \in Nat \ {Null} /\ pc[t] # "idle"
    BY <2>1, FreshExists
  <2>3. t \in Busy /\ Busy' = Busy \ {t}
    BY <2>1 DEF Busy, Shapes
  <2>4. ASSUME NEW u \in Threads \ {t}, error_out'[u] = error_out[u], handle_out'[u] = handle_out[u]
        PROVE  /\ pc'[u] # "idle" /\ args'[u].wants => error_out'[u] = Null
               /\ pc'[u] = "idle" /\ args'[u].wants => (Succeeded(u)' <=> error_out'[u] = Null)
    <3>1. pc'[u] = pc[u] /\ args' = args /\ status' = status
      BY <2>1 DEF Shapes
    <3>2. Succeeded(u)' <=> Succeeded(u)
      BY <2>4, <3>1 DEF Succeeded
    <3>3. QED BY <2>4, <3>1, <3>2 DEF Cleared, Told
  <2>5. CASE out[t].ok
    <3>1. /\ keys' = [h \in DOMAIN keys \cup {Fresh} |->
                        IF h = Fresh THEN out[t].value ELSE keys[h]]
          /\ handle_out' = [handle_out EXCEPT ![t] = Fresh]
          /\ UNCHANGED <<strings, error_out>>
      BY <1>3, <2>5 DEF ReturnKey
    <3>2. DOMAIN keys' = DOMAIN keys \cup {Fresh}
      BY <3>1
    <3>3. Shapes'
      BY <2>1, <2>2, <3>1, <3>2 DEF Shapes
    <3>4. Held' \subseteq Held \cup {Fresh}
      BY <3>1, <3>2 DEF Held
    <3>5. Counted'
      BY <2>1, <2>3, <3>4, CountReturn
    <3>6. Owned'
      BY <3>1 DEF Owned
    <3>7. args[t].wants => error_out'[t] = Null
      BY <2>2, <3>1 DEF Cleared
    <3>8. pc'[t] = "idle" /\ Succeeded(t)'
      BY <2>1, <2>2, <3>1 DEF Succeeded, Shapes
    <3>9. Cleared' /\ Told'
      BY <2>1, <2>4, <3>1, <3>7, <3>8 DEF Cleared, Told, Shapes
    <3>10. QED BY <3>3, <3>5, <3>6, <3>9
  <2>6. CASE ~out[t].ok
    <3>1. /\ handle_out' = [handle_out EXCEPT ![t] = Null]
          /\ set_error_out(t) /\ UNCHANGED keys
      BY <1>3, <2>6 DEF ReturnKey
    <3>2. /\ strings' \subseteq Nat \ {Null} /\ error_out' \in [Threads -> Nat]
          /\ Owned'
          /\ \A u \in Threads \ {t} : error_out'[u] = error_out[u]
          /\ args[t].wants => error_out'[t] # Null
          /\ strings' \subseteq strings \cup {Fresh}
          /\ \A u \in Threads : error_out'[u] \in {error_out[u], Fresh}
      BY <2>2, <3>1, SetErrorOut
    <3>3. Shapes'
      BY <2>1, <3>1, <3>2 DEF Shapes, Null
    <3>4. Held' \subseteq Held \cup {Fresh}
      BY <3>1, <3>2 DEF Held
    <3>5. Counted'
      BY <2>1, <2>3, <3>4, CountReturn
    <3>6. pc'[t] = "idle" /\ ~Succeeded(t)'
      BY <2>1, <3>1 DEF Succeeded, Shapes
    <3>7. Cleared' /\ Told'
      BY <2>1, <2>4, <3>1, <3>2, <3>6 DEF Cleared, Told, Shapes
    <3>8. QED BY <3>2, <3>3, <3>5, <3>7
  <2>7. QED BY <2>5, <2>6
<1>4. ASSUME NEW t \in Threads, ReturnVerdict(t) PROVE Pointers'
  <2>1. /\ pc[t] = "return" /\ args[t].op = "verify"
        /\ pc' = [pc EXCEPT ![t] = "idle"] /\ out' = [out EXCEPT ![t] = Error]
        /\ UNCHANGED <<keys, args, handle_out, before, calls>>
    BY <1>4 DEF ReturnVerdict
  <2>2. t \in Busy /\ Busy' = Busy \ {t} /\ pc[t] # "idle"
    BY <2>1 DEF Busy, Shapes
  <2>3. ASSUME NEW u \in Threads \ {t}, error_out'[u] = error_out[u], status'[u] = status[u]
        PROVE  /\ pc'[u] # "idle" /\ args'[u].wants => error_out'[u] = Null
               /\ pc'[u] = "idle" /\ args'[u].wants => (Succeeded(u)' <=> error_out'[u] = Null)
    <3>1. pc'[u] = pc[u] /\ args' = args /\ handle_out' = handle_out
      BY <2>1 DEF Shapes
    <3>2. Succeeded(u)' <=> Succeeded(u)
      BY <2>3, <3>1 DEF Succeeded
    <3>3. QED BY <2>3, <3>1, <3>2 DEF Cleared, Told
  <2>4. CASE out[t].ok
    <3>1. /\ status' = [status EXCEPT ![t] = 0]
          /\ DOMAIN result_out' = DOMAIN result_out
          /\ UNCHANGED <<strings, error_out>>
      BY <1>4, <2>4 DEF ReturnVerdict
    <3>2. Shapes'
      BY <2>1, <3>1 DEF Shapes
    <3>3. Held' \subseteq Held \cup {Null}
      BY <2>1, <3>1 DEF Held
    <3>4. Counted'
      BY <2>1, <2>2, <3>3, CountReturn
    <3>5. Owned'
      BY <3>1 DEF Owned
    <3>6. args[t].wants => error_out'[t] = Null
      BY <2>2, <3>1 DEF Cleared
    <3>7. pc'[t] = "idle" /\ Succeeded(t)'
      BY <2>1, <3>1 DEF Succeeded, Shapes
    <3>8. Cleared' /\ Told'
      BY <2>1, <2>3, <3>1, <3>6, <3>7 DEF Cleared, Told, Shapes
    <3>9. QED BY <3>2, <3>4, <3>5, <3>8
  <2>5. CASE ~out[t].ok
    <3>1. /\ status' = [status EXCEPT ![t] = IF "panic" \in DOMAIN out[t] THEN -2 ELSE -1]
          /\ set_error_out(t) /\ UNCHANGED result_out
      BY <1>4, <2>5 DEF ReturnVerdict
    <3>2. /\ strings' \subseteq Nat \ {Null} /\ error_out' \in [Threads -> Nat]
          /\ Owned'
          /\ \A u \in Threads \ {t} : error_out'[u] = error_out[u]
          /\ args[t].wants => error_out'[t] # Null
          /\ strings' \subseteq strings \cup {Fresh}
          /\ \A u \in Threads : error_out'[u] \in {error_out[u], Fresh}
      BY <2>2, <3>1, SetErrorOut
    <3>3. Shapes'
      <4>1. PICK s \in Int : status' = [status EXCEPT ![t] = s]
        <5>1. CASE "panic" \in DOMAIN out[t]
          <6>1. status' = [status EXCEPT ![t] = -2] /\ -2 \in Int
            BY <3>1, <5>1
          <6>2. QED BY <6>1
        <5>2. CASE ~("panic" \in DOMAIN out[t])
          <6>1. status' = [status EXCEPT ![t] = -1] /\ -1 \in Int
            BY <3>1, <5>2
          <6>2. QED BY <6>1
        <5>3. QED BY <5>1, <5>2
      <4>2. status' \in [Threads -> Int]
        BY <4>1 DEF Shapes
      <4>3. QED BY <2>1, <3>1, <3>2, <4>2 DEF Shapes
    <3>4. Held' \subseteq Held \cup {Fresh}
      BY <2>1, <3>2 DEF Held
    <3>5. Counted'
      BY <2>1, <2>2, <3>4, CountReturn
    <3>6. pc'[t] = "idle" /\ ~Succeeded(t)'
      BY <2>1, <3>1 DEF Succeeded, Shapes
    <3>7. Cleared' /\ Told'
      BY <2>1, <2>3, <3>1, <3>2, <3>6 DEF Cleared, Told, Shapes
    <3>8. QED BY <3>2, <3>3, <3>5, <3>7
  <2>6. QED BY <2>4, <2>5
<1>5. ASSUME NEW t \in Threads, free_error_string(t) PROVE Pointers'
  <2>1. /\ strings' = strings \ {error_out[t]}
        /\ UNCHANGED <<keys, pc, args, out, status, result_out, error_out, handle_out, before, calls>>
    BY <1>5 DEF free_error_string
  <2>2. Shapes' /\ Owned' /\ Cleared' /\ Told'
    BY <2>1 DEF Shapes, Owned, Cleared, Told, Succeeded
  <2>3. Held' \subseteq Held /\ Busy' = Busy
    BY <2>1 DEF Held, Busy
  <2>4. QED BY <2>1, <2>2, <2>3, CountKept
<1>6. ASSUME NEW h, free_verifier_key(h) PROVE Pointers'
  <2>1. /\ keys' = [k \in DOMAIN keys \ {h} |-> keys[k]]
        /\ UNCHANGED <<strings, pc, args, out, status, result_out, error_out, handle_out, before, calls>>
    BY <1>6 DEF free_verifier_key
  <2>2. DOMAIN keys' = DOMAIN keys \ {h}
    BY <2>1
  <2>3. Shapes' /\ Owned' /\ Cleared' /\ Told'
    BY <2>1, <2>2 DEF Shapes, Owned, Cleared, Told, Succeeded
  <2>4. Held' \subseteq Held /\ Busy' = Busy
    BY <2>1, <2>2 DEF Held, Busy
  <2>5. QED BY <2>1, <2>3, <2>4, CountKept
<1>7. CASE UNCHANGED vars
  <2>1. Held' = Held /\ Busy' = Busy
    BY <1>7 DEF vars, Held, Busy
  <2>2. QED BY <1>7, <2>1 DEF vars, Shapes, Counted, Owned, Cleared, Told, Succeeded
<1>8. QED BY <1>1, <1>2, <1>3, <1>4, <1>5, <1>6, <1>7 DEF Next

-----------------------------------------------------------------------------
(* Results.                                                                *)

\* What a panic leaves as the body's outcome, and the key a call reads through its handle.
Panicked == [ok |-> FALSE, panic |-> TRUE]
KeyOf(h) == IF h = Null THEN "none" ELSE keys[h]

\* A handle is live as long as a call uses it.
HandlesLive ==
  \A t \in Threads : /\ args[t].op = "verify" => args[t].disclosed \in Inputs
                     /\ pc[t] # "idle" /\ args[t].op = "verify" /\ args[t].handle # Null
                          => args[t].handle \in DOMAIN keys

\* The outcome a call returns with is that of its own arguments, though other threads load
\* and free keys meanwhile.
Computed ==
  \A t \in Threads : pc[t] = "return" /\ args[t].op = "verify" =>
    out[t] = Panicked \/ out[t] = verify(KeyOf(args[t].handle), args[t])

\* Nothing is written to the result before the call returns.
Untouched == \A t \in Threads : pc[t] # "idle" => before[t] = result_out[t]

Results == HandlesLive /\ Computed /\ Untouched /\ ResultIsThisCalls

\* A step that leaves the threads' variables alone and no handle in use dead keeps Results.
LEMMA ResultsKept ==
  ASSUME Results,
         UNCHANGED <<pc, args, out, status, result_out, before>>,
         \A t \in Threads : pc[t] # "idle" /\ args[t].op = "verify" /\ args[t].handle # Null
            => args[t].handle \in DOMAIN keys' /\ keys'[args[t].handle] = keys[args[t].handle]
  PROVE  Results'
<1> USE DEF Results
<1>1. HandlesLive'
  BY DEF HandlesLive
<1>2. ASSUME NEW t \in Threads, pc[t] = "return", args[t].op = "verify"
      PROVE  KeyOf(args[t].handle)' = KeyOf(args[t].handle)
  BY <1>2 DEF KeyOf
<1>3. Computed'
  BY <1>2 DEF Computed
<1>4. Untouched' /\ ResultIsThisCalls'
  BY DEF Untouched, ResultIsThisCalls, Returned
<1>5. QED BY <1>1, <1>3, <1>4

\* Every step keeps the outcomes with the calls they belong to.
LEMMA ResultsStep ==
  ASSUME CapsAssumption, Pointers, Results, [Next]_vars
  PROVE  Results'
<1> USE DEF Results
<1>0. Shapes
  BY DEF Pointers
<1>1. ASSUME NEW t \in Threads, NEW a \in DeserializeArgs \cup VerifyArgs, Call(t, a)
      PROVE  Results'
  <2>1. /\ pc[t] = "idle" /\ pc' = [pc EXCEPT ![t] = "body"] /\ args' = [args EXCEPT ![t] = a]
        /\ before' = [before EXCEPT ![t] = result_out[t]]
        /\ UNCHANGED <<keys, out, status, result_out>>
    BY <1>1 DEF Call
  <2>2. a.op = "verify" => a.disclosed \in Inputs /\ a.handle \in DOMAIN keys \cup {Null}
    BY DEF DeserializeArgs, VerifyArgs
  <2>3. ASSUME NEW u \in Threads, u # t
        PROVE  pc'[u] = pc[u] /\ args'[u] = args[u] /\ before'[u] = before[u]
    BY <2>1, <2>3, <1>0 DEF Shapes
  <2>4. pc'[t] = "body" /\ args'[t] = a /\ before'[t] = result_out[t]
    BY <2>1, <1>0 DEF Shapes
  <2>5. HandlesLive'
    BY <2>1, <2>2, <2>3, <2>4 DEF HandlesLive
  <2>6. Computed'
    BY <2>1, <2>3, <2>4 DEF Computed, KeyOf
  <2>7. Untouched' /\ ResultIsThisCalls'
    BY <2>1, <2>3, <2>4 DEF Untouched, ResultIsThisCalls, Returned
  <2>8. QED BY <2>5, <2>6, <2>7
<1>2. ASSUME NEW t \in Threads, Body(t) \/ Panic(t) PROVE Results'
  <2>1. /\ pc[t] = "body" /\ pc' = [pc EXCEPT ![t] = "return"]
        /\ UNCHANGED <<keys, args, status, result_out, before>>
    BY <1>2 DEF Body, Panic
  <2>2. ASSUME NEW u \in Threads, u # t PROVE pc'[u] = pc[u] /\ out'[u] = out[u]
    BY <1>2, <2>1, <2>2, <1>0 DEF Body, Panic, Shapes
  <2>3. args[t].op = "verify" =>
          out'[t] = Panicked \/ out'[t] = verify(KeyOf(args[t].handle), args[t])
    <3>1. CASE Body(t)
      BY <1>0, <3>1 DEF Body, Shapes, KeyOf
    <3>2. CASE Panic(t)
      BY <1>0, <3>2 DEF Panic, Shapes, Panicked
    <3>3. QED BY <1>2, <3>1, <3>2
  <2>4. pc'[t] = "return"
    BY <2>1, <1>0 DEF Shapes
  <2>5. HandlesLive'
    BY <2>1, <2>2, <2>4 DEF HandlesLive
  <2>6. \A h : KeyOf(h)' = KeyOf(h)
    BY <2>1 DEF KeyOf
  <2>7. Computed'
    BY <2>1, <2>2, <2>3, <2>6 DEF Computed
  <2>8. Untouched' /\ ResultIsThisCalls'
    BY <2>1, <2>2, <2>4 DEF Untouched, ResultIsThisCalls, Returned
  <2>9. QED BY <2>5, <2>7, <2>8
<1>3. ASSUME NEW t \in Threads, ReturnKey(t) PROVE Results'
  <2>1. /\ pc[t] = "return" /\ args[t].op = "deserialize"
        /\ pc' = [pc EXCEPT ![t] = "idle"] /\ out' = [out EXCEPT ![t] = Error]
        /\ UNCHANGED <<args, status, result_out, before>>
    BY <1>3 DEF ReturnKey
  <2>2. ASSUME NEW u \in Threads, u # t PROVE pc'[u] = pc[u] /\ out'[u] = out[u]
    BY <2>1, <2>2, <1>0 DEF Shapes
  <2>3. Fresh \notin DOMAIN keys
    BY <1>0, <2>1, FreshExists DEF Pointers
  <2>4. \A h \in DOMAIN keys : h \in DOMAIN keys' /\ keys'[h] = keys[h]
    <3>1. CASE out[t].ok
      <4>1. keys' = [h \in DOMAIN keys \cup {Fresh} |->
                       IF h = Fresh THEN out[t].value ELSE keys[h]]
        BY <1>3, <3>1 DEF ReturnKey
      <4>2. QED BY <2>3, <4>1
    <3>2. CASE ~out[t].ok
      BY <1>3, <3>2 DEF ReturnKey
    <3>3. QED BY <3>1, <3>2
  <2>5. pc'[t] = "idle"
    BY <2>1, <1>0 DEF Shapes
  <2>6. HandlesLive'
    BY <2>1, <2>2, <2>4, <2>5 DEF HandlesLive
  <2>7. ASSUME NEW u \in Threads, pc'[u] = "return", args[u].op = "verify"
        PROVE  out'[u] = Panicked \/ out'[u] = verify(KeyOf(args[u].handle)', args[u])
    <3>1. u # t /\ pc[u] = "return" /\ out'[u] = out[u]
      BY <2>1, <2>2, <2>5, <2>7
    <3>2. KeyOf(args[u].handle)' = KeyOf(args[u].handle)
      BY <2>1, <2>4, <2>7, <3>1 DEF KeyOf, HandlesLive
    <3>3. QED BY <2>7, <3>1, <3>2 DEF Computed
  <2>8. Computed'
    BY <2>1, <2>7 DEF Computed
  <2>9. Untouched' /\ ResultIsThisCalls'
    BY <2>1, <2>2, <2>5 DEF Untouched, ResultIsThisCalls, Returned
  <2>10. QED BY <2>6, <2>8, <2>9
<1>4. ASSUME NEW t \in Threads, ReturnVerdict(t) PROVE Results'
  <2>1. /\ pc[t] = "return" /\ args[t].op = "verify"
        /\ pc' = [pc EXCEPT ![t] = "idle"] /\ out' = [out EXCEPT ![t] = Error]
        /\ UNCHANGED <<keys, args, before>>
    BY <1>4 DEF ReturnVerdict
  <2>2. ASSUME NEW u \in Threads, u # t
        PROVE  /\ pc'[u] = pc[u] /\ out'[u] = out[u]
               /\ status'[u] = status[u] /\ result_out'[u] = result_out[u]
    BY <1>4, <2>1, <2>2, <1>0 DEF Shapes, ReturnVerdict
  <2>3. pc'[t] = "idle"
    BY <2>1, <1>0 DEF Shapes
  <2>4. HandlesLive'
    BY <2>1, <2>2, <2>3 DEF HandlesLive
  <2>5. \A h : KeyOf(h)' = KeyOf(h)
    BY <2>1 DEF KeyOf
  <2>6. Computed'
    BY <2>1, <2>2, <2>3, <2>5 DEF Computed
  <2>7. Untouched'
    BY <2>1, <2>2, <2>3 DEF Untouched
  <2>8. IF status'[t] = 0 THEN args[t].result => result_out'[t] = Shown(args[t].proof.of)
        ELSE result_out'[t] = before[t]
    <3>1. CASE out[t].ok
      <4>1. out[t] = verify(KeyOf(args[t].handle), args[t])
        BY <2>1, <3>1 DEF Computed, Panicked
      <4>2. out[t].value = Shown(args[t].proof.of)
        BY <2>1, <3>1, <4>1, VerifyShows DEF HandlesLive
      <4>3. /\ status'[t] = 0
            /\ args[t].result => result_out'[t] = out[t].value
        BY <1>4, <3>1, <1>0 DEF ReturnVerdict, Shapes
      <4>4. QED BY <4>2, <4>3
    <3>2. CASE ~out[t].ok
      <4>1. status'[t] # 0 /\ result_out' = result_out
        BY <1>4, <3>2, <1>0 DEF ReturnVerdict, Shapes
      <4>2. result_out[t] = before[t]
        BY <2>1 DEF Untouched
      <4>3. QED BY <4>1, <4>2
    <3>3. QED BY <3>1, <3>2
  <2>9. ResultIsThisCalls'
    <3> SUFFICES ASSUME NEW u \in Threads, Returned(u, "verify")'
                 PROVE  IF status'[u] = 0
                        THEN args'[u].result => result_out'[u] = Shown(args'[u].proof.of)
                        ELSE result_out'[u] = before'[u]
      BY DEF ResultIsThisCalls
    <3>1. CASE u = t
      BY <2>1, <2>8, <3>1
    <3>2. CASE u # t
      BY <2>1, <2>2, <3>2 DEF ResultIsThisCalls, Returned
    <3>3. QED BY <3>1, <3>2
  <2>10. QED BY <2>4, <2>6, <2>7, <2>9
<1>5. ASSUME NEW t \in Threads, free_error_string(t) PROVE Results'
  BY <1>5, ResultsKept DEF free_error_string, HandlesLive
<1>6. ASSUME NEW h, free_verifier_key(h) PROVE Results'
  <2>1. /\ keys' = [k \in DOMAIN keys \ {h} |-> keys[k]] /\ ~InUse(h)
        /\ UNCHANGED <<pc, args, out, status, result_out, before>>
    BY <1>6 DEF free_verifier_key
  <2>2. ASSUME NEW t \in Threads, pc[t] # "idle", args[t].op = "verify", args[t].handle # Null
        PROVE  args[t].handle \in DOMAIN keys' /\ keys'[args[t].handle] = keys[args[t].handle]
    <3>1. args[t].handle \in DOMAIN keys /\ args[t].handle # h
      BY <2>1, <2>2 DEF HandlesLive, InUse
    <3>2. QED BY <2>1, <3>1
  <2>3. QED BY <2>1, <2>2, ResultsKept
<1>7. CASE UNCHANGED vars
  BY <1>7, ResultsKept DEF vars, HandlesLive
<1>8. QED BY <1>1, <1>2, <1>3, <1>4, <1>5, <1>6, <1>7 DEF Next

\* Both invariants, from the first state on.
LEMMA ResultsAlways ==
  ASSUME CapsAssumption
  PROVE  Spec => [](Pointers /\ Results)
<1>1. Init => Pointers /\ Results
  <2> SUFFICES ASSUME Init PROVE Pointers /\ Results
    OBVIOUS
  <2>1. Shapes
    BY DEF Init, Shapes, Null
  <2>2. Held = {} /\ Busy = {}
    BY DEF Init, Held, Busy
  <2>3. Counted
    BY <2>2, FS_EmptySet DEF Counted, Init, CapsAssumption
  <2>4. Owned /\ Cleared /\ Told
    BY DEF Init, Owned, Cleared, Told, NoCall
  <2>5. HandlesLive /\ Computed /\ Untouched /\ ResultIsThisCalls
    BY DEF Init, HandlesLive, Computed, Untouched, ResultIsThisCalls, Returned, NoCall
  <2>6. QED BY <2>1, <2>3, <2>4, <2>5 DEF Pointers, Results
<1>2. Pointers /\ Results /\ [Next]_vars => Pointers' /\ Results'
  BY PointersStep, ResultsStep
<1>3. QED BY <1>1, <1>2, PTL DEF Spec

\* Strings are freed once and none is lost, for any threads over any number of calls.
THEOREM ErrorsAreOwnedOnceAlways ==
  ASSUME CapsAssumption
  PROVE  Spec => []ErrorsAreOwnedOnce
<1>1. Pointers /\ Results => ErrorsAreOwnedOnce
  <2> SUFFICES ASSUME Pointers PROVE ErrorsAreOwnedOnce
    OBVIOUS
  <2>1. ASSUME NEW s \in strings PROVE Cardinality({t \in Threads : error_out[t] = s}) = 1
    <3>1. PICK t \in Threads : error_out[t] = s /\ \A u \in Threads : error_out[u] = s => u = t
      BY DEF Pointers, Owned
    <3>2. {u \in Threads : error_out[u] = s} = {t}
      BY <3>1
    <3>3. QED BY <3>2, FS_Singleton
  <2>2. QED BY <2>1 DEF Pointers, Told, ErrorsAreOwnedOnce
<1>2. QED BY <1>1, ResultsAlways, PTL

\* A thread that reuses its CVerifyResult never takes an earlier result for this call's,
\* whatever the other threads load, verify and free meanwhile and whatever panics.
THEOREM ResultIsThisCallsAlways ==
  ASSUME CapsAssumption
  PROVE  Spec => []ResultIsThisCalls
<1>1. Pointers /\ Results => ResultIsThisCalls
  BY DEF Results
<1>2. QED BY <1>1, ResultsAlways, PTL

\* The front of a padded sequence is the sequence.
LEMMA FrontOfPadded ==
  ASSUME NEW b \in Seq(Nat), NEW z \in Seq(Nat)
  PROVE  SubSeq(b \o z, 1, Len(b)) = b
<1>1. Len(b) \in Nat /\ Len(z) \in Nat /\ \A i \in 1..Len(b) : b[i] \in Nat
  BY LenProperties, ElementOfSeq
<1>2. \A i \in 1..Len(b) : (b \o z)[i] = b[i]
  BY <1>1, ConcatProperties
<1> DEFINE s == SubSeq(b \o z, 1, Len(b))
<1>3. /\ s \in Seq(Nat)
      /\ Len(s) = IF 1 <= Len(b) THEN Len(b) - 1 + 1 ELSE 0
      /\ \A i \in 1..Len(b) - 1 + 1 : s[i] = (b \o z)[1 + i - 1]
  <2>1. 1 \in Int /\ Len(b) \in Int /\ \A i \in 1..Len(b) : (b \o z)[i] \in Nat
    BY <1>1, <1>2
  <2>2. QED BY <2>1, SubSeqProperties
<1> HIDE DEF s
<1>4. Len(s) = Len(b) /\ \A i \in 1..Len(s) : s[i] = b[i]
  BY <1>1, <1>2, <1>3
<1>5. s = b
  BY <1>3, <1>4, SeqEqual
<1>6. QED BY <1>5 DEF s

\* For every key, proof and array whose present slots have a length the documentation
\* allows, zk_cred_vega_verify and ffi_api::verify accept the same and show the same bytes.
THEOREM SurfacesAgreeAlways ==
  ASSUME CapsAssumption
  PROVE  Spec => []SurfacesAgree
<1>1. Pointers /\ Results => SurfacesAgree
  <2> SUFFICES ASSUME Results, NEW t \in Threads,
                      pc[t] = "return", args[t].op = "verify", args[t].handle # Null,
                      "panic" \notin DOMAIN out[t], Documented(args[t].disclosed)
               PROVE  LET u == uniffi_verify(keys[args[t].handle], args[t].proof,
                                             Entries(args[t].disclosed))
                      IN /\ out[t].ok <=> u.ok
                         /\ u.ok => \A i \in Slots :
                              /\ out[t].value[i].disclosed = u.value[i].disclosed
                              /\ SubSeq(out[t].value[i].plaintext, 1, out[t].value[i].real_len)
                                   = u.value[i].plaintext
    BY DEF SurfacesAgree, Documented
  <2> DEFINE a == args[t]
             key == keys[a.handle]
             u == uniffi_verify(key, a.proof, Entries(a.disclosed))
  <2>1. a.disclosed \in Inputs
    BY DEF Results, HandlesLive
  <2>2. out[t] = verify(key, a)
    BY DEF Results, Computed, Panicked, KeyOf
  <2>3. /\ verify(key, a).ok <=> u.ok
        /\ u.ok => u.value = [i \in Slots |-> Reported(Pieces(a)[i])]
    BY <2>1, CallsAgree DEF Documented
  <2> HIDE DEF u, key
  <2>4. ASSUME u.ok, NEW i \in Slots
        PROVE  /\ out[t].value[i].disclosed = u.value[i].disclosed
               /\ SubSeq(out[t].value[i].plaintext, 1, out[t].value[i].real_len)
                    = u.value[i].plaintext
    <3> DEFINE b == Pieces(a)[i]
               z == [j \in 1..MAX_CLAIM_BYTES_V1 - Len(b.bytes) |-> 0]
    <3>1. Accepts(key, a) /\ out[t].value = to_c_result([k \in Slots |-> Reported(Pieces(a)[k])])
      BY <2>1, <2>2, <2>3, <2>4, VerifyIff
    <3>2. u.value[i] = Reported(b)
      BY <2>3, <2>4
    <3>3. out[t].value[i] = to_c_claim(Reported(b))
      BY <3>1 DEF to_c_result
    <3>4. b.bytes \in Seq(Nat) /\ Len(b.bytes) <= MAX_CLAIM_BYTES_V1
      <4>1. disclosed_bytes(a.disclosed[i]).ok /\ a.disclosed[i] \in CDisclosedInput
        BY <2>1, <3>1, OnePerSlot DEF Accepts
      <4>2. b = disclosed_bytes(a.disclosed[i]).value
        BY DEF Pieces
      <4>3. QED BY <4>1, <4>2, DisclosedBytes
    <3> HIDE DEF b
    <3>5. to_c_claim(Reported(b))
            = [disclosed |-> IF b.some THEN 1 ELSE 0, real_len |-> Len(b.bytes),
               plaintext |-> b.bytes \o z]
      BY <3>4, TwinOfReported
    <3>6. z \in Seq(Nat)
      <4>1. MAX_CLAIM_BYTES_V1 - Len(b.bytes) \in Nat
        BY <3>4 DEF CapsAssumption
      <4>2. QED BY <4>1
    <3> HIDE DEF z
    <3>7. SubSeq(b.bytes \o z, 1, Len(b.bytes)) = b.bytes
      BY <3>4, <3>6, FrontOfPadded
    <3>8. QED BY <3>2, <3>3, <3>5, <3>7 DEF Reported
  <2>5. QED BY <2>2, <2>3, <2>4 DEF u, key
<1>2. QED BY <1>1, ResultsAlways, PTL
=============================================================================
