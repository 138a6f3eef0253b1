----------------------- MODULE MdocPresentationProofs -----------------------
(***************************************************************************)
(* Proofs about the generic mdoc path, for any number of claim slots, any  *)
(* credentials and any number of preparations and proofs.                  *)
(***************************************************************************)
EXTENDS MdocPresentation, SequenceTheorems, TLAPS

\* What a caller can pass for a credential's items.
SomeClaims == [bytes : Items, real_len : Nat, disclose : BOOLEAN, digest_id : Nat]

\* pad_claims, the step circuits, the core circuit and the proof, when nothing fails.
Padded(claims) ==
  [i \in Slots |-> IF i <= Len(claims) THEN claims[i]
                   ELSE [bytes |-> NoBytes, real_len |-> 0, disclose |-> FALSE, digest_id |-> 0]]

Steps(claims, n) == [i \in Slots |-> step_public_values(Padded(claims)[i], n)]

Core(c, claims, n) == MdocCoreCircuit(c, Padded(claims), n)

Proof(c, claims, n) ==
  [steps |-> Steps(claims, n), core |-> core_public_values(Core(c, claims, n)),
   valid |-> /\ \A i \in Slots : StepSatisfied(Padded(claims)[i])
             /\ CoreSatisfied(Core(c, claims, n)),
   cred |-> c, claims |-> claims, agrees |-> Agrees(Core(c, claims, n))]

-----------------------------------------------------------------------------
(* The operators.                                                          *)

\* Appending keeps a sequence a sequence and adds one element to its range.
LEMMA AppendRange ==
  ASSUME NEW s, s \in Seq(Range(s)), NEW x
  PROVE  /\ Append(s, x) \in Seq(Range(Append(s, x)))
         /\ Range(Append(s, x)) = Range(s) \cup {x}
<1> DEFINE S == Range(s) \cup {x}
<1>1. s \in Seq(S)
  BY SeqMonotonic
<1>2. /\ Append(s, x) \in Seq(S)
      /\ Len(Append(s, x)) = Len(s) + 1
      /\ \A i \in 1..Len(s) : Append(s, x)[i] = s[i]
      /\ Append(s, x)[Len(s) + 1] = x
  BY <1>1, AppendProperties
<1>3. Len(s) \in Nat /\ DOMAIN s = 1..Len(s) /\ DOMAIN Append(s, x) = 1..Len(s) + 1
  BY <1>1, <1>2, LenProperties
<1>4. Range(Append(s, x)) = S
  BY <1>2, <1>3 DEF Range
<1>5. QED BY <1>2, <1>4

\* pad_claims keeps the claims it is given and refuses one that is too long.
LEMMA PadClaims ==
  ASSUME NEW claims, pad_claims(claims).ok
  PROVE  /\ pad_claims(claims).value = Padded(claims)
         /\ \A i \in DOMAIN claims : ~(claims[i].bytes.len > MAX_CLAIM_BYTES_V1)
  BY DEF pad_claims, Padded, Error, Ok

\* The circuits of a call that did not fail.
LEMMA CircuitsOk ==
  ASSUME NEW c, NEW claims, NEW n, Circuits(c, claims, n).ok
  PROVE  /\ pad_claims(claims).ok
         /\ Circuits(c, claims, n).value = [steps |-> Padded(claims), core |-> Core(c, claims, n)]
<1>1. pad_claims(claims).ok
  BY DEF Circuits, Error, Ok
<1>2. pad_claims(claims).value = Padded(claims)
  BY <1>1, PadClaims
<1>3. QED
  BY <1>1, <1>2 DEF Circuits, Core, Error, Ok

\* Whether the circuits can be built does not depend on the nonce.
LEMMA CircuitsOkAnyNonce ==
  ASSUME NEW c, NEW claims, NEW n, NEW m, Circuits(c, claims, n).ok
  PROVE  Circuits(c, claims, m).ok
  BY DEF Circuits, Error, Ok

\* The state prep_prove returns.
LEMMA PrepProveOk ==
  ASSUME NEW c, NEW claims, NEW n, prep_prove(c, claims, n).ok
  PROVE  /\ Circuits(c, claims, n).ok
         /\ prep_prove(c, claims, n).value
              = [nonce |-> n, cred |-> c, claims |-> claims, prep |-> Steps(claims, n)]
<1>1. Circuits(c, claims, n).ok
  BY DEF prep_prove, Error, Ok
<1>2. Circuits(c, claims, n).value = [steps |-> Padded(claims), core |-> Core(c, claims, n)]
  BY <1>1, CircuitsOk
<1>3. QED
  BY <1>1, <1>2 DEF prep_prove, Steps, Error, Ok

\* The proof and the state prove returns: the state it was given.
LEMMA ProveOk ==
  ASSUME NEW s, NEW c, NEW claims, prove(s, c, claims).ok
  PROVE  /\ Circuits(c, claims, s.nonce).ok
         /\ Steps(claims, s.nonce) = s.prep
         /\ prove(s, c, claims).value = [proof |-> Proof(c, claims, s.nonce), next_state |-> s]
<1>1. Circuits(c, claims, s.nonce).ok
  BY DEF prove, Error, Ok
<1>2. Circuits(c, claims, s.nonce).value
        = [steps |-> Padded(claims), core |-> Core(c, claims, s.nonce)]
  BY <1>1, CircuitsOk
<1>3. QED
  BY <1>1, <1>2 DEF prove, Steps, Proof, Error, Ok

\* Every list of claims a caller may pass is a sequence of claims.
LEMMA ClaimsType ==
  ASSUME NEW c \in Credentials
  PROVE  Selection(c) \cup Mistakes(c) \subseteq Seq(SomeClaims)
<1>1. c.items \in Seq(Items) /\ c.items # <<>> /\ \A x \in Items : x.id \in Nat /\ x.len \in Nat
  BY ItemAssumption
<1>2. /\ Len(c.items) \in Nat \ {0} /\ DOMAIN c.items = 1..Len(c.items)
      /\ \A i \in DOMAIN c.items : c.items[i] \in Items
  BY <1>1, EmptySeq, LenProperties, ElementOfSeq
<1>3. \A x \in Items, d \in BOOLEAN : Claim(x, d) \in SomeClaims
  BY <1>1 DEF Claim, SomeClaims
<1>4. ASSUME NEW f \in [1..Len(c.items) -> SomeClaims]
      PROVE  f \in Seq(SomeClaims) /\ Len(f) = Len(c.items)
  BY <1>2
<1>5. Selection(c) \subseteq Seq(SomeClaims)
  <2> SUFFICES ASSUME NEW d \in [DOMAIN c.items -> BOOLEAN]
               PROVE  [i \in DOMAIN c.items |-> Claim(c.items[i], d[i])] \in Seq(SomeClaims)
    BY DEF Selection
  <2>1. [i \in DOMAIN c.items |-> Claim(c.items[i], d[i])] \in [1..Len(c.items) -> SomeClaims]
    BY <1>2, <1>3
  <2>2. QED BY <1>4, <2>1
<1>6. Mistakes(c) \subseteq Seq(SomeClaims)
  <2> DEFINE s == [i \in DOMAIN c.items |-> Claim(c.items[i], TRUE)]
  <2>1. s \in [1..Len(c.items) -> SomeClaims] /\ s \in Seq(SomeClaims) /\ Len(s) = Len(c.items)
    <3>1. s \in [1..Len(c.items) -> SomeClaims]
      BY <1>2, <1>3
    <3>2. QED BY <1>4, <3>1
  <2>2. 1 \in 1..Len(c.items) /\ 1 \in DOMAIN s
    BY <1>2
  <2>3. s[1] \in SomeClaims
    BY <2>1, <2>2
  <2> HIDE DEF s
  <2>4. Reverse(s) \in Seq(SomeClaims)
    <3>1. \A i \in 1..Len(s) : s[(Len(s) - i) + 1] \in SomeClaims
      BY <1>2, <2>1
    <3>2. [i \in 1..Len(s) |-> s[(Len(s) - i) + 1]] \in [1..Len(c.items) -> SomeClaims]
      BY <2>1, <3>1
    <3>3. QED BY <1>4, <3>2 DEF Reverse
  <2>5. s # <<>>
    BY <1>2, <2>1, EmptySeq
  <2>6. Tail(s) \in Seq(SomeClaims)
    BY <2>1, <2>5, HeadTailProperties
  <2>7. Append(s, s[1]) \in Seq(SomeClaims)
    BY <2>1, <2>3, AppendProperties
  <2>8. ASSUME NEW n \in Nat
        PROVE  [s EXCEPT ![1].digest_id = n] \in Seq(SomeClaims)
    <3>1. [s[1] EXCEPT !.digest_id = n] \in SomeClaims
      BY <2>3, <2>8 DEF SomeClaims
    <3>2. [s EXCEPT ![1] = [s[1] EXCEPT !.digest_id = n]] \in Seq(SomeClaims)
      BY <2>1, <2>2, <3>1, ExceptSeq
    <3>3. QED BY <3>2
  <2>9. s[1].digest_id + 1 \in Nat /\ MAX_DIGEST_ID + 1 \in Nat
    BY <2>3, SizeAssumption DEF SomeClaims
  <2>10. ASSUME NEW x \in Items
         PROVE  [s EXCEPT ![1] = Claim(x, TRUE)] \in Seq(SomeClaims)
    <3>1. Claim(x, TRUE) \in SomeClaims
      BY <1>3
    <3>2. QED BY <2>1, <2>2, <3>1, ExceptSeq
  <2>11. [s EXCEPT ![1].digest_id = @ + 1] \in Seq(SomeClaims)
    <3>1. [s EXCEPT ![1].digest_id = s[1].digest_id + 1] \in Seq(SomeClaims)
      BY <2>8, <2>9
    <3>2. QED BY <3>1
  <2>12. [s EXCEPT ![1].digest_id = MAX_DIGEST_ID + 1] \in Seq(SomeClaims)
    BY <2>8, <2>9
  <2>13. QED
    BY <2>4, <2>6, <2>7, <2>10, <2>11, <2>12 DEF Mistakes, s
<1>7. QED BY <1>5, <1>6

-----------------------------------------------------------------------------
(* Circuits and the check of a slot.                                       *)

\* What a core circuit hashes and what it is signed with, whatever it exposes.
Hashes(core, c, padded) ==
  /\ core.q = c.key /\ core.body = c.body
  /\ core.sig = [key |-> c.key, msg |-> MSO(c)]
  /\ core.signed_ids = core_digest_ids(padded)
  /\ core.signed_digests = core_claim_digests(padded)

\* A core circuit whose exposed values are chosen apart from the values it hashes.
Exposing(c, padded, n, ids, digests) ==
  [MdocCoreCircuit(c, padded, n) EXCEPT !.digest_ids = ids, !.claim_digests = digests]

\* The public values of a core circuit: the key and the body are those of a credential that
\* fills the slots, and so is what is exposed for a slot whose two allocations agree.
CoreOf(core, agrees, c) ==
  /\ core.q = c.key /\ core.body = c.body
  /\ Len(c.items) = MAX_CLAIMS_V1
  /\ \A i \in Slots : agrees[i] =>
       /\ core.digest_ids[i] = c.items[i].id
       /\ core.digests[i] = blind_digest_bytes(claim_digest_bytes(c.items[i]), core.nonce)

\* The framing of the MSO is injective: a core circuit over the slots' digests is satisfied
\* by the signature of a credential only when the digests it hashes are its items'.
LEMMA CoreIsSigned ==
  ASSUME NEW c \in Credentials, NEW padded, NEW core, Hashes(core, c, padded), CoreSatisfied(core)
  PROVE  CoreOf(core_public_values(core), Agrees(core), c)
<1>1. MSO(c) = Sig_structure(core_digest_ids(padded), core_claim_digests(padded), c.body)
  BY DEF Hashes, CoreSatisfied
<1>2. /\ [i \in DOMAIN c.items |-> c.items[i].id] = core_digest_ids(padded)
      /\ [i \in DOMAIN c.items |-> claim_digest_bytes(c.items[i])] = core_claim_digests(padded)
  BY <1>1 DEF MSO, Sig_structure
<1>3. DOMAIN c.items = Slots
  BY <1>2 DEF core_digest_ids
<1>4. Len(c.items) = MAX_CLAIMS_V1
  <2>1. c.items \in Seq(Items)
    BY ItemAssumption
  <2>2. Len(c.items) \in Nat /\ DOMAIN c.items = 1..Len(c.items)
    BY <2>1, LenProperties
  <2>3. QED BY <1>3, <2>2, SizeAssumption, SMT DEF Slots
<1>5. ASSUME NEW i \in Slots
      PROVE  /\ core_digest_ids(padded)[i] = c.items[i].id
             /\ core_claim_digests(padded)[i] = claim_digest_bytes(c.items[i])
  <2>1. /\ [j \in DOMAIN c.items |-> c.items[j].id][i] = c.items[i].id
        /\ [j \in DOMAIN c.items |-> claim_digest_bytes(c.items[j])][i]
             = claim_digest_bytes(c.items[i])
    BY <1>3
  <2>2. QED BY <1>2, <2>1
<1>6. ASSUME NEW i \in Slots, Agrees(core)[i]
      PROVE  /\ core.digest_ids[i] = c.items[i].id
             /\ core.claim_digests[i] = claim_digest_bytes(c.items[i])
  BY <1>5, <1>6 DEF Agrees, Hashes
<1>7. QED
  BY <1>4, <1>6 DEF CoreOf, core_public_values, Hashes

\* What is hashed does not depend on what is exposed.
LEMMA HashesAnyway ==
  ASSUME NEW c, NEW padded, NEW n, NEW ids, NEW digests
  PROVE  /\ Hashes(MdocCoreCircuit(c, padded, n), c, padded)
         /\ Hashes(Exposing(c, padded, n, ids, digests), c, padded)
  BY DEF Hashes, Exposing, MdocCoreCircuit

\* The public values of a satisfied step circuit: a blinded digest, and the digestID of the
\* item it is the digest of.
StepOf(v) ==
  \E x, n : v.digest = blind_digest_bytes(claim_digest_bytes(x), n) /\ v.digest_id = x.id

LEMMA StepIsOfItem ==
  ASSUME NEW claim, NEW n, StepSatisfied(claim)
  PROVE  StepOf(step_public_values(claim, n))
<1>1. /\ step_public_values(claim, n).digest
           = blind_digest_bytes(claim_digest_bytes(claim.bytes), n)
      /\ step_public_values(claim, n).digest_id = claim.bytes.id
  BY DEF step_public_values, StepSatisfied
<1>2. QED BY <1>1 DEF StepOf

\* A claim that check_slot reports: what the core circuit says of the slot, and, when it is
\* disclosed, bytes with the digest the core circuit has for it.
LEMMA SlotOk ==
  ASSUME NEW v, NEW core, NEW i, NEW supplied, check_slot(v, core, i, supplied).ok
  PROVE  LET r == check_slot(v, core, i, supplied).value
         IN  /\ r.digest_id = core.digest_ids[i]
             /\ r.plaintext = supplied
             /\ r.disclosed = v.disclosed
             /\ r.real_len = v.real_len
             /\ r.digest_id = v.digest_id
             /\ v.disclosed => /\ blind_digest_bytes(claim_digest_bytes(supplied), core.nonce)
                                   = v.digest
                               /\ v.digest = core.digests[i]
                               /\ supplied.len = v.real_len
  BY DEF check_slot, Error, Ok

\* SHA-256 and the blinding have no collisions.
LEMMA BlindInjective ==
  ASSUME NEW x, NEW y, NEW m, NEW n,
         blind_digest_bytes(claim_digest_bytes(x), m) = blind_digest_bytes(claim_digest_bytes(y), n)
  PROVE  x = y /\ m = n
  BY DEF blind_digest_bytes, claim_digest_bytes

\* What verify_and_check_binding reports.
LEMMA BindingOk ==
  ASSUME NEW steps, NEW core, NEW bytes, verify_and_check_binding(steps, core, bytes).ok
  PROVE  LET r == verify_and_check_binding(steps, core, bytes).value
         IN  /\ r.q = core.q /\ r.body = core.body
             /\ \A i \in Slots : /\ check_slot(steps[i], core, i, bytes[i]).ok
                                 /\ r.claims[i] = check_slot(steps[i], core, i, bytes[i]).value
  BY DEF verify_and_check_binding, Error, Ok

\* What a relying party was told is what the issuer of a credential signed.
SignedAs(c, agrees, r) ==
  /\ c.key = r.q /\ c.body = r.body
  /\ Len(c.items) = MAX_CLAIMS_V1
  /\ \A i \in Slots :
       /\ r.claims[i].disclosed => /\ r.claims[i].plaintext.id = r.claims[i].digest_id
                                   /\ r.claims[i].plaintext.len = r.claims[i].real_len
       /\ agrees[i] => /\ r.claims[i].digest_id = c.items[i].id
                       /\ r.claims[i].disclosed => r.claims[i].plaintext = c.items[i]

\* Of a proof whose core circuit is a credential's, the relying party learns of nothing
\* but that credential, in the slots that expose what was signed.
LEMMA VerifyIsSigned ==
  ASSUME NEW c, NEW p, NEW bytes, CoreOf(p.core, p.agrees, c), \A i \in Slots : StepOf(p.steps[i]),
         verify(p, bytes).ok
  PROVE  SignedAs(c, p.agrees, verify(p, bytes).value)
<1> DEFINE b == verify_and_check_binding(p.steps, p.core, bytes)
<1>1. verify(p, bytes) = b /\ b.ok
  BY DEF verify, Error
<1>2. /\ b.value.q = p.core.q /\ b.value.body = p.core.body
      /\ \A i \in Slots :
           /\ check_slot(p.steps[i], p.core, i, bytes[i]).ok
           /\ b.value.claims[i] = check_slot(p.steps[i], p.core, i, bytes[i]).value
  BY <1>1, BindingOk
<1> HIDE DEF b
<1>3. ASSUME NEW i \in Slots
      PROVE  LET r == b.value.claims[i]
             IN  /\ r.disclosed => r.plaintext.id = r.digest_id /\ r.plaintext.len = r.real_len
                 /\ p.agrees[i] => /\ r.digest_id = c.items[i].id
                                   /\ r.disclosed => r.plaintext = c.items[i]
  <2> DEFINE r == check_slot(p.steps[i], p.core, i, bytes[i]).value
             v == p.steps[i]
  <2>1. /\ r.digest_id = p.core.digest_ids[i]
        /\ r.plaintext = bytes[i]
        /\ r.disclosed = v.disclosed /\ r.real_len = v.real_len /\ r.digest_id = v.digest_id
        /\ v.disclosed =>
             /\ blind_digest_bytes(claim_digest_bytes(bytes[i]), p.core.nonce) = v.digest
             /\ v.digest = p.core.digests[i]
             /\ bytes[i].len = v.real_len
    BY <1>2, SlotOk
  <2>2. b.value.claims[i] = r
    BY <1>2
  <2>3. PICK x, n : v.digest = blind_digest_bytes(claim_digest_bytes(x), n) /\ v.digest_id = x.id
    BY DEF StepOf
  <2> HIDE DEF r, v
  <2>4. r.disclosed => bytes[i] = x
    BY <2>1, <2>3, BlindInjective
  <2>5. r.disclosed => r.plaintext.id = r.digest_id /\ r.plaintext.len = r.real_len
    BY <2>1, <2>3, <2>4
  <2>6. p.agrees[i] /\ r.disclosed => bytes[i] = c.items[i]
    BY <2>1, BlindInjective DEF CoreOf
  <2>7. QED BY <2>1, <2>2, <2>5, <2>6 DEF CoreOf
<1>4. QED
  BY <1>1, <1>2, <1>3 DEF CoreOf, SignedAs

-----------------------------------------------------------------------------
(* The inductive invariant.                                                *)

\* A prep state: the public values it was prepared with carry its nonce, and the circuits
\* can be built again.
StateOk(s, drawn) ==
  /\ Circuits(s.cred, s.claims, s.nonce).ok
  /\ s.prep = Steps(s.claims, s.nonce)
  /\ s.nonce \in 1..drawn

\* One nonce, one state: prove hands the state back as it was.
OneStatePerNonce == \A s, t \in states : s.nonce = t.nonce => s = t

\* A proof that prove made: it continues a state the wallet still holds.
MadeByProve(p) ==
  /\ p.cred \in Credentials
  /\ Circuits(p.cred, p.claims, p.core.nonce).ok
  /\ p = Proof(p.cred, p.claims, p.core.nonce)
  /\ \E s \in states : s.prep = p.steps

\* A proof, of prove or not.
ProofOk(p) ==
  /\ p.cred \in Credentials
  /\ p.claims # <<>> => MadeByProve(p)
  /\ p.valid => /\ \A i \in Slots : StepOf(p.steps[i])
                /\ \E c \in Credentials : CoreOf(p.core, p.agrees, c)

IInv ==
  /\ nonce \in Nat
  /\ proofs \in Seq(Range(proofs))
  /\ \A s \in states : StateOk(s, nonce)
  /\ OneStatePerNonce
  /\ \A p \in Range(proofs) : ProofOk(p)

\* IInv holds at the start and is kept by every operation.
LEMMA Invariance == Spec => []IInv
<1>1. Init => IInv
  <2> SUFFICES ASSUME Init PROVE IInv
    OBVIOUS
  <2>1. Range(<<>>) = {} /\ <<>> \in Seq({})
    BY DEF Range
  <2>2. QED BY <2>1 DEF Init, IInv, OneStatePerNonce
<1>2. IInv /\ [Next]_vars => IInv'
  <2> SUFFICES ASSUME IInv, [Next]_vars PROVE IInv'
    OBVIOUS
  <2> USE DEF IInv
  <2>1. ASSUME NEW c \in Credentials, NEW claims \in Selection(c) \cup Mistakes(c),
               PrepProve(c, claims)
        PROVE  IInv'
    <3> DEFINE r == prep_prove(c, claims, nonce')
    <3>1. /\ nonce' = nonce + 1 /\ nonce' \in Nat
          /\ proofs' = proofs
          /\ states' = IF r.ok THEN states \cup {r.value} ELSE states
      BY <2>1 DEF PrepProve
    <3>2. r.ok => /\ Circuits(c, claims, nonce').ok
                  /\ r.value = [nonce |-> nonce', cred |-> c, claims |-> claims,
                                prep |-> Steps(claims, nonce')]
      BY PrepProveOk
    <3> HIDE DEF r
    <3>3. \A s \in states : StateOk(s, nonce')
      BY <3>1 DEF StateOk
    <3>4. r.ok => StateOk(r.value, nonce')
      BY <3>1, <3>2 DEF StateOk
    <3>5. OneStatePerNonce'
      <4>1. \A s \in states : s.nonce \in 1..nonce
        BY DEF StateOk
      <4>2. r.ok => r.value.nonce = nonce + 1
        BY <3>1, <3>2
      <4>3. r.ok => \A s \in states : s.nonce # r.value.nonce
        BY <4>1, <4>2
      <4>4. QED BY <3>1, <4>3 DEF OneStatePerNonce
    <3>6. ASSUME NEW p \in Range(proofs) PROVE ProofOk(p)'
      <4>1. ProofOk(p)
        OBVIOUS
      <4>2. MadeByProve(p) => MadeByProve(p)'
        BY <3>1 DEF MadeByProve
      <4>3. QED BY <4>1, <4>2 DEF ProofOk
    <3>7. QED BY <3>1, <3>3, <3>4, <3>5, <3>6
  <2>2. ASSUME NEW c \in Credentials, NEW claims \in Selection(c) \cup Mistakes(c),
               NEW s \in states, Prove(s, c, claims)
        PROVE  IInv'
    <3> DEFINE r == prove(s, c, claims)
               p == Proof(c, claims, s.nonce)
    <3>1. /\ r.ok /\ proofs' = Append(proofs, r.value.proof)
          /\ states' = states \cup {r.value.next_state}
          /\ nonce' = nonce
      BY <2>2 DEF Prove
    <3>2. /\ Circuits(c, claims, s.nonce).ok
          /\ Steps(claims, s.nonce) = s.prep
          /\ r.value = [proof |-> p, next_state |-> s]
      BY <3>1, ProveOk
    <3> HIDE DEF r
    <3>3. proofs' = Append(proofs, p) /\ states' = states
      BY <3>1, <3>2
    <3>4. /\ p.core.nonce = s.nonce /\ p.cred = c /\ p.claims = claims
          /\ p.steps = Steps(claims, s.nonce)
          /\ p.core = core_public_values(Core(c, claims, s.nonce))
          /\ p.agrees = Agrees(Core(c, claims, s.nonce))
          /\ p.valid => /\ CoreSatisfied(Core(c, claims, s.nonce))
                        /\ \A i \in Slots : StepSatisfied(Padded(claims)[i])
      BY DEF Proof, core_public_values, Core, MdocCoreCircuit
    <3>5. ProofOk(p)
      <4>1. MadeByProve(p)
        BY <3>2, <3>4 DEF MadeByProve
      <4>2. ASSUME p.valid, NEW i \in Slots PROVE StepOf(p.steps[i])
        <5>1. p.steps[i] = step_public_values(Padded(claims)[i], s.nonce)
          BY <3>4 DEF Steps
        <5>2. QED BY <3>4, <4>2, <5>1, StepIsOfItem
      <4>3. ASSUME p.valid PROVE CoreOf(p.core, p.agrees, c)
        <5>1. Hashes(Core(c, claims, s.nonce), c, Padded(claims))
          BY HashesAnyway DEF Core
        <5>2. QED BY <3>4, <4>3, <5>1, CoreIsSigned
      <4>4. QED BY <3>4, <4>1, <4>2, <4>3 DEF ProofOk
    <3> HIDE DEF p
    <3>6. /\ proofs' \in Seq(Range(proofs'))
          /\ Range(proofs') = Range(proofs) \cup {p}
      BY <3>3, AppendRange
    <3>7. \A q : ProofOk(q)' <=> ProofOk(q)
      BY <3>3 DEF ProofOk, MadeByProve
    <3>8. QED
      BY <3>1, <3>3, <3>5, <3>6, <3>7 DEF OneStatePerNonce, StateOk
  <2>3. ASSUME NEW p, NEW bytes, Verify(p, bytes)
        PROVE  IInv'
    BY <2>3 DEF Verify, OneStatePerNonce, StateOk, ProofOk, MadeByProve
  <2>4. ASSUME Fold PROVE IInv'
    <3>1. PICK c \in {c \in Credentials : Len(c.items) = MAX_CLAIMS_V1} :
            LET items == FoldedItems \cup Range(c.items)
                honest == MdocCoreCircuit(c, [i \in Slots |-> Claim(c.items[i], FALSE)], 1)
            IN \E ids \in [Slots -> {x.id : x \in items}],
                  digests \in [Slots -> {claim_digest_bytes(x) : x \in items}],
                  claims \in [Slots -> FoldedClaims(items)],
                  nonces \in [Slots -> 1..FoldedNonces] :
                 LET core == [honest EXCEPT !.digest_ids = ids, !.claim_digests = digests]
                 IN proofs' = <<[steps |-> [i \in Slots |-> step_public_values(claims[i], nonces[i])],
                                 core |-> core_public_values(core), valid |-> CoreSatisfied(core),
                                 cred |-> c, claims |-> <<>>, agrees |-> Agrees(core)]>>
      BY <2>4 DEF Fold
    <3> DEFINE items == FoldedItems \cup Range(c.items)
               pad == [i \in Slots |-> Claim(c.items[i], FALSE)]
    <3>10. PICK ids \in [Slots -> {x.id : x \in items}],
                digests \in [Slots -> {claim_digest_bytes(x) : x \in items}],
                claims \in [Slots -> FoldedClaims(items)],
                nonces \in [Slots -> 1..FoldedNonces] :
             LET core == Exposing(c, pad, 1, ids, digests)
             IN proofs' = <<[steps |-> [i \in Slots |-> step_public_values(claims[i], nonces[i])],
                             core |-> core_public_values(core), valid |-> CoreSatisfied(core),
                             cred |-> c, claims |-> <<>>, agrees |-> Agrees(core)]>>
      BY <3>1, Zenon DEF Exposing
    <3> DEFINE core == Exposing(c, pad, 1, ids, digests)
               p == [steps |-> [i \in Slots |-> step_public_values(claims[i], nonces[i])],
                     core |-> core_public_values(core), valid |-> CoreSatisfied(core),
                     cred |-> c, claims |-> <<>>, agrees |-> Agrees(core)]
    <3>2. proofs' = <<p>>
      BY <3>10
    <3>3. states = {} /\ states' = {} /\ nonce' \in Nat
      BY <2>4, SizeAssumption DEF Fold, StateOk
    <3>4. ASSUME NEW i \in Slots PROVE StepOf(p.steps[i])
      <4>1. StepSatisfied(claims[i])
        BY DEF FoldedClaims
      <4>2. QED BY <4>1, StepIsOfItem
    <3>5. p.valid => CoreOf(p.core, p.agrees, c)
      <4>1. Hashes(core, c, pad)
        BY HashesAnyway
      <4>2. QED BY <4>1, CoreIsSigned
    <3>6. p.claims = <<>> /\ p.cred = c /\ c \in Credentials
      OBVIOUS
    <3> HIDE DEF p
    <3>7. ProofOk(p)'
      BY <3>4, <3>5, <3>6 DEF ProofOk
    <3>8. Range(<<p>>) = {p} /\ <<p>> \in Seq({p})
      BY DEF Range
    <3>9. QED BY <3>2, <3>3, <3>7, <3>8 DEF OneStatePerNonce
  <2>5. CASE UNCHANGED vars
    BY <2>5 DEF vars, OneStatePerNonce, StateOk, ProofOk, MadeByProve
  <2>6. QED BY <2>1, <2>2, <2>3, <2>4, <2>5 DEF Next
<1>3. QED BY <1>1, <1>2, PTL DEF Spec

-----------------------------------------------------------------------------
(* The properties.                                                         *)

\* Whatever is folded and whatever bytes come with it, what verify returns is about one signed
\* credential; a disclosed plaintext carries the digestID reported for it; and in a slot whose
\* exposed digest is the hashed one it is the item signed there.
THEOREM DisclosedIsSignedAlways == Spec => []DisclosedIsSigned
<1>1. Init => DisclosedIsSigned
  BY DEF Init, DisclosedIsSigned, Error
<1>2. IInv /\ DisclosedIsSigned /\ [Next]_vars => DisclosedIsSigned'
  <2> SUFFICES ASSUME IInv, DisclosedIsSigned, [Next]_vars PROVE DisclosedIsSigned'
    OBVIOUS
  <2>1. ASSUME NEW p \in Range(proofs), NEW bytes, Verify(p, bytes)
        PROVE  DisclosedIsSigned'
    <3>1. verdict' = verify(p, bytes) /\ verify(p, bytes).ok /\ shown' = p
      BY <2>1 DEF Verify
    <3>2. PICK c \in Credentials : CoreOf(p.core, p.agrees, c) /\ \A i \in Slots : StepOf(p.steps[i])
      <4>1. p.valid
        BY <3>1 DEF verify, Error
      <4>2. QED BY <4>1 DEF IInv, ProofOk
    <3>3. SignedAs(c, p.agrees, verify(p, bytes).value)
      BY <3>1, <3>2, VerifyIsSigned
    <3>4. SignedAs(c, shown'.agrees, verdict'.value)
      BY <3>1, <3>3
    <3>5. QED BY <3>4 DEF DisclosedIsSigned, SignedAs
  <2>2. ASSUME verdict' = verdict, shown' = shown PROVE DisclosedIsSigned'
    BY <2>2 DEF DisclosedIsSigned
  <2>3. QED
    BY <2>1, <2>2 DEF Next, PrepProve, Prove, Fold, vars
<1>3. QED
  BY <1>1, <1>2, Invariance, PTL DEF Spec

\* Two proofs of prove share a blinded digest only when they continue one prep state: prove
\* returns the state it was given, and prep_prove draws a nonce for every other.
THEOREM LinkedOnlyByPrepAlways == Spec => []LinkedOnlyByPrep
<1>1. ASSUME NEW claims, NEW n, NEW k \in Slots PROVE Steps(claims, n)[k].digest.nonce = n
  BY DEF Steps, step_public_values, blind_digest_bytes
<1>2. IInv => LinkedOnlyByPrep
  <2> SUFFICES ASSUME IInv,
                      NEW i \in DOMAIN proofs, proofs[i].claims # <<>>,
                      NEW j \in DOMAIN proofs, proofs[j].claims # <<>>,
                      NEW k \in Slots, NEW l \in Slots,
                      proofs[i].steps[k].digest = proofs[j].steps[l].digest
               PROVE  \E s \in states : s.prep = proofs[i].steps /\ s.prep = proofs[j].steps
    BY DEF LinkedOnlyByPrep
  <2>1. MadeByProve(proofs[i]) /\ MadeByProve(proofs[j])
    BY DEF IInv, ProofOk, Range
  <2>2. PICK s \in states : s.prep = proofs[i].steps
    BY <2>1 DEF MadeByProve
  <2>3. PICK t \in states : t.prep = proofs[j].steps
    BY <2>1 DEF MadeByProve
  <2>4. s.prep = Steps(s.claims, s.nonce) /\ t.prep = Steps(t.claims, t.nonce)
    BY DEF IInv, StateOk
  <2>5. s.nonce = t.nonce
    BY <1>1, <2>2, <2>3, <2>4
  <2>6. s = t
    BY <2>5 DEF IInv, OneStatePerNonce
  <2>7. QED BY <2>2, <2>3, <2>6
<1>3. QED
  BY <1>2, Invariance, PTL

\* An item that fits its slot, what the core circuit says of it, and what is shown of it.
Fits(x) == x.len \in Nat \ {0} /\ ~(x.len > MAX_CLAIM_BYTES_V1)

SlotOfCore(core, i, x, n) ==
  /\ core.nonce = n /\ core.digest_ids[i] = x.id
  /\ core.digests[i] = blind_digest_bytes(claim_digest_bytes(x), n)

ShownOf(x, d) == IF d THEN x ELSE NoBytes

\* The check of one slot of an honest proof: the disclosed item and nothing else passes.
LEMMA HonestSlot ==
  ASSUME NEW x, Fits(x), NEW d \in BOOLEAN, NEW n, NEW supplied, NEW core, NEW i,
         SlotOfCore(core, i, x, n)
  PROVE  check_slot(step_public_values(Claim(x, d), n), core, i, supplied).ok
           <=> supplied = ShownOf(x, d)
<1> USE DEF Fits, SlotOfCore, ShownOf
<1> DEFINE v == step_public_values(Claim(x, d), n)
<1>1. /\ v.digest = blind_digest_bytes(claim_digest_bytes(x), n)
      /\ v.disclosed = d /\ v.digest_id = x.id
      /\ v.real_len = IF d THEN x.len ELSE 0
  BY DEF step_public_values, Claim
<1> HIDE DEF v
<1>2. x # NoBytes
  BY DEF NoBytes
<1>3. check_slot(v, core, i, supplied).ok
        <=> ~(\/ v.real_len > MAX_CLAIM_BYTES_V1
              \/ v.disclosed # (supplied # NoBytes)
              \/ v.disclosed /\ blind_digest_bytes(claim_digest_bytes(supplied), core.nonce) # v.digest
              \/ v.disclosed /\ supplied.len # v.real_len
              \/ v.digest # core.digests[i]
              \/ v.digest_id # core.digest_ids[i])
  BY DEF check_slot, Error, Ok
<1>4. ~(0 > MAX_CLAIM_BYTES_V1)
  BY SizeAssumption
<1>5. CASE d = TRUE
  <2>1. /\ v.disclosed = TRUE /\ v.real_len = x.len
    BY <1>1, <1>5
  <2>2. check_slot(v, core, i, supplied).ok
          <=> /\ supplied # NoBytes
              /\ blind_digest_bytes(claim_digest_bytes(supplied), n)
                   = blind_digest_bytes(claim_digest_bytes(x), n)
              /\ supplied.len = x.len
    BY <1>1, <1>3, <2>1
  <2>3. check_slot(v, core, i, supplied).ok <=> supplied = x
    BY <1>2, <2>2, BlindInjective
  <2>4. QED BY <1>5, <2>3 DEF v
<1>6. CASE d = FALSE
  <2>1. v.disclosed = FALSE /\ v.real_len = 0
    BY <1>1, <1>6
  <2>2. check_slot(v, core, i, supplied).ok <=> supplied = NoBytes
    BY <1>1, <1>3, <1>4, <2>1
  <2>3. QED BY <1>6, <2>2 DEF v
<1>7. QED BY <1>5, <1>6

\* The fields of a claim.
LEMMA ClaimFields ==
  \A x, d : Claim(x, d).bytes = x /\ Claim(x, d).disclose = d /\ Claim(x, d).digest_id = x.id
           /\ Claim(x, d).real_len = x.len
  BY DEF Claim

\* A proof of a credential's claims, in the MSO's order, is accepted with the disclosed
\* items and with no other bytes.
LEMMA HonestVerify ==
  ASSUME NEW c \in Credentials, Len(c.items) = MAX_CLAIMS_V1,
         NEW claims \in Selection(c), NEW n, Circuits(c, claims, n).ok,
         NEW bytes \in [Slots -> Items \cup {NoBytes}]
  PROVE  verify(Proof(c, claims, n), bytes).ok <=> bytes = Revealed(claims)
<1>1. PICK d \in [DOMAIN c.items -> BOOLEAN] :
        claims = [i \in DOMAIN c.items |-> Claim(c.items[i], d[i])]
  BY DEF Selection
<1>2. /\ DOMAIN c.items = Slots
      /\ \A i \in Slots : c.items[i] \in Items /\ c.items[i].len \in Nat \ {0}
  <2>1. c.items \in Seq(Items)
    BY ItemAssumption
  <2>2. DOMAIN c.items = Slots /\ \A i \in Slots : c.items[i] \in Items
    BY <2>1, LenProperties, ElementOfSeq DEF Slots
  <2>3. QED BY <2>2, ItemAssumption
<1>3. \A i \in Slots : claims[i] = Claim(c.items[i], d[i]) /\ d[i] \in BOOLEAN
  BY <1>1, <1>2
<1>4. Len(claims) = MAX_CLAIMS_V1 /\ DOMAIN claims = Slots
  <2>1. claims \in Seq(SomeClaims)
    BY ClaimsType
  <2>2. Len(claims) \in Nat /\ DOMAIN claims = 1..Len(claims) /\ DOMAIN claims = Slots
    BY <1>1, <1>2, <2>1, LenProperties
  <2>3. 1..Len(claims) = 1..MAX_CLAIMS_V1
    BY <2>2 DEF Slots
  <2>4. Len(claims) = MAX_CLAIMS_V1
    <3>1. Len(claims) \in Nat /\ MAX_CLAIMS_V1 \in Nat \ {0}
      BY <2>2, SizeAssumption
    <3>2. ASSUME NEW m \in Nat, NEW k \in Nat \ {0}, 1..m = 1..k PROVE m = k
      BY <3>2, SMT
    <3>3. QED BY <2>3, <3>1, <3>2, Zenon
  <2>5. QED BY <2>2, <2>4
<1>5. \A i \in Slots : Padded(claims)[i] = Claim(c.items[i], d[i])
  BY <1>3, <1>4, SizeAssumption DEF Padded, Slots
<1>6. \A i \in Slots : ~(c.items[i].len > MAX_CLAIM_BYTES_V1)
  <2>1. \A i \in Slots : ~(claims[i].bytes.len > MAX_CLAIM_BYTES_V1)
    BY <1>4, CircuitsOk, PadClaims
  <2>2. QED BY <1>3, <2>1, ClaimFields
<1> DEFINE p == Proof(c, claims, n)
           k == Core(c, claims, n)
<1>7. p.valid
  <2>1. \A i \in Slots : StepSatisfied(Padded(claims)[i])
    BY <1>5, ClaimFields DEF StepSatisfied
  <2>2. /\ core_digest_ids(Padded(claims)) = [i \in DOMAIN c.items |-> c.items[i].id]
        /\ core_claim_digests(Padded(claims))
             = [i \in DOMAIN c.items |-> claim_digest_bytes(c.items[i])]
    <3>1. \A i \in Slots : /\ Padded(claims)[i].digest_id = c.items[i].id
                           /\ Padded(claims)[i].bytes = c.items[i]
      BY <1>5, ClaimFields
    <3>2. QED BY <1>2, <3>1 DEF core_digest_ids, core_claim_digests
  <2>3. CoreSatisfied(k)
    BY <2>2 DEF CoreSatisfied, Core, MdocCoreCircuit, MSO
  <2>4. QED BY <2>1, <2>3 DEF Proof
<1>8. /\ p.steps = Steps(claims, n)
      /\ p.core = core_public_values(k)
  BY DEF Proof
<1>9. \A i \in Slots :
        /\ p.steps[i] = step_public_values(Claim(c.items[i], d[i]), n)
        /\ p.core.nonce = n
        /\ p.core.digest_ids[i] = c.items[i].id
        /\ p.core.digests[i] = blind_digest_bytes(claim_digest_bytes(c.items[i]), n)
  <2>1. \A i \in Slots : p.steps[i] = step_public_values(Claim(c.items[i], d[i]), n)
    BY <1>5, <1>8 DEF Steps
  <2>2. /\ k.nonce = n
        /\ k.digest_ids = core_digest_ids(Padded(claims))
        /\ k.claim_digests = core_claim_digests(Padded(claims))
    BY DEF Core, MdocCoreCircuit
  <2> HIDE DEF k
  <2>3. /\ p.core.nonce = n
        /\ p.core.digest_ids = core_digest_ids(Padded(claims))
        /\ \A i \in Slots :
             p.core.digests[i] = blind_digest_bytes(core_claim_digests(Padded(claims))[i], n)
    BY <1>8, <2>2 DEF core_public_values
  <2>4. \A i \in Slots :
          /\ core_digest_ids(Padded(claims))[i] = c.items[i].id
          /\ core_claim_digests(Padded(claims))[i] = claim_digest_bytes(c.items[i])
    <3>1. \A i \in Slots : /\ Padded(claims)[i].digest_id = c.items[i].id
                           /\ Padded(claims)[i].bytes = c.items[i]
      BY <1>5, ClaimFields
    <3>2. QED BY <3>1 DEF core_digest_ids, core_claim_digests
  <2>5. QED BY <2>1, <2>3, <2>4
<1> HIDE DEF p, k
<1>10. ASSUME NEW i \in Slots
       PROVE  check_slot(p.steps[i], p.core, i, bytes[i]).ok
                <=> bytes[i] = ShownOf(c.items[i], d[i])
  <2> DEFINE x == c.items[i]
             di == d[i]
             b == bytes[i]
  <2>1. Fits(x) /\ di \in BOOLEAN
    BY <1>2, <1>3, <1>6 DEF Fits
  <2>2. p.steps[i] = step_public_values(Claim(x, di), n) /\ SlotOfCore(p.core, i, x, n)
    BY <1>9 DEF SlotOfCore
  <2> HIDE DEF x, di, b
  <2>3. check_slot(step_public_values(Claim(x, di), n), p.core, i, b).ok
          <=> b = ShownOf(x, di)
    BY <2>1, <2>2, HonestSlot
  <2>4. QED BY <2>2, <2>3 DEF x, di, b
<1>11. \A i \in Slots : Revealed(claims)[i] = ShownOf(c.items[i], d[i])
  <2>1. \A i \in Slots : claims[i].disclose = d[i] /\ claims[i].bytes = c.items[i]
    BY <1>3, ClaimFields
  <2>2. QED BY <2>1 DEF Revealed, ShownOf
<1>12. bytes = Revealed(claims) <=> \A i \in Slots : bytes[i] = Revealed(claims)[i]
  BY DEF Revealed
<1>13. Len(bytes) = MAX_CLAIMS_V1 /\ Len(p.steps) = MAX_CLAIMS_V1
  BY <1>8, SizeAssumption DEF Slots, Steps
<1>14. verify(p, bytes).ok
         <=> \A i \in Slots : check_slot(p.steps[i], p.core, i, bytes[i]).ok
  BY <1>7, <1>13 DEF verify, verify_and_check_binding, Error, Ok
<1>15. QED
  BY <1>10, <1>11, <1>12, <1>14 DEF p

\* A wallet can prove with every state it holds, and a proof of a full credential's claims
\* in the MSO's order is believed with the disclosed items and with no other bytes.
THEOREM HonestProofsAreAcceptedAlways == Spec => []HonestProofsAreAccepted
<1>1. IInv => HonestProofsAreAccepted
  <2> SUFFICES ASSUME IInv PROVE HonestProofsAreAccepted
    OBVIOUS
  <2>1. StatesStayUsable
    <3> SUFFICES ASSUME NEW s \in states PROVE prove(s, s.cred, s.claims).ok
      BY DEF StatesStayUsable
    <3>1. Circuits(s.cred, s.claims, s.nonce).ok /\ s.prep = Steps(s.claims, s.nonce)
      BY DEF IInv, StateOk
    <3>2. Circuits(s.cred, s.claims, s.nonce).value
            = [steps |-> Padded(s.claims), core |-> Core(s.cred, s.claims, s.nonce)]
      BY <3>1, CircuitsOk
    <3>3. QED BY <3>1, <3>2 DEF prove, Steps, Ok
  <2>2. ASSUME NEW p \in Range(proofs), WholeCredential(p.cred), p.claims \in Selection(p.cred),
               NEW bytes \in [Slots -> Items \cup {NoBytes}]
        PROVE  verify(p, bytes).ok <=> bytes = Revealed(p.claims)
    <3>1. p.cred \in Credentials /\ Len(p.cred.items) = MAX_CLAIMS_V1
      BY <2>2 DEF IInv, ProofOk, WholeCredential
    <3>2. p.claims # <<>>
      <4>1. p.cred.items \in Seq(Items) /\ p.cred.items # <<>>
        BY <3>1, ItemAssumption
      <4>2. 1 \in DOMAIN p.cred.items
        BY <3>1, <4>1, LenProperties, SizeAssumption
      <4>3. 1 \in DOMAIN p.claims
        BY <2>2, <4>2 DEF Selection
      <4>4. QED BY <4>3
    <3>3. MadeByProve(p)
      BY <3>2 DEF IInv, ProofOk
    <3>4. QED BY <2>2, <3>1, <3>3, HonestVerify DEF MadeByProve
  <2>3. QED BY <2>1, <2>2 DEF HonestProofsAreAccepted
<1>2. QED
  BY <1>1, Invariance, PTL
=============================================================================
