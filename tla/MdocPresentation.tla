-------------------------- MODULE MdocPresentation --------------------------
(***************************************************************************)
(* The generic mdoc path: prep_prove, prove, verify and                    *)
(* verify_and_check_binding (src/lib.rs) as the wallet and the relying     *)
(* party reach them through src/ffi_api.rs.  A proof folds one step        *)
(* circuit per claim slot (ClaimDigestStepCircuit) with one core circuit   *)
(* (MdocCoreCircuit); the two kinds meet only in the public values that    *)
(* verify_and_check_binding compares.                                      *)
(*                                                                         *)
(* SHA-256 is a constructor, a signature the pair of a key and a message,  *)
(* and an IssuerSignedItem a record: the digestID encoded in it, its value *)
(* and its length in bytes.                                                *)
(*                                                                         *)
(* A circuit's variables are tied only where a constraint ties them.  The  *)
(* core circuit allocates the digestIDs and the claim digests twice, once  *)
(* for the message it hashes and once for the values it exposes; a step    *)
(* circuit allocates the length it exposes apart from the length it hashes *)
(* with.  Prove assigns each pair from one field; Fold assigns both freely.*)
(***************************************************************************)
EXTENDS Naturals, Sequences, FiniteSets, SequencesExt

CONSTANTS
  MAX_CLAIMS_V1,        \* claim slots of the circuit
  MAX_CLAIM_BYTES_V1,   \* bytes of a slot
  MAX_DIGEST_ID,        \* the largest legal digestID
  Credentials,          \* [key, items, body]: what issuers signed, items in the MSO's order
  Strangers,            \* items no issuer signed
  FoldedItems,          \* the items a fold that prove did not build is made of
  FoldedNonces,         \* bound on the nonces of a fold that prove did not build
  MaxPreps,             \* bound on prep_prove calls, each with a fresh nonce
  MaxProofs             \* bound on the proofs made

ASSUME SizeAssumption ==
  /\ MAX_CLAIMS_V1 \in Nat \ {0} /\ MAX_CLAIM_BYTES_V1 \in Nat /\ MAX_DIGEST_ID \in Nat
  /\ MaxPreps \in Nat /\ MaxProofs \in Nat /\ FoldedNonces \in Nat

Slots == 1..MAX_CLAIMS_V1

NoBytes == [id |-> 0, val |-> "none", len |-> 0]    \* the empty byte string

Error == [ok |-> FALSE]
Ok(x) == [ok |-> TRUE, value |-> x]

-----------------------------------------------------------------------------
(* Claims and circuits.                                                    *)

claim_digest_bytes(bytes) == [sha256 |-> bytes]

blind_digest_bytes(digest, nonce) == [sha256 |-> digest, nonce |-> nonce]

\* The issuer's payload: what the MSO template frames (mso.rs).  The framing is injective;
\* MsoSplice shows the part of it that has variable width.
Sig_structure(ids, digests, body) == [ids |-> ids, digests |-> digests, body |-> body]

MSO(c) ==
  Sig_structure([i \in DOMAIN c.items |-> c.items[i].id],
                [i \in DOMAIN c.items |-> claim_digest_bytes(c.items[i])], c.body)

\* A claim is [bytes, real_len, disclose, digest_id].  Short claim lists are filled up with
\* empty, undisclosed claims of digestID 0.
pad_claims(claims) ==
  IF \/ Len(claims) > MAX_CLAIMS_V1
     \/ \E i \in DOMAIN claims : claims[i].bytes.len > MAX_CLAIM_BYTES_V1
  THEN Error
  ELSE Ok([i \in Slots |->
             IF i <= Len(claims) THEN claims[i]
             ELSE [bytes |-> NoBytes, real_len |-> 0, disclose |-> FALSE, digest_id |-> 0]])

\* Mutant: the digestIDs of the MSO are the slots' numbers.
core_digest_ids_Positions(padded) == [i \in Slots |-> i - 1]

core_digest_ids(padded) == [i \in Slots |-> padded[i].digest_id]

core_claim_digests(padded) == [i \in Slots |-> claim_digest_bytes(padded[i].bytes)]

\* One step circuit: its public values, and whether its constraints hold.  The constraints
\* tie the exposed digestID to the one encoded in the bytes (DigestId has the gadget), but
\* not the exposed length to theirs.
step_public_values(c, nonce) ==
  [digest    |-> blind_digest_bytes(claim_digest_bytes(c.bytes), nonce),
   disclosed |-> c.disclose,
   real_len  |-> IF c.disclose THEN c.real_len ELSE 0,
   digest_id |-> c.digest_id]

StepSatisfied(c) == c.bytes.id = c.digest_id

\* The core circuit of a credential and the claims of its slots.  signed_ids and
\* signed_digests go into the hashed message, digest_ids and claim_digests are allocated
\* again for the public values.
MdocCoreCircuit(c, padded, nonce) ==
  [q |-> c.key, sig |-> [key |-> c.key, msg |-> MSO(c)], body |-> c.body, nonce |-> nonce,
   signed_ids |-> core_digest_ids(padded), signed_digests |-> core_claim_digests(padded),
   digest_ids |-> core_digest_ids(padded), claim_digests |-> core_claim_digests(padded)]

core_public_values(k) ==
  [q |-> k.q, nonce |-> k.nonce, body |-> k.body, digest_ids |-> k.digest_ids,
   digests |-> [i \in Slots |-> blind_digest_bytes(k.claim_digests[i], k.nonce)]]

CoreSatisfied(k) ==
  k.sig = [key |-> k.q, msg |-> Sig_structure(k.signed_ids, k.signed_digests, k.body)]

\* The slots for which the two allocations hold the same values; no constraint says so.
Agrees(k) ==
  [i \in Slots |-> /\ k.signed_ids[i] = k.digest_ids[i]
                   /\ k.signed_digests[i] = k.claim_digests[i]]

-----------------------------------------------------------------------------
(* verify_and_check_binding on what verify returned.                       *)

\* Mutant: the digests of step and core are not compared.
check_slot_Unbound(v, core, i, supplied) ==
  IF \/ v.real_len > MAX_CLAIM_BYTES_V1
     \/ v.disclosed # (supplied # NoBytes)
     \/ v.disclosed /\ blind_digest_bytes(claim_digest_bytes(supplied), core.nonce) # v.digest
     \/ v.disclosed /\ supplied.len # v.real_len
     \/ v.digest_id # core.digest_ids[i]
  THEN Error
  ELSE Ok([disclosed |-> v.disclosed, plaintext |-> supplied,
           real_len |-> v.real_len, digest_id |-> v.digest_id])

\* One pass of its loop over the claim slots: the claim it reports, or Error.
check_slot(v, core, i, supplied) ==
  IF \/ v.real_len > MAX_CLAIM_BYTES_V1
     \/ v.disclosed # (supplied # NoBytes)
     \/ v.disclosed /\ blind_digest_bytes(claim_digest_bytes(supplied), core.nonce) # v.digest
     \/ v.disclosed /\ supplied.len # v.real_len
     \/ v.digest # core.digests[i]
     \/ v.digest_id # core.digest_ids[i]
  THEN Error
  ELSE Ok([disclosed |-> v.disclosed, plaintext |-> supplied,
           real_len |-> v.real_len, digest_id |-> v.digest_id])

\* The relying party passes one entry per slot; the FFI reads an empty one as None.
verify_and_check_binding(steps, core, disclosed_bytes) ==
  LET slot == [i \in Slots |-> check_slot(steps[i], core, i, disclosed_bytes[i])]
  IN IF \/ Len(disclosed_bytes) # MAX_CLAIMS_V1
        \/ Len(steps) # MAX_CLAIMS_V1
     THEN Error
     ELSE IF \E i \in Slots : ~slot[i].ok THEN Error
     ELSE Ok([q |-> core.q, body |-> core.body, claims |-> [i \in Slots |-> slot[i].value]])

-----------------------------------------------------------------------------

VARIABLES
  nonce,      \* nonces drawn so far; the n-th is n
  states,     \* prep states the wallet holds: [nonce, prep, cred, claims]
  proofs,     \* the proofs made, in order: [steps, core, valid, cred, claims, agrees],
              \* without claims when prove did not build it; agrees is history
  verdict,    \* what the relying party accepted last, or Error
  shown       \* history: the proof that verdict is about

vars == <<nonce, states, proofs, verdict, shown>>

Items == UNION {Range(c.items) : c \in Credentials} \cup Strangers

\* A credential has an item, and the encoding of an item is not empty.
ASSUME ItemAssumption ==
  /\ \A c \in Credentials : c.items \in Seq(Items) /\ c.items # <<>>
  /\ \A x \in Items : x.id \in Nat /\ x.len \in Nat \ {0}

Claim(item, d) ==
  [bytes |-> item, real_len |-> item.len, disclose |-> d, digest_id |-> item.id]

\* The items of a credential in the MSO's order, with any choice of disclosure.
Selection(c) ==
  {[i \in DOMAIN c.items |-> Claim(c.items[i], d[i])] : d \in [DOMAIN c.items -> BOOLEAN]}

\* What else a caller can pass: another order, a digestID that is not the item's or is
\* illegal, a claim too few or too many, an item of another credential.
Mistakes(c) ==
  LET s == [i \in DOMAIN c.items |-> Claim(c.items[i], TRUE)]
  IN {Reverse(s), Tail(s), Append(s, s[1]), [s EXCEPT ![1].digest_id = @ + 1],
      [s EXCEPT ![1].digest_id = MAX_DIGEST_ID + 1]}
     \cup {[s EXCEPT ![1] = Claim(x, TRUE)] : x \in Items}

\* The circuits prep_prove and prove build.  A digestID past 2^31 - 1 fails an assertion
\* of the gadget: synthesis panics and nothing is returned.
Circuits(c, claims, n) ==
  LET p == pad_claims(claims)
  IN IF ~p.ok THEN Error
     ELSE IF \E i \in Slots : p.value[i].digest_id > MAX_DIGEST_ID THEN Error
     ELSE Ok([steps |-> p.value, core |-> MdocCoreCircuit(c, p.value, n)])

\* ffi_api::prep_prove: the state is the nonce followed by vega-prover's.
prep_prove(c, claims, n) ==
  LET k == Circuits(c, claims, n)
  IN IF ~k.ok THEN Error
     ELSE Ok([nonce |-> n, cred |-> c, claims |-> claims,
              prep |-> [i \in Slots |-> step_public_values(k.value.steps[i], n)]])

\* Mutant: the next state gets a nonce of its own.
prove_FreshNonce(s, c, claims) ==
  LET k == Circuits(c, claims, s.nonce)
      pub == [i \in Slots |-> step_public_values(k.value.steps[i], s.nonce)]
  IN IF ~k.ok THEN Error
     ELSE IF pub # s.prep THEN Error
     ELSE Ok([proof |-> [steps |-> pub, core |-> core_public_values(k.value.core),
                         valid |-> /\ \A i \in Slots : StepSatisfied(k.value.steps[i])
                                   /\ CoreSatisfied(k.value.core),
                         cred |-> c, claims |-> claims, agrees |-> Agrees(k.value.core)],
              next_state |-> [s EXCEPT !.nonce = @ + MaxPreps]])

\* ffi_api::prove with the nonce read back from the state.  vega-prover refuses when the
\* public values of a step circuit are not those of prep_prove; the proof it makes verifies
\* when every circuit is satisfied.
prove(s, c, claims) ==
  LET k == Circuits(c, claims, s.nonce)
      pub == [i \in Slots |-> step_public_values(k.value.steps[i], s.nonce)]
  IN IF ~k.ok THEN Error
     ELSE IF pub # s.prep THEN Error
     ELSE Ok([proof |-> [steps |-> pub, core |-> core_public_values(k.value.core),
                         valid |-> /\ \A i \in Slots : StepSatisfied(k.value.steps[i])
                                   /\ CoreSatisfied(k.value.core),
                         cred |-> c, claims |-> claims, agrees |-> Agrees(k.value.core)],
              next_state |-> s])

\* ffi_api::verify: the proof, then the binding.
verify(proof, disclosed_bytes) ==
  IF ~proof.valid THEN Error
  ELSE verify_and_check_binding(proof.steps, proof.core, disclosed_bytes)

Init == nonce = 0 /\ states = {} /\ proofs = <<>> /\ verdict = Error /\ shown = Error

\* Mutant: every prep_prove uses one fixed nonce, as setup does.
PrepProve_FixedNonce(c, claims) ==
  /\ nonce < MaxPreps
  /\ nonce' = nonce + 1
  /\ LET r == prep_prove(c, claims, 1)
     IN states' = IF r.ok THEN states \cup {r.value} ELSE states
  /\ UNCHANGED <<proofs, verdict, shown>>

\* fresh_nonce, then prep_prove.
PrepProve(c, claims) ==
  /\ nonce < MaxPreps
  /\ nonce' = nonce + 1
  /\ LET r == prep_prove(c, claims, nonce')
     IN states' = IF r.ok THEN states \cup {r.value} ELSE states
  /\ UNCHANGED <<proofs, verdict, shown>>

\* The wallet proves with any state it holds: the chain it continues may be another
\* credential's or made for another choice of claims, and then prove fails.
Prove(s, c, claims) ==
  /\ Len(proofs) < MaxProofs
  /\ LET r == prove(s, c, claims)
     IN /\ r.ok
        /\ proofs' = Append(proofs, r.value.proof)
        /\ states' = states \cup {r.value.next_state}
  /\ UNCHANGED <<nonce, verdict, shown>>

\* The relying party is handed any bytes beside the proof.
Verify(proof, disclosed_bytes) ==
  /\ verdict' = verify(proof, disclosed_bytes)
  /\ verdict'.ok
  /\ shown' = proof
  /\ UNCHANGED <<nonce, states, proofs>>

\* The assignments of a step circuit that is about one of these items.  Of the lengths it can
\* expose, the item's own and one that is too long stand for all.
FoldedClaims(items) ==
  {c \in [bytes : items, real_len : {x.len : x \in items} \cup {MAX_CLAIM_BYTES_V1 + 1},
          disclose : BOOLEAN, digest_id : {x.id : x \in items}] :
    StepSatisfied(c) /\ c.real_len \in {c.bytes.len, MAX_CLAIM_BYTES_V1 + 1}}

\* A proof that prove did not build: every circuit holds, but the prover wrote each
\* circuit's assignment itself.  The core is of a signed credential, which pins what is
\* hashed; what it exposes, and the item and the nonce of every step, are the prover's
\* choice.  The relying party looks at one proof at a time, so a behaviour with one has no
\* others: it uses up the bound on preps.
Fold ==
  /\ nonce = 0 /\ proofs = <<>>
  /\ \E c \in {c \in Credentials : Len(c.items) = MAX_CLAIMS_V1} :
       LET items == FoldedItems \cup Range(c.items)
           honest == MdocCoreCircuit(c, [i \in Slots |-> Claim(c.items[i], FALSE)], 1)
       IN \E ids \in [Slots -> {x.id : x \in items}],
             digests \in [Slots -> {claim_digest_bytes(x) : x \in items}],
             claims \in [Slots -> FoldedClaims(items)],
             nonces \in [Slots -> 1..FoldedNonces] :
            LET core == [honest EXCEPT !.digest_ids = ids, !.claim_digests = digests]
            IN proofs' = <<[steps |-> [i \in Slots |-> step_public_values(claims[i], nonces[i])],
                            core |-> core_public_values(core), valid |-> CoreSatisfied(core),
                            cred |-> c, claims |-> <<>>, agrees |-> Agrees(core)]>>
  /\ nonce' = MaxPreps
  /\ UNCHANGED <<states, verdict, shown>>

Next ==
  \/ \E c \in Credentials : \E claims \in Selection(c) \cup Mistakes(c) :
       \/ PrepProve(c, claims)
       \/ \E s \in states : Prove(s, c, claims)
  \/ \E p \in Range(proofs), n \in MAX_CLAIMS_V1 - 1 .. MAX_CLAIMS_V1 :
       \E bytes \in [1..n -> Items \cup {NoBytes}] : Verify(p, bytes)
  \/ Fold

Spec == Init /\ [][Next]_vars

-----------------------------------------------------------------------------

\* What verify returns is about one credential, whatever the prover folded: under the key
\* reported its issuer signed an MSO with this body and as many items as there are slots.  A
\* disclosed plaintext carries the digestID and has the length reported for it.  In a slot
\* whose exposed digestID and digest are the ones hashed, the digestID and the disclosed
\* plaintext are those the issuer signed for the slot.
DisclosedIsSigned ==
  verdict.ok =>
    \E c \in Credentials :
      /\ c.key = verdict.value.q /\ c.body = verdict.value.body
      /\ Len(c.items) = MAX_CLAIMS_V1
      /\ \A i \in Slots :
           LET r == verdict.value.claims[i]
           IN /\ r.disclosed => r.plaintext.id = r.digest_id /\ r.plaintext.len = r.real_len
              /\ shown.agrees[i] => /\ r.digest_id = c.items[i].id
                                    /\ r.disclosed => r.plaintext = c.items[i]

\* What the core circuit's comments say of its second allocation of the digests: that it
\* weakens nothing, so at the very least a disclosed plaintext is an item that the issuer
\* whose key is reported signed in some credential.  No constraint ties the exposed digests
\* to the hashed ones, and this does not hold.
ExposedIsSigned ==
  verdict.ok =>
    \A i \in Slots :
      LET r == verdict.value.claims[i]
      IN r.disclosed => \E c \in Credentials : /\ c.key = verdict.value.q
                                              /\ r.plaintext \in Range(c.items)

\* The claims of a credential that fills the slots, in the MSO's order.
WholeCredential(c) ==
  /\ Len(c.items) = MAX_CLAIMS_V1
  /\ \A i \in Slots : c.items[i].id <= MAX_DIGEST_ID

Revealed(claims) ==
  [i \in Slots |-> IF claims[i].disclose THEN claims[i].bytes ELSE NoBytes]

\* A prep state, fresh or returned by prove, can be proved with again: the nonce it carries
\* is the one its public values were made with.
StatesStayUsable ==
  \A s \in states : prove(s, s.cred, s.claims).ok

\* A wallet can prove with every state it holds, and one that passes a full credential's
\* claims in the MSO's order is believed, with the disclosed items and no others (prep_prove,
\* prove and verify_and_check_binding together).
HonestProofsAreAccepted ==
  /\ StatesStayUsable
  /\ \A p \in Range(proofs) :
       WholeCredential(p.cred) /\ p.claims \in Selection(p.cred) =>
         \A bytes \in [Slots -> Items \cup {NoBytes}] :
           verify(p, bytes).ok <=> bytes = Revealed(p.claims)

\* Two proofs share a blinded digest only when they continue one prep state: presentations
\* prepared separately cannot be recognised by the digests of the same items.
LinkedOnlyByPrep ==
  \A i, j \in {i \in DOMAIN proofs : proofs[i].claims # <<>>} : \A k, l \in Slots :
    proofs[i].steps[k].digest = proofs[j].steps[l].digest
      => \E s \in states : s.prep = proofs[i].steps /\ s.prep = proofs[j].steps
=============================================================================
