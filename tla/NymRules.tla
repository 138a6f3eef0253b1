------------------------------ MODULE NymRules ------------------------------
(***************************************************************************)
(* The nym_auth statement as operators: what a verifier names, the rules   *)
(* of the core circuit in the order the prover meets them, what the step   *)
(* instances check of the hash table, and the answers of `prove` and       *)
(* `verify` (nymauth_vega/engine: statement, app, mdoc, presentation,      *)
(* pseudonym, step, table, challenge).                                     *)
(*                                                                         *)
(* SHA-256 and ECDSA are symbolic: two digests are equal when what they    *)
(* digest is, and a signature is the pair of its key and the digest it     *)
(* signs.  A proof of vega-prover is what its verifier learns from it:     *)
(* whether the rules hold for some witness, the positions its step         *)
(* instances report, and its core's public values.                         *)
(***************************************************************************)
EXTENDS Calendar, Sequences, FiniteSetsExt

CONSTANTS
  Points,        \* the keys that are points of P-256
  ShortNonces    \* the nonces of fewer than MIN_NONCE_CHARS characters

\* The approved circuit: its type of credential and its two attributes.
doc_type == "nym_auth"
birth_date_element == "birth_date"
ssc_element == "ssc"

sha256(kind, message) == <<kind, message>>

\* What no 32 bytes are: a digest, an input or a thumbprint of another length.
WrongLength == <<"wrong length">>
Null == <<"null">>

Signature(key, digest) == [key |-> key, digest |-> digest]

WrongSeed == "not 16 bytes"
WrongSignature == Signature("not 64 bytes", WrongLength)

-----------------------------------------------------------------------------
(* The values a verifier names.                                            *)

verifier_input(client_id) == sha256("client_id", client_id)

\* challenge::derive: e2, from the request alone.
DerivesChallenge(nonce, thumbprint) ==
  /\ nonce \notin ShortNonces
  /\ thumbprint # WrongLength

\* Mutants: the transcript leaves out the nonce, or the origin.
derive_NoNonce(origin, nonce, type, thumbprint) ==
  sha256("Signature1", [transcript |-> <<origin, thumbprint>>, type |-> type])

derive_NoOrigin(origin, nonce, type, thumbprint) ==
  sha256("Signature1", [transcript |-> <<nonce, thumbprint>>, type |-> type])

derive(origin, nonce, type, thumbprint) ==
  sha256("Signature1", [transcript |-> <<origin, nonce, thumbprint>>, type |-> type])

\* A time as the pair of its date's digits and its clock's, which orders times as the
\* number YYYYMMDDhhmmss does.
time(t) == <<digits(date(t.date)), clock_digits(t)>>
Earlier(s, t) == s[1] < t[1] \/ (s[1] = t[1] /\ s[2] < t[2])

\* statement::public: every value is well formed.
PublicOk(st) ==
  /\ st.issuer_key \in Points
  /\ check_range(st.earliest, st.cutoff)
  /\ ParsesAsTime(st.time)
  /\ st.challenge_digest # WrongLength
  /\ st.verifier_input # WrongLength

\* Public::values and NymPublic::verifier_values: what the circuit sees of a statement.
public(st) ==
  [issuer_key |-> st.issuer_key,
   born_from |-> BornFrom(st.earliest),
   born_by |-> digits(date(st.cutoff)),
   now |-> time(st.time),
   challenge |-> st.challenge_digest,
   request |-> <<doc_type, birth_date_element>>,
   verifier_input |-> st.verifier_input]

-----------------------------------------------------------------------------
(* The hash table.  Message m lies at the positions Region(m); the step    *)
(* instance that reports position j checks the link of the chain there.    *)

Region == [signed |-> 0..1, attribute |-> {2}, ssc |-> {3}, nym |-> {4}, seed |-> {5}]
Positions == 0..6

\* Every instance at its own position, and instance i at j's.
OwnPositions == [i \in Positions |-> i]
Misplaced(i, j) == [OwnPositions EXCEPT ![i] = j]

\* The chain of message m is checked from end to end.
Chained(m, reported) == \A j \in Region[m] : \E i \in Positions : reported[i] = j

item(name, value) == <<name, value>>
NymMessage(seed, input) == [seed |-> seed, verifier_input |-> input]

pseudonym(seed, input) == sha256("nym", NymMessage(seed, input))

\* The witness an honest prover builds: each message beside its own digest.
Witness(issuer_signed, seed, device_signature, st) ==
  LET birth == item(birth_date_element, issuer_signed.items[birth_date_element])
      ssc == item(ssc_element, issuer_signed.items[ssc_element])
      nym == NymMessage(seed, st.verifier_input)
  IN  [issuer_key |-> st.issuer_key,
       issuer_signature |-> issuer_signed.signature,
       device_signature |-> device_signature,
       bytes |-> [signed |-> issuer_signed.mso, attribute |-> birth, ssc |-> ssc,
                  seed |-> seed, nym |-> nym],
       digest |-> [signed |-> sha256("signed", issuer_signed.mso),
                   attribute |-> sha256("item", birth), ssc |-> sha256("item", ssc),
                   seed |-> sha256("seed", seed), nym |-> sha256("nym", nym)]]

\* What the step instances that report `reported` show of a witness: the digest of a
\* message whose chain they check is its own.
StepRules(w, reported) ==
  /\ Chained("signed", reported) => w.digest.signed = sha256("signed", w.bytes.signed)
  /\ Chained("attribute", reported) => w.digest.attribute = sha256("item", w.bytes.attribute)
  /\ Chained("ssc", reported) => w.digest.ssc = sha256("item", w.bytes.ssc)
  /\ Chained("seed", reported) => w.digest.seed = sha256("seed", w.bytes.seed)
  /\ Chained("nym", reported) => w.digest.nym = sha256("nym", w.bytes.nym)

-----------------------------------------------------------------------------
(* The core circuit's rules, in the order of its segments.                 *)

Rule(name, holds) == [name |-> name, holds |-> holds]

age_part(w) ==
  <<Rule("issuer signature", w.issuer_signature = Signature(w.issuer_key, w.digest.signed)),
    Rule("item digest", w.digest.attribute \in w.bytes.signed.digests)>>

\* Mutant: the seed in the pseudonym's message need not be the committed one.
nym_part_AnySeed(w) ==
  <<Rule("ssc digest", w.digest.ssc \in w.bytes.signed.digests),
    Rule("ssc identifier", w.bytes.ssc[1] = ssc_element),
    Rule("seed digest", w.bytes.ssc[1] = ssc_element => w.digest.seed = w.bytes.ssc[2])>>

nym_part(w) ==
  <<Rule("ssc digest", w.digest.ssc \in w.bytes.signed.digests),
    Rule("ssc identifier", w.bytes.ssc[1] = ssc_element),
    Rule("seed and pseudonym", w.bytes.nym.seed = w.bytes.seed),
    Rule("seed digest", w.bytes.ssc[1] = ssc_element => w.digest.seed = w.bytes.ssc[2])>>

\* Mutant: the device signature is checked before the credential's own values.
presentation_check_SignatureFirst(w, p) ==
  LET mso == w.bytes.signed
      named == w.bytes.attribute[1] = p.request[2]
      born == IF named THEN digits(w.bytes.attribute[2]) ELSE 0
  IN  <<Rule("device signature", w.device_signature = Signature(mso.device_key, p.challenge)),
        Rule("type", mso.type = p.request[1]),
        Rule("attribute", named),
        Rule("same issuer key", w.issuer_key = p.issuer_key),
        Rule("born from the earliest date", range_check(born - p.born_from, 27)),
        Rule("born by the cutoff", range_check(p.born_by - born, 27)),
        Rule("validity started", ~Earlier(p.now, mso.valid_from)),
        Rule("not expired", Earlier(p.now, mso.valid_until))>>

\* presentation::check.  The request comes first: the value of another attribute need not
\* be a date.
presentation_check(w, p) ==
  LET mso == w.bytes.signed
      named == w.bytes.attribute[1] = p.request[2]
      born == IF named THEN digits(w.bytes.attribute[2]) ELSE 0
  IN  <<Rule("type", mso.type = p.request[1]),
        Rule("attribute", named),
        Rule("same issuer key", w.issuer_key = p.issuer_key),
        Rule("born from the earliest date", range_check(born - p.born_from, 27)),
        Rule("born by the cutoff", range_check(p.born_by - born, 27)),
        Rule("validity started", ~Earlier(p.now, mso.valid_from)),
        Rule("not expired", Earlier(p.now, mso.valid_until)),
        Rule("device signature", w.device_signature = Signature(mso.device_key, p.challenge))>>

pseudonym_check(w, p, nym) ==
  <<Rule("verifier input", w.bytes.nym.verifier_input = p.verifier_input),
    Rule("pseudonym", w.digest.nym = nym)>>

rules(w, p, nym) ==
  age_part(w) \o nym_part(w) \o presentation_check(w, p) \o pseudonym_check(w, p, nym)

\* app::first_broken: the first rule the values break, in synthesis order.
Broken(rs) == {i \in DOMAIN rs : ~rs[i].holds}
first_broken(rs) == rs[Min(Broken(rs))].name

\* Refusal::of_rule, the coarse code of a rule.
of_rule(name) ==
  IF name = "seed digest" THEN "SeedMismatch"
  ELSE IF name = "device signature" THEN "DeviceSignature"
  ELSE IF name = "issuer signature" THEN "IssuerSignature"
  ELSE "Credential"

-----------------------------------------------------------------------------
(* The two entry points.                                                   *)

\* A proof as vega-prover's verifier sees it: its encoding, whether a witness satisfies the
\* rules, the positions reported, the core's public values.
Proof(encoding, valid, reported, p, nym) ==
  [encoding |-> encoding, valid |-> valid, reported |-> reported, public |-> p, nym |-> nym]

\* Mutants: the reported positions are not looked at, or the public values are not.
accept_pseudonym_AnyPosition(proof, expected) ==
  IF ~proof.valid THEN "ProofInvalid"
  ELSE IF proof.public # expected THEN "Mismatch"
  ELSE "OK"

accept_pseudonym_AnyPublic(proof, expected) ==
  IF ~proof.valid THEN "ProofInvalid"
  ELSE IF proof.reported # OwnPositions THEN "Mismatch"
  ELSE "OK"

\* app::accept_pseudonym, after app::verified.
accept_pseudonym(proof, expected) ==
  IF ~proof.valid THEN "ProofInvalid"
  ELSE IF proof.reported # OwnPositions THEN "Mismatch"
  ELSE IF proof.public # expected THEN "Mismatch"
  ELSE "OK"

\* statement::verify.
verify(st, proof) ==
  IF ~PublicOk(st) THEN "InvalidInput"
  ELSE IF proof.encoding # "exact" THEN "InvalidInput"
  ELSE accept_pseudonym(proof, public(st))

\* MdocWitness::full finds in the signed message the digests of the two items.
Listed(issuer_signed) ==
  \A name \in {birth_date_element, ssc_element} :
    sha256("item", item(name, issuer_signed.items[name])) \in issuer_signed.mso.digests

\* The proof `prove` makes: its own verification must accept it.
Proved(st, issuer_signed, seed, device_signature) ==
  LET w == Witness(issuer_signed, seed, device_signature, st)
      nym == pseudonym(seed, st.verifier_input)
      valid == Broken(rules(w, public(st), nym)) = {} /\ StepRules(w, OwnPositions)
  IN  Proof("exact", valid, OwnPositions, public(st), nym)

\* statement::prove: the answer's code.
prove(st, issuer_signed, seed, device_signature) ==
  IF seed = WrongSeed \/ ~PublicOk(st) \/ device_signature = WrongSignature THEN "InvalidInput"
  ELSE IF ~issuer_signed.parses THEN "InvalidInput"
  ELSE IF ~({birth_date_element, ssc_element} \subseteq DOMAIN issuer_signed.items) THEN "InvalidInput"
  ELSE IF ~Listed(issuer_signed) THEN "Credential"
  ELSE LET w == Witness(issuer_signed, seed, device_signature, st)
           rs == rules(w, public(st), pseudonym(seed, st.verifier_input))
       IN  IF Broken(rs) # {} THEN of_rule(first_broken(rs))
           ELSE IF accept_pseudonym(Proved(st, issuer_signed, seed, device_signature), public(st)) # "OK"
           THEN "ProverFailed"
           ELSE "OK"
=============================================================================
