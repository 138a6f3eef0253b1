---------------------------- MODULE NymProtocol -----------------------------
(***************************************************************************)
(* Presentations of nym_auth credentials: verifiers that issue requests,   *)
(* wallets that sign a challenge with the device key and call `prove`, and *)
(* verifiers that call `verify` on whatever reaches them.  Proofs are      *)
(* replayed, delayed, reordered and sent to the wrong verifier, and an     *)
(* adversary presents every proof it can make: from the credentials it has *)
(* seen, the seeds it knows, its own devices and every signature made so   *)
(* far, with step instances at positions of its choice.                    *)
(***************************************************************************)
EXTENDS NymRules

CONSTANTS
  Holders,         \* the wallets of honest holders
  Wallet,          \* a holder's [issuer_signed, seed, device_key]
  Issued,          \* every IssuerSigned in circulation
  HonestVerifiers, \* follow the integration contract
  RogueVerifiers,  \* reuse nonces and name any verifier_input
  Nonces,
  Thumbprints,
  Ranges,          \* the age ranges [earliest, cutoff] verifiers may ask for
  TrustedKey,      \* the issuer key a verifier names
  Moments,         \* the times of the verifiers' clock, in order
  KnownSeeds,      \* seeds the adversary knows
  OwnDevices,      \* device keys the adversary can sign with
  MaxSessions      \* bound on the requests issued

\* Texts of a date and of a time, whether they parse or not.
Dates == [framed : BOOLEAN, year : Int, month : Int, day : Int]
Times == [framed : BOOLEAN, date : Dates, hour : Int, minute : Int, second : Int]

ASSUME ProtocolAssumption ==
  /\ HonestVerifiers \cap RogueVerifiers = {}
  /\ ShortNonces \subseteq Nonces
  /\ MaxSessions \in Nat
  /\ Ranges \subseteq [earliest : Dates, cutoff : Dates]
  /\ Moments \in Seq(Times) /\ Moments # <<>>

\* The issuer key signed the message of the credential.
SignedBy(key, c) == c.signature = Signature(key, sha256("signed", c.mso))

\* An issuer signs a message of its own, which lists the items it hands out and no other;
\* a birth date is one of the calendar.  A wallet with a message that the trusted issuer
\* signed has it from there, whatever has become of the rest of its credential.
ASSUME IssuanceAssumption ==
  /\ IsFiniteSet(Issued)
  /\ \A c \in Issued :
       /\ SignedBy(c.signature.key, c)
       /\ c.mso.digests \subseteq {sha256("item", item(n, c.items[n])) : n \in DOMAIN c.items}
       /\ birth_date_element \in DOMAIN c.items =>
            LET d == c.items[birth_date_element]
            IN  /\ d \in [year : Int, month : Int, day : Int]
                /\ ParsesAsDate(Text(d.year, d.month, d.day))
  /\ \A h \in Holders :
       SignedBy(TrustedKey, Wallet[h].issuer_signed) =>
         \E c \in Issued : /\ c.mso = Wallet[h].issuer_signed.mso
                           /\ c.signature = Wallet[h].issuer_signed.signature

VARIABLES
  clock,       \* index of the current time in Moments
  sessions,    \* the requests issued
  consents,    \* the device keys that signed, each with the session it signed for
  proofs,      \* the proofs wallets have made, with the session each was made for
  accepted     \* the sessions whose presentation was accepted, with the pseudonym returned

vars == <<clock, sessions, consents, proofs, accepted>>

Verifiers == HonestVerifiers \cup RogueVerifiers

\* The device signatures made so far.
signatures ==
  {Signature(c.device_key, c.session.statement.challenge_digest) : c \in consents}

Statement(v, nonce, thumbprint, range, named) ==
  [issuer_key |-> TrustedKey,
   time |-> Moments[clock],
   earliest |-> range.earliest,
   cutoff |-> range.cutoff,
   challenge_digest |-> derive(v, nonce, doc_type, thumbprint),
   verifier_input |-> verifier_input(named)]

Init ==
  /\ clock = 1
  /\ sessions = {}
  /\ consents = {}
  /\ proofs = {}
  /\ accepted = {}

Tick ==
  /\ clock < Len(Moments)
  /\ clock' = clock + 1
  /\ UNCHANGED <<sessions, consents, proofs, accepted>>

\* A verifier issues a request and keeps its statement: the challenge it derives, its own
\* time and, when it is honest, its own identifier and a nonce it has not used.
Request(v, nonce, thumbprint, range, named) ==
  /\ Cardinality(sessions) < MaxSessions
  /\ DerivesChallenge(nonce, thumbprint)
  /\ v \in HonestVerifiers =>
       named = v /\ \A s \in sessions : s.verifier = v => s.nonce # nonce
  /\ sessions' = sessions \cup
       {[verifier |-> v, nonce |-> nonce,
         statement |-> Statement(v, nonce, thumbprint, range, named)]}
  /\ UNCHANGED <<clock, consents, proofs, accepted>>

\* The holder consents: the device key signs the session's challenge.
Sign(h, s) ==
  /\ consents' = consents \cup {[device_key |-> Wallet[h].device_key, session |-> s]}
  /\ UNCHANGED <<clock, sessions, proofs, accepted>>

\* The wallet calls `prove` with one of its signatures, the session's or an older one.
Prove(h, s, signature) ==
  /\ signature.key = Wallet[h].device_key
  /\ LET st == s.statement
         w == Wallet[h]
     IN  /\ prove(st, w.issuer_signed, w.seed, signature) = "OK"
         /\ proofs' = proofs \cup
              {[holder |-> h, session |-> s,
                proof |-> Proved(st, w.issuer_signed, w.seed, signature)]}
  /\ UNCHANGED <<clock, sessions, consents, accepted>>

\* The verifier of session s calls `verify` on a proof, whoever sent it.
Verify(s, proof) ==
  /\ s.verifier \in HonestVerifiers
  /\ verify(s.statement, proof) = "OK"
  /\ accepted' = accepted \cup {[session |-> s, nym |-> proof.nym]}
  /\ UNCHANGED <<clock, sessions, consents, proofs>>

-----------------------------------------------------------------------------
(* What reaches a verifier.                                                *)

\* A wallet's proof, as it was made, cut or with bytes after its end.
Encodings == {"exact", "cut", "trailing"}
Replayed == {[p.proof EXCEPT !.encoding = e] : p \in proofs, e \in Encodings}

\* Device signatures the adversary can use on a challenge.
Usable(challenge) == signatures \cup {Signature(d, challenge) : d \in OwnDevices}

\* Items it can put in a table: those in circulation, and its own, a birth date in a range
\* or a commitment to a seed it knows.
OwnItems(name) ==
  IF name = ssc_element THEN {item(name, sha256("seed", k)) : k \in KnownSeeds}
  ELSE {item(name, date(r.cutoff)) : r \in Ranges}

Items(name) ==
  OwnItems(name) \cup
    {item(name, c.items[name]) : c \in {x \in Issued : name \in DOMAIN x.items}}

\* Signed messages it can put there: an issuer's, or one with its own device and items.
Signeds(reported) ==
  {c.mso : c \in Issued}
    \cup IF Chained("signed", reported) THEN {}
         ELSE {[c.mso EXCEPT !.digests = {sha256("item", b), sha256("item", k)}] :
                 c \in {x \in Issued : x.mso.device_key \in OwnDevices},
                 b \in OwnItems(birth_date_element), k \in OwnItems(ssc_element)}

\* The positions step instances may report: their own, or one of them the unused position.
Reports == {OwnPositions} \cup {Misplaced(i, 6) : i \in Positions}

Hold(rs) == Broken(rs) = {}

\* The adversary fills the table and the witness segment by segment, as the circuit does,
\* and keeps what satisfies the rules so far.  It chooses the digest of a message whose
\* chain no instance checks.
SignedPart ==
  [reported \in Reports |->
     {w \in
        UNION {{[issuer_key |-> TrustedKey, issuer_signature |-> c.signature,
                 bytes |-> [signed |-> m, attribute |-> b],
                 digest |-> [signed |-> IF Chained("signed", reported) THEN sha256("signed", m)
                                        ELSE c.signature.digest,
                             attribute |-> d]] :
                 d \in IF Chained("attribute", reported) THEN {sha256("item", b)} ELSE m.digests} :
                 c \in Issued, m \in Signeds(reported), b \in Items(birth_date_element)} :
        Hold(age_part(w))}]

NymPart ==
  [reported \in Reports |-> [named \in Verifiers |->
     LET input == verifier_input(named)
     IN  {x \in
            UNION {{[issuer_key |-> w.issuer_key, issuer_signature |-> w.issuer_signature,
                     bytes |-> [signed |-> w.bytes.signed, attribute |-> w.bytes.attribute,
                                ssc |-> k, seed |-> seed, nym |-> NymMessage(n, input)],
                     digest |-> [signed |-> w.digest.signed, attribute |-> w.digest.attribute,
                                 ssc |-> d,
                                 seed |-> IF Chained("seed", reported) THEN sha256("seed", seed)
                                          ELSE k[2],
                                 nym |-> IF Chained("nym", reported) THEN pseudonym(n, input)
                                         ELSE pseudonym("none", input)]] :
                     d \in IF Chained("ssc", reported) THEN {sha256("item", k)}
                           ELSE w.bytes.signed.digests} :
                     w \in SignedPart[reported], k \in Items(ssc_element),
                     seed \in KnownSeeds, n \in KnownSeeds} :
            Hold(nym_part(x))}]]

\* The last segment: the witness with a device signature.
Presented(w, sig) ==
  [issuer_key |-> w.issuer_key, issuer_signature |-> w.issuer_signature,
   device_signature |-> sig, bytes |-> w.bytes, digest |-> w.digest]

Forged(st, reported, named) ==
  {w \in {Presented(x, sig) : x \in NymPart[reported][named], sig \in Usable(st.challenge_digest)} :
     Hold(rules(w, public(st), w.digest.nym))}

\* The verifier of session s calls `verify` on a proof of the adversary's.
VerifyForged(s, reported) ==
  LET st == s.statement
      made(valid, nym) == Proof("exact", valid, reported, public(st), nym)
  IN  /\ verify(st, made(TRUE, Null)) = "OK"    \* worth making
      /\ \E w \in Forged(st, reported, s.verifier) : Verify(s, made(StepRules(w, reported), w.digest.nym))

Next ==
  \/ Tick
  \/ \E v \in Verifiers, n \in Nonces, t \in Thumbprints, r \in Ranges, named \in Verifiers :
       Request(v, n, t, r, named)
  \/ \E h \in Holders, s \in sessions : Sign(h, s)
  \/ \E h \in Holders, s \in sessions, sig \in signatures : Prove(h, s, sig)
  \/ \E s \in sessions, p \in Replayed : Verify(s, p)
  \/ \E s \in sessions, reported \in Reports : VerifyForged(s, reported)

Spec == Init /\ [][Next]_vars

-----------------------------------------------------------------------------

\* No session has a nonce of fewer than sixteen characters; consents and proofs are
\* holders', for sessions that were requested; what was accepted, an honest verifier's.
TypeOK ==
  /\ clock \in 1..Len(Moments)
  /\ \A s \in sessions : s.verifier \in Verifiers /\ s.nonce \in Nonces \ ShortNonces
  /\ \A c \in consents : c.session \in sessions /\ \E h \in Holders : c.device_key = Wallet[h].device_key
  /\ \A p \in proofs : p.holder \in Holders /\ p.session \in sessions
  /\ \A a \in accepted : a.session \in sessions /\ a.session.verifier \in HonestVerifiers

\* The calendar day d is in the range the verifier asked for, counted in days.
BornInRange(d, st) ==
  /\ st.earliest # NO_LOWER_BOUND => days(date(st.earliest)) <= days(d)
  /\ days(d) <= days(date(st.cutoff))

\* Credential c is the trusted issuer's, of the right type, and valid at the session's time.
Genuine(c, st) ==
  /\ SignedBy(st.issuer_key, c)
  /\ c.mso.type = doc_type
  /\ ~Earlier(time(st.time), c.mso.valid_from) /\ Earlier(time(st.time), c.mso.valid_until)

\* Commits(c, seed): credential c commits to the seed.
Commits(c, seed) == sha256("item", item(ssc_element, sha256("seed", seed))) \in c.mso.digests

Seeds == KnownSeeds \cup {Wallet[h].seed : h \in Holders}
Births == UNION {{c.items[n] : n \in DOMAIN c.items \ {ssc_element}} : c \in Issued}

\* `verify` accepts only what one genuine credential shows as a whole: the trusted issuer
\* signed it, its birth date lies in the range, it is valid at the verifier's time, its own
\* device key signed this session's challenge, and the pseudonym is the one its own seed has
\* at this verifier.
AcceptedIsAuthentic ==
  \A a \in accepted :
    LET st == a.session.statement
    IN  \E c \in Issued, d \in Births, seed \in Seeds :
          /\ Genuine(c, st)
          /\ sha256("item", item(birth_date_element, d)) \in c.mso.digests
          /\ BornInRange(d, st)
          /\ Signature(c.mso.device_key, st.challenge_digest) \in Usable(st.challenge_digest)
          /\ Commits(c, seed)
          /\ a.nym = pseudonym(seed, verifier_input(a.session.verifier))

\* A pseudonym of a holder whose seed is not known is accepted only in a session that the
\* holder proved for: a proof made for another request, verifier, time or range is of no use.
HonestNymsAreProvedFor ==
  \A a \in accepted, h \in Holders :
    /\ a.nym = pseudonym(Wallet[h].seed, verifier_input(a.session.verifier))
    /\ Wallet[h].seed \notin KnownSeeds
    => \E p \in proofs : p.holder = h /\ p.session = a.session

\* Even with the seed known, no session accepts a holder's pseudonym unless the holder's
\* device signed for that session: neither a relay by another verifier nor an earlier
\* consent to the same verifier serves.
ConsentIsForTheSession ==
  \A a \in accepted, h \in Holders :
    a.nym = pseudonym(Wallet[h].seed, verifier_input(a.session.verifier)) =>
      [device_key |-> Wallet[h].device_key, session |-> a.session] \in consents

\* Besides the holders' own, a verifier meets no more pseudonyms than the trusted issuer has
\* given the adversary credentials: nobody comes back under a second name.
NymsAreBoundByCredentials ==
  \A v \in HonestVerifiers :
    LET met == {a.nym : a \in {x \in accepted : x.session.verifier = v}}
        holders == {pseudonym(Wallet[h].seed, verifier_input(v)) : h \in Holders}
        bought == {c \in Issued : /\ SignedBy(TrustedKey, c)
                                  /\ c.mso.device_key \in OwnDevices}
    IN  Cardinality(met \ holders) <= Cardinality(bought)

\* A proof that `prove` returned is accepted in the session it was made for, whenever it
\* arrives, and nowhere else; and only as it was made, not cut nor with bytes after its end.
HonestProofsAreAccepted ==
  \A p \in proofs, s \in sessions, e \in Encodings :
    verify(s.statement, [p.proof EXCEPT !.encoding = e]) = "OK" <=>
      e = "exact" /\ s.statement = p.session.statement

\* The coarse code tells the wallet what to do next: after DeviceSignature, a signature on
\* this challenge is all that is missing; after SeedMismatch, the credential is the issuer's
\* and another seed's; after Credential and IssuerSignature no seed and no signature would
\* help; and no answer is the prover's own failure.
RefusalTellsCause ==
  \A h \in Holders, s \in sessions, sig \in signatures :
    LET st == s.statement
        mdoc == Wallet[h].issuer_signed
        right == Signature(mdoc.mso.device_key, st.challenge_digest)
        code == prove(st, mdoc, Wallet[h].seed, sig)
    IN  /\ code = "DeviceSignature" => prove(st, mdoc, Wallet[h].seed, right) = "OK"
        /\ code = "SeedMismatch" =>
             /\ SignedBy(st.issuer_key, mdoc)
             /\ ~Commits(mdoc, Wallet[h].seed)
        /\ code \in {"Credential", "IssuerSignature"} =>
             \A seed \in Seeds : prove(st, mdoc, seed, right) # "OK"
        /\ code # "ProverFailed"
=============================================================================
