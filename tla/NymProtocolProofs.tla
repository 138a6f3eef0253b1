------------------------- MODULE NymProtocolProofs --------------------------
(***************************************************************************)
(* The properties of NymProtocol for any number of holders, credentials,   *)
(* verifiers, nonces, ranges and sessions.                                 *)
(***************************************************************************)
EXTENDS NymProtocol, SequenceTheorems, FiniteSetTheorems, WellFoundedInduction, TLAPS

-----------------------------------------------------------------------------
(* The sequence of the core circuit's sixteen rules.                       *)

\* r is s, of m elements, followed by t, of n.
Joins(S, s, t, m, n, r) ==
  /\ r \in Seq(S) /\ Len(r) = m + n
  /\ \A i \in 1..m : r[i] = s[i]
  /\ \A i \in (m + 1)..(m + n) : r[i] = t[i - m]

LEMMA Join ==
  ASSUME NEW S, NEW s \in Seq(S), NEW t \in Seq(S),
         NEW m \in Nat, NEW n \in Nat, Len(s) = m, Len(t) = n
  PROVE  Joins(S, s, t, m, n, s \o t)
<1>1. /\ s \o t \in Seq(S) /\ Len(s \o t) = Len(s) + Len(t)
      /\ \A i \in 1..Len(s) + Len(t) :
           (s \o t)[i] = IF i <= Len(s) THEN s[i] ELSE t[i - Len(s)]
  BY ConcatProperties, Zenon
<1>2. PICK r : r = s \o t
  OBVIOUS
<1>3. /\ r \in Seq(S) /\ Len(r) = m + n
      /\ \A i \in 1..(m + n) : r[i] = IF i <= m THEN s[i] ELSE t[i - m]
  BY <1>1, <1>2, Zenon
<1>4. Joins(S, s, t, m, n, r)
  BY <1>3, SMT DEF Joins
<1>5. QED BY <1>2, <1>4, Zenon

\* The elements of a sequence put together from four parts.
Parts(a, b, c, d, r) ==
  /\ DOMAIN r = 1..16
  /\ \A i \in 1..2 : r[i] = a[i]
  /\ \A i \in 3..6 : r[i] = b[i - 2]
  /\ \A i \in 7..14 : r[i] = c[i - 6]
  /\ \A i \in 15..16 : r[i] = d[i - 14]

LEMMA FourParts ==
  ASSUME NEW S, NEW a \in Seq(S), NEW b \in Seq(S), NEW c \in Seq(S), NEW d \in Seq(S),
         Len(a) = 2, Len(b) = 4, Len(c) = 8, Len(d) = 2
  PROVE  Parts(a, b, c, d, a \o b \o c \o d)
<1>1. PICK u : u = a \o b
  OBVIOUS
<1>2. PICK v : v = u \o c
  OBVIOUS
<1>3. PICK r : r = v \o d
  OBVIOUS
<1>4. 2 \in Nat /\ 4 \in Nat /\ 6 \in Nat /\ 8 \in Nat /\ 14 \in Nat
  OBVIOUS
<1>5. Joins(S, a, b, 2, 4, u)
  BY <1>1, <1>4, Join, Zenon
<1>6. u \in Seq(S) /\ Len(u) = 6
  BY <1>5 DEF Joins
<1>7. Joins(S, u, c, 6, 8, v)
  BY <1>2, <1>4, <1>6, Join, Zenon
<1>8. v \in Seq(S) /\ Len(v) = 14
  BY <1>7 DEF Joins
<1>9. Joins(S, v, d, 14, 2, r)
  BY <1>3, <1>4, <1>8, Join, Zenon
<1>10. Parts(a, b, c, d, r)
  BY <1>5, <1>7, <1>9, LenProperties DEF Joins, Parts
<1>11. QED BY <1>1, <1>2, <1>3, <1>10, Zenon

\* The smallest element of a set of positions.
LEMMA Smallest ==
  ASSUME NEW B \in SUBSET (1..16), B # {}
  PROVE  Min(B) \in B /\ \A i \in B : Min(B) <= i
<1>1. PICK m \in B : \A i \in B : <<i, m>> \notin OpToRel(<, Nat)
  <2>1. B \subseteq Nat
    OBVIOUS
  <2>2. QED BY <2>1, NatLessThanWellFounded, WFMin, Zenon
<1>2. ASSUME NEW i \in B, i < m PROVE FALSE
  <2>1. <<i, m>> \in OpToRel(<, Nat)
    BY <1>2 DEF OpToRel
  <2>2. QED BY <1>1, <2>1, Zenon
<1>4. \A i \in B : m <= i
  BY <1>2, SMT
<1>5. QED BY <1>4, Zenon DEF Min

\* A rule, its name and whether it holds.
Reads(x, n, h) == x = Rule(n, h) /\ x.name = n /\ x.holds = h

LEMMA RuleFields ==
  ASSUME NEW n, NEW h
  PROVE  \E x : Reads(x, n, h)
<1>1. Reads(Rule(n, h), n, h)
  BY DEF Rule, Reads
<1>2. QED BY <1>1, Zenon

\* Tuples as sequences of a set.
LEMMA TwoOf ==
  ASSUME NEW S, NEW x1 \in S, NEW x2 \in S
  PROVE  <<x1, x2>> \in Seq(S) /\ Len(<<x1, x2>>) = 2
  OBVIOUS

LEMMA FourOf ==
  ASSUME NEW S, NEW x1 \in S, NEW x2 \in S, NEW x3 \in S, NEW x4 \in S
  PROVE  <<x1, x2, x3, x4>> \in Seq(S) /\ Len(<<x1, x2, x3, x4>>) = 4
  OBVIOUS

LEMMA EightOf ==
  ASSUME NEW S, NEW x1 \in S, NEW x2 \in S, NEW x3 \in S, NEW x4 \in S,
         NEW x5 \in S, NEW x6 \in S, NEW x7 \in S, NEW x8 \in S
  PROVE  /\ <<x1, x2, x3, x4, x5, x6, x7, x8>> \in Seq(S)
         /\ Len(<<x1, x2, x3, x4, x5, x6, x7, x8>>) = 8
  OBVIOUS

RuleList(b1, b2, b3, b4, b5, b6, b7, b8, b9, b10, b11, b12, b13, b14, b15, b16) ==
  <<Rule("issuer signature", b1), Rule("item digest", b2)>>
  \o <<Rule("ssc digest", b3), Rule("ssc identifier", b4),
      Rule("seed and pseudonym", b5), Rule("seed digest", b6)>>
  \o <<Rule("type", b7), Rule("attribute", b8), Rule("same issuer key", b9),
      Rule("born from the earliest date", b10), Rule("born by the cutoff", b11),
      Rule("validity started", b12), Rule("not expired", b13),
      Rule("device signature", b14)>>
  \o <<Rule("verifier input", b15), Rule("pseudonym", b16)>>

\* What rs shows of its sixteen rules, and the code of the first broken one of the others.
Tells(rs, b1, b2, b3, b4, b5, b6, b7, b8,
      b9, b10, b11, b12, b13, b14, b15, b16) ==
  LET code == of_rule(first_broken(rs))
  IN  /\ Broken(rs) = {} <=>
           /\ b1 /\ b2 /\ b3 /\ b4 /\ b5 /\ b6 /\ b7 /\ b8
           /\ b9 /\ b10 /\ b11 /\ b12 /\ b13 /\ b14 /\ b15 /\ b16
      /\ Broken(rs) # {} /\ code = "DeviceSignature" =>
           /\ b1 /\ b2 /\ b3 /\ b4 /\ b5 /\ b6 /\ b7 /\ b8
           /\ b9 /\ b10 /\ b11 /\ b12 /\ b13
      /\ Broken(rs) # {} /\ code = "SeedMismatch" => b1 /\ b2 /\ b3 /\ b4 /\ b5 /\ ~b6
      /\ Broken(rs) # {} /\ code \in {"Credential", "IssuerSignature"} =>
           ~(/\ b1 /\ b2 /\ b3 /\ b4 /\ b5 /\ b7 /\ b8
             /\ b9 /\ b10 /\ b11 /\ b12 /\ b13 /\ b15 /\ b16)
      /\ code # "ProverFailed"

LEMMA SixteenRules ==
  ASSUME NEW b1, NEW b2, NEW b3, NEW b4, NEW b5, NEW b6, NEW b7, NEW b8,
         NEW b9, NEW b10, NEW b11, NEW b12, NEW b13, NEW b14, NEW b15, NEW b16
  PROVE  Tells(RuleList(b1, b2, b3, b4, b5, b6, b7, b8, b9, b10, b11, b12, b13, b14, b15, b16),
               b1, b2, b3, b4, b5, b6, b7, b8, b9, b10, b11, b12, b13, b14, b15, b16)
<1>r1. PICK x1 : Reads(x1, "issuer signature", b1)
  BY RuleFields, Zenon
<1>r2. PICK x2 : Reads(x2, "item digest", b2)
  BY RuleFields, Zenon
<1>r3. PICK x3 : Reads(x3, "ssc digest", b3)
  BY RuleFields, Zenon
<1>r4. PICK x4 : Reads(x4, "ssc identifier", b4)
  BY RuleFields, Zenon
<1>r5. PICK x5 : Reads(x5, "seed and pseudonym", b5)
  BY RuleFields, Zenon
<1>r6. PICK x6 : Reads(x6, "seed digest", b6)
  BY RuleFields, Zenon
<1>r7. PICK x7 : Reads(x7, "type", b7)
  BY RuleFields, Zenon
<1>r8. PICK x8 : Reads(x8, "attribute", b8)
  BY RuleFields, Zenon
<1>r9. PICK x9 : Reads(x9, "same issuer key", b9)
  BY RuleFields, Zenon
<1>r10. PICK x10 : Reads(x10, "born from the earliest date", b10)
  BY RuleFields, Zenon
<1>r11. PICK x11 : Reads(x11, "born by the cutoff", b11)
  BY RuleFields, Zenon
<1>r12. PICK x12 : Reads(x12, "validity started", b12)
  BY RuleFields, Zenon
<1>r13. PICK x13 : Reads(x13, "not expired", b13)
  BY RuleFields, Zenon
<1>r14. PICK x14 : Reads(x14, "device signature", b14)
  BY RuleFields, Zenon
<1>r15. PICK x15 : Reads(x15, "verifier input", b15)
  BY RuleFields, Zenon
<1>r16. PICK x16 : Reads(x16, "pseudonym", b16)
  BY RuleFields, Zenon
<1> DEFINE S == {x1, x2, x3, x4, x5, x6, x7, x8, x9, x10, x11, x12, x13, x14, x15, x16}
<1>1. PICK a : a = <<x1, x2>>
  OBVIOUS
<1>2. PICK b : b = <<x3, x4, x5, x6>>
  OBVIOUS
<1>3. PICK c : c = <<x7, x8, x9, x10, x11, x12, x13, x14>>
  OBVIOUS
<1>4. PICK d : d = <<x15, x16>>
  OBVIOUS
<1>5. PICK r : r = a \o b \o c \o d
  OBVIOUS
<1>6. a \in Seq(S) /\ Len(a) = 2 /\ b \in Seq(S) /\ Len(b) = 4
  BY <1>1, <1>2, TwoOf, FourOf
<1>7. c \in Seq(S) /\ Len(c) = 8 /\ d \in Seq(S) /\ Len(d) = 2
  BY <1>3, <1>4, TwoOf, EightOf
<1> HIDE DEF S
<1>8. Parts(a, b, c, d, r)
  BY <1>5, <1>6, <1>7, FourParts, Zenon
<1>9. /\ r[1] = x1 /\ r[2] = x2 /\ r[3] = x3 /\ r[4] = x4
      /\ r[5] = x5 /\ r[6] = x6 /\ r[7] = x7 /\ r[8] = x8
      /\ r[9] = x9 /\ r[10] = x10 /\ r[11] = x11 /\ r[12] = x12
      /\ r[13] = x13 /\ r[14] = x14 /\ r[15] = x15 /\ r[16] = x16
  BY <1>1, <1>2, <1>3, <1>4, <1>8, SMT DEF Parts
<1>24. /\ r[1].name = "issuer signature"
       /\ r[2].name = "item digest"
       /\ r[3].name = "ssc digest"
       /\ r[4].name = "ssc identifier"
       /\ r[5].name = "seed and pseudonym"
       /\ r[6].name = "seed digest"
       /\ r[7].name = "type"
       /\ r[8].name = "attribute"
       /\ r[9].name = "same issuer key"
       /\ r[10].name = "born from the earliest date"
       /\ r[11].name = "born by the cutoff"
       /\ r[12].name = "validity started"
       /\ r[13].name = "not expired"
       /\ r[14].name = "device signature"
       /\ r[15].name = "verifier input"
       /\ r[16].name = "pseudonym"
  <2>1. /\ r[1].name = "issuer signature" /\ r[2].name = "item digest"
        /\ r[3].name = "ssc digest" /\ r[4].name = "ssc identifier"
    BY <1>9, <1>r1, <1>r2, <1>r3, <1>r4, Zenon DEF Reads
  <2>2. /\ r[5].name = "seed and pseudonym" /\ r[6].name = "seed digest"
        /\ r[7].name = "type" /\ r[8].name = "attribute"
    BY <1>9, <1>r5, <1>r6, <1>r7, <1>r8, Zenon DEF Reads
  <2>3. /\ r[9].name = "same issuer key" /\ r[10].name = "born from the earliest date"
        /\ r[11].name = "born by the cutoff" /\ r[12].name = "validity started"
    BY <1>9, <1>r9, <1>r10, <1>r11, <1>r12, Zenon DEF Reads
  <2>4. /\ r[13].name = "not expired" /\ r[14].name = "device signature"
        /\ r[15].name = "verifier input" /\ r[16].name = "pseudonym"
    BY <1>9, <1>r13, <1>r14, <1>r15, <1>r16, Zenon DEF Reads
  <2>5. QED BY <2>1, <2>2, <2>3, <2>4, Zenon
<1>25. /\ r[1].holds = b1 /\ r[2].holds = b2 /\ r[3].holds = b3 /\ r[4].holds = b4
       /\ r[5].holds = b5 /\ r[6].holds = b6 /\ r[7].holds = b7 /\ r[8].holds = b8
       /\ r[9].holds = b9 /\ r[10].holds = b10 /\ r[11].holds = b11 /\ r[12].holds = b12
       /\ r[13].holds = b13 /\ r[14].holds = b14 /\ r[15].holds = b15 /\ r[16].holds = b16
  BY <1>9, <1>r1, <1>r2, <1>r3, <1>r4, <1>r5, <1>r6, <1>r7, <1>r8,
     <1>r9, <1>r10, <1>r11, <1>r12, <1>r13, <1>r14, <1>r15, <1>r16, Zenon DEF Reads
<1>11. DOMAIN r = 1..16
  BY <1>8 DEF Parts
<1>12. Broken(r) \subseteq 1..16
  BY <1>11 DEF Broken
<1>13. /\ 1 \in Broken(r) <=> ~b1
       /\ 2 \in Broken(r) <=> ~b2
       /\ 3 \in Broken(r) <=> ~b3
       /\ 4 \in Broken(r) <=> ~b4
       /\ 5 \in Broken(r) <=> ~b5
       /\ 6 \in Broken(r) <=> ~b6
       /\ 7 \in Broken(r) <=> ~b7
       /\ 8 \in Broken(r) <=> ~b8
       /\ 9 \in Broken(r) <=> ~b9
       /\ 10 \in Broken(r) <=> ~b10
       /\ 11 \in Broken(r) <=> ~b11
       /\ 12 \in Broken(r) <=> ~b12
       /\ 13 \in Broken(r) <=> ~b13
       /\ 14 \in Broken(r) <=> ~b14
       /\ 15 \in Broken(r) <=> ~b15
       /\ 16 \in Broken(r) <=> ~b16
  <2>1. \A i \in 1..16 : i \in Broken(r) <=> ~r[i].holds
    BY <1>11, Zenon DEF Broken
  <2>2. QED BY <1>25, <2>1
<1>14. PICK m : m = Min(Broken(r))
  OBVIOUS
<1>15. Broken(r) # {} => m \in Broken(r) /\ \A i \in Broken(r) : m <= i
  BY <1>12, <1>14, Smallest, Zenon
<1>16. first_broken(r) = r[m].name
  BY <1>14, Zenon DEF first_broken
<1>17. of_rule(first_broken(r)) # "ProverFailed"
  BY DEF of_rule
<1>18. Broken(r) = {} <=>
         /\ b1 /\ b2 /\ b3 /\ b4 /\ b5 /\ b6 /\ b7 /\ b8
         /\ b9 /\ b10 /\ b11 /\ b12 /\ b13 /\ b14 /\ b15 /\ b16
  BY <1>12, <1>13
<1>19. ASSUME Broken(r) # {}, of_rule(first_broken(r)) = "DeviceSignature"
       PROVE  /\ b1 /\ b2 /\ b3 /\ b4 /\ b5 /\ b6 /\ b7 /\ b8
              /\ b9 /\ b10 /\ b11 /\ b12 /\ b13
  <2>1. r[m].name = "device signature"
    BY <1>16, <1>19 DEF of_rule
  <2>2. \/ m = 1 \/ m = 2 \/ m = 3 \/ m = 4 \/ m = 5 \/ m = 6 \/ m = 7 \/ m = 8
        \/ m = 9 \/ m = 10 \/ m = 11 \/ m = 12 \/ m = 13 \/ m = 14 \/ m = 15 \/ m = 16
    BY <1>12, <1>15, <1>19
  <2>3. m = 14
    BY <1>24, <2>1, <2>2
  <2>4. QED BY <1>13, <1>15, <1>19, <2>3
<1>20. ASSUME Broken(r) # {}, of_rule(first_broken(r)) = "SeedMismatch"
       PROVE  b1 /\ b2 /\ b3 /\ b4 /\ b5 /\ ~b6
  <2>1. r[m].name = "seed digest"
    BY <1>16, <1>20 DEF of_rule
  <2>2. \/ m = 1 \/ m = 2 \/ m = 3 \/ m = 4 \/ m = 5 \/ m = 6 \/ m = 7 \/ m = 8
        \/ m = 9 \/ m = 10 \/ m = 11 \/ m = 12 \/ m = 13 \/ m = 14 \/ m = 15 \/ m = 16
    BY <1>12, <1>15, <1>20
  <2>3. m = 6
    BY <1>24, <2>1, <2>2
  <2>4. QED BY <1>13, <1>15, <1>20, <2>3
<1>21. ASSUME Broken(r) # {}, of_rule(first_broken(r)) \in {"Credential", "IssuerSignature"}
       PROVE  ~(/\ b1 /\ b2 /\ b3 /\ b4 /\ b5 /\ b7 /\ b8
                /\ b9 /\ b10 /\ b11 /\ b12 /\ b13 /\ b15 /\ b16)
  <2>1. m \in 1..16 /\ m # 6 /\ m # 14
    BY <1>24, <1>12, <1>15, <1>16, <1>21 DEF of_rule
  <2>2. QED BY <1>13, <1>15, <1>21, <2>1
<1>22. /\ a = <<Rule("issuer signature", b1), Rule("item digest", b2)>>
       /\ b = <<Rule("ssc digest", b3), Rule("ssc identifier", b4),
                Rule("seed and pseudonym", b5), Rule("seed digest", b6)>>
       /\ c = <<Rule("type", b7), Rule("attribute", b8), Rule("same issuer key", b9),
                Rule("born from the earliest date", b10), Rule("born by the cutoff", b11),
                Rule("validity started", b12), Rule("not expired", b13),
                Rule("device signature", b14)>>
       /\ d = <<Rule("verifier input", b15), Rule("pseudonym", b16)>>
  BY <1>1, <1>2, <1>3, <1>4, <1>r1, <1>r2, <1>r3, <1>r4, <1>r5, <1>r6, <1>r7, <1>r8,
     <1>r9, <1>r10, <1>r11, <1>r12, <1>r13, <1>r14, <1>r15, <1>r16,
     Zenon DEF Reads
<1>23. QED
  BY <1>5, <1>17, <1>18, <1>19, <1>20, <1>21, <1>22, Zenon DEF Tells, RuleList

\* The rules about the issuer's signature and the two items.
IssuedRules(w) ==
  /\ w.issuer_signature = Signature(w.issuer_key, w.digest.signed)
  /\ w.digest.attribute \in w.bytes.signed.digests
  /\ w.digest.ssc \in w.bytes.signed.digests
  /\ w.bytes.ssc[1] = ssc_element
  /\ w.bytes.nym.seed = w.bytes.seed

SeedRule(w) == w.bytes.ssc[1] = ssc_element => w.digest.seed = w.bytes.ssc[2]

\* The rules about what the verifier asks for.
\* The circuit's 27-bit comparison of dates.
Within(x) == range_check(x, 27)

RequestRules(w, p) ==
  /\ w.bytes.signed.type = p.request[1]
  /\ w.bytes.attribute[1] = p.request[2]
  /\ w.issuer_key = p.issuer_key
  /\ Within(digits(w.bytes.attribute[2]) - p.born_from)
  /\ Within(p.born_by - digits(w.bytes.attribute[2]))
  /\ ~Earlier(p.now, w.bytes.signed.valid_from)
  /\ Earlier(p.now, w.bytes.signed.valid_until)

DeviceRule(w, p) == w.device_signature = Signature(w.bytes.signed.device_key, p.challenge)

PseudonymRules(w, p, nym) ==
  /\ w.bytes.nym.verifier_input = p.verifier_input
  /\ w.digest.nym = nym

\* The rules hold when each does; the code of the first broken one tells the rest.
Explained(w, p, nym, rs) ==
  LET code == of_rule(first_broken(rs))
  IN  /\ Broken(rs) = {} <=>
           /\ IssuedRules(w) /\ SeedRule(w) /\ RequestRules(w, p)
           /\ DeviceRule(w, p) /\ PseudonymRules(w, p, nym)
      /\ Broken(rs) # {} /\ code = "DeviceSignature" =>
           IssuedRules(w) /\ SeedRule(w) /\ RequestRules(w, p)
      /\ Broken(rs) # {} /\ code = "SeedMismatch" => IssuedRules(w) /\ ~SeedRule(w)
      /\ Broken(rs) # {} /\ code \in {"Credential", "IssuerSignature"} =>
           ~(IssuedRules(w) /\ RequestRules(w, p) /\ PseudonymRules(w, p, nym))
      /\ code # "ProverFailed"

LEMMA CoreRules ==
  ASSUME NEW w, NEW p, NEW nym
  PROVE  Explained(w, p, nym, rules(w, p, nym))
<1> DEFINE born == IF w.bytes.attribute[1] = p.request[2] THEN digits(w.bytes.attribute[2]) ELSE 0
           b1 == w.issuer_signature = Signature(w.issuer_key, w.digest.signed)
           b2 == w.digest.attribute \in w.bytes.signed.digests
           b3 == w.digest.ssc \in w.bytes.signed.digests
           b4 == w.bytes.ssc[1] = ssc_element
           b5 == w.bytes.nym.seed = w.bytes.seed
           b6 == w.bytes.ssc[1] = ssc_element => w.digest.seed = w.bytes.ssc[2]
           b7 == w.bytes.signed.type = p.request[1]
           b8 == w.bytes.attribute[1] = p.request[2]
           b9 == w.issuer_key = p.issuer_key
           b10 == range_check(born - p.born_from, 27)
           b11 == range_check(p.born_by - born, 27)
           b12 == ~Earlier(p.now, w.bytes.signed.valid_from)
           b13 == Earlier(p.now, w.bytes.signed.valid_until)
           b14 == w.device_signature = Signature(w.bytes.signed.device_key, p.challenge)
           b15 == w.bytes.nym.verifier_input = p.verifier_input
           b16 == w.digest.nym = nym
<1>2. rules(w, p, nym) =
        RuleList(b1, b2, b3, b4, b5, b6, b7, b8, b9, b10, b11, b12, b13, b14, b15, b16)
  BY Zenon DEF rules, RuleList, age_part, nym_part, presentation_check, pseudonym_check
<1>3. IssuedRules(w) <=> b1 /\ b2 /\ b3 /\ b4 /\ b5
  BY Zenon DEF IssuedRules
<1>4. SeedRule(w) <=> b6
  BY Zenon DEF SeedRule
<1>5. RequestRules(w, p) <=> b7 /\ b8 /\ b9 /\ b10 /\ b11 /\ b12 /\ b13
  BY Zenon DEF RequestRules, Within
<1>6. DeviceRule(w, p) <=> b14
  BY Zenon DEF DeviceRule
<1>7. PseudonymRules(w, p, nym) <=> b15 /\ b16
  BY Zenon DEF PseudonymRules
<1> HIDE DEF b1, b2, b3, b4, b5, b6, b7, b8, b9, b10, b11, b12, b13, b14, b15, b16
<1>8. Tells(rules(w, p, nym), b1, b2, b3, b4, b5, b6, b7, b8, b9, b10, b11, b12, b13, b14, b15, b16)
  <2>1. Tells(RuleList(b1, b2, b3, b4, b5, b6, b7, b8, b9, b10, b11, b12, b13, b14, b15, b16),
              b1, b2, b3, b4, b5, b6, b7, b8, b9, b10, b11, b12, b13, b14, b15, b16)
    BY SixteenRules, Zenon
  <2>2. QED BY <1>2, <2>1, Zenon
<1>9. QED
  BY <1>3, <1>4, <1>5, <1>6, <1>7, <1>8, Zenon DEF Explained, Tells

-----------------------------------------------------------------------------
(* Dates, times and the statements made of them.                           *)

\* A day of the calendar.
RealDay(d) ==
  /\ d \in [year : Int, month : Int, day : Int]
  /\ ParsesAsDate(Text(d.year, d.month, d.day))

Calendric(y, m, k) ==
  y \in Nat /\ y >= 1 /\ m \in 1..12 /\ k \in 1..31 /\ (m = 2 => k <= 29)

LEMMA RealDayFields ==
  ASSUME NEW d, RealDay(d)
  PROVE  Calendric(d.year, d.month, d.day)
  BY DEF RealDay, Calendric, ParsesAsDate, Text, days_in_month

\* The year part and the month part of `days`.
YearPart(y) == (y \div 400) * 146097 + (y - (y \div 400) * 400) * 365
                 + (y - (y \div 400) * 400) \div 4 - (y - (y \div 400) * 400) \div 100
MonthPart(m) == (153 * m + 2) \div 5
Epoch == 719469

LEMMA YearsGrow ==
  ASSUME NEW y \in Nat, NEW z \in Nat, y < z
  PROVE  YearPart(y) \in Int /\ YearPart(z) \in Int /\ YearPart(y) + 365 <= YearPart(z)
<1>1. PICK a \in Nat, r \in 0..399 : y = 400 * a + r /\ a = y \div 400
  <2>1. y \div 400 \in Nat /\ y - 400 * (y \div 400) \in 0..399
    BY SMT
  <2>2. QED BY <2>1, SMT
<1>2. PICK b \in Nat, s \in 0..399 : z = 400 * b + s /\ b = z \div 400
  <2>1. z \div 400 \in Nat /\ z - 400 * (z \div 400) \in 0..399
    BY SMT
  <2>2. QED BY <2>1, SMT
<1>3. /\ YearPart(y) = a * 146097 + r * 365 + r \div 4 - r \div 100
      /\ YearPart(z) = b * 146097 + s * 365 + s \div 4 - s \div 100
  BY <1>1, <1>2, SMT DEF YearPart
<1>7. y = 400 * a + r /\ z = 400 * b + s
  BY <1>1, <1>2
<1>4. CASE a = b
  <2>1. r < s
    BY <1>4, <1>7, SMT
  <2>2. r \div 4 - r \div 100 <= s \div 4 - s \div 100
    BY <2>1, SMT
  <2>3. QED BY <1>3, <1>4, <2>1, <2>2, SMT
<1>5. CASE a < b
  <2>1. /\ 0 <= r \div 4 - r \div 100 /\ r \div 4 - r \div 100 <= 96
        /\ 0 <= s \div 4 - s \div 100 /\ s \div 4 - s \div 100 <= 96
    BY SMT
  <2>2. QED BY <1>3, <1>5, <2>1, SMT
<1>6. a = b \/ a < b
  BY <1>7, SMT
<1>8. QED BY <1>4, <1>5, <1>6

\* A date's year and month counted from March.
MarchYear(y, m) == IF m <= 2 THEN y - 1 ELSE y
MarchMonth(m) == IF m > 2 THEN m - 3 ELSE m + 9

\* The count of day k in month M of the year Y, both from March.
Counts(count, Y, M, k, years, months) ==
  /\ count = years + months + k - Epoch
  /\ Y \in Nat /\ years = YearPart(Y) /\ years \in Int
  /\ M \in 0..11 /\ months = MonthPart(M) /\ months \in 0..337 /\ months + k <= 366

LEMMA DaysParts ==
  ASSUME NEW y, NEW m, NEW k, Calendric(y, m, k)
  PROVE  Counts(days([year |-> y, month |-> m, day |-> k]), MarchYear(y, m), MarchMonth(m), k,
                YearPart(MarchYear(y, m)), MonthPart(MarchMonth(m)))
<1>1. MarchYear(y, m) \in Nat /\ MarchMonth(m) \in 0..11
  BY SMT DEF MarchYear, MarchMonth, Calendric
<1>2. YearPart(MarchYear(y, m)) \in Int
  BY <1>1, SMT DEF YearPart
<1>3. MonthPart(MarchMonth(m)) \in 0..337 /\ MonthPart(MarchMonth(m)) + k <= 366
  BY SMT DEF MonthPart, MarchMonth, Calendric
<1>4. PICK d : d = [year |-> y, month |-> m, day |-> k]
  OBVIOUS
<1>5. d.year = y /\ d.month = m /\ d.day = k
  BY <1>4
<1>6. PICK z : z = MarchYear(y, m)
  OBVIOUS
<1>7. days(d) = (z \div 400) * 146097
                  + ((z - (z \div 400) * 400) * 365 + (z - (z \div 400) * 400) \div 4
                       - (z - (z \div 400) * 400) \div 100
                       + (MonthPart(MarchMonth(m)) + k - 1)) - 719468
  BY <1>5, <1>6, SMT DEF days, MonthPart, MarchYear, MarchMonth
<1>8. days(d) = YearPart(z) + MonthPart(MarchMonth(m)) + k - Epoch
  <2>1. z \in Nat /\ MonthPart(MarchMonth(m)) \in Int /\ k \in Int
    BY <1>1, <1>3, <1>6 DEF Calendric
  <2>2. QED BY <1>7, <2>1, SMT DEF YearPart, Epoch
<1>9. QED BY <1>1, <1>2, <1>3, <1>4, <1>6, <1>8, Zenon DEF Counts

\* The order of the numbers YYYYMMDD is the order of the days they name.
LEMMA DaysKeepOrder ==
  ASSUME NEW d, NEW e, RealDay(d), RealDay(e), digits(d) <= digits(e)
  PROVE  days(d) <= days(e)
<1>1. PICK y, m, k : y = d.year /\ m = d.month /\ k = d.day
  OBVIOUS
<1>2. PICK z, n, l : z = e.year /\ n = e.month /\ l = e.day
  OBVIOUS
<1>3. Calendric(y, m, k) /\ Calendric(z, n, l)
  BY <1>1, <1>2, RealDayFields
<1>4. d = [year |-> y, month |-> m, day |-> k] /\ e = [year |-> z, month |-> n, day |-> l]
  BY <1>1, <1>2 DEF RealDay
<1>5. y * 10000 + m * 100 + k <= z * 10000 + n * 100 + l
  BY <1>1, <1>2, SMT DEF digits
<1>6. PICK Y, M, f, g : /\ Y = MarchYear(y, m) /\ M = MarchMonth(m)
                        /\ f = YearPart(Y) /\ g = MonthPart(M)
  OBVIOUS
<1>7. PICK Z, N, p, q : /\ Z = MarchYear(z, n) /\ N = MarchMonth(n)
                        /\ p = YearPart(Z) /\ q = MonthPart(N)
  OBVIOUS
<1>8. PICK u : u = days(d) /\ Counts(u, Y, M, k, f, g)
  BY <1>3, <1>4, <1>6, DaysParts, Zenon
<1>9. PICK v : v = days(e) /\ Counts(v, Z, N, l, p, q)
  BY <1>3, <1>4, <1>7, DaysParts, Zenon
<1>10. Y < Z \/ (Y = Z /\ M < N) \/ (Y = Z /\ M = N /\ k <= l)
  BY <1>3, <1>5, <1>6, <1>7, SMT DEF MarchYear, MarchMonth, Calendric
<1>11. k \in 1..31 /\ l \in 1..31
  BY <1>3 DEF Calendric
<1>12. ASSUME Y < Z PROVE u <= v
  <2>1. f + 365 <= p
    BY <1>8, <1>9, <1>12, YearsGrow DEF Counts
  <2>2. QED BY <1>8, <1>9, <1>11, <2>1, SMT DEF Epoch, Counts
<1>13. ASSUME Y = Z, M < N PROVE u <= v
  <2>1. g + 30 <= q
    BY <1>8, <1>9, <1>13, SMT DEF MonthPart, Counts
  <2>2. f = p
    BY <1>6, <1>7, <1>13
  <2>3. QED BY <1>8, <1>9, <1>11, <2>1, <2>2, SMT DEF Epoch, Counts
<1>14. ASSUME Y = Z, M = N, k <= l PROVE u <= v
  <2>1. f = p /\ g = q
    BY <1>6, <1>7, <1>14
  <2>2. QED BY <1>8, <1>9, <1>11, <1>14, <2>1, SMT DEF Epoch, Counts
<1>15. QED BY <1>8, <1>9, <1>10, <1>12, <1>13, <1>14, Zenon

\* A text that parses is the text of a day of the calendar, and its digits tell which.
LEMMA ParsedIsReal ==
  ASSUME NEW t \in Dates, ParsesAsDate(t)
  PROVE  RealDay(date(t)) /\ digits(date(t)) \in Nat /\ digits(date(t)) >= 10101
<1>1. RealDay(date(t))
  BY DEF Dates, ParsesAsDate, RealDay, date, Text, days_in_month
<1>2. Calendric(t.year, t.month, t.day)
  BY <1>1, RealDayFields DEF date
<1>3. digits(date(t)) = t.year * 10000 + t.month * 100 + t.day
  BY DEF digits, date
<1>4. QED BY <1>1, <1>2, <1>3, SMT DEF Calendric

\* A number written with two pairs of digits at its end, which has one reading.
Number(a, b, c) == a * 10000 + b * 100 + c

IsNumber(a, b, c) == a \in Nat /\ b \in 0..99 /\ c \in 0..99

LEMMA OneReading ==
  ASSUME NEW a, NEW b, NEW c, NEW x, NEW y, NEW z, IsNumber(a, b, c), IsNumber(x, y, z),
         Number(a, b, c) = Number(x, y, z)
  PROVE  a = x /\ b = y /\ c = z
<1>1. ASSUME NEW i \in Nat, NEW j \in Nat, NEW m \in Nat, NEW n \in Nat, m < 10000, n < 10000,
             i * 10000 + m = j * 10000 + n
      PROVE  i <= j /\ j <= i
  BY <1>1, SMT
<1>2. ASSUME NEW i \in Nat, NEW j \in Nat, NEW m \in Nat, NEW n \in Nat, m < 100, n < 100,
             i * 100 + m = j * 100 + n
      PROVE  i <= j /\ j <= i
  BY <1>2, SMT
<1>3. PICK p \in Nat : p = b * 100 + c /\ p < 10000
  BY SMT DEF IsNumber
<1>4. PICK q \in Nat : q = y * 100 + z /\ q < 10000
  BY SMT DEF IsNumber
<1>5. a * 10000 + p = x * 10000 + q /\ a \in Nat /\ x \in Nat
  BY <1>3, <1>4, SMT DEF IsNumber, Number
<1>6. a <= x /\ x <= a
  BY <1>1, <1>3, <1>4, <1>5, SMT
<1>7. a = x
  BY <1>5, <1>6, SMT
<1>8. p = q
  BY <1>5, <1>7, SMT
<1>9. b \in Nat /\ c \in Nat /\ y \in Nat /\ z \in Nat /\ c < 100 /\ z < 100
  BY SMT DEF IsNumber
<1>10. b <= y /\ y <= b
  BY <1>2, <1>3, <1>4, <1>8, <1>9, SMT
<1>11. b = y
  BY <1>9, <1>10, SMT
<1>12. c = z
  BY <1>3, <1>4, <1>8, <1>9, <1>11, SMT
<1>13. QED BY <1>7, <1>11, <1>12

LEMMA DigitsTellDates ==
  ASSUME NEW t \in Dates, NEW u \in Dates, ParsesAsDate(t), ParsesAsDate(u),
         digits(date(t)) = digits(date(u))
  PROVE  t = u
<1>1. Calendric(t.year, t.month, t.day) /\ Calendric(u.year, u.month, u.day)
  BY ParsedIsReal, RealDayFields DEF date
<1>2. Number(t.year, t.month, t.day) = Number(u.year, u.month, u.day)
  BY SMT DEF Number, digits, date
<1>3. t.year = u.year /\ t.month = u.month /\ t.day = u.day
  <2>1. IsNumber(t.year, t.month, t.day) /\ IsNumber(u.year, u.month, u.day)
    BY <1>1, SMT DEF Calendric, IsNumber
  <2>2. QED BY <1>2, <2>1, OneReading, Zenon
<1>4. t.framed = TRUE /\ u.framed = TRUE
  BY DEF ParsesAsDate, Dates
<1>5. QED BY <1>3, <1>4 DEF Dates

LEMMA ClockTellsTimes ==
  ASSUME NEW t \in Times, NEW u \in Times, ParsesAsTime(t), ParsesAsTime(u), time(t) = time(u)
  PROVE  t = u
<1>1. digits(date(t.date)) = digits(date(u.date)) /\ clock_digits(t) = clock_digits(u)
  BY DEF time
<1>2. t.date = u.date
  BY <1>1, DigitsTellDates DEF Times, ParsesAsTime
<1>3. /\ t.hour \in 0..23 /\ t.minute \in 0..59 /\ t.second \in 0..59
      /\ u.hour \in 0..23 /\ u.minute \in 0..59 /\ u.second \in 0..59
  BY DEF ParsesAsTime
<1>4. Number(t.hour, t.minute, t.second) = Number(u.hour, u.minute, u.second)
  BY <1>1, SMT DEF Number, clock_digits
<1>5. t.hour = u.hour /\ t.minute = u.minute /\ t.second = u.second
  <2>1. IsNumber(t.hour, t.minute, t.second) /\ IsNumber(u.hour, u.minute, u.second)
    BY <1>3, SMT DEF IsNumber
  <2>2. QED BY <1>4, <2>1, OneReading, Zenon
<1>6. t.framed = TRUE /\ u.framed = TRUE
  BY DEF ParsesAsTime, Times
<1>7. QED BY <1>2, <1>5, <1>6 DEF Times

\* A birth date whose digits are in the range is in the range by its days.
LEMMA DigitsAreDays ==
  ASSUME NEW d, NEW st, RealDay(d), st.earliest \in Dates, st.cutoff \in Dates,
         check_range(st.earliest, st.cutoff),
         Within(digits(d) - BornFrom(st.earliest)),
         Within(digits(date(st.cutoff)) - digits(d))
  PROVE  BornInRange(d, st)
<1>1. digits(d) \in Int
  <2>1. Calendric(d.year, d.month, d.day)
    BY RealDayFields
  <2>2. QED BY <2>1, SMT DEF Calendric, digits
<1>2. \A x \in Int : Within(x) => 0 <= x
  BY DEF Within, range_check
<1>3. ParsesAsDate(st.cutoff)
  BY DEF check_range
<1>4. digits(date(st.cutoff)) \in Int /\ RealDay(date(st.cutoff))
  BY <1>3, ParsedIsReal, SMT
<1>5. digits(d) <= digits(date(st.cutoff))
  BY <1>1, <1>2, <1>4, SMT
<1>6. ASSUME st.earliest # NO_LOWER_BOUND PROVE days(date(st.earliest)) <= days(d)
  <2>1. ParsesAsDate(st.earliest)
    BY <1>6 DEF check_range
  <2>2. digits(date(st.earliest)) \in Int /\ RealDay(date(st.earliest))
    BY <2>1, ParsedIsReal, SMT
  <2>3. BornFrom(st.earliest) = digits(date(st.earliest))
    BY <1>6, Zenon DEF BornFrom
  <2>4. digits(date(st.earliest)) <= digits(d)
    BY <1>1, <1>2, <2>2, <2>3, SMT
  <2>5. QED BY <2>2, <2>4, DaysKeepOrder, Zenon
<1>7. QED BY <1>4, <1>5, <1>6, DaysKeepOrder, Zenon DEF BornInRange

-----------------------------------------------------------------------------
(* What a statement's public values tell of it.                            *)

IsStatement(st) ==
  /\ st = [issuer_key |-> st.issuer_key, time |-> st.time, earliest |-> st.earliest,
           cutoff |-> st.cutoff, challenge_digest |-> st.challenge_digest,
           verifier_input |-> st.verifier_input]
  /\ st.time \in Times /\ st.earliest \in Dates /\ st.cutoff \in Dates

LEMMA PublicTellsStatement ==
  ASSUME NEW s, NEW t, IsStatement(s), IsStatement(t), PublicOk(s), PublicOk(t),
         public(s) = public(t)
  PROVE  s = t
<1>1. /\ s.issuer_key = t.issuer_key /\ BornFrom(s.earliest) = BornFrom(t.earliest)
      /\ digits(date(s.cutoff)) = digits(date(t.cutoff)) /\ time(s.time) = time(t.time)
      /\ s.challenge_digest = t.challenge_digest /\ s.verifier_input = t.verifier_input
  BY DEF public
<1>2. s.time = t.time
  BY <1>1, ClockTellsTimes, Zenon DEF IsStatement, PublicOk
<1>3. s.cutoff = t.cutoff
  BY <1>1, DigitsTellDates, Zenon DEF IsStatement, PublicOk, check_range
<1>4. ASSUME NEW x, x \in {s, t}, x.earliest # NO_LOWER_BOUND
      PROVE  /\ ParsesAsDate(x.earliest) /\ BornFrom(x.earliest) = digits(date(x.earliest))
             /\ BornFrom(x.earliest) # 0
  <2>1. x.earliest \in Dates /\ ParsesAsDate(x.earliest)
    BY <1>4, Zenon DEF IsStatement, PublicOk, check_range
  <2>2. digits(date(x.earliest)) # 0
    BY <2>1, ParsedIsReal, SMT
  <2>3. QED BY <1>4, <2>1, <2>2, Zenon DEF BornFrom
<1>5. ASSUME NEW x, x.earliest = NO_LOWER_BOUND PROVE BornFrom(x.earliest) = 0
  BY <1>5, Zenon DEF BornFrom
<1>6. s.earliest = t.earliest
  <2>1. CASE s.earliest = NO_LOWER_BOUND
    BY <1>1, <1>4, <1>5, <2>1, Zenon
  <2>2. CASE s.earliest # NO_LOWER_BOUND
    <3>1. t.earliest # NO_LOWER_BOUND
      BY <1>1, <1>4, <1>5, <2>2, Zenon
    <3>2. QED BY <1>1, <1>4, <2>2, <3>1, DigitsTellDates, Zenon DEF IsStatement
  <2>3. QED BY <2>1, <2>2
<1>7. QED BY <1>1, <1>2, <1>3, <1>6, Zenon DEF IsStatement

-----------------------------------------------------------------------------
(* What `verify` and `prove` answer.                                       *)

LEMMA VerifyAccepts ==
  ASSUME NEW st, NEW proof
  PROVE  verify(st, proof) = "OK" <=>
           /\ PublicOk(st) /\ proof.encoding = "exact" /\ proof.valid
           /\ proof.reported = OwnPositions /\ proof.public = public(st)
  BY Zenon DEF verify, accept_pseudonym

BirthOf(mdoc) == mdoc.items[birth_date_element]
SscOf(mdoc) == mdoc.items[ssc_element]

\* What the verifier's statement asks of a signed message and a birth date.
Asked(mso, birth, st) ==
  /\ mso.type = doc_type
  /\ Within(digits(birth) - BornFrom(st.earliest))
  /\ Within(digits(date(st.cutoff)) - digits(birth))
  /\ ~Earlier(time(st.time), mso.valid_from)
  /\ Earlier(time(st.time), mso.valid_until)

LEMMA PublicFields ==
  ASSUME NEW st, NEW p, p = public(st)
  PROVE  /\ p.issuer_key = st.issuer_key /\ p.born_from = BornFrom(st.earliest)
         /\ p.born_by = digits(date(st.cutoff)) /\ p.now = time(st.time)
         /\ p.challenge = st.challenge_digest /\ p.request[1] = doc_type
         /\ p.request[2] = birth_date_element /\ p.verifier_input = st.verifier_input
  BY DEF public

\* The rules, of the witness an honest prover builds.
Honest(mdoc, seed, sig, st, w, p) ==
  /\ IssuedRules(w) <=> SignedBy(st.issuer_key, mdoc) /\ Listed(mdoc)
  /\ SeedRule(w) <=> sha256("seed", seed) = SscOf(mdoc)
  /\ RequestRules(w, p) <=> Asked(mdoc.mso, BirthOf(mdoc), st)
  /\ DeviceRule(w, p) <=> sig = Signature(mdoc.mso.device_key, st.challenge_digest)
  /\ PseudonymRules(w, p, pseudonym(seed, st.verifier_input))
  /\ StepRules(w, OwnPositions)

LEMMA WitnessRules ==
  ASSUME NEW mdoc, NEW seed, NEW sig, NEW st, NEW w, NEW p,
         w = Witness(mdoc, seed, sig, st), p = public(st)
  PROVE  Honest(mdoc, seed, sig, st, w, p)
<1>1. /\ w.issuer_key = st.issuer_key /\ w.issuer_signature = mdoc.signature
      /\ w.device_signature = sig /\ w.bytes.signed = mdoc.mso /\ w.bytes.seed = seed
      /\ w.bytes.attribute = item(birth_date_element, BirthOf(mdoc))
      /\ w.bytes.ssc = item(ssc_element, SscOf(mdoc))
      /\ w.bytes.nym = NymMessage(seed, st.verifier_input)
  BY DEF Witness, BirthOf, SscOf
<1>2. /\ w.digest.signed = sha256("signed", mdoc.mso)
      /\ w.digest.attribute = sha256("item", item(birth_date_element, BirthOf(mdoc)))
      /\ w.digest.ssc = sha256("item", item(ssc_element, SscOf(mdoc)))
      /\ w.digest.seed = sha256("seed", seed)
      /\ w.digest.nym = sha256("nym", NymMessage(seed, st.verifier_input))
  BY DEF Witness, BirthOf, SscOf
<1>3. /\ w.bytes.attribute[1] = birth_date_element /\ w.bytes.attribute[2] = BirthOf(mdoc)
      /\ w.bytes.ssc[1] = ssc_element /\ w.bytes.ssc[2] = SscOf(mdoc)
      /\ w.bytes.nym.seed = seed /\ w.bytes.nym.verifier_input = st.verifier_input
  BY <1>1 DEF item, NymMessage
<1>4. IssuedRules(w) <=> SignedBy(st.issuer_key, mdoc) /\ Listed(mdoc)
  <2>1. Listed(mdoc) <=>
          /\ sha256("item", item(birth_date_element, BirthOf(mdoc))) \in mdoc.mso.digests
          /\ sha256("item", item(ssc_element, SscOf(mdoc))) \in mdoc.mso.digests
    BY Zenon DEF Listed, BirthOf, SscOf
  <2>2. QED BY <1>1, <1>2, <1>3, <2>1, Zenon DEF IssuedRules, SignedBy
<1>5. SeedRule(w) <=> sha256("seed", seed) = SscOf(mdoc)
  BY <1>2, <1>3, Zenon DEF SeedRule
<1>6. RequestRules(w, p) <=> Asked(mdoc.mso, BirthOf(mdoc), st)
  <2> DEFINE mso == w.bytes.signed
             born == w.bytes.attribute[2]
  <2>1. /\ mso = mdoc.mso /\ w.bytes.attribute[1] = birth_date_element
        /\ born = BirthOf(mdoc) /\ w.issuer_key = st.issuer_key
    BY <1>1, <1>3, Zenon
  <2>2. p.request[1] = doc_type /\ p.request[2] = birth_date_element /\ p.issuer_key = st.issuer_key
    BY PublicFields, Zenon
  <2>3. p.born_from = BornFrom(st.earliest) /\ p.born_by = digits(date(st.cutoff)) /\ p.now = time(st.time)
    BY PublicFields, Zenon
  <2>4. RequestRules(w, p) <=>
          /\ mso.type = p.request[1] /\ w.bytes.attribute[1] = p.request[2] /\ w.issuer_key = p.issuer_key
          /\ Within(digits(born) - p.born_from) /\ Within(p.born_by - digits(born))
          /\ ~Earlier(p.now, mso.valid_from) /\ Earlier(p.now, mso.valid_until)
    BY Zenon DEF RequestRules
  <2> HIDE DEF mso, born
  <2>5. QED BY <2>1, <2>2, <2>3, <2>4, Zenon DEF Asked
<1>7. DeviceRule(w, p) <=> sig = Signature(mdoc.mso.device_key, st.challenge_digest)
  BY <1>1, PublicFields, Zenon DEF DeviceRule
<1>8. PseudonymRules(w, p, pseudonym(seed, st.verifier_input))
  <2>1. w.digest.nym = pseudonym(seed, st.verifier_input)
    BY <1>2, Zenon DEF pseudonym
  <2>2. p.verifier_input = st.verifier_input
    BY PublicFields, Zenon
  <2>3. QED BY <1>3, <2>1, <2>2, Zenon DEF PseudonymRules
<1>9. StepRules(w, OwnPositions)
  BY <1>1, <1>2, Zenon DEF StepRules
<1>10. QED BY <1>4, <1>5, <1>6, <1>7, <1>8, <1>9, Zenon DEF Honest

\* What a wallet must have for `prove` to answer OK, but for the device signature.
Provable(st, mdoc, seed) ==
  /\ seed # WrongSeed /\ PublicOk(st) /\ mdoc.parses
  /\ {birth_date_element, ssc_element} \subseteq DOMAIN mdoc.items
  /\ SignedBy(st.issuer_key, mdoc) /\ Listed(mdoc)
  /\ sha256("seed", seed) = SscOf(mdoc)
  /\ Asked(mdoc.mso, BirthOf(mdoc), st)

\* The proof of a witness that meets the rules passes the prover's own verification.
LEMMA ProvedIsAccepted ==
  ASSUME NEW st, NEW mdoc, NEW seed, NEW sig, NEW w, NEW rs,
         w = Witness(mdoc, seed, sig, st),
         rs = rules(w, public(st), pseudonym(seed, st.verifier_input)),
         Broken(rs) = {}
  PROVE  accept_pseudonym(Proved(st, mdoc, seed, sig), public(st)) = "OK"
<1>1. StepRules(w, OwnPositions)
  BY WitnessRules, Zenon DEF Honest
<1>2. PICK v : v = (Broken(rs) = {} /\ StepRules(w, OwnPositions))
  OBVIOUS
<1>3. Proved(st, mdoc, seed, sig)
        = Proof("exact", v, OwnPositions, public(st), pseudonym(seed, st.verifier_input))
  BY <1>2, Zenon DEF Proved
<1>4. PICK pr : /\ pr = Proved(st, mdoc, seed, sig) /\ pr.valid = v
                /\ pr.reported = OwnPositions /\ pr.public = public(st)
  BY <1>3 DEF Proof
<1>5. QED BY <1>1, <1>2, <1>4, Zenon DEF accept_pseudonym

\* `prove` answers OK exactly when the wallet has that and the device's signature.
LEMMA ProveAnswers ==
  ASSUME NEW st, NEW mdoc, NEW seed, NEW sig
  PROVE  prove(st, mdoc, seed, sig) = "OK" <=>
           /\ Provable(st, mdoc, seed) /\ sig # WrongSignature
           /\ sig = Signature(mdoc.mso.device_key, st.challenge_digest)
<1>1. PICK w : w = Witness(mdoc, seed, sig, st)
  OBVIOUS
<1>2. PICK rs : rs = rules(w, public(st), pseudonym(seed, st.verifier_input))
  OBVIOUS
<1>3. Broken(rs) = {} <=>
        /\ SignedBy(st.issuer_key, mdoc) /\ Listed(mdoc)
        /\ sha256("seed", seed) = SscOf(mdoc)
        /\ Asked(mdoc.mso, BirthOf(mdoc), st)
        /\ sig = Signature(mdoc.mso.device_key, st.challenge_digest)
  <2>1. Explained(w, public(st), pseudonym(seed, st.verifier_input), rs)
    BY <1>2, CoreRules, Zenon
  <2>2. Honest(mdoc, seed, sig, st, w, public(st))
    BY <1>1, WitnessRules, Zenon
  <2>3. QED BY <2>1, <2>2, Zenon DEF Explained, Honest
<1>4. Broken(rs) = {} =>
        accept_pseudonym(Proved(st, mdoc, seed, sig), public(st)) = "OK"
  BY <1>1, <1>2, ProvedIsAccepted, Zenon
<1>5. Broken(rs) # {} => of_rule(first_broken(rs)) # "OK"
  BY DEF of_rule
<1>6. CASE seed = WrongSeed \/ ~PublicOk(st) \/ sig = WrongSignature
  BY <1>6, Zenon DEF prove, Provable
<1>7. CASE ~mdoc.parses \/ ~({birth_date_element, ssc_element} \subseteq DOMAIN mdoc.items)
  BY <1>7, Zenon DEF prove, Provable
<1>8. CASE ~Listed(mdoc)
  BY <1>8, Zenon DEF prove, Provable
<1>9. CASE /\ seed # WrongSeed /\ PublicOk(st) /\ sig # WrongSignature /\ mdoc.parses
           /\ {birth_date_element, ssc_element} \subseteq DOMAIN mdoc.items /\ Listed(mdoc)
  <2>1. prove(st, mdoc, seed, sig) =
          IF Broken(rs) # {} THEN of_rule(first_broken(rs))
          ELSE IF accept_pseudonym(Proved(st, mdoc, seed, sig), public(st)) # "OK"
          THEN "ProverFailed" ELSE "OK"
    BY <1>1, <1>2, <1>9, Zenon DEF prove
  <2>2. prove(st, mdoc, seed, sig) = "OK" <=> Broken(rs) = {}
    BY <1>4, <1>5, <2>1, Zenon
  <2>3. QED BY <1>3, <1>9, <2>2, Zenon DEF Provable
<1>10. QED BY <1>6, <1>7, <1>8, <1>9, Zenon

\* What each other answer of `prove` tells.
Refuses(st, mdoc, seed, code) ==
  /\ code = "DeviceSignature" => Provable(st, mdoc, seed)
  /\ code = "SeedMismatch" =>
       SignedBy(st.issuer_key, mdoc) /\ Listed(mdoc) /\ sha256("seed", seed) # SscOf(mdoc)
  /\ code \in {"Credential", "IssuerSignature"} =>
       ~(SignedBy(st.issuer_key, mdoc) /\ Listed(mdoc) /\ Asked(mdoc.mso, BirthOf(mdoc), st))
  /\ code # "ProverFailed"

LEMMA ProveRefuses ==
  ASSUME NEW st, NEW mdoc, NEW seed, NEW sig
  PROVE  Refuses(st, mdoc, seed, prove(st, mdoc, seed, sig))
<1>1. PICK w : w = Witness(mdoc, seed, sig, st)
  OBVIOUS
<1>2. PICK rs : rs = rules(w, public(st), pseudonym(seed, st.verifier_input))
  OBVIOUS
<1>3. Explained(w, public(st), pseudonym(seed, st.verifier_input), rs)
  BY <1>2, CoreRules, Zenon
<1>4. Honest(mdoc, seed, sig, st, w, public(st))
  BY <1>1, WitnessRules, Zenon
<1>5. Broken(rs) = {} =>
        accept_pseudonym(Proved(st, mdoc, seed, sig), public(st)) = "OK"
  BY <1>1, <1>2, ProvedIsAccepted, Zenon
<1>6. PICK code : code = prove(st, mdoc, seed, sig)
  OBVIOUS
<1>7. CASE \/ seed = WrongSeed \/ ~PublicOk(st) \/ sig = WrongSignature \/ ~mdoc.parses
           \/ ~({birth_date_element, ssc_element} \subseteq DOMAIN mdoc.items)
  <2>1. code = "InvalidInput"
    BY <1>6, <1>7, Zenon DEF prove
  <2>2. QED BY <1>6, <2>1 DEF Refuses
<1>8. CASE /\ seed # WrongSeed /\ PublicOk(st) /\ sig # WrongSignature /\ mdoc.parses
           /\ {birth_date_element, ssc_element} \subseteq DOMAIN mdoc.items
  <2>1. CASE ~Listed(mdoc)
    <3>1. code = "Credential"
      BY <1>6, <1>8, <2>1, Zenon DEF prove
    <3>2. QED BY <1>6, <2>1, <3>1 DEF Refuses
  <2>2. CASE Listed(mdoc) /\ Broken(rs) # {}
    <3>1. code = of_rule(first_broken(rs))
      BY <1>1, <1>2, <1>6, <1>8, <2>2, Zenon DEF prove
    <3>2. code = "DeviceSignature" => Provable(st, mdoc, seed)
      BY <1>3, <1>4, <1>8, <2>2, <3>1, Zenon DEF Explained, Honest, Provable
    <3>3. code = "SeedMismatch" =>
            SignedBy(st.issuer_key, mdoc) /\ Listed(mdoc) /\ sha256("seed", seed) # SscOf(mdoc)
      BY <1>3, <1>4, <2>2, <3>1, Zenon DEF Explained, Honest
    <3>4. code \in {"Credential", "IssuerSignature"} =>
            ~(/\ SignedBy(st.issuer_key, mdoc) /\ Listed(mdoc)
              /\ Asked(mdoc.mso, BirthOf(mdoc), st))
      BY <1>3, <1>4, <2>2, <3>1, Zenon DEF Explained, Honest
    <3>5. code # "ProverFailed"
      BY <1>3, <3>1, Zenon DEF Explained
    <3>6. QED BY <1>6, <3>2, <3>3, <3>4, <3>5, Zenon DEF Refuses
  <2>3. CASE Listed(mdoc) /\ Broken(rs) = {}
    <3>1. code = "OK"
      BY <1>1, <1>2, <1>5, <1>6, <1>8, <2>3, Zenon DEF prove
    <3>2. QED BY <1>6, <3>1 DEF Refuses
  <2>4. QED BY <2>1, <2>2, <2>3, Zenon
<1>9. QED BY <1>7, <1>8, Zenon

-----------------------------------------------------------------------------
(* What the adversary can put in a table whose every chain is checked.     *)

LEMMA OwnIsChained ==
  /\ OwnPositions \in Reports
  /\ \A m \in {"signed", "attribute", "ssc", "seed", "nym"} : Chained(m, OwnPositions)
<1>1. OwnPositions \in Reports
  BY DEF Reports
<1>2. \A j \in Positions : \E i \in Positions : OwnPositions[i] = j
  BY DEF OwnPositions
<1>3. /\ Region["signed"] \subseteq Positions /\ Region["attribute"] \subseteq Positions
      /\ Region["ssc"] \subseteq Positions /\ Region["seed"] \subseteq Positions
      /\ Region["nym"] \subseteq Positions
  BY DEF Region, Positions
<1>4. QED BY <1>1, <1>2, <1>3, Zenon DEF Chained

SignedEntry(c, m, b, sd, d) ==
  [issuer_key |-> TrustedKey, issuer_signature |-> c.signature,
   bytes |-> [signed |-> m, attribute |-> b], digest |-> [signed |-> sd, attribute |-> d]]

LEMMA SignedEntries ==
  ASSUME NEW x \in SignedPart[OwnPositions]
  PROVE  \E c \in Issued, m \in {y.mso : y \in Issued}, b \in Items(birth_date_element) :
           x = SignedEntry(c, m, b, sha256("signed", m), sha256("item", b))
<1> DEFINE Made(c, m, b) ==
             {SignedEntry(c, m, b, IF Chained("signed", OwnPositions) THEN sha256("signed", m)
                                   ELSE c.signature.digest, d) :
                d \in IF Chained("attribute", OwnPositions) THEN {sha256("item", b)}
                      ELSE m.digests}
<1>1. x \in UNION {Made(c, m, b) :
                    c \in Issued, m \in Signeds(OwnPositions), b \in Items(birth_date_element)}
  BY OwnIsChained DEF SignedPart, SignedEntry
<1>2. \A c, m, b : Made(c, m, b) = {SignedEntry(c, m, b, sha256("signed", m), sha256("item", b))}
  BY OwnIsChained
<1> HIDE DEF Made
<1>3. PICK c \in Issued, m \in Signeds(OwnPositions), b \in Items(birth_date_element) :
        x \in Made(c, m, b)
  BY <1>1
<1>4. x = SignedEntry(c, m, b, sha256("signed", m), sha256("item", b))
  BY <1>2, <1>3
<1>5. m \in {y.mso : y \in Issued}
  BY OwnIsChained DEF Signeds
<1>6. QED BY <1>4, <1>5, Zenon

NymEntry(e, k, kd, seed, ed, n, nd, input) ==
  [issuer_key |-> e.issuer_key, issuer_signature |-> e.issuer_signature,
   bytes |-> [signed |-> e.bytes.signed, attribute |-> e.bytes.attribute,
              ssc |-> k, seed |-> seed, nym |-> NymMessage(n, input)],
   digest |-> [signed |-> e.digest.signed, attribute |-> e.digest.attribute,
               ssc |-> kd, seed |-> ed, nym |-> nd]]

LEMMA NymEntries ==
  ASSUME NEW v \in Verifiers, NEW x \in NymPart[OwnPositions][v]
  PROVE  \E e \in SignedPart[OwnPositions], k \in Items(ssc_element),
            seed \in KnownSeeds, n \in KnownSeeds :
           x = NymEntry(e, k, sha256("item", k), seed, sha256("seed", seed),
                        n, pseudonym(n, verifier_input(v)), verifier_input(v))
<1> DEFINE input == verifier_input(v)
           Made(e, k, seed, n) ==
             {NymEntry(e, k, d, seed, IF Chained("seed", OwnPositions) THEN sha256("seed", seed)
                                      ELSE k[2],
                       n, IF Chained("nym", OwnPositions) THEN pseudonym(n, input)
                          ELSE pseudonym("none", input), input) :
                d \in IF Chained("ssc", OwnPositions) THEN {sha256("item", k)}
                      ELSE e.bytes.signed.digests}
<1>1. x \in UNION {Made(e, k, seed, n) :
                    e \in SignedPart[OwnPositions], k \in Items(ssc_element),
                    seed \in KnownSeeds, n \in KnownSeeds}
  BY OwnIsChained DEF NymPart, NymEntry
<1>2. \A e, k, seed, n :
        Made(e, k, seed, n) = {NymEntry(e, k, sha256("item", k), seed, sha256("seed", seed),
                                        n, pseudonym(n, input), input)}
  BY OwnIsChained
<1> HIDE DEF Made, input
<1>3. PICK e \in SignedPart[OwnPositions], k \in Items(ssc_element),
           seed \in KnownSeeds, n \in KnownSeeds : x \in Made(e, k, seed, n)
  BY <1>1
<1>4. x = NymEntry(e, k, sha256("item", k), seed, sha256("seed", seed),
                   n, pseudonym(n, input), input)
  BY <1>2, <1>3
<1>5. QED BY <1>4, Zenon DEF input

\* Digests, signatures, items and pseudonyms tell what they were made of.
LEMMA Injective ==
  /\ \A k, l, x, y : sha256(k, x) = sha256(l, y) => k = l /\ x = y
  /\ \A k, l, x, y : Signature(k, x) = Signature(l, y) => k = l /\ x = y
  /\ \A n, m, x, y : item(n, x) = item(m, y) => n = m /\ x = y
  /\ \A s, t, i, j : pseudonym(s, i) = pseudonym(t, j) => s = t /\ i = j
<1>1. \A k, l, x, y : sha256(k, x) = sha256(l, y) => k = l /\ x = y
  BY DEF sha256
<1>2. \A k, l, x, y : Signature(k, x) = Signature(l, y) => k = l /\ x = y
  BY DEF Signature
<1>3. \A n, m, x, y : item(n, x) = item(m, y) => n = m /\ x = y
  BY DEF item
<1>4. \A s, t, i, j : NymMessage(s, i) = NymMessage(t, j) => s = t /\ i = j
  BY DEF NymMessage
<1>5. \A s, t, i, j : pseudonym(s, i) = pseudonym(t, j) => s = t /\ i = j
  BY <1>1, <1>4 DEF pseudonym
<1>6. QED BY <1>1, <1>2, <1>3, <1>5

LEMMA ItemsArePairs ==
  ASSUME NEW name, NEW b \in Items(name)
  PROVE  b = item(name, b[2])
<1>1. \E x : b = item(name, x)
  BY DEF Items, OwnItems
<1>2. QED BY <1>1 DEF item

\* Credential c, birth date d and a seed show what statement st asks for.
Evidence(c, d, seed, st) ==
  /\ SignedBy(st.issuer_key, c)
  /\ sha256("item", item(birth_date_element, d)) \in c.mso.digests
  /\ Asked(c.mso, d, st)
  /\ Commits(c, seed)

\* A forged proof that meets the rules, every chain checked, has a credential in
\* circulation behind it, as a whole, and a device signature that could be used.
LEMMA ForgedShows ==
  ASSUME NEW st, NEW v \in Verifiers, NEW w \in Forged(st, OwnPositions, v)
  PROVE  \E c \in Issued, seed \in KnownSeeds :
           /\ \E d : Evidence(c, d, seed, st)
           /\ Signature(c.mso.device_key, st.challenge_digest) \in Usable(st.challenge_digest)
           /\ w.digest.nym = pseudonym(seed, st.verifier_input)
<1>1. PICK x \in NymPart[OwnPositions][v], sig \in Usable(st.challenge_digest) :
        w = Presented(x, sig) /\ Hold(rules(w, public(st), w.digest.nym))
  BY DEF Forged
<1>2. PICK e \in SignedPart[OwnPositions], k \in Items(ssc_element),
           seed \in KnownSeeds, n \in KnownSeeds :
        x = NymEntry(e, k, sha256("item", k), seed, sha256("seed", seed),
                     n, pseudonym(n, verifier_input(v)), verifier_input(v))
  BY NymEntries, Zenon
<1>3. PICK c \in Issued, m \in {y.mso : y \in Issued}, b \in Items(birth_date_element) :
        e = SignedEntry(c, m, b, sha256("signed", m), sha256("item", b))
  BY SignedEntries, Zenon
<1>4. /\ e.issuer_key = TrustedKey /\ e.issuer_signature = c.signature
      /\ e.bytes.signed = m /\ e.bytes.attribute = b
      /\ e.digest.signed = sha256("signed", m) /\ e.digest.attribute = sha256("item", b)
  BY <1>3 DEF SignedEntry
<1>5. /\ x.issuer_key = TrustedKey /\ x.issuer_signature = c.signature
      /\ x.bytes.signed = m /\ x.bytes.attribute = b /\ x.bytes.ssc = k /\ x.bytes.seed = seed
      /\ x.bytes.nym = NymMessage(n, verifier_input(v))
      /\ x.digest.signed = sha256("signed", m) /\ x.digest.attribute = sha256("item", b)
      /\ x.digest.ssc = sha256("item", k) /\ x.digest.seed = sha256("seed", seed)
      /\ x.digest.nym = pseudonym(n, verifier_input(v))
  BY <1>2, <1>4 DEF NymEntry
<1>6. /\ w.issuer_key = TrustedKey /\ w.issuer_signature = c.signature
      /\ w.device_signature = sig
      /\ w.bytes.signed = m /\ w.bytes.attribute = b /\ w.bytes.ssc = k /\ w.bytes.seed = seed
      /\ w.bytes.nym = NymMessage(n, verifier_input(v))
      /\ w.digest.signed = sha256("signed", m) /\ w.digest.attribute = sha256("item", b)
      /\ w.digest.ssc = sha256("item", k) /\ w.digest.seed = sha256("seed", seed)
      /\ w.digest.nym = pseudonym(n, verifier_input(v))
  BY <1>1, <1>5 DEF Presented
<1>7. PICK p : p = public(st)
  OBVIOUS
<1>8. /\ IssuedRules(w) /\ SeedRule(w) /\ RequestRules(w, p)
      /\ DeviceRule(w, p) /\ PseudonymRules(w, p, w.digest.nym)
  BY <1>1, <1>7, CoreRules, Zenon DEF Explained, Hold
<1>9. /\ p.issuer_key = st.issuer_key /\ p.born_from = BornFrom(st.earliest)
      /\ p.born_by = digits(date(st.cutoff)) /\ p.now = time(st.time)
      /\ p.challenge = st.challenge_digest /\ p.request[1] = doc_type
      /\ p.request[2] = birth_date_element /\ p.verifier_input = st.verifier_input
  BY <1>7, PublicFields, Zenon
<1>10. b = item(birth_date_element, b[2]) /\ k = item(ssc_element, k[2])
  BY ItemsArePairs, Zenon
<1>11. m = c.mso /\ SignedBy(st.issuer_key, c)
  <2>1. c.signature = Signature(c.signature.key, sha256("signed", c.mso))
    BY IssuanceAssumption, Zenon DEF SignedBy
  <2>2. c.signature = Signature(TrustedKey, sha256("signed", m)) /\ TrustedKey = st.issuer_key
    BY <1>6, <1>8, <1>9, Zenon DEF IssuedRules, RequestRules
  <2>3. sha256("signed", c.mso) = sha256("signed", m)
    BY <2>1, <2>2 DEF Signature
  <2>4. m = c.mso
    BY <2>3, Injective, Zenon
  <2>5. QED BY <2>2, <2>4, Zenon DEF SignedBy
<1>12. sha256("item", item(birth_date_element, b[2])) \in c.mso.digests
  BY <1>6, <1>8, <1>10, <1>11, Zenon DEF IssuedRules
<1>13. Asked(c.mso, b[2], st)
  BY <1>6, <1>8, <1>9, <1>11, Zenon DEF RequestRules, Asked
<1>14. Commits(c, seed)
  <2>1. sha256("seed", seed) = k[2]
    BY <1>6, <1>8, Zenon DEF IssuedRules, SeedRule
  <2>2. sha256("item", k) \in c.mso.digests
    BY <1>6, <1>8, <1>11, Zenon DEF IssuedRules
  <2>3. QED BY <1>10, <2>1, <2>2, Zenon DEF Commits
<1>15. Signature(c.mso.device_key, st.challenge_digest) \in Usable(st.challenge_digest)
  BY <1>6, <1>8, <1>9, <1>11, Zenon DEF DeviceRule
<1>16. w.digest.nym = pseudonym(seed, st.verifier_input)
  <2>1. NymMessage(n, verifier_input(v)).seed = n
        /\ NymMessage(n, verifier_input(v)).verifier_input = verifier_input(v)
    BY DEF NymMessage
  <2>2. n = seed /\ verifier_input(v) = st.verifier_input
    BY <1>6, <1>8, <1>9, <2>1, Zenon DEF IssuedRules, PseudonymRules
  <2>3. QED BY <1>6, <2>2, Zenon
<1>17. QED
  BY <1>11, <1>12, <1>13, <1>14, <1>15, <1>16, Zenon DEF Evidence

-----------------------------------------------------------------------------
(* The inductive invariant.                                                *)

\* A request that was issued, as its verifier keeps it.
IsSession(s) ==
  /\ s = [verifier |-> s.verifier, nonce |-> s.nonce, statement |-> s.statement]
  /\ s.verifier \in Verifiers
  /\ s.nonce \in Nonces \ ShortNonces
  /\ IsStatement(s.statement)
  /\ s.statement.issuer_key = TrustedKey
  /\ \E t \in Thumbprints :
       s.statement.challenge_digest = derive(s.verifier, s.nonce, doc_type, t)
  /\ s.verifier \in HonestVerifiers => s.statement.verifier_input = verifier_input(s.verifier)

\* No honest verifier has issued two requests with one nonce.
SessionsOk ==
  /\ \A s \in sessions : IsSession(s)
  /\ \A s, t \in sessions :
       s.verifier \in HonestVerifiers /\ s.verifier = t.verifier /\ s.nonce = t.nonce => s = t

ConsentsOk ==
  \A c \in consents :
    /\ c = [device_key |-> c.device_key, session |-> c.session]
    /\ c.session \in sessions
    /\ \E h \in Holders : c.device_key = Wallet[h].device_key

\* The wallet had all that `prove` asks for, and its own device had signed.
MadeBy(h, st, proof) ==
  LET mdoc == Wallet[h].issuer_signed
      seed == Wallet[h].seed
  IN  /\ Provable(st, mdoc, seed)
      /\ mdoc.mso.device_key = Wallet[h].device_key
      /\ Signature(mdoc.mso.device_key, st.challenge_digest) \in signatures
      /\ proof = Proof("exact", TRUE, OwnPositions, public(st),
                       pseudonym(seed, st.verifier_input))

ProofsOk ==
  \A p \in proofs :
    /\ p.holder \in Holders /\ p.session \in sessions
    /\ MadeBy(p.holder, p.session.statement, p.proof)

\* A pseudonym was accepted with a wallet's proof for this very session ...
ByProof(s, nym) ==
  \E p \in proofs :
    p.session = s /\ nym = pseudonym(Wallet[p.holder].seed, s.statement.verifier_input)

\* ... or with a proof of the adversary's, with a credential as a whole behind it.
ByForgery(s, nym) ==
  \E c \in Issued, seed \in KnownSeeds :
    /\ \E d \in Births : Evidence(c, d, seed, s.statement)
    /\ Signature(c.mso.device_key, s.statement.challenge_digest)
         \in Usable(s.statement.challenge_digest)
    /\ nym = pseudonym(seed, s.statement.verifier_input)

AcceptedOk ==
  \A a \in accepted :
    /\ a.session \in sessions /\ a.session.verifier \in HonestVerifiers
    /\ PublicOk(a.session.statement)
    /\ ByProof(a.session, a.nym) \/ ByForgery(a.session, a.nym)

IInv ==
  /\ clock \in 1..Len(Moments)
  /\ SessionsOk /\ ConsentsOk /\ ProofsOk /\ AcceptedOk

\* The challenge tells the verifier and its nonce, the statement the session.
LEMMA ChallengeTells ==
  ASSUME NEW s, NEW t, IsSession(s), IsSession(t),
         s.statement.challenge_digest = t.statement.challenge_digest
  PROVE  s.verifier = t.verifier /\ s.nonce = t.nonce
<1>1. PICK x, y : derive(s.verifier, s.nonce, doc_type, x) = derive(t.verifier, t.nonce, doc_type, y)
  BY Zenon DEF IsSession
<1>2. QED BY <1>1 DEF derive, sha256

LEMMA StatementTells ==
  ASSUME NEW s, NEW t, IsSession(s), IsSession(t), s.statement = t.statement
  PROVE  s = t
<1>1. s.verifier = t.verifier /\ s.nonce = t.nonce
  BY ChallengeTells
<1>2. QED BY <1>1, Zenon DEF IsSession

\* A birth date that an issued message lists is one of the credential's and of the calendar.
LEMMA ListedIsBirth ==
  ASSUME NEW c \in Issued, NEW d,
         sha256("item", item(birth_date_element, d)) \in c.mso.digests
  PROVE  d \in Births /\ RealDay(d)
<1>1. PICK n \in DOMAIN c.items :
        sha256("item", item(birth_date_element, d)) = sha256("item", item(n, c.items[n]))
  BY IssuanceAssumption
<1>2. item(birth_date_element, d) = item(n, c.items[n])
  BY <1>1 DEF sha256
<1>3. n = birth_date_element /\ d = c.items[n]
  BY <1>2 DEF item
<1>4. n # ssc_element
  BY <1>3 DEF birth_date_element, ssc_element
<1>5. d \in Births
  BY <1>3, <1>4 DEF Births
<1>6. RealDay(d)
  BY <1>3, IssuanceAssumption, Zenon DEF RealDay
<1>7. QED BY <1>5, <1>6

LEMMA InitIInv == Init => IInv
<1>1. Len(Moments) \in Nat /\ Len(Moments) >= 1
  BY ProtocolAssumption, EmptySeq, LenProperties
<1>2. QED
  BY <1>1 DEF Init, IInv, SessionsOk, ConsentsOk, ProofsOk, AcceptedOk

\* What was signed, proved and accepted stays so as requests, consents and proofs are added.
LEMMA Kept ==
  ASSUME IInv, sessions \subseteq sessions', consents \subseteq consents', proofs \subseteq proofs'
  PROVE  /\ signatures \subseteq signatures'
         /\ \A p \in proofs : MadeBy(p.holder, p.session.statement, p.proof)'
         /\ \A a \in accepted :
              /\ a.session \in sessions' /\ a.session.verifier \in HonestVerifiers
              /\ PublicOk(a.session.statement)
              /\ ByProof(a.session, a.nym)' \/ ByForgery(a.session, a.nym)'
<1>1. signatures \subseteq signatures'
  BY DEF signatures
<1>2. \A p \in proofs : MadeBy(p.holder, p.session.statement, p.proof)'
  BY <1>1, Zenon DEF IInv, ProofsOk, MadeBy
<1>3. \A x : Usable(x) \subseteq Usable(x)'
  BY <1>1, Zenon DEF Usable
<1>4. \A a \in accepted : ByProof(a.session, a.nym) => ByProof(a.session, a.nym)'
  BY Zenon DEF ByProof
<1>5. \A a \in accepted : ByForgery(a.session, a.nym) => ByForgery(a.session, a.nym)'
  BY <1>3, Zenon DEF ByForgery
<1>6. QED
  BY <1>1, <1>2, <1>4, <1>5, Zenon DEF IInv, AcceptedOk

LEMMA TickKeeps == IInv /\ Tick => IInv'
<1> SUFFICES ASSUME IInv, Tick PROVE IInv'
  OBVIOUS
<1>1. clock' \in 1..Len(Moments)
  BY ProtocolAssumption, LenProperties DEF IInv, Tick
<1>2. UNCHANGED <<sessions, consents, proofs, accepted>>
  BY DEF Tick
<1>3. /\ signatures \subseteq signatures'
      /\ \A p \in proofs : MadeBy(p.holder, p.session.statement, p.proof)'
      /\ \A a \in accepted :
           /\ a.session \in sessions' /\ a.session.verifier \in HonestVerifiers
           /\ PublicOk(a.session.statement)
           /\ ByProof(a.session, a.nym)' \/ ByForgery(a.session, a.nym)'
  BY <1>2, Kept, Zenon
<1>4. SessionsOk' /\ ConsentsOk'
  BY <1>2, Zenon DEF IInv, SessionsOk, ConsentsOk
<1>5. ProofsOk'
  BY <1>2, <1>3, Zenon DEF IInv, ProofsOk
<1>6. AcceptedOk'
  BY <1>2, <1>3, Zenon DEF AcceptedOk
<1>7. QED BY <1>1, <1>4, <1>5, <1>6 DEF IInv

LEMMA RequestKeeps ==
  ASSUME IInv, NEW v \in Verifiers, NEW n \in Nonces, NEW t \in Thumbprints, NEW r \in Ranges,
         NEW named \in Verifiers, Request(v, n, t, r, named)
  PROVE  IInv'
<1>1. PICK st : st = Statement(v, n, t, r, named)
  OBVIOUS
<1>2. PICK s : s = [verifier |-> v, nonce |-> n, statement |-> st]
  OBVIOUS
<1>3. sessions' = sessions \cup {s} /\ UNCHANGED <<clock, consents, proofs, accepted>>
  BY <1>1, <1>2, Zenon DEF Request
<1>4. s.verifier = v /\ s.nonce = n /\ s.statement = st
  BY <1>2
<1>5. Moments[clock] \in Times /\ r.earliest \in Dates /\ r.cutoff \in Dates
  <2>1. Moments \in Seq(Times) /\ clock \in 1..Len(Moments)
    BY ProtocolAssumption DEF IInv
  <2>2. Moments[clock] \in Times
    BY <2>1, ElementOfSeq, Zenon
  <2>3. QED BY <2>2, ProtocolAssumption
<1>6. /\ st.issuer_key = TrustedKey /\ st.time = Moments[clock] /\ st.earliest = r.earliest
      /\ st.cutoff = r.cutoff /\ st.challenge_digest = derive(v, n, doc_type, t)
      /\ st.verifier_input = verifier_input(named)
  BY <1>1 DEF Statement
<1>7. IsStatement(st)
  <2>1. st = [issuer_key |-> st.issuer_key, time |-> st.time, earliest |-> st.earliest,
              cutoff |-> st.cutoff, challenge_digest |-> st.challenge_digest,
              verifier_input |-> st.verifier_input]
    BY <1>1, <1>6, Zenon DEF Statement
  <2>2. QED BY <1>5, <1>6, <2>1, Zenon DEF IsStatement
<1>8. IsSession(s)
  <2>1. n \in Nonces \ ShortNonces
    BY DEF Request, DerivesChallenge
  <2>2. v \in HonestVerifiers => named = v
    BY DEF Request
  <2>3. QED BY <1>2, <1>4, <1>6, <1>7, <2>1, <2>2, Zenon DEF IsSession
<1>9. SessionsOk'
  <2>1. \A x \in sessions' : IsSession(x)
    BY <1>3, <1>8, Zenon DEF IInv, SessionsOk
  <2>2. \A x \in sessions : v \in HonestVerifiers /\ x.verifier = v => x.nonce # n
    BY DEF Request
  <2>3. \A x, y \in sessions' :
          x.verifier \in HonestVerifiers /\ x.verifier = y.verifier /\ x.nonce = y.nonce => x = y
    BY <1>3, <1>4, <2>2, Zenon DEF IInv, SessionsOk
  <2>4. QED BY <2>1, <2>3, Zenon DEF SessionsOk
<1>10. /\ signatures \subseteq signatures'
       /\ \A p \in proofs : MadeBy(p.holder, p.session.statement, p.proof)'
       /\ \A a \in accepted :
            /\ a.session \in sessions' /\ a.session.verifier \in HonestVerifiers
            /\ PublicOk(a.session.statement)
            /\ ByProof(a.session, a.nym)' \/ ByForgery(a.session, a.nym)'
  BY <1>3, Kept, Zenon
<1>11. ConsentsOk' /\ ProofsOk' /\ AcceptedOk'
  BY <1>3, <1>10, Zenon DEF IInv, ConsentsOk, ProofsOk, AcceptedOk
<1>12. QED BY <1>3, <1>9, <1>11, Zenon DEF IInv

LEMMA SignKeeps ==
  ASSUME IInv, NEW h \in Holders, NEW s \in sessions, Sign(h, s)
  PROVE  IInv'
<1>1. PICK c : c = [device_key |-> Wallet[h].device_key, session |-> s]
  OBVIOUS
<1>2. consents' = consents \cup {c} /\ UNCHANGED <<clock, sessions, proofs, accepted>>
  BY <1>1, Zenon DEF Sign
<1>3. c.device_key = Wallet[h].device_key /\ c.session = s
  BY <1>1
<1>4. SessionsOk' /\ ConsentsOk'
  BY <1>1, <1>2, <1>3, Zenon DEF IInv, SessionsOk, ConsentsOk
<1>5. /\ \A p \in proofs : MadeBy(p.holder, p.session.statement, p.proof)'
      /\ \A a \in accepted :
           /\ a.session \in sessions' /\ a.session.verifier \in HonestVerifiers
           /\ PublicOk(a.session.statement)
           /\ ByProof(a.session, a.nym)' \/ ByForgery(a.session, a.nym)'
  BY <1>2, Kept, Zenon
<1>6. ProofsOk' /\ AcceptedOk'
  BY <1>2, <1>5, Zenon DEF IInv, ProofsOk, AcceptedOk
<1>7. QED BY <1>2, <1>4, <1>6, Zenon DEF IInv

\* The proof `prove` makes when it answers OK.
LEMMA ProvedIsExact ==
  ASSUME NEW st, NEW mdoc, NEW seed, NEW sig, prove(st, mdoc, seed, sig) = "OK"
  PROVE  Proved(st, mdoc, seed, sig) =
           Proof("exact", TRUE, OwnPositions, public(st), pseudonym(seed, st.verifier_input))
<1>1. PICK w : w = Witness(mdoc, seed, sig, st)
  OBVIOUS
<1>2. PICK p : p = public(st)
  OBVIOUS
<1>3. PICK nym : nym = pseudonym(seed, st.verifier_input)
  OBVIOUS
<1>4. Honest(mdoc, seed, sig, st, w, p)
  BY <1>1, <1>2, WitnessRules, Zenon
<1>5. Provable(st, mdoc, seed) /\ sig = Signature(mdoc.mso.device_key, st.challenge_digest)
  BY ProveAnswers, Zenon
<1>6. /\ IssuedRules(w) /\ SeedRule(w) /\ RequestRules(w, p)
      /\ DeviceRule(w, p) /\ PseudonymRules(w, p, nym) /\ StepRules(w, OwnPositions)
  BY <1>3, <1>4, <1>5, Zenon DEF Honest, Provable
<1>7. Broken(rules(w, p, nym)) = {}
  BY <1>6, CoreRules, Zenon DEF Explained
<1>8. PICK ok : ok = (Broken(rules(w, p, nym)) = {} /\ StepRules(w, OwnPositions))
  OBVIOUS
<1>9. ok = TRUE
  BY <1>6, <1>7, <1>8, Zenon
<1>10. Proved(st, mdoc, seed, sig) = Proof("exact", ok, OwnPositions, p, nym)
  BY <1>1, <1>2, <1>3, <1>8, Zenon DEF Proved
<1>11. QED BY <1>2, <1>3, <1>9, <1>10, Zenon

LEMMA ProveKeeps ==
  ASSUME IInv, NEW h \in Holders, NEW s \in sessions, NEW sig \in signatures, Prove(h, s, sig)
  PROVE  IInv'
<1>1. PICK st : st = s.statement
  OBVIOUS
<1>2. PICK mdoc : mdoc = Wallet[h].issuer_signed
  OBVIOUS
<1>3. PICK made : made = Proved(st, mdoc, Wallet[h].seed, sig)
  OBVIOUS
<1>4. PICK p : p = [holder |-> h, session |-> s, proof |-> made]
  OBVIOUS
<1>5. /\ proofs' = proofs \cup {p} /\ UNCHANGED <<clock, sessions, consents, accepted>>
      /\ sig.key = Wallet[h].device_key /\ prove(st, mdoc, Wallet[h].seed, sig) = "OK"
  BY <1>1, <1>2, <1>3, <1>4, Zenon DEF Prove
<1>6. p.holder = h /\ p.session = s /\ p.proof = made
  BY <1>4
<1>7. /\ Provable(st, mdoc, Wallet[h].seed)
      /\ sig = Signature(mdoc.mso.device_key, st.challenge_digest)
  BY <1>5, ProveAnswers, Zenon
<1>8. sig.key = mdoc.mso.device_key
  BY <1>7 DEF Signature
<1>9. made = Proof("exact", TRUE, OwnPositions, public(st), pseudonym(Wallet[h].seed, st.verifier_input))
  BY <1>3, <1>5, ProvedIsExact, Zenon
<1>10. MadeBy(h, st, made)
  BY <1>2, <1>5, <1>7, <1>8, <1>9, Zenon DEF MadeBy
<1>11. signatures' = signatures
  BY <1>5 DEF signatures
<1>12. MadeBy(p.holder, p.session.statement, p.proof)'
  BY <1>1, <1>6, <1>10, <1>11, Zenon DEF MadeBy
<1>13. SessionsOk' /\ ConsentsOk'
  BY <1>5, Zenon DEF IInv, SessionsOk, ConsentsOk
<1>14. /\ \A x \in proofs : MadeBy(x.holder, x.session.statement, x.proof)'
       /\ \A a \in accepted :
            /\ a.session \in sessions' /\ a.session.verifier \in HonestVerifiers
            /\ PublicOk(a.session.statement)
            /\ ByProof(a.session, a.nym)' \/ ByForgery(a.session, a.nym)'
  BY <1>5, Kept, Zenon
<1>15. ProofsOk'
  BY <1>5, <1>6, <1>12, <1>14, Zenon DEF IInv, ProofsOk
<1>16. AcceptedOk'
  BY <1>5, <1>14, Zenon DEF AcceptedOk
<1>17. QED BY <1>5, <1>13, <1>15, <1>16, Zenon DEF IInv

\* A wallet's proof, whatever has become of its end, is accepted only as it was made and for
\* the statement it was made for; then it is accepted.
LEMMA ReplayAccepted ==
  ASSUME IInv, NEW s \in sessions, NEW p \in proofs, NEW e \in Encodings
  PROVE  /\ verify(s.statement, [p.proof EXCEPT !.encoding = e]) = "OK" <=>
              e = "exact" /\ s.statement = p.session.statement
         /\ [p.proof EXCEPT !.encoding = e].nym =
              pseudonym(Wallet[p.holder].seed, p.session.statement.verifier_input)
<1>1. PICK st : st = s.statement
  OBVIOUS
<1>2. PICK st2 : st2 = p.session.statement
  OBVIOUS
<1>3. PICK nym : nym = pseudonym(Wallet[p.holder].seed, st2.verifier_input)
  OBVIOUS
<1>4. PICK x : x = [p.proof EXCEPT !.encoding = e]
  OBVIOUS
<1>5. MadeBy(p.holder, st2, p.proof)
  BY <1>2, Zenon DEF IInv, ProofsOk
<1>6. p.proof = Proof("exact", TRUE, OwnPositions, public(st2), nym) /\ PublicOk(st2)
  BY <1>3, <1>5, Zenon DEF MadeBy, Provable
<1>7. /\ x.encoding = e /\ x.valid = TRUE /\ x.reported = OwnPositions
      /\ x.public = public(st2) /\ x.nym = nym
  BY <1>4, <1>6 DEF Proof
<1>8. IsStatement(st) /\ IsStatement(st2)
  BY <1>1, <1>2, Zenon DEF IInv, ProofsOk, SessionsOk, IsSession
<1>9. verify(st, x) = "OK" <=> PublicOk(st) /\ e = "exact" /\ public(st2) = public(st)
  BY <1>7, VerifyAccepts, Zenon
<1>10. verify(st, x) = "OK" => e = "exact" /\ st = st2
  BY <1>6, <1>8, <1>9, PublicTellsStatement, Zenon
<1>11. e = "exact" /\ st = st2 => verify(st, x) = "OK"
  BY <1>6, <1>9, Zenon
<1>12. QED BY <1>1, <1>2, <1>3, <1>4, <1>7, <1>10, <1>11, Zenon

LEMMA AcceptKeeps ==
  ASSUME IInv, NEW s \in sessions, NEW proof, Verify(s, proof),
         PublicOk(s.statement), ByProof(s, proof.nym) \/ ByForgery(s, proof.nym)
  PROVE  IInv'
<1>1. PICK a : a = [session |-> s, nym |-> proof.nym]
  OBVIOUS
<1>2. /\ accepted' = accepted \cup {a} /\ UNCHANGED <<clock, sessions, consents, proofs>>
      /\ s.verifier \in HonestVerifiers
  BY <1>1, Zenon DEF Verify
<1>3. a.session = s /\ a.nym = proof.nym
  BY <1>1
<1>4. signatures' = signatures
  BY <1>2 DEF signatures
<1>5. ByProof(a.session, a.nym)' \/ ByForgery(a.session, a.nym)'
  BY <1>2, <1>3, <1>4, Zenon DEF ByProof, ByForgery, Usable
<1>6. /\ \A x \in proofs : MadeBy(x.holder, x.session.statement, x.proof)'
      /\ \A x \in accepted :
           /\ x.session \in sessions' /\ x.session.verifier \in HonestVerifiers
           /\ PublicOk(x.session.statement)
           /\ ByProof(x.session, x.nym)' \/ ByForgery(x.session, x.nym)'
  BY <1>2, Kept, Zenon
<1>7. SessionsOk' /\ ConsentsOk' /\ ProofsOk'
  BY <1>2, <1>6, Zenon DEF IInv, SessionsOk, ConsentsOk, ProofsOk
<1>8. AcceptedOk'
  <2> SUFFICES ASSUME NEW x \in accepted'
               PROVE  /\ x.session \in sessions' /\ x.session.verifier \in HonestVerifiers
                      /\ PublicOk(x.session.statement)
                      /\ ByProof(x.session, x.nym)' \/ ByForgery(x.session, x.nym)'
    BY Zenon DEF AcceptedOk
  <2>1. CASE x \in accepted
    BY <1>6, <2>1, Zenon
  <2>2. CASE x = a
    BY <1>2, <1>3, <1>5, <2>2, Zenon
  <2>3. QED BY <1>2, <2>1, <2>2
<1>9. QED BY <1>2, <1>7, <1>8, Zenon DEF IInv

LEMMA VerifyKeeps ==
  ASSUME IInv, NEW s \in sessions, NEW proof \in Replayed, Verify(s, proof)
  PROVE  IInv'
<1>1. PICK p \in proofs, e \in Encodings : proof = [p.proof EXCEPT !.encoding = e]
  BY DEF Replayed
<1>2. verify(s.statement, proof) = "OK"
  BY DEF Verify
<1>3. /\ s.statement = p.session.statement
      /\ proof.nym = pseudonym(Wallet[p.holder].seed, p.session.statement.verifier_input)
  <2>1. /\ verify(s.statement, [p.proof EXCEPT !.encoding = e]) = "OK" <=>
             e = "exact" /\ s.statement = p.session.statement
        /\ [p.proof EXCEPT !.encoding = e].nym =
             pseudonym(Wallet[p.holder].seed, p.session.statement.verifier_input)
    BY ReplayAccepted
  <2>2. PICK x : x = [p.proof EXCEPT !.encoding = e]
    OBVIOUS
  <2>3. /\ verify(s.statement, x) = "OK" => s.statement = p.session.statement
        /\ x.nym = pseudonym(Wallet[p.holder].seed, p.session.statement.verifier_input)
    BY <2>1, <2>2
  <2>4. x = proof
    BY <1>1, <2>2
  <2>5. QED BY <1>2, <2>3, <2>4, Zenon
<1>4. p.session \in sessions /\ IsSession(s) /\ IsSession(p.session)
  BY Zenon DEF IInv, ProofsOk, SessionsOk
<1>5. p.session = s
  BY <1>3, <1>4, StatementTells, Zenon
<1>6. ByProof(s, proof.nym)
  BY <1>3, <1>5, Zenon DEF ByProof
<1>7. PublicOk(s.statement)
  BY <1>2, VerifyAccepts, Zenon
<1>8. QED BY <1>6, <1>7, AcceptKeeps, Zenon

LEMMA VerifyForgedKeeps ==
  ASSUME IInv, NEW s \in sessions, NEW reported \in Reports, VerifyForged(s, reported)
  PROVE  IInv'
<1>1. PICK st : st = s.statement
  OBVIOUS
<1>2. PICK p : p = public(st)
  OBVIOUS
<1>3. PICK first : first = Proof("exact", TRUE, reported, p, Null)
  OBVIOUS
<1>4. verify(st, first) = "OK"
  BY <1>1, <1>2, <1>3, Zenon DEF VerifyForged
<1>5. PICK w \in Forged(st, reported, s.verifier) :
        Verify(s, Proof("exact", StepRules(w, reported), reported, p, w.digest.nym))
  BY <1>1, <1>2, Zenon DEF VerifyForged
<1>6. first.reported = reported
  BY <1>3 DEF Proof
<1>7. reported = OwnPositions /\ PublicOk(st)
  BY <1>4, <1>6, VerifyAccepts, Zenon
<1>8. PICK ok : ok = StepRules(w, reported)
  OBVIOUS
<1>9. PICK proof : proof = Proof("exact", ok, reported, p, w.digest.nym)
  OBVIOUS
<1>10. proof.nym = w.digest.nym
  BY <1>9 DEF Proof
<1>11. Verify(s, proof)
  BY <1>5, <1>8, <1>9, Zenon
<1>12. s.verifier \in Verifiers
  BY Zenon DEF IInv, SessionsOk, IsSession
<1>13. PICK c \in Issued, seed \in KnownSeeds :
         /\ \E d : Evidence(c, d, seed, st)
         /\ Signature(c.mso.device_key, st.challenge_digest) \in Usable(st.challenge_digest)
         /\ w.digest.nym = pseudonym(seed, st.verifier_input)
  BY <1>5, <1>7, <1>12, ForgedShows, Zenon
<1>14. PICK d : Evidence(c, d, seed, st)
  BY <1>13
<1>15. d \in Births
  BY <1>14, ListedIsBirth, Zenon DEF Evidence
<1>16. ByForgery(s, proof.nym)
  BY <1>1, <1>10, <1>13, <1>14, <1>15, Zenon DEF ByForgery
<1>17. QED BY <1>1, <1>7, <1>11, <1>16, AcceptKeeps, Zenon

LEMMA StutterKeeps == IInv /\ UNCHANGED vars => IInv'
<1> SUFFICES ASSUME IInv, UNCHANGED vars PROVE IInv'
  OBVIOUS
<1>1. UNCHANGED <<clock, sessions, consents, proofs, accepted>>
  BY DEF vars
<1>2. /\ \A x \in proofs : MadeBy(x.holder, x.session.statement, x.proof)'
      /\ \A x \in accepted :
           /\ x.session \in sessions' /\ x.session.verifier \in HonestVerifiers
           /\ PublicOk(x.session.statement)
           /\ ByProof(x.session, x.nym)' \/ ByForgery(x.session, x.nym)'
  BY <1>1, Kept, Zenon
<1>3. SessionsOk' /\ ConsentsOk' /\ ProofsOk' /\ AcceptedOk'
  BY <1>1, <1>2, Zenon DEF IInv, SessionsOk, ConsentsOk, ProofsOk, AcceptedOk
<1>4. QED BY <1>1, <1>3, Zenon DEF IInv

LEMMA Invariance == Spec => []IInv
<1>1. IInv /\ [Next]_vars => IInv'
  BY TickKeeps, RequestKeeps, SignKeeps, ProveKeeps, VerifyKeeps, VerifyForgedKeeps,
     StutterKeeps, Zenon DEF Next
<1>2. QED BY <1>1, InitIInv, PTL DEF Spec

-----------------------------------------------------------------------------
(* What the invariant shows.                                               *)

\* Behind a wallet's proof is a credential in circulation with the wallet's own message.
LEMMA ProvedShows ==
  ASSUME IInv, NEW p \in proofs
  PROVE  \E c \in Issued, d \in Births :
           /\ Evidence(c, d, Wallet[p.holder].seed, p.session.statement)
           /\ c.mso.device_key = Wallet[p.holder].device_key
           /\ Signature(c.mso.device_key, p.session.statement.challenge_digest) \in signatures
<1>1. PICK h : h = p.holder
  OBVIOUS
<1>2. PICK st : st = p.session.statement
  OBVIOUS
<1>3. PICK mdoc : mdoc = Wallet[h].issuer_signed
  OBVIOUS
<1>4. PICK seed : seed = Wallet[h].seed
  OBVIOUS
<1>5. /\ Provable(st, mdoc, seed)
      /\ mdoc.mso.device_key = Wallet[h].device_key
      /\ Signature(mdoc.mso.device_key, st.challenge_digest) \in signatures
  BY <1>1, <1>2, <1>3, <1>4, Zenon DEF IInv, ProofsOk, MadeBy
<1>6. st.issuer_key = TrustedKey /\ h \in Holders
  BY <1>1, <1>2, Zenon DEF IInv, ProofsOk, SessionsOk, IsSession
<1>7. SignedBy(TrustedKey, mdoc)
  BY <1>5, <1>6, Zenon DEF Provable
<1>8. PICK c \in Issued : c.mso = mdoc.mso /\ c.signature = mdoc.signature
  BY <1>3, <1>6, <1>7, IssuanceAssumption, Zenon
<1>9. SignedBy(st.issuer_key, c)
  BY <1>6, <1>7, <1>8, Zenon DEF SignedBy
<1>10. sha256("item", item(birth_date_element, BirthOf(mdoc))) \in c.mso.digests
  BY <1>5, <1>8, Zenon DEF Provable, Listed, BirthOf
<1>11. Commits(c, seed)
  BY <1>5, <1>8, Zenon DEF Provable, Listed, SscOf, Commits
<1>12. Evidence(c, BirthOf(mdoc), seed, st)
  BY <1>5, <1>8, <1>9, <1>10, <1>11, Zenon DEF Provable, Evidence
<1>13. BirthOf(mdoc) \in Births
  BY <1>10, ListedIsBirth, Zenon
<1>14. QED BY <1>1, <1>2, <1>4, <1>5, <1>8, <1>12, <1>13, Zenon

LEMMA AcceptedShows ==
  ASSUME IInv, NEW a \in accepted
  PROVE  \E c \in Issued, d \in Births, seed \in Seeds :
           /\ Evidence(c, d, seed, a.session.statement)
           /\ Signature(c.mso.device_key, a.session.statement.challenge_digest)
                \in Usable(a.session.statement.challenge_digest)
           /\ a.nym = pseudonym(seed, a.session.statement.verifier_input)
<1>1. PICK st : st = a.session.statement
  OBVIOUS
<1>2. ByProof(a.session, a.nym) \/ ByForgery(a.session, a.nym)
  BY Zenon DEF IInv, AcceptedOk
<1>3. CASE ByProof(a.session, a.nym)
  <2>1. PICK p \in proofs :
          p.session = a.session /\ a.nym = pseudonym(Wallet[p.holder].seed, st.verifier_input)
    BY <1>1, <1>3, Zenon DEF ByProof
  <2>2. PICK c \in Issued, d \in Births :
          /\ Evidence(c, d, Wallet[p.holder].seed, st)
          /\ Signature(c.mso.device_key, st.challenge_digest) \in signatures
    BY <1>1, <2>1, ProvedShows, Zenon
  <2>3. Wallet[p.holder].seed \in Seeds
    BY DEF IInv, ProofsOk, Seeds
  <2>4. Signature(c.mso.device_key, st.challenge_digest) \in Usable(st.challenge_digest)
    BY <2>2, Zenon DEF Usable
  <2>5. QED BY <1>1, <2>1, <2>2, <2>3, <2>4, Zenon
<1>4. CASE ByForgery(a.session, a.nym)
  <2>1. KnownSeeds \subseteq Seeds
    BY DEF Seeds
  <2>2. QED BY <1>4, <2>1, Zenon DEF ByForgery
<1>5. QED BY <1>2, <1>3, <1>4, Zenon

\* The trusted issuer's message commits to one seed.
LEMMA OneSeed ==
  ASSUME NEW c \in Issued, NEW x, NEW y,
         sha256("item", item(ssc_element, x)) \in c.mso.digests,
         sha256("item", item(ssc_element, y)) \in c.mso.digests
  PROVE  x = y
<1>1. ASSUME NEW z, sha256("item", item(ssc_element, z)) \in c.mso.digests
      PROVE  z = c.items[ssc_element]
  <2>1. PICK n \in DOMAIN c.items :
          sha256("item", item(ssc_element, z)) = sha256("item", item(n, c.items[n]))
    BY <1>1, IssuanceAssumption
  <2>2. item(ssc_element, z) = item(n, c.items[n])
    BY <2>1 DEF sha256
  <2>3. n = ssc_element /\ z = c.items[n]
    BY <2>2 DEF item
  <2>4. QED BY <2>3, Zenon
<1>2. QED BY <1>1

\* A signature of a holder's device on the challenge of an honest verifier's session is a
\* consent to that session.
LEMMA SignatureIsConsent ==
  ASSUME IInv, NEW s \in sessions, s.verifier \in HonestVerifiers, NEW key,
         Signature(key, s.statement.challenge_digest) \in signatures
  PROVE  /\ [device_key |-> key, session |-> s] \in consents
         /\ \E h \in Holders : key = Wallet[h].device_key
<1>1. PICK c \in consents :
        Signature(key, s.statement.challenge_digest) =
          Signature(c.device_key, c.session.statement.challenge_digest)
  BY DEF signatures
<1>2. key = c.device_key /\ s.statement.challenge_digest = c.session.statement.challenge_digest
  BY <1>1 DEF Signature
<1>3. /\ c = [device_key |-> c.device_key, session |-> c.session]
      /\ c.session \in sessions /\ \E h \in Holders : c.device_key = Wallet[h].device_key
  BY Zenon DEF IInv, ConsentsOk
<1>4. IsSession(s) /\ IsSession(c.session)
  BY <1>3, Zenon DEF IInv, SessionsOk
<1>5. s.verifier = c.session.verifier /\ s.nonce = c.session.nonce
  BY <1>2, <1>4, ChallengeTells, Zenon
<1>6. s = c.session
  BY <1>3, <1>5, Zenon DEF IInv, SessionsOk
<1>7. QED BY <1>2, <1>3, <1>6, Zenon

-----------------------------------------------------------------------------
(* The theorems.                                                           *)

\* The type invariant: no session with a short nonce, no consent or proof but a holder's for
\* a request that was issued, nothing accepted but by an honest verifier.
THEOREM TypeCorrect == Spec => []TypeOK
<1>1. IInv => TypeOK
  <2> SUFFICES ASSUME IInv PROVE TypeOK
    OBVIOUS
  <2>1. clock \in 1..Len(Moments)
    BY DEF IInv
  <2>2. \A s \in sessions : s.verifier \in Verifiers /\ s.nonce \in Nonces \ ShortNonces
    BY Zenon DEF IInv, SessionsOk, IsSession
  <2>3. \A c \in consents : c.session \in sessions /\ \E h \in Holders : c.device_key = Wallet[h].device_key
    BY Zenon DEF IInv, ConsentsOk
  <2>4. \A p \in proofs : p.holder \in Holders /\ p.session \in sessions
    BY Zenon DEF IInv, ProofsOk
  <2>5. \A a \in accepted : a.session \in sessions /\ a.session.verifier \in HonestVerifiers
    BY Zenon DEF IInv, AcceptedOk
  <2>6. QED BY <2>1, <2>2, <2>3, <2>4, <2>5 DEF TypeOK
<1>2. QED BY <1>1, Invariance, PTL

\* Whatever reaches a verifier, `verify` returns a pseudonym only for one genuine credential
\* that shows the issuer's signature, the age, the validity, the device and the seed together.
THEOREM AcceptedIsAuthenticAlways == Spec => []AcceptedIsAuthentic
<1>1. IInv => AcceptedIsAuthentic
  <2> SUFFICES ASSUME IInv, NEW a \in accepted
               PROVE  LET st == a.session.statement
                      IN  \E c \in Issued, d \in Births, seed \in Seeds :
                            /\ Genuine(c, st)
                            /\ sha256("item", item(birth_date_element, d)) \in c.mso.digests
                            /\ BornInRange(d, st)
                            /\ Signature(c.mso.device_key, st.challenge_digest)
                                 \in Usable(st.challenge_digest)
                            /\ Commits(c, seed)
                            /\ a.nym = pseudonym(seed, verifier_input(a.session.verifier))
    BY Zenon DEF AcceptedIsAuthentic
  <2>1. PICK st : st = a.session.statement
    OBVIOUS
  <2>2. PICK c \in Issued, d \in Births, seed \in Seeds :
          /\ Evidence(c, d, seed, st)
          /\ Signature(c.mso.device_key, st.challenge_digest) \in Usable(st.challenge_digest)
          /\ a.nym = pseudonym(seed, st.verifier_input)
    BY <2>1, AcceptedShows, Zenon
  <2>3. /\ SignedBy(st.issuer_key, c) /\ Asked(c.mso, d, st) /\ Commits(c, seed)
        /\ sha256("item", item(birth_date_element, d)) \in c.mso.digests
    BY <2>2, Zenon DEF Evidence
  <2>4. Genuine(c, st)
    BY <2>3, Zenon DEF Genuine, Asked
  <2>5. /\ st.earliest \in Dates /\ st.cutoff \in Dates /\ check_range(st.earliest, st.cutoff)
        /\ st.verifier_input = verifier_input(a.session.verifier)
    BY <2>1, Zenon DEF IInv, AcceptedOk, SessionsOk, IsSession, IsStatement, PublicOk
  <2>6. RealDay(d)
    BY <2>3, ListedIsBirth, Zenon
  <2>7. /\ Within(digits(d) - BornFrom(st.earliest))
        /\ Within(digits(date(st.cutoff)) - digits(d))
    BY <2>3, Zenon DEF Asked
  <2>8. BornInRange(d, st)
    BY <2>5, <2>6, <2>7, DigitsAreDays, Zenon
  <2>9. QED BY <2>1, <2>2, <2>3, <2>4, <2>5, <2>8, Zenon
<1>2. QED BY <1>1, Invariance, PTL

\* A proof `prove` returned is accepted by `verify` for its own statement, later and elsewhere
\* too, and for no other; cut or with bytes after its end it is never accepted.
THEOREM HonestProofsAreAcceptedAlways == Spec => []HonestProofsAreAccepted
<1>1. IInv => HonestProofsAreAccepted
  BY ReplayAccepted DEF HonestProofsAreAccepted
<1>2. QED BY <1>1, Invariance, PTL

\* Each wallet draws its secret seed for itself.
SeedsAreOwn == \A g, h \in Holders : Wallet[g].seed = Wallet[h].seed => g = h

\* With seeds of their own, a holder's pseudonym is accepted only in a session the holder
\* called `prove` for, unless the seed got out.
THEOREM HonestNymsAreProvedForAlways ==
  ASSUME SeedsAreOwn
  PROVE  Spec => []HonestNymsAreProvedFor
<1>1. IInv => HonestNymsAreProvedFor
  <2> SUFFICES ASSUME IInv, NEW a \in accepted, NEW h \in Holders,
                      a.nym = pseudonym(Wallet[h].seed, verifier_input(a.session.verifier)),
                      Wallet[h].seed \notin KnownSeeds
               PROVE  \E p \in proofs : p.holder = h /\ p.session = a.session
    BY Zenon DEF HonestNymsAreProvedFor
  <2>1. ByProof(a.session, a.nym) \/ ByForgery(a.session, a.nym)
    BY Zenon DEF IInv, AcceptedOk
  <2>2. ~ByForgery(a.session, a.nym)
    <3> SUFFICES ASSUME ByForgery(a.session, a.nym) PROVE FALSE
      OBVIOUS
    <3>1. PICK seed \in KnownSeeds :
            a.nym = pseudonym(seed, a.session.statement.verifier_input)
      BY Zenon DEF ByForgery
    <3>2. QED BY <3>1 DEF pseudonym, sha256, NymMessage
  <2>3. PICK p \in proofs :
          /\ p.session = a.session
          /\ a.nym = pseudonym(Wallet[p.holder].seed, a.session.statement.verifier_input)
    BY <2>1, <2>2, Zenon DEF ByProof
  <2>4. Wallet[p.holder].seed = Wallet[h].seed /\ p.holder \in Holders
    <3>1. p.holder \in Holders
      BY Zenon DEF IInv, ProofsOk
    <3>2. QED BY <2>3, <3>1 DEF pseudonym, sha256, NymMessage
  <2>5. QED BY <2>3, <2>4, Zenon DEF SeedsAreOwn
<1>2. QED BY <1>1, Invariance, PTL

\* The trusted issuer puts a holder's commitment only in messages that name the holder's
\* device, and no one else can sign with that device.
SeedsComeWithDevices ==
  \A h \in Holders :
    /\ Wallet[h].device_key \notin OwnDevices
    /\ \A c \in Issued : SignedBy(TrustedKey, c) /\ Commits(c, Wallet[h].seed) =>
         c.mso.device_key = Wallet[h].device_key

\* Then no session accepts a holder's pseudonym unless the holder's device signed for that
\* session, known seed or not: the challenge `derive` makes is of one session.
THEOREM ConsentIsForTheSessionAlways ==
  ASSUME SeedsComeWithDevices
  PROVE  Spec => []ConsentIsForTheSession
<1>1. IInv => ConsentIsForTheSession
  <2> SUFFICES ASSUME IInv, NEW a \in accepted, NEW h \in Holders,
                      a.nym = pseudonym(Wallet[h].seed, verifier_input(a.session.verifier))
               PROVE  [device_key |-> Wallet[h].device_key, session |-> a.session] \in consents
    BY Zenon DEF ConsentIsForTheSession
  <2>1. PICK st : st = a.session.statement
    OBVIOUS
  <2>2. PICK c \in Issued, d \in Births, seed \in Seeds :
          /\ Evidence(c, d, seed, st)
          /\ Signature(c.mso.device_key, st.challenge_digest) \in Usable(st.challenge_digest)
          /\ a.nym = pseudonym(seed, st.verifier_input)
    BY <2>1, AcceptedShows, Zenon
  <2>3. seed = Wallet[h].seed
    BY <2>2 DEF pseudonym, sha256, NymMessage
  <2>4. a.session \in sessions /\ a.session.verifier \in HonestVerifiers
    BY Zenon DEF IInv, AcceptedOk
  <2>5. st.issuer_key = TrustedKey
    BY <2>1, <2>4, Zenon DEF IInv, SessionsOk, IsSession
  <2>6. c.mso.device_key = Wallet[h].device_key /\ Wallet[h].device_key \notin OwnDevices
    BY <2>2, <2>3, <2>5, Zenon DEF Evidence, SeedsComeWithDevices
  <2>7. Signature(Wallet[h].device_key, st.challenge_digest) \in signatures
    <3>1. ASSUME NEW e \in OwnDevices,
                 Signature(Wallet[h].device_key, st.challenge_digest) =
                   Signature(e, st.challenge_digest)
          PROVE  FALSE
      BY <2>6, <3>1 DEF Signature
    <3>2. QED BY <2>2, <2>6, <3>1, Zenon DEF Usable
  <2>8. QED BY <2>1, <2>4, <2>7, SignatureIsConsent, Zenon
<1>2. QED BY <1>1, Invariance, PTL

\* A message of the trusted issuer that names a holder's device has a holder's commitment.
DevicesComeWithSeeds ==
  \A h \in Holders, c \in Issued :
    SignedBy(TrustedKey, c) /\ c.mso.device_key = Wallet[h].device_key =>
      \E g \in Holders : Commits(c, Wallet[g].seed)

\* Then an honest verifier meets, besides the holders', at most one pseudonym for each
\* credential of the trusted issuer on a device of the adversary's.
THEOREM NymsAreBoundByCredentialsAlways ==
  ASSUME DevicesComeWithSeeds
  PROVE  Spec => []NymsAreBoundByCredentials
<1>1. IInv => NymsAreBoundByCredentials
  <2> SUFFICES ASSUME IInv, NEW v \in HonestVerifiers
               PROVE  LET met == {a.nym : a \in {x \in accepted : x.session.verifier = v}}
                          holders == {pseudonym(Wallet[h].seed, verifier_input(v)) : h \in Holders}
                          bought == {c \in Issued : /\ SignedBy(TrustedKey, c)
                                                    /\ c.mso.device_key \in OwnDevices}
                      IN  Cardinality(met \ holders) <= Cardinality(bought)
    BY Zenon DEF NymsAreBoundByCredentials
  <2> DEFINE met == {a.nym : a \in {x \in accepted : x.session.verifier = v}}
             holders == {pseudonym(Wallet[h].seed, verifier_input(v)) : h \in Holders}
             bought == {c \in Issued : SignedBy(TrustedKey, c) /\ c.mso.device_key \in OwnDevices}
             nymOf == [c \in bought |-> pseudonym(CHOOSE k : Commits(c, k), verifier_input(v))]
             names == {nymOf[c] : c \in bought}
  <2>1. ASSUME NEW nym \in met \ holders
        PROVE  \E c \in bought : nym = nymOf[c]
    <3>1. PICK a \in accepted : a.session.verifier = v /\ a.nym = nym
      BY <2>1
    <3>2. PICK st : st = a.session.statement
      OBVIOUS
    <3>3. PICK c \in Issued, d \in Births, seed \in Seeds :
            /\ Evidence(c, d, seed, st)
            /\ Signature(c.mso.device_key, st.challenge_digest) \in Usable(st.challenge_digest)
            /\ a.nym = pseudonym(seed, st.verifier_input)
      BY <3>2, AcceptedShows, Zenon
    <3>4. a.session \in sessions /\ a.session.verifier \in HonestVerifiers
      BY Zenon DEF IInv, AcceptedOk
    <3>5. st.issuer_key = TrustedKey /\ st.verifier_input = verifier_input(v)
      BY <3>1, <3>2, <3>4, Zenon DEF IInv, SessionsOk, IsSession
    <3>6. SignedBy(TrustedKey, c) /\ Commits(c, seed)
      BY <3>3, <3>5, Zenon DEF Evidence
    <3>7. \A k : Commits(c, k) => k = seed
      <4> SUFFICES ASSUME NEW k, Commits(c, k) PROVE k = seed
        OBVIOUS
      <4>1. sha256("seed", k) = sha256("seed", seed)
        BY <3>6, OneSeed, Zenon DEF Commits
      <4>2. QED BY <4>1 DEF sha256
    <3>8. c.mso.device_key \in OwnDevices
      <4>1. CASE Signature(c.mso.device_key, st.challenge_digest) \in signatures
        <5>1. PICK h \in Holders : c.mso.device_key = Wallet[h].device_key
          BY <3>2, <3>4, <4>1, SignatureIsConsent, Zenon
        <5>2. PICK g \in Holders : Commits(c, Wallet[g].seed)
          BY <3>6, <5>1, Zenon DEF DevicesComeWithSeeds
        <5>3. seed = Wallet[g].seed
          BY <3>7, <5>2, Zenon
        <5>4. nym = pseudonym(Wallet[g].seed, verifier_input(v))
          BY <3>1, <3>3, <3>5, <5>3, Zenon
        <5>5. QED BY <2>1, <5>4
      <4>2. CASE \E e \in OwnDevices : Signature(c.mso.device_key, st.challenge_digest) =
                                        Signature(e, st.challenge_digest)
        BY <4>2 DEF Signature
      <4>3. QED BY <3>3, <4>1, <4>2, Zenon DEF Usable
    <3>9. c \in bought
      BY <3>6, <3>8
    <3>10. (CHOOSE k : Commits(c, k)) = seed
      BY <3>6, <3>7, Zenon
    <3>11. QED BY <3>1, <3>3, <3>5, <3>9, <3>10, Zenon
  <2>2. IsFiniteSet(bought)
    BY IssuanceAssumption, FS_Subset
  <2> HIDE DEF met, holders, bought
  <2>3. nymOf \in Surjection(bought, names)
    BY DEF Surjection
  <2> HIDE DEF nymOf
  <2>4. IsFiniteSet(names) /\ Cardinality(names) <= Cardinality(bought)
    BY <2>2, <2>3, FS_Surjection, Zenon
  <2>5. met \ holders \in SUBSET names
    BY <2>1
  <2>6. Cardinality(met \ holders) <= Cardinality(names) /\ IsFiniteSet(met \ holders)
    BY <2>4, <2>5, FS_Subset, Zenon
  <2>7. Cardinality(met \ holders) <= Cardinality(bought)
    BY <2>2, <2>4, <2>6, FS_CardinalityType
  <2>8. QED BY <2>7 DEF met, holders, bought
<1>2. QED BY <1>1, Invariance, PTL

\* The coarse code of `prove` tells the wallet what is missing: the device signature alone,
\* the seed, or a credential that no seed and no signature would help.
THEOREM RefusalTellsCauseAlways == Spec => []RefusalTellsCause
<1>1. IInv => RefusalTellsCause
  <2> SUFFICES ASSUME IInv, NEW h \in Holders, NEW s \in sessions, NEW sig \in signatures
               PROVE  LET st == s.statement
                          mdoc == Wallet[h].issuer_signed
                          right == Signature(mdoc.mso.device_key, st.challenge_digest)
                          code == prove(st, mdoc, Wallet[h].seed, sig)
                      IN  /\ code = "DeviceSignature" => prove(st, mdoc, Wallet[h].seed, right) = "OK"
                          /\ code = "SeedMismatch" =>
                               SignedBy(st.issuer_key, mdoc) /\ ~Commits(mdoc, Wallet[h].seed)
                          /\ code \in {"Credential", "IssuerSignature"} =>
                               \A seed \in Seeds : prove(st, mdoc, seed, right) # "OK"
                          /\ code # "ProverFailed"
    BY Zenon DEF RefusalTellsCause
  <2>1. PICK st : st = s.statement
    OBVIOUS
  <2>2. PICK mdoc : mdoc = Wallet[h].issuer_signed
    OBVIOUS
  <2>3. PICK own : own = Wallet[h].seed
    OBVIOUS
  <2>4. PICK right : right = Signature(mdoc.mso.device_key, st.challenge_digest)
    OBVIOUS
  <2>5. PICK code : code = prove(st, mdoc, own, sig)
    OBVIOUS
  <2>6. Refuses(st, mdoc, own, code)
    BY <2>5, ProveRefuses, Zenon
  <2>7. ASSUME code = "DeviceSignature" PROVE prove(st, mdoc, own, right) = "OK"
    <3>1. Provable(st, mdoc, own)
      BY <2>6, <2>7, Zenon DEF Refuses
    <3>2. st.challenge_digest # WrongLength
      BY <3>1, Zenon DEF Provable, PublicOk
    <3>3. right # WrongSignature
      BY <2>4, <3>2 DEF WrongSignature, Signature
    <3>4. QED BY <2>4, <3>1, <3>3, ProveAnswers, Zenon
  <2>8. ASSUME code = "SeedMismatch"
        PROVE  SignedBy(st.issuer_key, mdoc) /\ ~Commits(mdoc, own)
    <3>1. SignedBy(st.issuer_key, mdoc) /\ Listed(mdoc) /\ sha256("seed", own) # SscOf(mdoc)
      BY <2>6, <2>8, Zenon DEF Refuses
    <3>2. st.issuer_key = TrustedKey
      BY <2>1, Zenon DEF IInv, SessionsOk, IsSession
    <3>3. PICK c \in Issued : c.mso = mdoc.mso
      BY <2>2, <3>1, <3>2, IssuanceAssumption, Zenon
    <3>4. sha256("item", item(ssc_element, SscOf(mdoc))) \in c.mso.digests
      BY <3>1, <3>3, Zenon DEF Listed, SscOf
    <3>5. ~Commits(mdoc, own)
      BY <3>1, <3>3, <3>4, OneSeed, Zenon DEF Commits
    <3>6. QED BY <3>1, <3>5
  <2>9. ASSUME code \in {"Credential", "IssuerSignature"}
        PROVE  \A seed \in Seeds : prove(st, mdoc, seed, right) # "OK"
    <3>1. ~(SignedBy(st.issuer_key, mdoc) /\ Listed(mdoc) /\ Asked(mdoc.mso, BirthOf(mdoc), st))
      BY <2>6, <2>9, Zenon DEF Refuses
    <3>2. \A seed : ~Provable(st, mdoc, seed)
      BY <3>1, Zenon DEF Provable
    <3>3. QED BY <3>2, ProveAnswers, Zenon
  <2>10. code # "ProverFailed"
    BY <2>6, Zenon DEF Refuses
  <2>11. QED BY <2>1, <2>2, <2>3, <2>4, <2>5, <2>7, <2>8, <2>9, <2>10, Zenon
<1>2. QED BY <1>1, Invariance, PTL
=============================================================================
