--------------------------- MODULE MdocAgeProofs ---------------------------
(***************************************************************************)
(* An accepted age proof means what its verifier asked, for any names,     *)
(* items, credentials, devices and sessions that IssuedAssumption allows   *)
(* and any witness: the literals the circuit looks for stand once in the   *)
(* signed bytes, so every witnessed offset is the real one, and the walk   *)
(* over a namespace's entries ends where the issuer's namespace ends.      *)
(* And, the other way round, a wallet that is entitled to a proof and      *)
(* within the circuit's budgets is accepted: what it locates is there.     *)
(***************************************************************************)
EXTENDS MdocAge, SequenceTheorems, WellFoundedInduction, TLAPS

-----------------------------------------------------------------------------
(* Bytes that stand at an offset.                                          *)

\* The cells p stand in u behind its first `at` cells.
Holds(u, at, p) ==
  /\ at \in Nat /\ at + Len(p) <= Len(u)
  /\ \A k \in 1..Len(p) : u[at + k] = p[k]

\* The cell x stands in u nowhere, and nowhere but behind its first `at` cells.
Absent(u, x) == \A k \in 1..Len(u) : u[k] # x
OnlyAt(u, x, at) == \A k \in 1..Len(u) : u[k] = x => k = at + 1

\* u is a string of cells with these tags.
Tagged(u, T) == u \in Seq(Cell) /\ \A k \in 1..Len(u) : u[k][1] \in T

\* v is u followed by t.
Appended(v, u, t) ==
  /\ v \in Seq(Cell) /\ Len(v) = Len(u) + Len(t)
  /\ \A k \in 1..Len(u) + Len(t) : v[k] = IF k <= Len(u) THEN u[k] ELSE t[k - Len(u)]

LEMMA Append2 ==
  ASSUME NEW u \in Seq(Cell), NEW t \in Seq(Cell)
  PROVE  Appended(u \o t, u, t) /\ Len(u) \in Nat /\ Len(t) \in Nat
<1>1. Appended(u \o t, u, t)
  <2> HIDE DEF Cell
  <2>1. QED BY ConcatProperties, Zenon DEF Appended
<1>2. QED BY <1>1, LenProperties

\* What stands in the parts of a concatenation stands in it.
LEMMA HoldsIn ==
  ASSUME NEW u \in Seq(Cell), NEW t \in Seq(Cell), NEW v, Appended(v, u, t), NEW p \in Seq(Cell), NEW a
  PROVE  /\ Holds(u, a, p) => Holds(v, a, p)
         /\ Holds(t, a, p) => Holds(v, Len(u) + a, p)
<1>0. Len(u) \in Nat /\ Len(t) \in Nat /\ Len(p) \in Nat
  BY LenProperties
<1>1. ASSUME Holds(u, a, p) PROVE Holds(v, a, p)
  <2>1. a \in Nat /\ a + Len(p) <= Len(v)
    BY <1>0, <1>1 DEF Holds, Appended
  <2>2. ASSUME NEW k \in 1..Len(p) PROVE v[a + k] = p[k]
    <3>1. a + k \in 1..Len(u) + Len(t) /\ a + k <= Len(u)
      BY <1>0, <1>1 DEF Holds
    <3>2. v[a + k] = u[a + k]
      BY <3>1, Zenon DEF Appended
    <3>3. QED BY <1>1, <3>2, Zenon DEF Holds
  <2>3. QED BY <2>1, <2>2, Zenon DEF Holds
<1>2. ASSUME Holds(t, a, p) PROVE Holds(v, Len(u) + a, p)
  <2>1. Len(u) + a \in Nat /\ (Len(u) + a) + Len(p) <= Len(v)
    BY <1>0, <1>2 DEF Holds, Appended
  <2>2. ASSUME NEW k \in 1..Len(p) PROVE v[(Len(u) + a) + k] = p[k]
    <3>1. /\ (Len(u) + a) + k \in 1..Len(u) + Len(t) /\ ~((Len(u) + a) + k <= Len(u))
          /\ ((Len(u) + a) + k) - Len(u) = a + k
      BY <1>0, <1>2 DEF Holds
    <3>2. v[(Len(u) + a) + k] = t[((Len(u) + a) + k) - Len(u)]
      BY <3>1, Zenon DEF Appended
    <3>3. QED BY <1>2, <3>1, <3>2, Zenon DEF Holds
  <2>3. QED BY <2>1, <2>2, Zenon DEF Holds
<1>3. QED BY <1>1, <1>2, Zenon

LEMMA HoldsItself ==
  ASSUME NEW u \in Seq(Cell)
  PROVE  Holds(u, 0, u)
<1>1. Len(u) \in Nat
  BY LenProperties
<1>2. \A k \in 1..Len(u) : 0 + k = k
  BY <1>1
<1>3. QED BY <1>1, <1>2 DEF Holds

\* What stands in what stands in u.
LEMMA HoldsPart ==
  ASSUME NEW u \in Seq(Cell), NEW v \in Seq(Cell), NEW p \in Seq(Cell), NEW a, NEW b,
         Holds(u, a, v), Holds(v, b, p)
  PROVE  Holds(u, a + b, p)
<1>0. Len(u) \in Nat /\ Len(v) \in Nat /\ Len(p) \in Nat /\ a \in Nat /\ b \in Nat
  BY LenProperties DEF Holds
<1>1. a + Len(v) <= Len(u) /\ b + Len(p) <= Len(v)
  BY DEF Holds
<1>2. a + b \in Nat /\ (a + b) + Len(p) <= Len(u)
  BY <1>0, <1>1
<1>3. ASSUME NEW k \in 1..Len(p) PROVE u[(a + b) + k] = p[k]
  <2>1. b + k \in 1..Len(v) /\ (a + b) + k = a + (b + k)
    BY <1>0, <1>1
  <2>2. u[a + (b + k)] = v[b + k]
    BY <2>1, Zenon DEF Holds
  <2>3. v[b + k] = p[k]
    BY Zenon DEF Holds
  <2>4. QED BY <2>1, <2>2, <2>3, Zenon
<1>4. QED BY <1>2, <1>3, Zenon DEF Holds

LEMMA AbsentIn ==
  ASSUME NEW u \in Seq(Cell), NEW t \in Seq(Cell), NEW v, Appended(v, u, t), NEW x, NEW a \in Nat
  PROVE  /\ Absent(u, x) /\ Absent(t, x) => Absent(v, x)
         /\ OnlyAt(u, x, a) /\ Absent(t, x) => OnlyAt(v, x, a)
         /\ Absent(u, x) /\ OnlyAt(t, x, a) => OnlyAt(v, x, Len(u) + a)
<1>0. Len(u) \in Nat /\ Len(t) \in Nat /\ Len(v) = Len(u) + Len(t)
  BY LenProperties DEF Appended
<1>1. ASSUME NEW k \in 1..Len(v)
      PROVE  \/ k \in 1..Len(u) /\ v[k] = u[k]
             \/ k - Len(u) \in 1..Len(t) /\ v[k] = t[k - Len(u)] /\ k \in Int
  <2>1. v[k] = IF k <= Len(u) THEN u[k] ELSE t[k - Len(u)]
    BY <1>0, Zenon DEF Appended
  <2>2. CASE k <= Len(u)
    BY <1>0, <2>1, <2>2
  <2>3. CASE ~(k <= Len(u))
    BY <1>0, <2>1, <2>3
  <2>4. QED BY <2>2, <2>3
<1>2. Absent(u, x) /\ Absent(t, x) => Absent(v, x)
  BY <1>1, Zenon DEF Absent
<1>3. OnlyAt(u, x, a) /\ Absent(t, x) => OnlyAt(v, x, a)
  BY <1>1, Zenon DEF Absent, OnlyAt
<1>4. ASSUME Absent(u, x), OnlyAt(t, x, a), NEW k \in 1..Len(v), v[k] = x PROVE k = (Len(u) + a) + 1
  <2>1. k - Len(u) = a + 1 /\ k \in Int
    BY <1>1, <1>4, Zenon DEF Absent, OnlyAt
  <2>2. QED BY <1>0, <2>1
<1>5. QED BY <1>2, <1>3, <1>4, Zenon DEF OnlyAt

\* A cell is absent where its tag is.
LEMMA TagAbsent ==
  ASSUME NEW T, NEW u, Tagged(u, T), NEW t, NEW n, t \notin T
  PROVE  Absent(u, <<t, n>>)
<1>1. <<t, n>>[1] = t
  OBVIOUS
<1>2. QED BY <1>1, Zenon DEF Absent, Tagged

LEMMA TaggedIn ==
  ASSUME NEW u, NEW t, NEW S, NEW T, Tagged(u, S), Tagged(t, T)
  PROVE  Tagged(u \o t, S \cup T)
<1>0. u \in Seq(Cell) /\ t \in Seq(Cell)
  BY DEF Tagged
<1>1. Appended(u \o t, u, t) /\ Len(u) \in Nat /\ Len(t) \in Nat
  BY <1>0, Append2
<1>2. PICK v : v = u \o t
  OBVIOUS
<1>3. Appended(v, u, t) /\ v \in Seq(Cell) /\ Len(v) = Len(u) + Len(t)
  BY <1>1, <1>2 DEF Appended
<1>4. ASSUME NEW k \in 1..Len(v) PROVE v[k][1] \in S \cup T
  <2>1. v[k] = IF k <= Len(u) THEN u[k] ELSE t[k - Len(u)]
    BY <1>3, Zenon DEF Appended
  <2>2. CASE k <= Len(u)
    <3>1. k \in 1..Len(u)
      BY <1>1, <2>2
    <3>2. QED BY <2>1, <2>2, <3>1, Zenon DEF Tagged
  <2>3. CASE ~(k <= Len(u))
    <3>1. k - Len(u) \in 1..Len(t)
      BY <1>1, <1>3, <2>3
    <3>2. QED BY <2>1, <2>3, <3>1, Zenon DEF Tagged
  <2>4. QED BY <2>2, <2>3
<1>5. QED BY <1>2, <1>3, <1>4, Zenon DEF Tagged

\* BytesAt reads what stands there.
LEMMA Read ==
  ASSUME NEW u \in Seq(Cell), NEW p \in Seq(Cell), NEW at \in Nat, NEW n \in Nat, n = Len(p), at + n <= Len(u)
  PROVE  BytesAt(u, at, n) = p <=> Holds(u, at, p)
<1>0. Len(u) \in Nat /\ \A i \in 1..Len(u) : u[i] \in Cell
  BY LenProperties, ElementOfSeq
<1>1. at + 1 \in Int /\ at + n \in Int /\ \A i \in at + 1..at + n : u[i] \in Cell
  BY <1>0
<1>2. PICK s : s = SubSeq(u, at + 1, at + n)
  OBVIOUS
<1>3. /\ s \in Seq(Cell)
      /\ Len(s) = IF at + 1 <= at + n THEN ((at + n) - (at + 1)) + 1 ELSE 0
      /\ \A i \in 1..((at + n) - (at + 1)) + 1 : s[i] = u[(at + 1) + (i - 1)]
  <2> HIDE DEF Cell
  <2>1. QED BY <1>1, <1>2, SubSeqProperties, SMT
<1>4. Len(s) = n /\ \A i \in 1..n : s[i] = u[at + i]
  <2>1. Len(s) = n /\ ((at + n) - (at + 1)) + 1 = n
    BY <1>3
  <2>2. ASSUME NEW i \in 1..n PROVE s[i] = u[at + i]
    <3>1. (at + 1) + (i - 1) = at + i
      OBVIOUS
    <3>2. QED BY <1>3, <2>1, <3>1, Zenon
  <2>3. QED BY <2>1, <2>2
<1>5. s = p => Holds(u, at, p)
  BY <1>4, Zenon DEF Holds
<1>6. Holds(u, at, p) => s = p
  <2> HIDE DEF Cell
  <2>1. ASSUME Holds(u, at, p) PROVE \A i \in 1..Len(s) : s[i] = p[i]
    BY <1>4, <2>1, Zenon DEF Holds
  <2>2. QED BY <1>3, <1>4, <2>1, SeqEqual, Zenon
<1>7. QED BY <1>2, <1>5, <1>6, Zenon DEF BytesAt
-----------------------------------------------------------------------------
(* The pieces that signed bytes are made of.                               *)

\* v is u followed by t, both strings of cells, and both stand in it.
Joined(v, u, t) ==
  /\ v \in Seq(Cell) /\ u \in Seq(Cell) /\ t \in Seq(Cell)
  /\ Len(u) \in Nat /\ Len(t) \in Nat /\ Len(v) = Len(u) + Len(t)
  /\ Appended(v, u, t) /\ Holds(v, 0, u) /\ Holds(v, Len(u), t)

LEMMA Join ==
  ASSUME NEW u, NEW t, NEW S, NEW T, Tagged(u, S), Tagged(t, T)
  PROVE  Joined(u \o t, u, t) /\ Tagged(u \o t, S \cup T)
<1>1. u \in Seq(Cell) /\ t \in Seq(Cell) /\ Tagged(u \o t, S \cup T) /\ u \o t \in Seq(Cell)
  BY TaggedIn, Zenon DEF Tagged
<1>2. Appended(u \o t, u, t) /\ Len(u) \in Nat /\ Len(t) \in Nat
  BY <1>1, Append2
<1>3. Len(u \o t) = Len(u) + Len(t)
  BY <1>2, Zenon DEF Appended
<1>4. Holds(u, 0, u) /\ Holds(t, 0, t)
  BY <1>1, HoldsItself
<1>5. Holds(u \o t, 0, u) /\ Holds(u \o t, Len(u) + 0, t)
  BY <1>1, <1>2, <1>4, HoldsIn, Zenon
<1>6. Len(u) + 0 = Len(u)
  BY <1>2
<1>7. QED BY <1>1, <1>2, <1>3, <1>5, <1>6 DEF Joined

\* What bytes may be part of.
Tags == Names \cup SigTags \cup ItemTags \cup DeviceTags

LEMMA CellIs ==
  ASSUME NEW t \in Tags, NEW n \in Int, NEW x, x = <<t, n>>
  PROVE  x \in Cell /\ x[1] = t /\ x[2] = n
  BY SMT DEF Cell, Tags

LEMMA SeqIs ==
  ASSUME NEW n \in Nat, NEW S, NEW f \in [1..n -> S]
  PROVE  f \in Seq(S) /\ Len(f) = n
  OBVIOUS

LEMMA LiteralIs ==
  ASSUME NEW name \in Tags, NEW len \in Nat, NEW l, l = Literal(name, len)
  PROVE  /\ Tagged(l, {name}) /\ l \in Seq(Cell) /\ Len(l) = len
         /\ \A k \in 1..len : l[k] = <<name, k - 1>>
         /\ OnlyAt(l, <<name, 0>>, 0)
<1>1. /\ DOMAIN l = 1..len /\ l = [k \in 1..len |-> l[k]]
      /\ \A k \in 1..len : l[k] = <<name, k - 1>>
  BY DEF Literal
<1>2. \A k \in 1..len : l[k] \in Cell /\ l[k][1] = name /\ l[k][2] = k - 1
  <2>1. ASSUME NEW k \in 1..len PROVE l[k] \in Cell /\ l[k][1] = name /\ l[k][2] = k - 1
    <3>1. PICK x : x = <<name, k - 1>>
      OBVIOUS
    <3>2. x \in Cell /\ x[1] = name /\ x[2] = k - 1
      BY <3>1, CellIs
    <3>3. l[k] = x
      BY <1>1, <3>1
    <3>4. QED BY <3>2, <3>3, Zenon
  <2>2. QED BY <2>1
<1>3. l \in Seq(Cell) /\ Len(l) = len
  <2>1. l \in [1..len -> Cell]
    BY <1>1, <1>2
  <2>2. QED BY <2>1, SeqIs
<1>4. Tagged(l, {name})
  BY <1>2, <1>3 DEF Tagged
<1>5. OnlyAt(l, <<name, 0>>, 0)
  BY <1>1, <1>3 DEF OnlyAt
<1>6. QED BY <1>1, <1>3, <1>4, <1>5

LEMMA BytesIs ==
  ASSUME NEW vs \in Seq(Nat), NEW b, b = Bytes(vs)
  PROVE  /\ Tagged(b, {"byte"}) /\ b \in Seq(Cell) /\ Len(b) = Len(vs)
         /\ \A k \in 1..Len(vs) : b[k] = <<"byte", vs[k]>>
<1>0. "byte" \in Tags
  BY DEF Tags, SigTags
<1>1. Len(vs) \in Nat /\ DOMAIN vs = 1..Len(vs) /\ \A k \in 1..Len(vs) : vs[k] \in Nat
  BY LenProperties, ElementOfSeq
<1>2. b = [k \in 1..Len(vs) |-> <<"byte", vs[k]>>]
  BY <1>1 DEF Bytes, Byte
<1>3. \A k \in 1..Len(vs) : b[k] = <<"byte", vs[k]>> /\ b[k] \in Cell /\ b[k][1] = "byte"
  <2>1. ASSUME NEW k \in 1..Len(vs) PROVE b[k] = <<"byte", vs[k]>> /\ b[k] \in Cell /\ b[k][1] = "byte"
    <3>1. PICK x : x = <<"byte", vs[k]>>
      OBVIOUS
    <3>2. x \in Cell /\ x[1] = "byte"
      BY <1>0, <1>1, <3>1, CellIs
    <3>3. b[k] = x
      BY <1>2, <3>1
    <3>4. QED BY <3>1, <3>2, <3>3, Zenon
  <2>2. QED BY <2>1
<1>4. b \in Seq(Cell) /\ Len(b) = Len(vs)
  <2>1. b \in [1..Len(vs) -> Cell]
    BY <1>2, <1>3
  <2>2. QED BY <1>1, <2>1, SeqIs
<1>5. QED BY <1>3, <1>4 DEF Tagged

\* The length of a header, and its first byte, which tells numbers below 24 apart.
HeadLen(n) == IF n < 24 THEN 1 ELSE 2
First(base, long, n) == IF n < 24 THEN base + n ELSE long

\* h is the header of the number n.
Header(h, base, long, n) ==
  /\ Tagged(h, {"byte"}) /\ h \in Seq(Cell) /\ Len(h) = HeadLen(n)
  /\ h[1] = <<"byte", First(base, long, n)>>
  /\ n >= 24 => h[2] = <<"byte", n>>

\* b is the bytes vs.
BytesOf(b, vs) ==
  /\ Tagged(b, {"byte"}) /\ b \in Seq(Cell) /\ Len(b) = Len(vs)
  /\ \A k \in 1..Len(vs) : b[k] = <<"byte", vs[k]>>

LEMMA ShortHeader ==
  ASSUME NEW base \in Nat, NEW long \in Nat, NEW n \in Nat, n < 24
  PROVE  Header(Bytes(<<base + n>>), base, long, n)
<1>1. PICK vs, h : vs = <<base + n>> /\ h = Bytes(vs)
  OBVIOUS
<1>2. vs \in Seq(Nat) /\ Len(vs) = 1 /\ vs[1] = base + n
  BY <1>1
<1>3. BytesOf(h, vs)
  BY <1>1, <1>2, BytesIs DEF BytesOf
<1>4. Tagged(h, {"byte"}) /\ h \in Seq(Cell) /\ Len(h) = 1 /\ h[1] = <<"byte", base + n>>
  BY <1>2, <1>3 DEF BytesOf
<1>5. QED BY <1>1, <1>4 DEF HeadLen, First, Header

LEMMA LongHeader ==
  ASSUME NEW base \in Nat, NEW long \in Nat, NEW n \in Nat, ~(n < 24)
  PROVE  Header(Bytes(<<long, n>>), base, long, n)
<1>1. PICK vs, h : vs = <<long, n>> /\ h = Bytes(vs)
  OBVIOUS
<1>2. vs \in Seq(Nat) /\ Len(vs) = 2 /\ vs[1] = long /\ vs[2] = n
  BY <1>1
<1>3. BytesOf(h, vs)
  BY <1>1, <1>2, BytesIs DEF BytesOf
<1>4. /\ Tagged(h, {"byte"}) /\ h \in Seq(Cell) /\ Len(h) = 2
      /\ h[1] = <<"byte", long>> /\ h[2] = <<"byte", n>>
  BY <1>2, <1>3 DEF BytesOf
<1>5. QED BY <1>1, <1>4 DEF HeadLen, First, Header

LEMMA TextHead ==
  ASSUME NEW n \in Nat
  PROVE  Header(tstr_header(n), 96, 120, n)
<1>1. CASE n < 24
  BY <1>1, ShortHeader DEF tstr_header
<1>2. CASE ~(n < 24)
  BY <1>2, LongHeader DEF tstr_header
<1>3. QED BY <1>1, <1>2

LEMMA MapHead ==
  ASSUME NEW n \in Nat
  PROVE  Header(map_header(n), 160, 184, n)
<1>1. CASE n < 24
  BY <1>1, ShortHeader DEF map_header
<1>2. CASE ~(n < 24)
  BY <1>2, LongHeader DEF map_header
<1>3. QED BY <1>1, <1>2

\* What IssuedAssumption says of the names.
LEMMA NameType ==
  ASSUME NEW n \in Names
  PROVE  n \in Tags /\ n \notin SigTags /\ NameLen[n] \in Nat /\ NameLen[n] >= 1
<1>1. NameLen[n] \in Nat /\ NameLen[n] >= 1
  BY NamesAssumption, IssuedAssumption DEF Names
<1>2. n \notin SigTags
  BY IssuedAssumption
<1>3. QED BY <1>1, <1>2 DEF Tags

\* A name with its header.
NamePlaced(b, n) ==
  /\ Tagged(b, {"byte", n}) /\ b \in Seq(Cell) /\ Len(b) = HeadLen(NameLen[n]) + NameLen[n]
  /\ b[1] = <<"byte", First(96, 120, NameLen[n])>>
  /\ NameLen[n] >= 24 => b[2] = <<"byte", NameLen[n]>>
  /\ Holds(b, HeadLen(NameLen[n]), Literal(n, NameLen[n]))
  /\ OnlyAt(b, <<n, 0>>, HeadLen(NameLen[n]))

LEMMA NameIs ==
  ASSUME NEW n \in Names
  PROVE  NamePlaced(NameBytes(n), n)
<1>0. n \in Tags /\ NameLen[n] \in Nat /\ NameLen[n] >= 1 /\ n # "byte"
  BY NameType DEF SigTags
<1>1. PICK h, l, b : h = tstr_header(NameLen[n]) /\ l = Literal(n, NameLen[n]) /\ b = NameBytes(n)
  OBVIOUS
<1>2. b = h \o l
  BY <1>1 DEF NameBytes
<1>3. /\ Tagged(h, {"byte"}) /\ h \in Seq(Cell) /\ Len(h) = HeadLen(NameLen[n])
      /\ h[1] = <<"byte", First(96, 120, NameLen[n])>>
      /\ NameLen[n] >= 24 => h[2] = <<"byte", NameLen[n]>>
  BY <1>0, <1>1, TextHead DEF Header
<1>4. Tagged(l, {n}) /\ l \in Seq(Cell) /\ Len(l) = NameLen[n] /\ OnlyAt(l, <<n, 0>>, 0)
  BY <1>0, <1>1, LiteralIs
<1>5. Joined(b, h, l) /\ Tagged(b, {"byte"} \cup {n})
  BY <1>2, <1>3, <1>4, Join
<1>6. HeadLen(NameLen[n]) \in Nat /\ HeadLen(NameLen[n]) >= 1 /\ (NameLen[n] >= 24 => HeadLen(NameLen[n]) = 2)
  BY <1>0 DEF HeadLen
<1>7. b[1] = h[1] /\ (NameLen[n] >= 24 => b[2] = h[2])
  <2>1. Holds(b, 0, h)
    BY <1>5 DEF Joined
  <2>2. \A k \in 1..Len(h) : b[0 + k] = h[k]
    BY <2>1 DEF Holds
  <2>3. QED BY <1>3, <1>6, <2>2
<1>8. Absent(h, <<n, 0>>)
  BY <1>0, <1>3, TagAbsent
<1>9. OnlyAt(b, <<n, 0>>, Len(h) + 0)
  BY <1>4, <1>5, <1>8, AbsentIn DEF Joined
<1>10. Len(h) + 0 = HeadLen(NameLen[n]) /\ {"byte"} \cup {n} = {"byte", n}
  BY <1>3, <1>6
<1>11. QED BY <1>1, <1>3, <1>4, <1>5, <1>7, <1>9, <1>10 DEF NamePlaced, Joined
-----------------------------------------------------------------------------
(* Dates as digits, compared from the left.                                *)

\* The first n digits of d are smaller than c's, and are c's.
Less(d, c, n) == \E i \in 1..n : d[i] < c[i] /\ \A j \in 1..(i - 1) : d[j] = c[j]
Same(d, c, n) == \A i \in 1..n : d[i] = c[i]

LEMMA LessStep ==
  ASSUME NEW d, NEW c, NEW n \in Nat, NEW m, m = n + 1
  PROVE  /\ Less(d, c, m) <=> Less(d, c, n) \/ (Same(d, c, n) /\ d[m] < c[m])
         /\ Same(d, c, m) <=> Same(d, c, n) /\ d[m] = c[m]
<1>1. 1..m = (1..n) \cup {m} /\ (m - 1) = n
  OBVIOUS
<1>2. Same(d, c, m) <=> Same(d, c, n) /\ d[m] = c[m]
  BY <1>1, Zenon DEF Same
<1>3. ASSUME Less(d, c, m) PROVE Less(d, c, n) \/ (Same(d, c, n) /\ d[m] < c[m])
  <2>1. PICK i \in 1..m : d[i] < c[i] /\ \A j \in 1..(i - 1) : d[j] = c[j]
    BY <1>3, Zenon DEF Less
  <2>2. CASE i = m
    BY <1>1, <2>1, <2>2, Zenon DEF Same
  <2>3. CASE i # m
    <3>1. i \in 1..n
      BY <2>3
    <3>2. QED BY <2>1, <3>1, Zenon DEF Less
  <2>4. QED BY <2>2, <2>3
<1>4. ASSUME Less(d, c, n) PROVE Less(d, c, m)
  BY <1>1, <1>4, Zenon DEF Less
<1>5. ASSUME Same(d, c, n), d[m] < c[m] PROVE Less(d, c, m)
  <2>1. m \in 1..m /\ 1..(m - 1) = 1..n
    BY <1>1
  <2>2. \A j \in 1..(m - 1) : d[j] = c[j]
    BY <1>5, <2>1, Zenon DEF Same
  <2>3. QED BY <1>5, <2>1, <2>2, Zenon DEF Less
<1>6. QED BY <1>2, <1>3, <1>4, <1>5, Zenon

\* The numbers of the first digits, p and q, order as the digits do.
Ordered(d, c, n, p, q) ==
  /\ p \in Nat /\ q \in Nat
  /\ Less(d, c, n) <=> p < q
  /\ Same(d, c, n) <=> p = q

\* Digit m of d continues the number p to r.
Continues(d, m, p, r) == d[m] \in 0..9 /\ r = 10 * p + d[m]

LEMMA OneMoreDigit ==
  ASSUME NEW d, NEW c, NEW n \in Nat, NEW p, NEW q, Ordered(d, c, n, p, q),
         NEW r, NEW s, NEW m, m = n + 1, Continues(d, m, p, r), Continues(c, m, q, s)
  PROVE  Ordered(d, c, m, r, s)
<1>1. /\ Less(d, c, m) <=> Less(d, c, n) \/ (Same(d, c, n) /\ d[m] < c[m])
      /\ Same(d, c, m) <=> Same(d, c, n) /\ d[m] = c[m]
  BY LessStep
<1>2. PICK x, y : x = d[m] /\ y = c[m]
  OBVIOUS
<1>3. /\ p \in Nat /\ q \in Nat /\ x \in 0..9 /\ y \in 0..9 /\ r = 10 * p + x /\ s = 10 * q + y
      /\ Less(d, c, m) <=> (p < q \/ (p = q /\ x < y))
      /\ Same(d, c, m) <=> (p = q /\ x = y)
  BY <1>1, <1>2 DEF Ordered, Continues
<1>4. /\ r \in Nat /\ s \in Nat
      /\ (p < q \/ (p = q /\ x < y)) <=> r < s
      /\ (p = q /\ x = y) <=> r = s
  BY <1>3, SMT
<1>5. QED BY <1>3, <1>4 DEF Ordered

LEMMA OneMoreSign ==
  ASSUME NEW d, NEW c, NEW n \in Nat, NEW p, NEW q, Ordered(d, c, n, p, q), NEW m, m = n + 1,
         d[m] = c[m], c[m] \in Int
  PROVE  Ordered(d, c, m, p, q)
<1>1. /\ Less(d, c, m) <=> Less(d, c, n) \/ (Same(d, c, n) /\ d[m] < c[m])
      /\ Same(d, c, m) <=> Same(d, c, n) /\ d[m] = c[m]
  BY LessStep
<1>2. ~(d[m] < c[m])
  OBVIOUS
<1>3. QED BY <1>1, <1>2 DEF Ordered

\* A number without its last digits.
LEMMA NextDigit ==
  ASSUME NEW a \in Nat
  PROVE  /\ (a % 10) \in 0..9 /\ a = 10 * (a \div 10) + (a % 10) /\ a \div 10 \in Nat
  OBVIOUS

Digit(a, unit) == (a \div unit) % 10

LEMMA Quotients ==
  ASSUME NEW a \in Day
  PROVE  /\ a \in Nat /\ a \div 1 = a /\ a \div 10000000 \in 0..9
         /\ (a \div 10000000) = 10 * 0 + Digit(a, 10000000)
         /\ (a \div 1000000) = 10 * (a \div 10000000) + Digit(a, 1000000)
         /\ (a \div 100000) = 10 * (a \div 1000000) + Digit(a, 100000)
         /\ (a \div 10000) = 10 * (a \div 100000) + Digit(a, 10000)
         /\ (a \div 1000) = 10 * (a \div 10000) + Digit(a, 1000)
         /\ (a \div 100) = 10 * (a \div 1000) + Digit(a, 100)
         /\ (a \div 10) = 10 * (a \div 100) + Digit(a, 10)
         /\ a = 10 * (a \div 10) + Digit(a, 1)
<1>0. a \in Nat /\ a <= 99999999 /\ a \div 1 = a
  <2>1. a \in Nat /\ a <= 99999999
    <3>1. LastDay \in Nat /\ LastDay <= 99999999
      BY SMT DEF LastDay
    <3>2. QED BY <3>1, SMT DEF Day
  <2>2. \A x \in Nat : x \div 1 = x
    OBVIOUS
  <2>3. QED BY <2>1, <2>2, SMT
<1>1. a \div 10000000 \in 0..9 /\ (a \div 10000000) = 10 * 0 + Digit(a, 10000000)
  BY <1>0, SMT DEF Digit
<1>2. (a \div 1000000) = 10 * (a \div 10000000) + Digit(a, 1000000)
  BY <1>0, SMT DEF Digit
<1>3. (a \div 100000) = 10 * (a \div 1000000) + Digit(a, 100000)
  BY <1>0, SMT DEF Digit
<1>4. (a \div 10000) = 10 * (a \div 100000) + Digit(a, 10000)
  BY <1>0, SMT DEF Digit
<1>5. (a \div 1000) = 10 * (a \div 10000) + Digit(a, 1000)
  BY <1>0, SMT DEF Digit
<1>6. (a \div 100) = 10 * (a \div 1000) + Digit(a, 100)
  BY <1>0, SMT DEF Digit
<1>7. (a \div 10) = 10 * (a \div 100) + Digit(a, 10)
  BY <1>0, SMT DEF Digit
<1>8. a = 10 * (a \div 10) + Digit(a, 1)
  BY <1>0, SMT DEF Digit
<1>9. QED BY <1>0, <1>1, <1>2, <1>3, <1>4, <1>5, <1>6, <1>7, <1>8, SMT
LEMMA DigitRange ==
  ASSUME NEW a \in Nat
  PROVE  \A unit \in Nat \ {0} : Digit(a, unit) \in 0..9
<1>1. ASSUME NEW unit \in Nat \ {0} PROVE Digit(a, unit) \in 0..9
  <2>1. a \div unit \in Int
    OBVIOUS
  <2>2. \A x \in Int : x % 10 \in 0..9
    OBVIOUS
  <2>3. QED BY <2>1, <2>2, Zenon DEF Digit
<1>2. QED BY <1>1

\* The ten characters of a date.
TenDigits(d, a) ==
  /\ d \in Seq(Int) /\ Len(d) = 10 /\ DOMAIN d = 1..10
  /\ d[1] = Digit(a, 10000000) /\ d[2] = Digit(a, 1000000) /\ d[3] = Digit(a, 100000)
  /\ d[4] = Digit(a, 10000) /\ d[5] = -3 /\ d[6] = Digit(a, 1000) /\ d[7] = Digit(a, 100)
  /\ d[8] = -3 /\ d[9] = Digit(a, 10) /\ d[10] = Digit(a, 1)
  /\ d[1] \in 0..9 /\ d[2] \in 0..9 /\ d[3] \in 0..9 /\ d[4] \in 0..9
  /\ d[6] \in 0..9 /\ d[7] \in 0..9 /\ d[9] \in 0..9 /\ d[10] \in 0..9

LEMMA DateIs ==
  ASSUME NEW a \in Day
  PROVE  TenDigits(DateDigits(a), a)
<1>0. a \in Nat
  BY Quotients
<1>1. PICK x1, x2, x3, x4, x6, x7, x9, x10 :
        /\ x1 = Digit(a, 10000000) /\ x2 = Digit(a, 1000000) /\ x3 = Digit(a, 100000)
        /\ x4 = Digit(a, 10000) /\ x6 = Digit(a, 1000) /\ x7 = Digit(a, 100)
        /\ x9 = Digit(a, 10) /\ x10 = Digit(a, 1)
  OBVIOUS
<1>2. /\ x1 \in 0..9 /\ x2 \in 0..9 /\ x3 \in 0..9 /\ x4 \in 0..9
      /\ x6 \in 0..9 /\ x7 \in 0..9 /\ x9 \in 0..9 /\ x10 \in 0..9
  BY <1>0, <1>1, DigitRange, SMT
<1>3. PICK d : d = DateDigits(a)
  OBVIOUS
<1>4. d = <<x1, x2, x3, x4, -3, x6, x7, -3, x9, x10>>
  BY <1>1, <1>3, SMT DEF DateDigits, Digit
<1>5. /\ d \in Seq(Int) /\ Len(d) = 10 /\ DOMAIN d = 1..10
      /\ d[1] = x1 /\ d[2] = x2 /\ d[3] = x3 /\ d[4] = x4 /\ d[5] = -3
      /\ d[6] = x6 /\ d[7] = x7 /\ d[8] = -3 /\ d[9] = x9 /\ d[10] = x10
  BY <1>2, <1>4, SMT
<1>6. /\ d[1] \in 0..9 /\ d[2] \in 0..9 /\ d[3] \in 0..9 /\ d[4] \in 0..9
      /\ d[6] \in 0..9 /\ d[7] \in 0..9 /\ d[9] \in 0..9 /\ d[10] \in 0..9
  BY <1>2, <1>5, SMT
<1>7. TenDigits(d, a)
  BY <1>1, <1>5, <1>6, SMT DEF TenDigits
<1>8. QED BY <1>3, <1>7, SMT

\* The numbers of the first digits of a date.
DatePrefixes(a, p) ==
  /\ p[1] = a \div 10000000 /\ p[2] = a \div 1000000 /\ p[3] = a \div 100000
  /\ p[4] = a \div 10000 /\ p[5] = a \div 1000 /\ p[6] = a \div 100 /\ p[7] = a \div 10

AllContinue(d, a, p) ==
  /\ Continues(d, 1, 0, p[1]) /\ Continues(d, 2, p[1], p[2]) /\ Continues(d, 3, p[2], p[3])
  /\ Continues(d, 4, p[3], p[4]) /\ Continues(d, 6, p[4], p[5]) /\ Continues(d, 7, p[5], p[6])
  /\ Continues(d, 9, p[6], p[7]) /\ Continues(d, 10, p[7], a)
  /\ d[5] = -3 /\ d[8] = -3

LEMMA Prefixed ==
  ASSUME NEW a \in Day, NEW d, TenDigits(d, a)
  PROVE  \E p : AllContinue(d, a, p)
<1> DEFINE p == <<a \div 10000000, a \div 1000000, a \div 100000, a \div 10000, a \div 1000,
                  a \div 100, a \div 10>>
<1>2. DatePrefixes(a, p)
  BY SMT DEF DatePrefixes
<1> HIDE DEF p
<1>3. /\ d[1] \in 0..9 /\ d[2] \in 0..9 /\ d[3] \in 0..9 /\ d[4] \in 0..9
      /\ d[6] \in 0..9 /\ d[7] \in 0..9 /\ d[9] \in 0..9 /\ d[10] \in 0..9
  BY SMT DEF TenDigits
<1>4. Continues(d, 1, 0, p[1])
  <2>1. d[1] \in 0..9
    BY <1>3, SMT
  <2>2. p[1] = 10 * 0 + d[1]
    BY <1>2, Quotients, SMT DEF TenDigits, DatePrefixes
  <2>3. QED BY <2>1, <2>2, SMT DEF Continues
<1>5. Continues(d, 2, p[1], p[2])
  <2>1. d[2] \in 0..9
    BY <1>3, SMT
  <2>2. p[2] = 10 * p[1] + d[2]
    BY <1>2, Quotients, SMT DEF TenDigits, DatePrefixes
  <2>3. QED BY <2>1, <2>2, SMT DEF Continues
<1>6. Continues(d, 3, p[2], p[3])
  <2>1. d[3] \in 0..9
    BY <1>3, SMT
  <2>2. p[3] = 10 * p[2] + d[3]
    BY <1>2, Quotients, SMT DEF TenDigits, DatePrefixes
  <2>3. QED BY <2>1, <2>2, SMT DEF Continues
<1>7. Continues(d, 4, p[3], p[4])
  <2>1. d[4] \in 0..9
    BY <1>3, SMT
  <2>2. p[4] = 10 * p[3] + d[4]
    BY <1>2, Quotients, SMT DEF TenDigits, DatePrefixes
  <2>3. QED BY <2>1, <2>2, SMT DEF Continues
<1>8. Continues(d, 6, p[4], p[5])
  <2>1. d[6] \in 0..9
    BY <1>3, SMT
  <2>2. p[5] = 10 * p[4] + d[6]
    BY <1>2, Quotients, SMT DEF TenDigits, DatePrefixes
  <2>3. QED BY <2>1, <2>2, SMT DEF Continues
<1>9. Continues(d, 7, p[5], p[6])
  <2>1. d[7] \in 0..9
    BY <1>3, SMT
  <2>2. p[6] = 10 * p[5] + d[7]
    BY <1>2, Quotients, SMT DEF TenDigits, DatePrefixes
  <2>3. QED BY <2>1, <2>2, SMT DEF Continues
<1>10. Continues(d, 9, p[6], p[7])
  <2>1. d[9] \in 0..9
    BY <1>3, SMT
  <2>2. p[7] = 10 * p[6] + d[9]
    BY <1>2, Quotients, SMT DEF TenDigits, DatePrefixes
  <2>3. QED BY <2>1, <2>2, SMT DEF Continues
<1>11. Continues(d, 10, p[7], a)
  <2>1. d[10] \in 0..9
    BY <1>3, SMT
  <2>2. a = 10 * p[7] + d[10]
    BY <1>2, Quotients, SMT DEF TenDigits, DatePrefixes
  <2>3. QED BY <2>1, <2>2, SMT DEF Continues
<1>12. d[5] = -3 /\ d[8] = -3
  BY SMT DEF TenDigits
<1>13. AllContinue(d, a, p)
  BY <1>4, <1>5, <1>6, <1>7, <1>8, <1>9, <1>10, <1>11, <1>12, Zenon DEF AllContinue
<1>14. QED BY <1>13, Zenon

LEMMA DatesOrder ==
  ASSUME NEW a \in Day, NEW b \in Day, NEW d, NEW c, TenDigits(d, a), TenDigits(c, b)
  PROVE  Ordered(d, c, 10, a, b)
<1>0. PICK p, q : AllContinue(d, a, p) /\ AllContinue(c, b, q)
  BY Prefixed, Zenon
<1>1. Ordered(d, c, 0, 0, 0)
  BY SMT DEF Ordered, Less, Same
<1>2. Ordered(d, c, 1, p[1], q[1])
  BY <1>0, <1>1, OneMoreDigit, SMT DEF AllContinue
<1>3. Ordered(d, c, 2, p[2], q[2])
  BY <1>0, <1>2, OneMoreDigit, SMT DEF AllContinue
<1>4. Ordered(d, c, 3, p[3], q[3])
  BY <1>0, <1>3, OneMoreDigit, SMT DEF AllContinue
<1>5. Ordered(d, c, 4, p[4], q[4])
  BY <1>0, <1>4, OneMoreDigit, SMT DEF AllContinue
<1>6. Ordered(d, c, 5, p[4], q[4])
  BY <1>0, <1>5, OneMoreSign, SMT DEF AllContinue
<1>7. Ordered(d, c, 6, p[5], q[5])
  BY <1>0, <1>6, OneMoreDigit, SMT DEF AllContinue
<1>8. Ordered(d, c, 7, p[6], q[6])
  BY <1>0, <1>7, OneMoreDigit, SMT DEF AllContinue
<1>9. Ordered(d, c, 8, p[6], q[6])
  BY <1>0, <1>8, OneMoreSign, SMT DEF AllContinue
<1>10. Ordered(d, c, 9, p[7], q[7])
  BY <1>0, <1>9, OneMoreDigit, SMT DEF AllContinue
<1>11. QED
  BY <1>0, <1>10, OneMoreDigit, SMT DEF AllContinue

\* Digits that are the same do not change the order.
LEMMA SameTail ==
  ASSUME NEW d, NEW c, NEW n \in Nat, NEW p, NEW q, Ordered(d, c, n, p, q), NEW m \in Nat, n <= m,
         \A i \in n + 1..m : d[i] = c[i] /\ c[i] \in Int
  PROVE  Ordered(d, c, m, p, q)
<1>1. 1..n \subseteq 1..m /\ \A i \in 1..m : i \in 1..n \/ i \in n + 1..m
  OBVIOUS
<1>2. Same(d, c, m) <=> Same(d, c, n)
  BY <1>1, Zenon DEF Same
<1>3. Less(d, c, n) => Less(d, c, m)
  BY <1>1, Zenon DEF Less
<1>4. ASSUME Less(d, c, m) PROVE Less(d, c, n)
  <2>1. PICK i \in 1..m : d[i] < c[i] /\ \A j \in 1..(i - 1) : d[j] = c[j]
    BY <1>4, Zenon DEF Less
  <2>2. ASSUME i \in n + 1..m PROVE FALSE
    BY <2>1, <2>2
  <2>3. i \in 1..n
    BY <1>1, <2>2
  <2>4. QED BY <2>1, <2>3, Zenon DEF Less
<1>5. QED BY <1>2, <1>3, <1>4, Zenon DEF Ordered

\* date_not_after decides the order.
LEMMA NotAfter ==
  ASSUME NEW d, NEW c, NEW n \in Nat, DOMAIN d = 1..n, NEW p, NEW q, Ordered(d, c, n, p, q)
  PROVE  date_not_after(d, c) <=> p <= q
<1>1. date_not_after(d, c) <=> Less(d, c, n) \/ Same(d, c, n)
  BY DEF date_not_after, Less, Same
<1>2. p \in Nat /\ q \in Nat /\ (p < q \/ p = q <=> p <= q)
  BY DEF Ordered
<1>3. QED BY <1>1, <1>2, Zenon DEF Ordered

\* The twenty characters of a time: its date and the same ten behind it.
Clock == <<36, 0, 0, 10, 0, 0, 10, 0, 0, 42>>

LEMMA ClockIs == Clock \in Seq(Int) /\ Len(Clock) = 10
  BY SMT DEF Clock

\* t is the time of the date d.
OnTheDay(t, d) ==
  /\ t \in Seq(Int) /\ Len(t) = 20 /\ DOMAIN t = 1..20
  /\ \A k \in 1..10 : t[k] = d[k]
  /\ \A k \in 11..20 : t[k] = Clock[k - 10] /\ t[k] \in Int

LEMMA Concat ==
  ASSUME NEW S, NEW u \in Seq(S), NEW v \in Seq(S), NEW t, t = u \o v
  PROVE  /\ t \in Seq(S) /\ Len(u) \in Nat /\ Len(v) \in Nat /\ Len(t) = Len(u) + Len(v)
         /\ DOMAIN t = 1..Len(u) + Len(v)
         /\ \A i \in 1..Len(u) + Len(v) : t[i] = IF i <= Len(u) THEN u[i] ELSE v[i - Len(u)]
         /\ \A i \in 1..Len(u) + Len(v) : t[i] \in S
<1>1. /\ t \in Seq(S) /\ Len(t) = Len(u) + Len(v)
      /\ \A i \in 1..Len(u) + Len(v) : t[i] = IF i <= Len(u) THEN u[i] ELSE v[i - Len(u)]
  BY ConcatProperties, Zenon
<1>2. QED BY <1>1, LenProperties, ElementOfSeq, Zenon

LEMMA TimeIs ==
  ASSUME NEW a \in Day
  PROVE  OnTheDay(TimeDigits(a), DateDigits(a))
<1>1. PICK d : d = DateDigits(a)
  OBVIOUS
<1>2. d \in Seq(Int) /\ Len(d) = 10
  BY <1>1, DateIs, SMT DEF TenDigits
<1>3. PICK e, t : e = Clock /\ t = d \o e
  OBVIOUS
<1>4. e \in Seq(Int) /\ Len(e) = 10
  BY <1>3, ClockIs
<1>5. /\ t \in Seq(Int) /\ Len(t) = Len(d) + Len(e) /\ DOMAIN t = 1..Len(d) + Len(e)
      /\ \A i \in 1..Len(d) + Len(e) : t[i] = IF i <= Len(d) THEN d[i] ELSE e[i - Len(d)]
      /\ \A i \in 1..Len(d) + Len(e) : t[i] \in Int
  <2>1. PICK S : S = Int
    OBVIOUS
  <2>2. d \in Seq(S) /\ e \in Seq(S)
    BY <1>2, <1>4, <2>1
  <2>3. /\ t \in Seq(S) /\ Len(t) = Len(d) + Len(e) /\ DOMAIN t = 1..Len(d) + Len(e)
        /\ \A i \in 1..Len(d) + Len(e) : t[i] = IF i <= Len(d) THEN d[i] ELSE e[i - Len(d)]
        /\ \A i \in 1..Len(d) + Len(e) : t[i] \in S
    BY <1>3, <2>2, Concat, SMT
  <2>4. QED BY <2>1, <2>3, Zenon
<1>6. Len(t) = 20 /\ DOMAIN t = 1..20 /\ Len(d) + Len(e) = 20
  BY <1>2, <1>4, <1>5
<1>7. /\ \A k \in 1..20 : t[k] = IF k <= 10 THEN d[k] ELSE e[k - 10]
      /\ \A k \in 1..20 : t[k] \in Int
  BY <1>2, <1>5, <1>6, Zenon
<1>8. \A k \in 1..10 : t[k] = d[k]
  <2>1. \A k \in 1..10 : k \in 1..20 /\ k <= 10
    OBVIOUS
  <2>2. QED BY <1>7, <2>1, Zenon
<1>9. \A k \in 11..20 : t[k] = e[k - 10] /\ t[k] \in Int
  <2>1. \A k \in 11..20 : k \in 1..20 /\ ~(k <= 10)
    OBVIOUS
  <2>2. QED BY <1>7, <2>1, Zenon
<1>10. t = TimeDigits(a)
  BY <1>1, <1>3, SMT DEF TimeDigits, Clock
<1>11. OnTheDay(t, d)
  BY <1>3, <1>5, <1>6, <1>7, <1>8, <1>9, Zenon DEF OnTheDay
<1>12. QED BY <1>1, <1>10, <1>11, Zenon

LEMMA TimesOrder ==
  ASSUME NEW a \in Day, NEW b \in Day
  PROVE  date_not_after(TimeDigits(a), TimeDigits(b)) <=> a <= b
<1>1. PICK s, t, d, c : s = TimeDigits(a) /\ t = TimeDigits(b) /\ d = DateDigits(a) /\ c = DateDigits(b)
  OBVIOUS
<1>2. OnTheDay(s, d) /\ OnTheDay(t, c)
  BY <1>1, TimeIs, Zenon
<1>3. Ordered(d, c, 10, a, b)
  BY <1>1, DateIs, DatesOrder, Zenon
<1>4. \A k \in 1..10 : s[k] = d[k] /\ t[k] = c[k]
  BY <1>2, Zenon DEF OnTheDay
<1>5. Ordered(s, t, 10, a, b)
  <2>1. Same(s, t, 10) <=> Same(d, c, 10)
    BY <1>4, Zenon DEF Same
  <2>2. \A i \in 1..10 : \A j \in 1..(i - 1) : j \in 1..10
    OBVIOUS
  <2>3. Less(s, t, 10) <=> Less(d, c, 10)
    BY <1>4, <2>2, Zenon DEF Less
  <2>4. QED BY <1>3, <2>1, <2>3, Zenon DEF Ordered
<1>6. PICK n, m : n = 10 /\ m = 20
  OBVIOUS
<1>7. n \in Nat /\ m \in Nat /\ n <= m /\ n + 1 = 11
  BY <1>6
<1>8. \A i \in n + 1..m : s[i] = t[i] /\ t[i] \in Int
  <2>1. \A i \in 11..20 : s[i] = t[i] /\ t[i] \in Int
    BY <1>2, Zenon DEF OnTheDay
  <2>2. QED BY <1>6, <1>7, <2>1
<1>9. Ordered(s, t, m, a, b)
  BY <1>5, <1>6, <1>7, <1>8, SameTail, Zenon
<1>10. DOMAIN s = 1..m
  BY <1>2, <1>6, Zenon DEF OnTheDay
<1>11. date_not_after(s, t) <=> a <= b
  BY <1>7, <1>9, <1>10, NotAfter, Zenon
<1>12. QED BY <1>1, <1>11, Zenon

LEMMA DatesCompare ==
  ASSUME NEW a \in Day, NEW b \in Day
  PROVE  date_not_after(DateDigits(a), DateDigits(b)) <=> a <= b
<1>1. PICK n, d, c : n = 10 /\ d = DateDigits(a) /\ c = DateDigits(b)
  OBVIOUS
<1>2. Ordered(d, c, n, a, b)
  BY <1>1, DateIs, DatesOrder, Zenon
<1>3. DOMAIN d = 1..n
  BY <1>1, DateIs, SMT DEF TenDigits
<1>4. n \in Nat
  BY <1>1
<1>5. date_not_after(d, c) <=> a <= b
  BY <1>2, <1>3, <1>4, NotAfter, Zenon
<1>6. QED BY <1>1, <1>5, Zenon-----------------------------------------------------------------------------
(* Digits as bytes, and strings of strings.                                *)

LEMMA DigitBytesAre ==
  ASSUME NEW ds \in Seq(Int), NEW b, b = DigitBytes(ds)
  PROVE  /\ Tagged(b, {"digit"}) /\ b \in Seq(Cell) /\ Len(b) = Len(ds)
         /\ \A k \in 1..Len(ds) : b[k] = <<"digit", ds[k]>> /\ b[k][2] = ds[k]
<1>0. "digit" \in Tags
  BY DEF Tags, SigTags
<1>1. Len(ds) \in Nat /\ DOMAIN ds = 1..Len(ds) /\ \A k \in 1..Len(ds) : ds[k] \in Int
  BY LenProperties, ElementOfSeq
<1>2. b = [k \in 1..Len(ds) |-> <<"digit", ds[k]>>]
  BY <1>1 DEF DigitBytes
<1>3. \A k \in 1..Len(ds) : b[k] = <<"digit", ds[k]>> /\ b[k] \in Cell /\ b[k][1] = "digit" /\ b[k][2] = ds[k]
  <2>1. ASSUME NEW k \in 1..Len(ds)
        PROVE  b[k] = <<"digit", ds[k]>> /\ b[k] \in Cell /\ b[k][1] = "digit" /\ b[k][2] = ds[k]
    <3>1. PICK x : x = <<"digit", ds[k]>>
      OBVIOUS
    <3>2. x \in Cell /\ x[1] = "digit" /\ x[2] = ds[k]
      BY <1>0, <1>1, <3>1, CellIs
    <3>3. b[k] = x
      BY <1>2, <3>1
    <3>4. QED BY <3>1, <3>2, <3>3, Zenon
  <2>2. QED BY <2>1
<1>4. b \in Seq(Cell) /\ Len(b) = Len(ds)
  <2>1. b \in [1..Len(ds) -> Cell]
    BY <1>2, <1>3
  <2>2. QED BY <1>1, <2>1, SeqIs
<1>5. QED BY <1>3, <1>4 DEF Tagged

\* Digits reads digits.
LEMMA DigitsAt ==
  ASSUME NEW u \in Seq(Cell), NEW ds \in Seq(Int), NEW at, NEW n \in Nat, n = Len(ds),
         Holds(u, at, DigitBytes(ds))
  PROVE  Digits(BytesAt(u, at, n)) = ds
<1>1. PICK b : b = DigitBytes(ds)
  OBVIOUS
<1>2. b \in Seq(Cell) /\ Len(b) = Len(ds) /\ \A k \in 1..Len(ds) : b[k][2] = ds[k]
  BY <1>1, DigitBytesAre
<1>3. at \in Nat /\ n = Len(b) /\ at + n <= Len(u) /\ Holds(u, at, b)
  BY <1>1, <1>2 DEF Holds
<1>4. BytesAt(u, at, n) = b
  BY <1>2, <1>3, Read, ZenonT(40)
<1>5. DOMAIN b = 1..Len(ds) /\ DOMAIN ds = 1..Len(ds) /\ ds = [k \in DOMAIN ds |-> ds[k]]
  BY <1>2, LenProperties
<1>6. Digits(b) = ds
  BY <1>2, <1>5 DEF Digits
<1>7. QED BY <1>4, <1>6, Zenon

\* Induction over numbers: a set of them has a least element.
LEMMA Least ==
  ASSUME NEW T \in SUBSET Nat, T # {}
  PROVE  \E m \in T : \A k \in T : m <= k
<1>1. PICK m \in T : \A i \in T : <<i, m>> \notin OpToRel(<, Nat)
  BY NatLessThanWellFounded, WFMin, Zenon
<1>2. ASSUME NEW i \in T, i < m PROVE FALSE
  <2>1. <<i, m>> \in OpToRel(<, Nat)
    BY <1>2 DEF OpToRel
  <2>2. QED BY <1>1, <2>1, Zenon
<1>3. QED BY <1>2

\* What FlattenSeq computes, from its own earlier values.
Flattened(f, rows, n) == [i \in 1..n |-> IF i = 1 THEN rows[i] ELSE f[i - 1] \o rows[i]]

LEMMA FlattenExists ==
  ASSUME NEW n \in Nat, NEW rows
  PROVE  \E f : f = Flattened(f, rows, n)
<1> DEFINE T == {m \in Nat : ~\E f : f = Flattened(f, rows, m)}
<1> SUFFICES ASSUME T # {} PROVE FALSE
  OBVIOUS
<1>1. PICK m \in T : \A k \in T : m <= k
  BY Least
<1>2. m \in Nat /\ ~\E f : f = Flattened(f, rows, m)
  OBVIOUS
<1>3. CASE m = 0
  <2>1. PICK f : f = [k \in 1..m |-> 0]
    OBVIOUS
  <2>2. 1..m = {}
    BY <1>3
  <2>3. f = Flattened(f, rows, m)
    BY <2>1, <2>2 DEF Flattened
  <2>4. QED BY <1>2, <2>3, Zenon
<1>4. CASE m # 0
  <2>1. m - 1 \in Nat /\ m - 1 \notin T
    BY <1>1, <1>2, <1>4
  <2>2. PICK f : f = Flattened(f, rows, m - 1)
    BY <2>1
  <2>3. PICK g : g = [k \in 1..m |-> IF k # m THEN f[k] ELSE IF m = 1 THEN rows[m] ELSE f[m - 1] \o rows[m]]
    OBVIOUS
  <2>4. ASSUME NEW k \in 1..m PROVE g[k] = IF k = 1 THEN rows[k] ELSE g[k - 1] \o rows[k]
    <3>1. CASE k = m
      <4>1. g[k] = IF m = 1 THEN rows[m] ELSE f[m - 1] \o rows[m]
        BY <2>3, <3>1
      <4>2. m # 1 => g[m - 1] = f[m - 1]
        BY <1>2, <1>4, <2>3
      <4>3. QED BY <3>1, <4>1, <4>2
    <3>2. CASE k # m
      <4>1. k \in 1..m - 1 /\ g[k] = f[k] /\ (k # 1 => g[k - 1] = f[k - 1])
        BY <1>2, <2>3, <3>2
      <4>2. f[k] = IF k = 1 THEN rows[k] ELSE f[k - 1] \o rows[k]
        BY <2>2, <4>1 DEF Flattened
      <4>3. QED BY <4>1, <4>2
    <3>3. QED BY <3>1, <3>2
  <2>5. g = Flattened(g, rows, m)
    BY <2>3, <2>4 DEF Flattened
  <2>6. QED BY <1>2, <2>5, Zenon
<1>5. QED BY <1>3, <1>4

\* u is the first n rows one after the other, the r-th between e[r - 1] and e[r].
Ends(rows, e, n) ==
  /\ e \in [0..n -> Nat] /\ e[0] = 0
  /\ \A r \in 1..n : e[r] = e[r - 1] + Len(rows[r])
InRow(rows, e, n, j) == \E r \in 1..n : j - e[r - 1] \in 1..Len(rows[r])
LaidOut(u, rows, e, n) ==
  /\ u \in Seq(Cell) /\ Len(u) = e[n] /\ Ends(rows, e, n)
  /\ \A r \in 1..n : Holds(u, e[r - 1], rows[r])
  /\ \A j \in 1..Len(u) : InRow(rows, e, n, j)

LEMMA LayOneMore ==
  ASSUME NEW m \in Nat, NEW rows, NEW i \in 1..m, \A r \in 1..m : rows[r] \in Seq(Cell),
         NEW u, NEW e, LaidOut(u, rows, e, i - 1), NEW v, v = u \o rows[i]
  PROVE  \E g : LaidOut(v, rows, g, i)
<1>1. PICK t, n : t = rows[i] /\ n = i - 1
  OBVIOUS
<1>2. /\ n \in Nat /\ i = n + 1 /\ n \in 0..n /\ t \in Seq(Cell) /\ u \in Seq(Cell)
      /\ Len(u) = e[n] /\ Ends(rows, e, n) /\ Len(u) \in Nat /\ Len(t) \in Nat
  BY <1>1, LenProperties DEF LaidOut
<1>3. Appended(v, u, t)
  BY <1>1, <1>2, Append2, Zenon
<1>4. v \in Seq(Cell) /\ Len(v) = Len(u) + Len(t) /\ Len(v) \in Nat
  BY <1>2, <1>3 DEF Appended
<1>5. PICK g : g = [k \in 0..i |-> IF k = i THEN Len(v) ELSE e[k]]
  OBVIOUS
<1>6. g[i] = Len(v) /\ \A k \in 0..n : g[k] = e[k] /\ e[k] \in Nat
  BY <1>2, <1>5 DEF Ends
<1>7. Ends(rows, g, i)
  <2>1. g \in [0..i -> Nat]
    <3>1. ASSUME NEW k \in 0..i PROVE g[k] \in Nat
      <4>1. CASE k = i
        BY <1>4, <1>6, <4>1
      <4>2. CASE k # i
        <5>1. k \in 0..n
          BY <1>2, <4>2
        <5>2. QED BY <1>6, <5>1
      <4>3. QED BY <4>1, <4>2
    <3>2. DOMAIN g = 0..i /\ g = [k \in 0..i |-> g[k]]
      BY <1>5
    <3>3. QED BY <3>1, <3>2
  <2>2. g[0] = 0
    BY <1>2, <1>6 DEF Ends
  <2>3. ASSUME NEW r \in 1..i PROVE g[r] = g[r - 1] + Len(rows[r])
    <3>1. CASE r = i
      <4>1. g[r - 1] = e[n]
        BY <1>2, <1>6, <3>1
      <4>2. QED BY <1>1, <1>2, <1>4, <1>6, <3>1, <4>1
    <3>2. CASE r # i
      <4>1. r \in 1..n /\ r \in 0..n /\ r - 1 \in 0..n
        BY <1>2, <3>2
      <4>2. e[r] = e[r - 1] + Len(rows[r])
        BY <1>2, <4>1 DEF Ends
      <4>3. QED BY <1>6, <4>1, <4>2, Zenon
    <3>3. QED BY <3>1, <3>2
  <2>4. QED BY <2>1, <2>2, <2>3 DEF Ends
<1>8. ASSUME NEW r \in 1..i PROVE Holds(v, g[r - 1], rows[r])
  <2>1. CASE r = i
    <3>1. g[r - 1] = Len(u) + 0
      BY <1>2, <1>6, <2>1
    <3>2. Holds(t, 0, t)
      BY <1>2, HoldsItself
    <3>3. Holds(v, Len(u) + 0, t)
      BY <1>2, <1>3, <3>2, HoldsIn, Zenon
    <3>4. QED BY <1>1, <2>1, <3>1, <3>3
  <2>2. CASE r # i
    <3>1. r \in 1..n /\ r - 1 \in 0..n /\ r \in 1..m
      BY <1>2, <2>2
    <3>2. Holds(u, e[r - 1], rows[r]) /\ rows[r] \in Seq(Cell)
      BY <1>1, <3>1 DEF LaidOut
    <3>3. Holds(v, e[r - 1], rows[r])
      BY <1>2, <1>3, <3>2, HoldsIn, Zenon
    <3>4. QED BY <1>6, <3>1, <3>3
  <2>3. QED BY <2>1, <2>2
<1>9. ASSUME NEW j \in 1..Len(v) PROVE InRow(rows, g, i, j)
  <2>1. CASE j <= Len(u)
    <3>1. j \in 1..Len(u)
      BY <1>2, <2>1
    <3>2. PICK r \in 1..n : j - e[r - 1] \in 1..Len(rows[r])
      BY <1>1, <3>1 DEF LaidOut, InRow
    <3>3. r \in 1..i /\ r - 1 \in 0..n
      BY <1>2
    <3>4. j - g[r - 1] \in 1..Len(rows[r])
      BY <1>6, <3>2, <3>3
    <3>5. QED BY <3>3, <3>4 DEF InRow
  <2>2. CASE ~(j <= Len(u))
    <3>1. i \in 1..i /\ g[i - 1] = Len(u)
      BY <1>1, <1>2, <1>6
    <3>2. j - g[i - 1] \in 1..Len(rows[i])
      BY <1>1, <1>2, <1>4, <2>2, <3>1
    <3>3. QED BY <3>1, <3>2 DEF InRow
  <2>3. QED BY <2>1, <2>2
<1>10. LaidOut(v, rows, g, i)
  BY <1>4, <1>6, <1>7, <1>8, <1>9 DEF LaidOut
<1>11. QED BY <1>10

LEMMA Flatten ==
  ASSUME NEW rows, rows \in Seq(Seq(Cell))
  PROVE  \E e : LaidOut(FlattenSeq(rows), rows, e, Len(rows))
<1>1. PICK n : n = Len(rows)
  OBVIOUS
<1>2. n \in Nat /\ \A r \in 1..n : rows[r] \in Seq(Cell)
  <2> HIDE DEF Cell
  <2>1. QED BY <1>1, LenProperties, ElementOfSeq
<1>3. PICK f : f = CHOOSE g : g = Flattened(g, rows, n)
  OBVIOUS
<1>4. f = Flattened(f, rows, n)
  BY <1>2, <1>3, FlattenExists, Zenon
<1>5. \A i \in 1..n : f[i] = IF i = 1 THEN rows[i] ELSE f[i - 1] \o rows[i]
  <2>1. f = [i \in 1..n |-> IF i = 1 THEN rows[i] ELSE f[i - 1] \o rows[i]]
    BY <1>4, Zenon DEF Flattened
  <2>2. QED BY <2>1, Zenon
<1> DEFINE U(i) == IF i = 0 THEN <<>> ELSE f[i]
           T == {i \in 0..n : ~\E e : LaidOut(U(i), rows, e, i)}
<1>6. \A i \in 1..n : U(i) = U(i - 1) \o rows[i]
  <2>1. ASSUME NEW i \in 1..n PROVE U(i) = U(i - 1) \o rows[i]
    <3>1. CASE i = 1
      <4>1. U(i) = rows[i] /\ U(i - 1) = <<>>
        BY <1>5, <3>1
      <4>2. <<>> \o rows[i] = rows[i]
        <5> HIDE DEF Cell
        <5>1. QED BY <1>2, ConcatEmptySeq
      <4>3. QED BY <4>1, <4>2
    <3>2. CASE i # 1
      <4>1. i # 0 /\ i - 1 # 0
        BY <3>2
      <4>2. f[i] = f[i - 1] \o rows[i]
        BY <1>5, <3>2, Zenon
      <4>3. QED BY <4>1, <4>2, Zenon
    <3>3. QED BY <3>1, <3>2
  <2>2. QED BY <2>1
<1>7. LaidOut(U(0), rows, [k \in 0..0 |-> 0], 0)
  <2>1. PICK u, e : u = <<>> /\ e = [k \in 0..0 |-> 0]
    OBVIOUS
  <2>2. u \in Seq(Cell) /\ Len(u) = 0
    <3> HIDE DEF Cell
    <3>1. QED BY <2>1
  <2>3. e \in [0..0 -> Nat] /\ e[0] = 0 /\ 1..0 = {}
    BY <2>1
  <2>4. LaidOut(u, rows, e, 0)
    BY <2>2, <2>3 DEF LaidOut, Ends
  <2>5. QED BY <2>1, <2>4
<1> HIDE DEF U
<1>8. T = {}
  <2> SUFFICES ASSUME T # {} PROVE FALSE
    OBVIOUS
  <2>1. T \in SUBSET Nat
    OBVIOUS
  <2>2. PICK i \in T : \A j \in T : i <= j
    BY <2>1, Least
  <2>3. i \in 0..n /\ ~\E e : LaidOut(U(i), rows, e, i)
    OBVIOUS
  <2>4. i # 0
    BY <1>7, <2>3, Zenon
  <2>5. i \in 1..n /\ i - 1 \in 0..n /\ ~(i <= i - 1)
    BY <1>2, <2>3, <2>4
  <2>6. PICK e : LaidOut(U(i - 1), rows, e, i - 1)
    BY <2>2, <2>5
  <2>7. U(i) = U(i - 1) \o rows[i]
    BY <1>6, <2>5
  <2>8. \E g : LaidOut(U(i), rows, g, i)
    BY <1>2, <2>5, <2>6, <2>7, LayOneMore, Zenon
  <2>9. QED BY <2>3, <2>8, Zenon
<1>9. n \in 0..n
  BY <1>2
<1>10. PICK e : LaidOut(U(n), rows, e, n)
  BY <1>8, <1>9
<1>11. U(n) = FlattenSeq(rows)
  <2>1. CASE n = 0
    <3>1. FlattenSeq(rows) = rows
      BY <1>1, <2>1 DEF FlattenSeq
    <3>2. rows = <<>>
      <4> HIDE DEF Cell
      <4>1. QED BY <1>1, <2>1, EmptySeq, Zenon
    <3>3. QED BY <2>1, <3>1, <3>2 DEF U
  <2>2. CASE n # 0
    <3>1. FlattenSeq(rows) = f[n]
      BY <1>1, <1>3, <2>2, Zenon DEF FlattenSeq, Flattened
    <3>2. QED BY <2>2, <3>1 DEF U
  <2>3. QED BY <2>1, <2>2
<1>12. QED BY <1>1, <1>10, <1>11-----------------------------------------------------------------------------
(* Entries of a namespace, and the walk over them.                         *)

\* What native_region_end computes, from its own earlier values.
Walk(f, bytes, base, n) == [i \in 0..n |-> IF i = 0 THEN base ELSE entry_end(bytes, f[i - 1])]

LEMMA WalkExists ==
  ASSUME NEW n \in Nat, NEW bytes, NEW base
  PROVE  \E f : f = Walk(f, bytes, base, n)
<1> DEFINE T == {m \in Nat : ~\E f : f = Walk(f, bytes, base, m)}
<1> SUFFICES ASSUME T # {} PROVE FALSE
  OBVIOUS
<1>1. PICK m \in T : \A k \in T : m <= k
  BY Least
<1>2. m \in Nat /\ ~\E f : f = Walk(f, bytes, base, m)
  OBVIOUS
<1>3. CASE m = 0
  <2>1. PICK f : f = [k \in 0..m |-> base]
    OBVIOUS
  <2>2. 0..m = {0}
    BY <1>3
  <2>3. f = Walk(f, bytes, base, m)
    BY <2>1, <2>2 DEF Walk
  <2>4. QED BY <1>2, <2>3, Zenon
<1>4. CASE m # 0
  <2>1. m - 1 \in Nat /\ m - 1 \notin T
    BY <1>1, <1>2, <1>4
  <2>2. PICK f : f = Walk(f, bytes, base, m - 1)
    BY <2>1
  <2>3. PICK g : g = [k \in 0..m |-> IF k # m THEN f[k] ELSE entry_end(bytes, f[m - 1])]
    OBVIOUS
  <2>4. ASSUME NEW k \in 0..m PROVE g[k] = IF k = 0 THEN base ELSE entry_end(bytes, g[k - 1])
    <3>1. CASE k = m
      <4>1. g[k] = entry_end(bytes, f[m - 1])
        BY <2>3, <3>1
      <4>2. g[m - 1] = f[m - 1]
        BY <1>2, <1>4, <2>3
      <4>3. QED BY <1>4, <3>1, <4>1, <4>2
    <3>2. CASE k # m
      <4>1. k \in 0..m - 1 /\ g[k] = f[k] /\ (k # 0 => g[k - 1] = f[k - 1])
        BY <1>2, <2>3, <3>2
      <4>2. f[k] = IF k = 0 THEN base ELSE entry_end(bytes, f[k - 1])
        BY <2>2, <4>1 DEF Walk
      <4>3. QED BY <4>1, <4>2
    <3>3. QED BY <3>1, <3>2
  <2>5. g = Walk(g, bytes, base, m)
    BY <2>3, <2>4 DEF Walk
  <2>6. QED BY <1>2, <2>5, Zenon
<1>5. QED BY <1>3, <1>4

\* The walk goes from entry to entry.
LEMMA WalkEnds ==
  ASSUME NEW n \in Nat, NEW bytes, NEW x, \A r \in 1..n : entry_end(bytes, x[r - 1]) = x[r]
  PROVE  native_region_end(bytes, x[0], n) = x[n]
<1>1. PICK f : f = CHOOSE g : g = Walk(g, bytes, x[0], n)
  OBVIOUS
<1>2. f = Walk(f, bytes, x[0], n)
  BY <1>1, WalkExists, Zenon
<1>3. \A i \in 0..n : f[i] = IF i = 0 THEN x[0] ELSE entry_end(bytes, f[i - 1])
  <2>1. f = [i \in 0..n |-> IF i = 0 THEN x[0] ELSE entry_end(bytes, f[i - 1])]
    BY <1>2, Zenon DEF Walk
  <2>2. QED BY <2>1, Zenon
<1> DEFINE T == {i \in 0..n : f[i] # x[i]}
<1>4. T = {}
  <2> SUFFICES ASSUME T # {} PROVE FALSE
    OBVIOUS
  <2>1. T \in SUBSET Nat
    OBVIOUS
  <2>2. PICK i \in T : \A j \in T : i <= j
    BY <2>1, Least
  <2>3. i \in 0..n /\ f[i] # x[i]
    OBVIOUS
  <2>4. CASE i = 0
    BY <1>3, <2>3, <2>4, Zenon
  <2>5. CASE i # 0
    <3>1. i \in 1..n /\ i - 1 \in 0..n /\ ~(i <= i - 1)
      BY <2>3, <2>5
    <3>2. f[i - 1] = x[i - 1]
      BY <2>2, <3>1
    <3>3. f[i] = entry_end(bytes, f[i - 1])
      BY <1>3, <2>3, <2>5, Zenon
    <3>4. QED BY <2>3, <3>1, <3>2, <3>3, Zenon
  <2>6. QED BY <2>4, <2>5
<1>5. f[n] = x[n]
  <2>1. n \in 0..n
    OBVIOUS
  <2>2. QED BY <1>4, <2>1
<1>6. native_region_end(bytes, x[0], n) = f[n]
  BY <1>1, Zenon DEF native_region_end, Walk
<1>7. QED BY <1>5, <1>6

\* What IssuedAssumption says of the items.
LEMMA ItemType ==
  ASSUME NEW i \in DOMAIN Items
  PROVE  i \in Nat /\ IsItem(Items[i]) /\ IsDigestId(Items[i].id) /\ Items[i].date \in Day
<1>1. i \in Nat /\ IsItem(Items[i])
  BY IssuedAssumption
<1>2. QED BY <1>1 DEF IsItem

LEMMA DigestIs ==
  ASSUME NEW i \in Nat, NEW d, d = ItemDigest(i)
  PROVE  /\ Tagged(d, {"sha256"}) /\ d \in Seq(Cell) /\ Len(d) = 32
         /\ \A k \in 1..32 : d[k] = <<"sha256", 32 * i + k>>
<1>0. "sha256" \in Tags
  BY DEF Tags, SigTags
<1>1. d = [k \in 1..32 |-> <<"sha256", 32 * i + k>>]
  BY DEF ItemDigest
<1>2. \A k \in 1..32 : d[k] = <<"sha256", 32 * i + k>> /\ d[k] \in Cell /\ d[k][1] = "sha256"
  <2>1. ASSUME NEW k \in 1..32 PROVE d[k] = <<"sha256", 32 * i + k>> /\ d[k] \in Cell /\ d[k][1] = "sha256"
    <3>1. PICK x, v : v = 32 * i + k /\ x = <<"sha256", v>>
      OBVIOUS
    <3>2. v \in Int
      BY <3>1
    <3>3. x \in Cell /\ x[1] = "sha256"
      BY <1>0, <3>1, <3>2, CellIs
    <3>4. d[k] = x
      BY <1>1, <3>1
    <3>5. QED BY <3>1, <3>3, <3>4, Zenon
  <2>2. QED BY <2>1
<1>3. d \in Seq(Cell) /\ Len(d) = 32
  <2>1. d \in [1..32 -> Cell]
    BY <1>1, <1>2
  <2>2. QED BY <2>1, SeqIs
<1>4. QED BY <1>2, <1>3 DEF Tagged

\* An entry: a digestID that tells its own length, 58 20 and the digest of item i.
Entry(b, i) ==
  /\ Tagged(b, {"byte", "sha256"}) /\ b \in Seq(Cell)
  /\ Len(Items[i].id) \in Nat /\ Len(b) = Len(Items[i].id) + 34
  /\ b[1] = <<"byte", Items[i].id[1]>>
  /\ Holds(b, Len(Items[i].id) + 2, ItemDigest(i))
  /\ \A j \in Nat : \A k \in 1..Len(b) : b[k] = <<"sha256", 32 * j + 1>> => i = j

LEMMA HeadBytes == Tagged(BSTR32, {"byte"}) /\ BSTR32 \in Seq(Cell) /\ Len(BSTR32) = 2
<1>1. PICK vs, h : vs = <<88, 32>> /\ h = Bytes(vs)
  OBVIOUS
<1>2. vs \in Seq(Nat) /\ Len(vs) = 2
  BY <1>1
<1>3. Tagged(h, {"byte"}) /\ h \in Seq(Cell) /\ Len(h) = Len(vs)
  BY <1>1, <1>2, BytesIs
<1>4. QED BY <1>1, <1>2, <1>3 DEF BSTR32

LEMMA SameDigest ==
  ASSUME NEW i \in Nat, NEW j \in Nat, NEW m \in 1..32, 32 * i + m = 32 * j + 1
  PROVE  i = j
OBVIOUS

LEMMA EntryIs ==
  ASSUME NEW i \in DOMAIN Items
  PROVE  Entry(EntryBytes(i), i)
<1>1. PICK id, a, h, d : id = Items[i].id /\ a = Bytes(id) /\ h = BSTR32 /\ d = ItemDigest(i)
  OBVIOUS
<1>2. i \in Nat /\ id \in Seq(Nat) /\ Len(id) \in Nat /\ Len(id) >= 1
  BY <1>1, ItemType, LenProperties DEF IsDigestId
<1>3. BytesOf(a, id)
  BY <1>1, <1>2, BytesIs, Zenon DEF BytesOf
<1>4. Tagged(a, {"byte"}) /\ a \in Seq(Cell) /\ Len(a) = Len(id) /\ a[1] = <<"byte", id[1]>>
  BY <1>2, <1>3 DEF BytesOf
<1>5. Tagged(h, {"byte"}) /\ h \in Seq(Cell) /\ Len(h) = 2
  BY <1>1, HeadBytes
<1>6. /\ Tagged(d, {"sha256"}) /\ d \in Seq(Cell) /\ Len(d) = 32
      /\ \A k \in 1..32 : d[k] = <<"sha256", 32 * i + k>>
  BY <1>1, <1>2, DigestIs, ZenonT(40)
<1>7. PICK g, b : g = a \o h /\ b = g \o d
  OBVIOUS
<1>8. Joined(g, a, h) /\ Tagged(g, {"byte"})
  <2>1. Joined(g, a, h) /\ Tagged(g, {"byte"} \cup {"byte"})
    BY <1>4, <1>5, <1>7, Join
  <2>2. {"byte"} \cup {"byte"} = {"byte"}
    OBVIOUS
  <2>3. QED BY <2>1, <2>2
<1>9. Joined(b, g, d) /\ Tagged(b, {"byte", "sha256"})
  <2>1. Joined(b, g, d) /\ Tagged(b, {"byte"} \cup {"sha256"})
    BY <1>6, <1>7, <1>8, Join
  <2>2. {"byte"} \cup {"sha256"} = {"byte", "sha256"}
    OBVIOUS
  <2>3. QED BY <2>1, <2>2
<1>10. Len(g) = Len(id) + 2 /\ Len(b) = Len(id) + 34 /\ Len(b) = Len(g) + 32 /\ Len(g) \in Nat
  <2>1. Len(g) = Len(a) + Len(h) /\ Len(b) = Len(g) + Len(d)
    BY <1>8, <1>9 DEF Joined
  <2>2. Len(a) = Len(id) /\ Len(h) = 2 /\ Len(d) = 32
    BY <1>4, <1>5, <1>6
  <2>3. QED BY <1>2, <2>1, <2>2
<1>11. b[1] = <<"byte", id[1]>>
  <2>1. 1 \in 1..Len(g) + Len(d) /\ 1 <= Len(g) /\ 1 \in 1..Len(a) + Len(h) /\ 1 <= Len(a)
    <3>1. Len(a) = Len(id) /\ Len(h) = 2 /\ Len(d) = 32
      BY <1>4, <1>5, <1>6
    <3>2. QED BY <1>2, <1>10, <3>1
  <2>2. b[1] = g[1] /\ g[1] = a[1]
    BY <1>8, <1>9, <2>1, Zenon DEF Joined, Appended
  <2>3. QED BY <1>4, <2>2
<1>12. ASSUME NEW j \in Nat, NEW k \in 1..Len(b), b[k] = <<"sha256", 32 * j + 1>> PROVE i = j
  <2>0. b[k] = IF k <= Len(g) THEN g[k] ELSE d[k - Len(g)]
    BY <1>9, Zenon DEF Joined, Appended
  <2>1. CASE k <= Len(g)
    <3>1. k \in 1..Len(g) /\ g[k] = b[k]
      BY <1>10, <1>2, <2>0, <2>1
    <3>2. g[k][1] = "byte"
      BY <1>8, <3>1 DEF Tagged
    <3>3. QED BY <1>12, <3>1, <3>2
  <2>2. CASE ~(k <= Len(g))
    <3>1. PICK m : m = k - Len(g)
      OBVIOUS
    <3>2. m \in 1..32 /\ b[k] = d[m]
      <4>1. m \in 1..32
        <5>1. PICK y : y = Len(g)
          OBVIOUS
        <5>2. y \in Nat /\ k \in 1..y + 32 /\ ~(k <= y) /\ m = k - y
          BY <1>2, <1>10, <2>2, <3>1, <5>1, Zenon
        <5>3. QED BY <5>2
      <4>2. QED BY <2>0, <2>2, <3>1, <4>1
    <3>3. <<"sha256", 32 * i + m>> = <<"sha256", 32 * j + 1>>
      BY <1>6, <1>12, <3>2
    <3>4. 32 * i + m = 32 * j + 1
      BY <3>3
    <3>5. QED BY <1>2, <3>2, <3>4, SameDigest
  <2>3. QED BY <2>1, <2>2
<1>13. b = EntryBytes(i)
  BY <1>1, <1>7 DEF EntryBytes
<1>14. Entry(b, i)
  BY <1>1, <1>2, <1>9, <1>10, <1>11, <1>12 DEF Entry, Joined
<1>15. QED BY <1>13, <1>14

\* From an entry, the walk goes to its end.
LEMMA EntryEnds ==
  ASSUME NEW u \in Seq(Cell), NEW i \in DOMAIN Items, NEW at, Holds(u, at, EntryBytes(i))
  PROVE  entry_end(u, at) = at + Len(EntryBytes(i))
<1>1. PICK id, b : id = Items[i].id /\ b = EntryBytes(i)
  OBVIOUS
<1>2. /\ Len(id) \in Nat /\ Len(b) = Len(id) + 34 /\ b[1] = <<"byte", id[1]>>
  BY <1>1, EntryIs DEF Entry
<1>3. /\ id \in Seq(Nat)
      /\ \/ Len(id) = 1 /\ id[1] < 24
         \/ Len(id) = 2 /\ id[1] = 24
         \/ Len(id) = 3 /\ id[1] = 25
         \/ Len(id) = 5 /\ id[1] = 26
  BY <1>1, ItemType DEF IsDigestId
<1>4. at \in Nat /\ at + Len(b) <= Len(u) /\ u[at + 1] = b[1] /\ Len(u) \in Nat
  <2>1. Holds(u, at, b)
    BY <1>1
  <2>2. 1 \in 1..Len(b)
    BY <1>2
  <2>3. QED BY <2>1, <2>2, LenProperties DEF Holds
<1>5. id[1] \in Nat
  BY <1>3, ElementOfSeq
<1>6. u[at + 1][1] = "byte" /\ u[at + 1][2] = id[1] /\ ~(at >= Len(u))
  BY <1>2, <1>4
<1>7. digest_id_width(u, at) = Len(id)
  BY <1>3, <1>5, <1>6 DEF digest_id_width
<1>8. entry_end(u, at) = at + Len(id) + 34
  <2>1. ~(at < 0) /\ Len(id) # 0
    BY <1>3, <1>4
  <2>2. QED BY <1>7, <2>1 DEF entry_end, DIGEST_VALUE_LEN
<1>9. QED BY <1>1, <1>2, <1>4, <1>8-----------------------------------------------------------------------------
(* A namespace in the signed bytes.                                        *)

\* One more piece behind u: where a cell stands alone it still does.
LEMMA Glue ==
  ASSUME NEW u, NEW t, NEW S, NEW T, Tagged(u, S), Tagged(t, T), NEW v, v = u \o t
  PROVE  Joined(v, u, t) /\ Tagged(v, S \cup T)
BY Join, Zenon

LEMMA AloneLeft ==
  ASSUME NEW v, NEW u, NEW t, Joined(v, u, t), NEW T, Tagged(t, T), NEW y, y \notin T,
         NEW n, NEW a \in Nat, OnlyAt(u, <<y, n>>, a)
  PROVE  OnlyAt(v, <<y, n>>, a)
<1>1. Absent(t, <<y, n>>)
  BY TagAbsent, Zenon
<1>2. u \in Seq(Cell) /\ t \in Seq(Cell) /\ Appended(v, u, t)
  BY DEF Joined
<1>3. QED BY <1>1, <1>2, AbsentIn, Zenon

LEMMA AloneRight ==
  ASSUME NEW v, NEW u, NEW t, Joined(v, u, t), NEW S, Tagged(u, S), NEW y, y \notin S,
         NEW n, NEW a \in Nat, OnlyAt(t, <<y, n>>, a)
  PROVE  OnlyAt(v, <<y, n>>, Len(u) + a)
<1>1. Absent(u, <<y, n>>)
  BY TagAbsent, Zenon
<1>2. u \in Seq(Cell) /\ t \in Seq(Cell) /\ Appended(v, u, t)
  BY DEF Joined
<1>3. QED BY <1>1, <1>2, AbsentIn, Zenon

LEMMA HoldsLeft ==
  ASSUME NEW v, NEW u, NEW t, Joined(v, u, t), NEW p \in Seq(Cell), NEW a, Holds(u, a, p)
  PROVE  Holds(v, a, p)
<1>1. u \in Seq(Cell) /\ t \in Seq(Cell) /\ Appended(v, u, t)
  BY DEF Joined
<1>2. QED BY <1>1, HoldsIn, Zenon

LEMMA TagsGrow ==
  ASSUME NEW u, NEW S, NEW T, Tagged(u, S), S \subseteq T
  PROVE  Tagged(u, T)
BY Zenon DEF Tagged

LEMMA GlueIn ==
  ASSUME NEW T, NEW u, NEW t, Tagged(u, T), Tagged(t, T), NEW v, v = u \o t
  PROVE  Joined(v, u, t) /\ Tagged(v, T)
<1>1. Joined(v, u, t) /\ Tagged(v, T \cup T)
  BY Glue, Zenon
<1>2. T \cup T = T
  OBVIOUS
<1>3. QED BY <1>1, <1>2

\* A cell of a concatenation is a cell of one of its parts.
LEMMA InPart ==
  ASSUME NEW v, NEW u, NEW t, Joined(v, u, t), NEW k \in 1..Len(v)
  PROVE  \/ k \in 1..Len(u) /\ v[k] = u[k]
         \/ k - Len(u) \in 1..Len(t) /\ v[k] = t[k - Len(u)]
<1>1. Len(u) \in Nat /\ Len(t) \in Nat /\ Len(v) = Len(u) + Len(t)
  BY DEF Joined
<1>2. v[k] = IF k <= Len(u) THEN u[k] ELSE t[k - Len(u)]
  BY <1>1, Zenon DEF Joined, Appended
<1>3. PICK x, y : x = Len(u) /\ y = Len(t)
  OBVIOUS
<1>4. x \in Nat /\ y \in Nat /\ k \in 1..x + y
  BY <1>1, <1>3, Zenon
<1>5. (k <= x => k \in 1..x) /\ (~(k <= x) => k - x \in 1..y)
  BY <1>4
<1>6. QED BY <1>2, <1>3, <1>5, Zenon

EntryRows(ns) == [k \in DOMAIN ns.items |-> EntryBytes(ns.items[k])]
IsNamespace(ns) == ns.name \in Names /\ ns.items \in Seq(DOMAIN Items)

LEMMA EntriesLaid ==
  ASSUME NEW ns, IsNamespace(ns)
  PROVE  /\ Len(ns.items) \in Nat /\ DOMAIN ns.items = 1..Len(ns.items)
         /\ \A k \in 1..Len(ns.items) : ns.items[k] \in DOMAIN Items
         /\ \A k \in 1..Len(ns.items) : EntryRows(ns)[k] = EntryBytes(ns.items[k])
         /\ \E e : LaidOut(FlattenSeq(EntryRows(ns)), EntryRows(ns), e, Len(ns.items))
<1>1. PICK m, rows : m = Len(ns.items) /\ rows = EntryRows(ns)
  OBVIOUS
<1>2. m \in Nat /\ DOMAIN ns.items = 1..m /\ \A k \in 1..m : ns.items[k] \in DOMAIN Items
  BY <1>1, LenProperties, ElementOfSeq, Zenon DEF IsNamespace
<1>3. rows = [k \in 1..m |-> EntryBytes(ns.items[k])]
  BY <1>1, <1>2 DEF EntryRows
<1>4. \A k \in 1..m : rows[k] = EntryBytes(ns.items[k]) /\ rows[k] \in Seq(Cell)
  BY <1>2, <1>3, EntryIs DEF Entry
<1>5. rows \in Seq(Seq(Cell)) /\ Len(rows) = m
  <2>1. rows \in [1..m -> Seq(Cell)]
    BY <1>3, <1>4
  <2>2. QED BY <1>2, <2>1, SeqIs, Zenon
<1>6. \E e : LaidOut(FlattenSeq(rows), rows, e, m)
  BY <1>5, Flatten
<1>7. QED BY <1>1, <1>2, <1>4, <1>6

\* The entries as bytes: f is those of ns, with the ends e.
EntriesAre(f, ns, e) ==
  /\ LaidOut(f, EntryRows(ns), e, Len(ns.items))
  /\ f \in Seq(Cell) /\ Len(f) \in Nat /\ Tagged(f, {"byte", "sha256"})

LEMMA EntriesExist ==
  ASSUME NEW ns, IsNamespace(ns)
  PROVE  \E e : EntriesAre(FlattenSeq(EntryRows(ns)), ns, e)
<1>1. PICK m, f, rows : m = Len(ns.items) /\ rows = EntryRows(ns) /\ f = FlattenSeq(EntryRows(ns))
  OBVIOUS
<1>2. /\ \A k \in 1..m : ns.items[k] \in DOMAIN Items /\ rows[k] = EntryBytes(ns.items[k])
      /\ \E e : LaidOut(f, rows, e, m)
  BY <1>1, EntriesLaid
<1>3. PICK e : LaidOut(f, rows, e, m)
  BY <1>2
<1>4. f \in Seq(Cell) /\ Len(f) \in Nat
  BY <1>3, LenProperties DEF LaidOut
<1>5. ASSUME NEW j \in 1..Len(f) PROVE f[j][1] \in {"byte", "sha256"}
  <2>1. PICK r \in 1..m : j - e[r - 1] \in 1..Len(rows[r])
    BY <1>3, Zenon DEF LaidOut, InRow
  <2>2. Holds(f, e[r - 1], rows[r]) /\ e[r - 1] \in Nat
    BY <1>3, Zenon DEF LaidOut, Holds
  <2>3. PICK k, a : k = j - e[r - 1] /\ a = e[r - 1]
    OBVIOUS
  <2>4. k \in 1..Len(rows[r]) /\ a + k = j
    BY <2>1, <2>2, <2>3
  <2>5. f[j] = rows[r][k]
    BY <2>2, <2>3, <2>4, Zenon DEF Holds
  <2>6. Tagged(rows[r], {"byte", "sha256"})
    BY <1>2, EntryIs, ZenonT(40) DEF Entry
  <2>7. QED BY <2>4, <2>5, <2>6 DEF Tagged
<1>6. EntriesAre(f, ns, e)
  BY <1>1, <1>3, <1>4, <1>5 DEF EntriesAre, Tagged
<1>7. QED BY <1>1, <1>6

\* What precedes the entries: the name and the number of entries.
OpenLen(ns) == HeadLen(NameLen[ns.name]) + NameLen[ns.name]
BodyAt(ns) == OpenLen(ns) + HeadLen(Len(ns.items))

NamespacePlaced(b, ns) ==
  /\ Tagged(b, Names \cup {"byte", "sha256"}) /\ b \in Seq(Cell)
  /\ OpenLen(ns) \in Nat /\ BodyAt(ns) \in Nat
  /\ Holds(b, 0, NameBytes(ns.name)) /\ Holds(b, OpenLen(ns), map_header(Len(ns.items)))
  /\ \E f, e : EntriesAre(f, ns, e) /\ Holds(b, BodyAt(ns), f) /\ Len(b) = BodyAt(ns) + Len(f)
  /\ \A n \in Names : \A k \in 1..Len(b) : b[k] = <<n, 0>> => n = ns.name /\ k = HeadLen(NameLen[n]) + 1

LEMMA HeadLenType ==
  ASSUME NEW n \in Nat
  PROVE  HeadLen(n) \in Nat /\ HeadLen(n) >= 1 /\ HeadLen(n) \in 1..2
BY DEF HeadLen

LEMMA NamespaceIs ==
  ASSUME NEW ns, IsNamespace(ns)
  PROVE  NamespacePlaced(NamespaceBytes(ns), ns)
<1>0. ns.name \in Names /\ Len(ns.items) \in Nat
  BY EntriesLaid DEF IsNamespace
<1>1. PICK n, m, a, h, f : /\ n = ns.name /\ m = Len(ns.items) /\ a = NameBytes(n)
                           /\ h = map_header(m) /\ f = FlattenSeq(EntryRows(ns))
  OBVIOUS
<1>2. NamePlaced(a, n) /\ NameLen[n] \in Nat /\ n \notin SigTags
  BY <1>0, <1>1, NameIs, NameType
<1>3. Tagged(a, {"byte", n}) /\ Len(a) = OpenLen(ns) /\ a \in Seq(Cell)
  BY <1>1, <1>2 DEF NamePlaced, OpenLen
<1>4. Tagged(h, {"byte"}) /\ Len(h) = HeadLen(m) /\ h \in Seq(Cell)
  BY <1>0, <1>1, MapHead DEF Header
<1>5. PICK e : EntriesAre(f, ns, e)
  BY <1>1, EntriesExist
<1>6. Tagged(f, {"byte", "sha256"}) /\ f \in Seq(Cell)
  BY <1>5 DEF EntriesAre
<1>7. PICK g, b : g = a \o h /\ b = g \o f
  OBVIOUS
<1>8. Joined(g, a, h) /\ Tagged(g, {"byte", n} \cup {"byte"})
  BY <1>3, <1>4, <1>7, Glue, Zenon
<1>9. Joined(b, g, f) /\ Tagged(b, ({"byte", n} \cup {"byte"}) \cup {"byte", "sha256"})
  BY <1>6, <1>7, <1>8, Glue, Zenon
<1>10. Tagged(b, Names \cup {"byte", "sha256"})
  <2>1. ({"byte", n} \cup {"byte"}) \cup {"byte", "sha256"} \subseteq Names \cup {"byte", "sha256"}
    BY <1>0, <1>1
  <2>2. QED BY <1>9, <2>1, TagsGrow, Zenon
<1>11. OpenLen(ns) \in Nat /\ BodyAt(ns) \in Nat /\ Len(g) = BodyAt(ns)
  <2>1. HeadLen(m) \in Nat /\ HeadLen(NameLen[n]) \in Nat
    BY <1>0, <1>1, <1>2, HeadLenType
  <2>2. Len(g) = Len(a) + Len(h)
    BY <1>8 DEF Joined
  <2>3. QED BY <1>1, <1>2, <1>3, <1>4, <2>1, <2>2 DEF OpenLen, BodyAt
<1>12. Holds(b, 0, a) /\ Holds(b, OpenLen(ns), h)
  <2>1. Holds(g, 0, a) /\ Holds(g, Len(a), h)
    BY <1>8 DEF Joined
  <2>2. Holds(b, 0, a) /\ Holds(b, Len(a), h)
    BY <1>3, <1>4, <1>9, <2>1, HoldsLeft, Zenon
  <2>3. QED BY <1>3, <2>2
<1>13. Holds(b, BodyAt(ns), f) /\ Len(b) = BodyAt(ns) + Len(f)
  BY <1>9, <1>11 DEF Joined
<1>14. ASSUME NEW x \in Names, NEW k \in 1..Len(b), b[k] = <<x, 0>>
       PROVE  x = n /\ k = HeadLen(NameLen[x]) + 1
  <2>0. x # "byte" /\ x # "sha256"
    BY NameType DEF SigTags
  <2>1. x = n
    <3>1. b[k][1] \in ({"byte", n} \cup {"byte"}) \cup {"byte", "sha256"}
      BY <1>9 DEF Tagged
    <3>2. b[k][1] = x
      BY <1>14
    <3>3. QED BY <2>0, <3>1, <3>2
  <2>2. OnlyAt(a, <<x, 0>>, HeadLen(NameLen[x])) /\ HeadLen(NameLen[x]) \in Nat
    BY <1>2, <2>1, HeadLenType DEF NamePlaced
  <2>3. OnlyAt(g, <<x, 0>>, HeadLen(NameLen[x]))
    <3>1. x \notin {"byte"}
      BY <2>0
    <3>2. QED BY <1>4, <1>8, <2>2, <3>1, AloneLeft, Zenon
  <2>4. OnlyAt(b, <<x, 0>>, HeadLen(NameLen[x]))
    <3>1. x \notin {"byte", "sha256"}
      BY <2>0
    <3>2. QED BY <1>6, <1>9, <2>2, <2>3, <3>1, AloneLeft, Zenon
  <2>5. QED BY <1>14, <2>1, <2>4 DEF OnlyAt
<1>15. b = NamespaceBytes(ns)
  BY <1>1, <1>7 DEF NamespaceBytes, EntryRows
<1>16. NamespacePlaced(b, ns)
  BY <1>1, <1>5, <1>9, <1>10, <1>11, <1>12, <1>13, <1>14 DEF NamespacePlaced, Joined
<1>17. QED BY <1>15, <1>16
\* A digest among the entries of ns is that of one of its items.
OfItems(u, at, ns) ==
  \A i \in Nat : \A p \in 1..Len(u) :
     at + BodyAt(ns) < p /\ p <= at + Len(NamespaceBytes(ns)) /\ u[p] = <<"sha256", 32 * i + 1>>
     => \E k \in 1..Len(ns.items) : ns.items[k] = i

\* Where a namespace stands, the walk from its first entry ends where it does, and a
\* digest in between is that of one of its items.
LEMMA Region ==
  ASSUME NEW u \in Seq(Cell), NEW ns, IsNamespace(ns), NEW at, Holds(u, at, NamespaceBytes(ns))
  PROVE  /\ native_region_end(u, at + BodyAt(ns), Len(ns.items)) = at + Len(NamespaceBytes(ns))
         /\ OfItems(u, at, ns)
<1>1. PICK b, m, rows, base : /\ b = NamespaceBytes(ns) /\ m = Len(ns.items) /\ rows = EntryRows(ns)
                              /\ base = at + BodyAt(ns)
  OBVIOUS
<1>2. NamespacePlaced(b, ns)
  BY <1>1, NamespaceIs
<1>3. PICK f, e : EntriesAre(f, ns, e) /\ Holds(b, BodyAt(ns), f) /\ Len(b) = BodyAt(ns) + Len(f)
  BY <1>2, Zenon DEF NamespacePlaced
<1>4. b \in Seq(Cell) /\ BodyAt(ns) \in Nat /\ f \in Seq(Cell) /\ Len(f) \in Nat /\ at \in Nat /\ base \in Nat
  <2>1. b \in Seq(Cell) /\ BodyAt(ns) \in Nat
    BY <1>2, Zenon DEF NamespacePlaced
  <2>2. f \in Seq(Cell) /\ Len(f) \in Nat
    BY <1>3, Zenon DEF EntriesAre
  <2>3. at \in Nat
    BY Zenon DEF Holds
  <2>4. QED BY <1>1, <2>1, <2>2, <2>3
<1>5. Holds(u, base, f)
  <2>1. Holds(u, at, b)
    BY <1>1
  <2>2. QED BY <1>1, <1>3, <1>4, <2>1, HoldsPart, Zenon
<1>6. LaidOut(f, rows, e, m) /\ Ends(rows, e, m) /\ Len(f) = e[m]
  BY <1>1, <1>3 DEF EntriesAre, LaidOut
<1>7. /\ m \in Nat /\ \A r \in 1..m : ns.items[r] \in DOMAIN Items /\ rows[r] = EntryBytes(ns.items[r])
  BY <1>1, EntriesLaid
<1>8. ASSUME NEW r \in 1..m
      PROVE  /\ Holds(f, e[r - 1], rows[r]) /\ rows[r] \in Seq(Cell) /\ e[r - 1] \in Nat
             /\ Holds(u, base + e[r - 1], rows[r])
             /\ Len(rows[r]) \in Nat /\ e[r] = e[r - 1] + Len(rows[r])
  <2>1. Holds(f, e[r - 1], rows[r]) /\ e[r - 1] \in Nat
    BY <1>6, Zenon DEF LaidOut, Holds
  <2>2. rows[r] \in Seq(Cell) /\ Len(rows[r]) \in Nat
    <3>1. Entry(rows[r], ns.items[r])
      BY <1>7, EntryIs, Zenon
    <3>2. QED BY <3>1, LenProperties DEF Entry
  <2>3. Holds(u, base + e[r - 1], rows[r])
    BY <1>4, <1>5, <2>1, <2>2, HoldsPart, Zenon
  <2>4. QED BY <1>6, <2>1, <2>2, <2>3, Zenon DEF Ends
<1>9. PICK x : x = [r \in 0..m |-> base + e[r]]
  OBVIOUS
<1>10. x[0] = base /\ x[m] = base + Len(f) /\ \A r \in 0..m : x[r] = base + e[r]
  <2>1. 0 \in 0..m /\ m \in 0..m /\ e[0] = 0
    BY <1>6, <1>7 DEF Ends
  <2>2. QED BY <1>4, <1>6, <1>9, <2>1
<1>11. ASSUME NEW r \in 1..m PROVE entry_end(u, x[r - 1]) = x[r]
  <2>1. r \in 0..m /\ r - 1 \in 0..m
    BY <1>7
  <2>2. x[r] = base + e[r] /\ x[r - 1] = base + e[r - 1]
    BY <1>10, <2>1
  <2>3. Holds(u, x[r - 1], EntryBytes(ns.items[r])) /\ ns.items[r] \in DOMAIN Items
    BY <1>7, <1>8, <2>2, Zenon
  <2>4. entry_end(u, x[r - 1]) = x[r - 1] + Len(EntryBytes(ns.items[r]))
    BY <2>3, EntryEnds, Zenon
  <2>5. Len(EntryBytes(ns.items[r])) = Len(rows[r]) /\ Len(rows[r]) \in Nat /\ e[r - 1] \in Nat
        /\ e[r] = e[r - 1] + Len(rows[r])
    BY <1>7, <1>8
  <2>6. QED BY <1>4, <2>2, <2>4, <2>5
<1>12. native_region_end(u, x[0], m) = x[m]
  BY <1>7, <1>11, WalkEnds, Zenon
<1>13. native_region_end(u, base, m) = at + Len(b)
  <2>1. native_region_end(u, base, m) = base + Len(f)
    BY <1>10, <1>12, Zenon
  <2>2. base + Len(f) = at + Len(b)
    BY <1>1, <1>3, <1>4
  <2>3. QED BY <2>1, <2>2, Zenon
<1>14. ASSUME NEW i \in Nat, NEW p \in 1..Len(u), base < p, p <= at + Len(b), u[p] = <<"sha256", 32 * i + 1>>
       PROVE  \E k \in 1..m : ns.items[k] = i
  <2>1. PICK j : j = p - base
    OBVIOUS
  <2>2. p \in Nat /\ p <= base + Len(f)
    <3>1. base + Len(f) = at + Len(b)
      BY <1>1, <1>3, <1>4
    <3>2. Len(u) \in Nat
      BY LenProperties
    <3>3. QED BY <1>14, <3>1, <3>2
  <2>3. j \in 1..Len(f) /\ base + j = p
    <3>1. PICK y : y = Len(f)
      OBVIOUS
    <3>2. y \in Nat /\ base \in Nat /\ p \in Nat /\ base < p /\ p <= base + y /\ j = p - base
      BY <1>4, <1>14, <2>1, <2>2, <3>1, Zenon
    <3>3. j \in 1..y /\ base + j = p
      BY <3>2
    <3>4. QED BY <3>1, <3>3
  <2>4. f[j] = u[p]
    BY <1>5, <2>3, Zenon DEF Holds
  <2>5. PICK r \in 1..m : j - e[r - 1] \in 1..Len(rows[r])
    BY <1>6, <2>3, Zenon DEF LaidOut, InRow
  <2>6. PICK k, c : k = j - e[r - 1] /\ c = e[r - 1]
    OBVIOUS
  <2>7. k \in 1..Len(rows[r]) /\ c \in Nat /\ c + k = j /\ Holds(f, c, rows[r])
    <3>1. e[r - 1] \in Nat /\ Holds(f, e[r - 1], rows[r])
      BY <1>8
    <3>2. QED BY <2>3, <2>5, <2>6, <3>1
  <2>8. rows[r][k] = <<"sha256", 32 * i + 1>>
    BY <1>14, <2>4, <2>7, Zenon DEF Holds
  <2>9. Entry(rows[r], ns.items[r])
    BY <1>7, EntryIs, Zenon
  <2>10. ns.items[r] = i
    BY <2>7, <2>8, <2>9, Zenon DEF Entry
  <2>11. QED BY <2>10
<1>15. QED BY <1>1, <1>13, <1>14, Zenon DEF OfItems

\* A digest anywhere in a namespace is that of one of its items: its name and its
\* header hold none.
LEMMA RowDigest ==
  ASSUME NEW ns, IsNamespace(ns), NEW i \in Nat, NEW k \in 1..Len(NamespaceBytes(ns)),
         NamespaceBytes(ns)[k] = <<"sha256", 32 * i + 1>>
  PROVE  \E r \in 1..Len(ns.items) : ns.items[r] = i
<1>1. PICK b, n, m, a, h : /\ b = NamespaceBytes(ns) /\ n = ns.name /\ m = Len(ns.items)
                           /\ a = NameBytes(n) /\ h = map_header(m)
  OBVIOUS
<1>2. NamespacePlaced(b, ns)
  BY <1>1, NamespaceIs
<1>3. /\ b \in Seq(Cell) /\ OpenLen(ns) \in Nat /\ BodyAt(ns) \in Nat
      /\ Holds(b, 0, a) /\ Holds(b, OpenLen(ns), h)
  BY <1>1, <1>2, Zenon DEF NamespacePlaced
<1>4. n \in Names /\ m \in Nat /\ NameLen[n] \in Nat
  BY <1>1, EntriesLaid, NameType DEF IsNamespace
<1>5. Tagged(a, {"byte", n}) /\ Len(a) = OpenLen(ns)
  BY <1>1, <1>4, NameIs DEF NamePlaced, OpenLen
<1>6. Tagged(h, {"byte"}) /\ Len(h) = HeadLen(m) /\ HeadLen(m) \in Nat
  BY <1>1, <1>4, MapHead, HeadLenType DEF Header
<1>7. n # "sha256"
  BY <1>4, NameType DEF SigTags
<1>8. b[k][1] = "sha256" /\ k \in Nat /\ k >= 1 /\ k \in 1..Len(b) /\ Len(b) \in Nat
  <2>1. b[k][1] = "sha256" /\ k \in 1..Len(b) /\ Len(b) \in Nat
    BY <1>1, <1>3, LenProperties
  <2>2. QED BY <2>1
<1>9. PICK x, y : x = OpenLen(ns) /\ y = HeadLen(m)
  OBVIOUS
<1>10. x \in Nat /\ y \in Nat /\ BodyAt(ns) = x + y
  BY <1>1, <1>3, <1>6, <1>9 DEF BodyAt
<1>11. ASSUME k <= x PROVE FALSE
  <2>1. k \in 1..Len(a) /\ 0 + k = k
    <3>1. Len(a) = x /\ x \in Nat /\ k \in Nat /\ k >= 1
      BY <1>5, <1>8, <1>9, <1>10, Zenon
    <3>2. k \in 1..x /\ 0 + k = k
      BY <1>11, <3>1
    <3>3. QED BY <3>1, <3>2, Zenon
  <2>2. b[k] = a[k]
    <3>1. b[0 + k] = a[k]
      BY <1>3, <2>1, Zenon DEF Holds
    <3>2. QED BY <2>1, <3>1
  <2>3. a[k][1] \in {"byte", n}
    BY <1>5, <2>1, Zenon DEF Tagged
  <2>4. QED BY <1>7, <1>8, <2>2, <2>3
<1>12. ASSUME x < k, k <= x + y PROVE FALSE
  <2>1. PICK j : j = k - x
    OBVIOUS
  <2>2. j \in 1..Len(h) /\ x + j = k
    <3>1. Len(h) = y /\ x \in Nat /\ y \in Nat /\ k \in Nat
      BY <1>6, <1>8, <1>9, <1>10, Zenon
    <3>2. j \in 1..y /\ x + j = k
      BY <1>12, <2>1, <3>1
    <3>3. QED BY <3>1, <3>2, Zenon
  <2>3. b[k] = h[j]
    <3>1. b[x + j] = h[j]
      BY <1>3, <1>9, <2>2, Zenon DEF Holds
    <3>2. QED BY <2>2, <3>1
  <2>4. h[j][1] \in {"byte"}
    BY <1>6, <2>2, Zenon DEF Tagged
  <2>5. QED BY <1>8, <2>3, <2>4
<1>13. 0 + BodyAt(ns) < k /\ k <= 0 + Len(b)
  <2>1. x + y < k
    BY <1>8, <1>10, <1>11, <1>12
  <2>2. QED BY <1>8, <1>10, <2>1
<1>14. OfItems(b, 0, ns)
  <2>1. Holds(b, 0, b)
    BY <1>3, HoldsItself, Zenon
  <2>2. QED BY <1>1, <1>3, <2>1, Region
<1>15. b[k] = <<"sha256", 32 * i + 1>>
  BY <1>1
<1>16. QED BY <1>1, <1>8, <1>13, <1>14, <1>15, Zenon DEF OfItems
-----------------------------------------------------------------------------
(* The parts of a Sig_structure.                                           *)

OpeningTags == Names \cup {"Sig_structure", "docType", "byte", "version"}
ValidityTags == {"validityInfo", "digit", "validFrom", "validUntil"}
DigestsTags == Names \cup {"valueDigests", "byte", "sha256"}
KeyTags == DeviceTags \cup {"deviceKeyInfo", "y label", "digestAlgorithm"}

\* No anchor is a name or spelled by a device key.
LEMMA AnchorsApart ==
  /\ "docType" \notin ValidityTags \cup DigestsTags \cup KeyTags \cup {"byte"}
  /\ "validityInfo" \notin OpeningTags \cup DigestsTags \cup KeyTags \cup {"byte"}
  /\ "valueDigests" \notin OpeningTags \cup ValidityTags \cup KeyTags \cup {"byte"}
  /\ "deviceKeyInfo" \notin OpeningTags \cup ValidityTags \cup DigestsTags \cup {"byte"}
<1>1. \A t \in Anchors : t \notin Names /\ t \notin DeviceTags
  BY IssuedAssumption DEF SigTags
<1>2. /\ "docType" \in Anchors /\ "validityInfo" \in Anchors /\ "valueDigests" \in Anchors
      /\ "deviceKeyInfo" \in Anchors
  BY DEF Anchors
<1>3. QED BY <1>1, <1>2 DEF OpeningTags, ValidityTags, DigestsTags, KeyTags

\* A literal of the signed bytes.
Piece(l, name, len) ==
  Tagged(l, {name}) /\ l \in Seq(Cell) /\ Len(l) = len /\ OnlyAt(l, <<name, 0>>, 0)

LEMMA PieceIs == \A name \in Tags, len \in Nat : Piece(Literal(name, len), name, len)
BY LiteralIs DEF Piece

LEMMA SigTagsAre ==
  /\ "Sig_structure" \in SigTags /\ "docType" \in SigTags /\ "version" \in SigTags
  /\ "validityInfo" \in SigTags /\ "validFrom" \in SigTags /\ "validUntil" \in SigTags
  /\ "valueDigests" \in SigTags /\ "deviceKeyInfo" \in SigTags /\ "y label" \in SigTags
  /\ "digestAlgorithm" \in SigTags /\ "byte" \in SigTags
  /\ SigTags \subseteq Tags
BY DEF SigTags, Anchors, Tags

OpeningPlaced(o, c) ==
  /\ Tagged(o, OpeningTags) /\ o \in Seq(Cell) /\ Len(o) \in Nat
  /\ OnlyAt(o, <<"docType", 0>>, 26) /\ Holds(o, 34, NameBytes(c.doc_type))

LEMMA OpeningIs ==
  ASSUME NEW c, c.doc_type \in Names
  PROVE  OpeningPlaced(Opening(c), c)
<1>1. PICK n, a, k, t, z : /\ n = c.doc_type /\ a = Literal("Sig_structure", 26) /\ k = DOC_TYPE_KEY
                           /\ t = NameBytes(n) /\ z = Literal("version", 12)
  OBVIOUS
<1>2. Tagged(a, {"Sig_structure"}) /\ a \in Seq(Cell) /\ Len(a) = 26
  <2>1. Piece(Literal("Sig_structure", 26), "Sig_structure", 26)
    BY SigTagsAre, PieceIs
  <2>2. QED BY <1>1, <2>1 DEF Piece
<1>3. Tagged(k, {"docType"}) /\ k \in Seq(Cell) /\ Len(k) = 8 /\ OnlyAt(k, <<"docType", 0>>, 0)
  <2>1. Piece(Literal("docType", 8), "docType", 8)
    BY SigTagsAre, PieceIs
  <2>2. QED BY <1>1, <2>1 DEF Piece, DOC_TYPE_KEY
<1>4. Tagged(t, {"byte", n}) /\ t \in Seq(Cell) /\ n \notin SigTags
  BY <1>1, NameIs, NameType DEF NamePlaced
<1>5. Tagged(z, {"version"}) /\ z \in Seq(Cell)
  <2>1. Piece(Literal("version", 12), "version", 12)
    BY SigTagsAre, PieceIs
  <2>2. QED BY <1>1, <2>1 DEF Piece
<1>6. PICK u, v, o : u = a \o k /\ v = u \o t /\ o = v \o z
  OBVIOUS
<1>7. Joined(u, a, k) /\ Tagged(u, {"Sig_structure"} \cup {"docType"})
  BY <1>2, <1>3, <1>6, Glue, Zenon
<1>8. Joined(v, u, t) /\ Tagged(v, ({"Sig_structure"} \cup {"docType"}) \cup {"byte", n})
  BY <1>4, <1>6, <1>7, Glue, Zenon
<1>9. Joined(o, v, z) /\ Tagged(o, (({"Sig_structure"} \cup {"docType"}) \cup {"byte", n}) \cup {"version"})
  BY <1>5, <1>6, <1>8, Glue, Zenon
<1>10. Tagged(o, OpeningTags)
  <2>1. (({"Sig_structure"} \cup {"docType"}) \cup {"byte", n}) \cup {"version"} \subseteq OpeningTags
    BY <1>1 DEF OpeningTags
  <2>2. QED BY <1>9, <2>1, TagsGrow, Zenon
<1>11. OnlyAt(o, <<"docType", 0>>, 26)
  <2>1. "docType" \notin {"Sig_structure"} /\ "docType" \notin {"byte", n} /\ "docType" \notin {"version"}
    BY <1>4, SigTagsAre
  <2>2. OnlyAt(u, <<"docType", 0>>, Len(a) + 0)
    BY <1>2, <1>3, <1>7, <2>1, AloneRight
  <2>3. Len(a) + 0 = 26 /\ 26 \in Nat
    BY <1>2
  <2>4. OnlyAt(v, <<"docType", 0>>, 26)
    BY <1>4, <1>8, <2>1, <2>2, <2>3, AloneLeft, ZenonT(40)
  <2>5. QED BY <1>5, <1>9, <2>1, <2>3, <2>4, AloneLeft
<1>12. Holds(o, 34, t)
  <2>1. Len(u) = 34 /\ Holds(v, Len(u), t)
    BY <1>2, <1>3, <1>7, <1>8 DEF Joined
  <2>2. QED BY <1>4, <1>9, <2>1, HoldsLeft
<1>13. o = Opening(c)
  BY <1>1, <1>6 DEF Opening
<1>14. OpeningPlaced(o, c)
  BY <1>1, <1>9, <1>10, <1>11, <1>12, LenProperties DEF OpeningPlaced, Joined
<1>15. QED BY <1>13, <1>14
\* The twenty characters of a time as bytes.
TimePlaced(b, a) == Tagged(b, {"digit"}) /\ b \in Seq(Cell) /\ Len(b) = 20

LEMMA TimeBytes ==
  ASSUME NEW a \in Day
  PROVE  TimePlaced(DigitBytes(TimeDigits(a)), a)
<1>1. PICK t, b : t = TimeDigits(a) /\ b = DigitBytes(t)
  OBVIOUS
<1>2. t \in Seq(Int) /\ Len(t) = 20
  BY <1>1, TimeIs, Zenon DEF OnTheDay
<1>3. Tagged(b, {"digit"}) /\ b \in Seq(Cell) /\ Len(b) = Len(t)
  BY <1>1, <1>2, DigitBytesAre, Zenon
<1>4. TimePlaced(b, a)
  BY <1>2, <1>3 DEF TimePlaced
<1>5. QED BY <1>1, <1>4, Zenon

ValidityPlaced(v, c) ==
  /\ Tagged(v, ValidityTags) /\ v \in Seq(Cell) /\ Len(v) \in Nat
  /\ OnlyAt(v, <<"validityInfo", 0>>, 0)
  /\ Holds(v, 55, DigitBytes(TimeDigits(c.from))) /\ Holds(v, 88, DigitBytes(TimeDigits(c.until)))

LEMMA ValidityIs ==
  ASSUME NEW c, c.from \in Day, c.until \in Day
  PROVE  ValidityPlaced(Validity(c), c)
<1>1. PICK a, p, q, x, y : /\ a = VALIDITY_OPEN /\ p = VALIDITY_MID_FROM /\ q = VALIDITY_MID_UNTIL
                           /\ x = DigitBytes(TimeDigits(c.from)) /\ y = DigitBytes(TimeDigits(c.until))
  OBVIOUS
<1>2. Piece(a, "validityInfo", 23) /\ Piece(p, "validFrom", 12) /\ Piece(q, "validUntil", 13)
  BY <1>1, SigTagsAre, PieceIs DEF VALIDITY_OPEN, VALIDITY_MID_FROM, VALIDITY_MID_UNTIL
<1>3. Tagged(x, {"digit"}) /\ x \in Seq(Cell) /\ Len(x) = 20
  BY <1>1, TimeBytes, Zenon DEF TimePlaced
<1>4. Tagged(y, {"digit"}) /\ y \in Seq(Cell) /\ Len(y) = 20
  BY <1>1, TimeBytes, Zenon DEF TimePlaced
<1>5. /\ Tagged(a, {"validityInfo"}) /\ a \in Seq(Cell) /\ Len(a) = 23 /\ OnlyAt(a, <<"validityInfo", 0>>, 0)
      /\ Tagged(p, {"validFrom"}) /\ p \in Seq(Cell) /\ Len(p) = 12
      /\ Tagged(q, {"validUntil"}) /\ q \in Seq(Cell) /\ Len(q) = 13
  BY <1>2, Zenon DEF Piece
<1>6. PICK v1, v2, v3, v4, v : /\ v1 = a \o x /\ v2 = v1 \o p /\ v3 = v2 \o x /\ v4 = v3 \o q
                               /\ v = v4 \o y
  OBVIOUS
<1>7. /\ Tagged(a, ValidityTags) /\ Tagged(x, ValidityTags) /\ Tagged(p, ValidityTags)
      /\ Tagged(q, ValidityTags) /\ Tagged(y, ValidityTags)
  <2>1. /\ {"validityInfo"} \subseteq ValidityTags /\ {"digit"} \subseteq ValidityTags
        /\ {"validFrom"} \subseteq ValidityTags /\ {"validUntil"} \subseteq ValidityTags
    BY DEF ValidityTags
  <2>2. Tagged(a, ValidityTags)
    BY <1>5, <2>1, TagsGrow, Zenon
  <2>3. Tagged(x, ValidityTags)
    BY <1>3, <2>1, TagsGrow, Zenon
  <2>4. Tagged(p, ValidityTags)
    BY <1>5, <2>1, TagsGrow, ZenonT(40)
  <2>5. Tagged(q, ValidityTags)
    BY <1>5, <2>1, TagsGrow, Zenon
  <2>6. Tagged(y, ValidityTags)
    BY <1>4, <2>1, TagsGrow, Zenon
  <2>7. QED BY <2>2, <2>3, <2>4, <2>5, <2>6
<1>8. Joined(v1, a, x) /\ Tagged(v1, ValidityTags)
  BY <1>6, <1>7, GlueIn, Zenon
<1>9. Joined(v2, v1, p) /\ Tagged(v2, ValidityTags)
  BY <1>6, <1>7, <1>8, GlueIn, Zenon
<1>10. Joined(v3, v2, x) /\ Tagged(v3, ValidityTags)
  BY <1>6, <1>7, <1>9, GlueIn, Zenon
<1>11. Joined(v4, v3, q) /\ Tagged(v4, ValidityTags)
  BY <1>6, <1>7, <1>10, GlueIn, Zenon
<1>12. Joined(v, v4, y) /\ Tagged(v, ValidityTags)
  BY <1>6, <1>7, <1>11, GlueIn, Zenon
<1>13. OnlyAt(v, <<"validityInfo", 0>>, 0)
  <2>1. "validityInfo" \notin {"digit"} /\ "validityInfo" \notin {"validFrom"} /\ "validityInfo" \notin {"validUntil"}
        /\ 0 \in Nat
    OBVIOUS
  <2>2. OnlyAt(v1, <<"validityInfo", 0>>, 0)
    BY <1>3, <1>5, <1>8, <2>1, AloneLeft
  <2>3. OnlyAt(v2, <<"validityInfo", 0>>, 0)
    BY <1>5, <1>9, <2>1, <2>2, AloneLeft
  <2>4. OnlyAt(v3, <<"validityInfo", 0>>, 0)
    BY <1>3, <1>10, <2>1, <2>3, AloneLeft
  <2>5. OnlyAt(v4, <<"validityInfo", 0>>, 0)
    BY <1>5, <1>11, <2>1, <2>4, AloneLeft
  <2>6. QED BY <1>4, <1>12, <2>1, <2>5, AloneLeft
<1>14. Len(v2) = 55 /\ Len(v4) = 88
  <2>1. Len(v1) = Len(a) + Len(x) /\ Len(v2) = Len(v1) + Len(p) /\ Len(v3) = Len(v2) + Len(x)
        /\ Len(v4) = Len(v3) + Len(q)
    BY <1>8, <1>9, <1>10, <1>11, Zenon DEF Joined
  <2>2. QED BY <1>3, <1>5, <2>1
<1>15. Holds(v, 55, x) /\ Holds(v, 88, y)
  <2>1. Holds(v3, 55, x) /\ Holds(v, 88, y)
    BY <1>10, <1>12, <1>14, Zenon DEF Joined
  <2>2. Holds(v4, 55, x)
    BY <1>3, <1>11, <2>1, HoldsLeft, Zenon
  <2>3. QED BY <1>3, <1>12, <2>1, <2>2, HoldsLeft, ZenonT(40)
<1>16. v = Validity(c)
  BY <1>1, <1>6, Zenon DEF Validity
<1>17. ValidityPlaced(v, c)
  BY <1>1, <1>12, <1>13, <1>15, LenProperties, Zenon DEF ValidityPlaced, Joined
<1>18. QED BY <1>16, <1>17, Zenon

\* The coordinates of a device's public key.
Coord(x) == Tagged(x, DeviceTags) /\ x \in Seq(Cell) /\ Len(x) = 32

LEMMA CoordinateIs ==
  ASSUME NEW x \in Coordinate
  PROVE  Coord(x)
<1>1. x \in [1..32 -> DeviceTags \X Int]
  BY DEF Coordinate
<1>2. \A k \in 1..32 : x[k] \in DeviceTags \X Int
  BY <1>1
<1>3. \A y \in DeviceTags \X Int : y \in Cell /\ y[1] \in DeviceTags
  BY DEF Cell
<1>4. \A k \in 1..32 : x[k] \in Cell /\ x[k][1] \in DeviceTags
  BY <1>2, <1>3, Zenon
<1>5. x \in [1..32 -> Cell]
  <2> HIDE DEF Cell
  <2>1. QED BY <1>1, <1>4
<1>6. x \in Seq(Cell) /\ Len(x) = 32
  BY <1>5, SeqIs
<1>7. QED BY <1>4, <1>6 DEF Coord, Tagged

LEMMA DeviceType ==
  ASSUME NEW d \in DOMAIN Devices
  PROVE  /\ Coord(Devices[d][1]) /\ Coord(Devices[d][2])
         /\ Devices[d] = <<Devices[d][1], Devices[d][2]>>
<1>1. Devices[d] \in Coordinate \X Coordinate
  BY IssuedAssumption
<1>2. /\ Devices[d][1] \in Coordinate /\ Devices[d][2] \in Coordinate
      /\ Devices[d] = <<Devices[d][1], Devices[d][2]>>
  BY <1>1
<1>3. QED BY <1>2, CoordinateIs

KeyPlaced(v, c) ==
  /\ Tagged(v, KeyTags) /\ v \in Seq(Cell) /\ Len(v) \in Nat
  /\ OnlyAt(v, <<"deviceKeyInfo", 0>>, 0)
  /\ Holds(v, 33, Devices[c.device][1]) /\ Holds(v, 68, Devices[c.device][2])

LEMMA KeyIs ==
  ASSUME NEW c, c.device \in DOMAIN Devices
  PROVE  KeyPlaced(DeviceKeyInfo(c), c)
<1>1. PICK a, x, l, y, z : /\ a = DEVICE_KEY_INFO /\ x = Devices[c.device][1] /\ l = Literal("y label", 3)
                           /\ y = Devices[c.device][2] /\ z = Literal("digestAlgorithm", 24)
  OBVIOUS
<1>2. Piece(a, "deviceKeyInfo", 33) /\ Piece(l, "y label", 3) /\ Piece(z, "digestAlgorithm", 24)
  BY <1>1, SigTagsAre, PieceIs DEF DEVICE_KEY_INFO
<1>3. Tagged(x, DeviceTags) /\ x \in Seq(Cell) /\ Len(x) = 32
  BY <1>1, DeviceType, Zenon DEF Coord
<1>4. Tagged(y, DeviceTags) /\ y \in Seq(Cell) /\ Len(y) = 32
  BY <1>1, DeviceType, Zenon DEF Coord
<1>5. /\ Tagged(a, {"deviceKeyInfo"}) /\ a \in Seq(Cell) /\ Len(a) = 33 /\ OnlyAt(a, <<"deviceKeyInfo", 0>>, 0)
      /\ Tagged(l, {"y label"}) /\ l \in Seq(Cell) /\ Len(l) = 3
      /\ Tagged(z, {"digestAlgorithm"}) /\ z \in Seq(Cell)
  BY <1>2, Zenon DEF Piece
<1>6. PICK v1, v2, v3, v : v1 = a \o x /\ v2 = v1 \o l /\ v3 = v2 \o y /\ v = v3 \o z
  OBVIOUS
<1>7. /\ Tagged(a, KeyTags) /\ Tagged(x, KeyTags) /\ Tagged(l, KeyTags)
      /\ Tagged(y, KeyTags) /\ Tagged(z, KeyTags)
  <2>1. /\ {"deviceKeyInfo"} \subseteq KeyTags /\ DeviceTags \subseteq KeyTags
        /\ {"y label"} \subseteq KeyTags /\ {"digestAlgorithm"} \subseteq KeyTags
    BY DEF KeyTags
  <2>2. Tagged(a, KeyTags)
    BY <1>5, <2>1, TagsGrow, Zenon
  <2>3. Tagged(x, KeyTags)
    BY <1>3, <2>1, TagsGrow, Zenon
  <2>4. Tagged(l, KeyTags)
    BY <1>5, <2>1, TagsGrow, Zenon
  <2>5. Tagged(y, KeyTags)
    BY <1>4, <2>1, TagsGrow, Zenon
  <2>6. Tagged(z, KeyTags)
    BY <1>5, <2>1, TagsGrow, Zenon
  <2>7. QED BY <2>2, <2>3, <2>4, <2>5, <2>6
<1>8. Joined(v1, a, x) /\ Tagged(v1, KeyTags)
  BY <1>6, <1>7, GlueIn, Zenon
<1>9. Joined(v2, v1, l) /\ Tagged(v2, KeyTags)
  BY <1>6, <1>7, <1>8, GlueIn, Zenon
<1>10. Joined(v3, v2, y) /\ Tagged(v3, KeyTags)
  BY <1>6, <1>7, <1>9, GlueIn, Zenon
<1>11. Joined(v, v3, z) /\ Tagged(v, KeyTags)
  BY <1>6, <1>7, <1>10, GlueIn, Zenon
<1>12. OnlyAt(v, <<"deviceKeyInfo", 0>>, 0)
  <2>1. /\ "deviceKeyInfo" \notin DeviceTags /\ "deviceKeyInfo" \notin {"y label"}
        /\ "deviceKeyInfo" \notin {"digestAlgorithm"} /\ 0 \in Nat
    BY IssuedAssumption DEF Anchors
  <2>2. OnlyAt(v1, <<"deviceKeyInfo", 0>>, 0)
    BY <1>3, <1>5, <1>8, <2>1, AloneLeft
  <2>3. OnlyAt(v2, <<"deviceKeyInfo", 0>>, 0)
    BY <1>5, <1>9, <2>1, <2>2, AloneLeft
  <2>4. OnlyAt(v3, <<"deviceKeyInfo", 0>>, 0)
    BY <1>4, <1>10, <2>1, <2>3, AloneLeft
  <2>5. QED BY <1>5, <1>11, <2>1, <2>4, AloneLeft
<1>13. Len(a) = 33 /\ Len(v2) = 68
  <2>1. Len(v1) = Len(a) + Len(x) /\ Len(v2) = Len(v1) + Len(l)
    BY <1>8, <1>9, Zenon DEF Joined
  <2>2. Len(a) = 33 /\ Len(x) = 32 /\ Len(l) = 3
    BY <1>3, <1>5
  <2>3. QED BY <2>1, <2>2
<1>14. Holds(v, 33, x) /\ Holds(v, 68, y)
  <2>1. Holds(v1, 33, x) /\ Holds(v3, 68, y)
    BY <1>8, <1>10, <1>13, Zenon DEF Joined
  <2>2. Holds(v2, 33, x)
    BY <1>3, <1>9, <2>1, HoldsLeft, Zenon
  <2>3. Holds(v3, 33, x)
    BY <1>3, <1>10, <2>2, HoldsLeft, Zenon
  <2>4. Holds(v, 33, x)
    BY <1>3, <1>11, <2>3, HoldsLeft, Zenon
  <2>5. Holds(v, 68, y)
    BY <1>4, <1>11, <2>1, HoldsLeft, ZenonT(40)
  <2>6. QED BY <2>4, <2>5
<1>15. v = DeviceKeyInfo(c)
  BY <1>1, <1>6, Zenon DEF DeviceKeyInfo
<1>16. KeyPlaced(v, c)
  BY <1>1, <1>11, <1>12, <1>14, LenProperties, Zenon DEF KeyPlaced, Joined
<1>17. QED BY <1>15, <1>16, Zenon
-----------------------------------------------------------------------------
(* The table of digests.                                                   *)

LEMMA CredentialType ==
  ASSUME NEW c, IsCredential(c)
  PROVE  /\ c.doc_type \in Names /\ c.from \in Day /\ c.until \in Day /\ c.device \in DOMAIN Devices
         /\ Len(c.namespaces) \in Nat /\ DOMAIN c.namespaces = 1..Len(c.namespaces)
         /\ \A r \in 1..Len(c.namespaces) : IsNamespace(c.namespaces[r])
<1>1. /\ c.doc_type \in Names /\ c.from \in Day /\ c.until \in Day /\ c.device \in DOMAIN Devices
      /\ c.namespaces \in Seq([name : Names, items : Seq(DOMAIN Items)])
  BY DEF IsCredential
<1>2. PICK R, s : R = [name : Names, items : Seq(DOMAIN Items)] /\ s = c.namespaces
  OBVIOUS
<1>3. s \in Seq(R)
  BY <1>1, <1>2
<1>4. Len(s) \in Nat /\ DOMAIN s = 1..Len(s) /\ \A r \in 1..Len(s) : s[r] \in R
  BY <1>3, LenProperties, ElementOfSeq, Zenon
<1>5. \A x \in R : x.name \in Names /\ x.items \in Seq(DOMAIN Items)
  BY <1>2
<1>6. QED BY <1>1, <1>2, <1>4, <1>5, Zenon DEF IsNamespace

\* The name n whose first cell is the j-th of u is that of a namespace of c that stands there.
FoundAt(u, c, n, j, r, at) ==
  /\ Holds(u, at, NamespaceBytes(c.namespaces[r])) /\ at \in Nat
  /\ n = c.namespaces[r].name /\ j = at + HeadLen(NameLen[n]) + 1
Found(u, c, n, j) == \E r \in 1..Len(c.namespaces) : \E at : FoundAt(u, c, n, j, r, at)

LEMMA FoundIn ==
  ASSUME NEW c, IsCredential(c), NEW v, NEW u, NEW t, Joined(v, u, t), NEW n \in Names, NEW j
  PROVE  /\ Found(u, c, n, j) => Found(v, c, n, j)
         /\ Found(t, c, n, j) => Found(v, c, n, Len(u) + j)
<1>0. u \in Seq(Cell) /\ t \in Seq(Cell) /\ Appended(v, u, t) /\ Len(u) \in Nat
  BY DEF Joined
<1>1. HeadLen(NameLen[n]) \in Nat
  BY NameType, HeadLenType
<1>2. \A r \in 1..Len(c.namespaces) : NamespaceBytes(c.namespaces[r]) \in Seq(Cell)
  BY CredentialType, NamespaceIs DEF NamespacePlaced
<1>3. ASSUME Found(u, c, n, j) PROVE Found(v, c, n, j)
  <2>1. PICK r, at : r \in 1..Len(c.namespaces) /\ FoundAt(u, c, n, j, r, at)
    BY <1>3 DEF Found
  <2>2. Holds(v, at, NamespaceBytes(c.namespaces[r]))
    BY <1>2, <2>1, HoldsLeft DEF FoundAt
  <2>3. FoundAt(v, c, n, j, r, at)
    BY <2>1, <2>2 DEF FoundAt
  <2>4. QED BY <2>1, <2>3, Zenon DEF Found
<1>4. ASSUME Found(t, c, n, j) PROVE Found(v, c, n, Len(u) + j)
  <2>1. PICK r, at : r \in 1..Len(c.namespaces) /\ FoundAt(t, c, n, j, r, at)
    BY <1>4 DEF Found
  <2>2. PICK b : b = NamespaceBytes(c.namespaces[r])
    OBVIOUS
  <2>3. b \in Seq(Cell) /\ Holds(t, at, b)
    BY <1>2, <2>1, <2>2 DEF FoundAt
  <2>4. Holds(v, Len(u) + at, b)
    BY <1>0, <2>3, HoldsIn, Zenon
  <2>5. at \in Nat /\ Len(u) + j = (Len(u) + at) + HeadLen(NameLen[n]) + 1 /\ Len(u) + at \in Nat
    BY <1>0, <1>1, <2>1 DEF FoundAt
  <2>6. FoundAt(v, c, n, Len(u) + j, r, Len(u) + at)
    BY <2>1, <2>2, <2>4, <2>5 DEF FoundAt
  <2>7. QED BY <2>1, <2>6, Zenon DEF Found
<1>5. QED BY <1>3, <1>4

\* A digest in u is that of an item c lists, up to an offset or wherever it stands.
Listed(c, i) == \E r \in 1..Len(c.namespaces) :
                  \E k \in 1..Len(c.namespaces[r].items) : c.namespaces[r].items[k] = i
AllListed(u, c) ==
  \A i \in Nat : \A j \in 1..Len(u) : u[j] = <<"sha256", 32 * i + 1>> => Listed(c, i)
ListedUpTo(u, c, to) ==
  \A i \in Nat : \A j \in 1..Len(u) : j <= to /\ u[j] = <<"sha256", 32 * i + 1>> => Listed(c, i)

LEMMA NoDigest ==
  ASSUME NEW u, NEW T, Tagged(u, T), "sha256" \notin T, NEW c
  PROVE  AllListed(u, c)
<1>1. ASSUME NEW i \in Nat, NEW j \in 1..Len(u), u[j] = <<"sha256", 32 * i + 1>> PROVE FALSE
  <2>1. u[j][1] \in T
    BY Zenon DEF Tagged
  <2>2. u[j][1] = "sha256"
    BY <1>1
  <2>3. QED BY <2>1, <2>2
<1>2. QED BY <1>1 DEF AllListed

LEMMA ListedIn ==
  ASSUME NEW v, NEW u, NEW t, Joined(v, u, t), NEW c, AllListed(u, c)
  PROVE  /\ AllListed(t, c) => AllListed(v, c)
         /\ ListedUpTo(v, c, Len(u))
<1>1. ASSUME AllListed(t, c), NEW i \in Nat, NEW j \in 1..Len(v), v[j] = <<"sha256", 32 * i + 1>>
      PROVE  Listed(c, i)
  <2>1. \/ j \in 1..Len(u) /\ v[j] = u[j]
        \/ j - Len(u) \in 1..Len(t) /\ v[j] = t[j - Len(u)]
    BY InPart
  <2>2. QED BY <1>1, <2>1, Zenon DEF AllListed
<1>2. ASSUME NEW i \in Nat, NEW j \in 1..Len(v), j <= Len(u), v[j] = <<"sha256", 32 * i + 1>>
      PROVE  Listed(c, i)
  <2>1. \/ j \in 1..Len(u) /\ v[j] = u[j]
        \/ j - Len(u) \in 1..Len(t) /\ v[j] = t[j - Len(u)]
    BY InPart
  <2>2. j \in 1..Len(u)
    <3>1. PICK x, y : x = Len(u) /\ y = Len(v)
      OBVIOUS
    <3>2. x \in Nat /\ y \in Nat /\ j \in 1..y /\ j <= x
      BY <1>2, <3>1, LenProperties DEF Joined
    <3>3. j \in 1..x
      BY <3>2
    <3>4. QED BY <3>1, <3>3, Zenon
  <2>3. v[j] = u[j]
    <3>1. PICK x, y : x = Len(u) /\ y = Len(t)
      OBVIOUS
    <3>2. x \in Nat /\ j \in 1..x
      BY <2>2, <3>1 DEF Joined
    <3>3. ~(j - x \in 1..y)
      BY <3>2
    <3>4. QED BY <2>1, <3>1, <3>3, Zenon
  <2>4. QED BY <1>2, <2>2, <2>3, Zenon DEF AllListed
<1>3. QED BY <1>1, <1>2, Zenon DEF AllListed, ListedUpTo

NamespaceRows(c) == [k \in DOMAIN c.namespaces |-> NamespaceBytes(c.namespaces[k])]

\* All the namespaces of c, one after the other.
TablePlaced(f, c) ==
  /\ Tagged(f, DigestsTags) /\ f \in Seq(Cell) /\ Len(f) \in Nat
  /\ OnlyAt(f, <<"valueDigests", 0>>, 0) /\ Absent(f, <<"valueDigests", 0>>)
  /\ \A n \in Names : \A j \in 1..Len(f) : f[j] = <<n, 0>> => Found(f, c, n, j)
  /\ AllListed(f, c)

LEMMA TableIs ==
  ASSUME NEW c, IsCredential(c)
  PROVE  TablePlaced(FlattenSeq(NamespaceRows(c)), c)
<1>1. PICK m, f, rows : m = Len(c.namespaces) /\ rows = NamespaceRows(c) /\ f = FlattenSeq(NamespaceRows(c))
  OBVIOUS
<1>2. m \in Nat /\ DOMAIN c.namespaces = 1..m /\ \A r \in 1..m : IsNamespace(c.namespaces[r])
  BY <1>1, CredentialType
<1>3. rows = [k \in 1..m |-> NamespaceBytes(c.namespaces[k])]
  BY <1>1, <1>2 DEF NamespaceRows
<1>4. \A r \in 1..m : rows[r] = NamespaceBytes(c.namespaces[r]) /\ NamespacePlaced(rows[r], c.namespaces[r])
  <2>1. \A r \in 1..m : rows[r] = NamespaceBytes(c.namespaces[r])
    BY <1>3
  <2>2. QED BY <1>2, <2>1, NamespaceIs, Zenon
<1>5. \A r \in 1..m : rows[r] \in Seq(Cell) /\ Tagged(rows[r], Names \cup {"byte", "sha256"})
  BY <1>4, Zenon DEF NamespacePlaced
<1>6. rows \in Seq(Seq(Cell)) /\ Len(rows) = m
  <2>1. rows \in [1..m -> Seq(Cell)]
    BY <1>3, <1>5
  <2>2. QED BY <1>2, <2>1, SeqIs, Zenon
<1>7. PICK e : LaidOut(f, rows, e, m)
  <2>1. \E e : LaidOut(FlattenSeq(rows), rows, e, Len(rows))
    BY <1>6, Flatten, Zenon
  <2>2. QED BY <1>1, <1>6, <2>1
<1>8. f \in Seq(Cell) /\ Len(f) \in Nat
  BY <1>7, LenProperties DEF LaidOut
<1>9. ASSUME NEW j \in 1..Len(f)
      PROVE  \E r \in 1..m : \E k \in 1..Len(rows[r]) :
               /\ e[r - 1] \in Nat /\ j = e[r - 1] + k /\ k \in Nat
               /\ f[j] = rows[r][k] /\ Holds(f, e[r - 1], rows[r])
  <2>1. PICK r \in 1..m : j - e[r - 1] \in 1..Len(rows[r])
    BY <1>7, Zenon DEF LaidOut, InRow
  <2>2. Holds(f, e[r - 1], rows[r]) /\ e[r - 1] \in Nat
    BY <1>7, Zenon DEF LaidOut, Holds
  <2>3. PICK k, a : k = j - e[r - 1] /\ a = e[r - 1]
    OBVIOUS
  <2>4. Len(rows[r]) \in Nat
    BY <1>5, LenProperties
  <2>5. k \in 1..Len(rows[r]) /\ a + k = j /\ k \in Nat
    BY <2>1, <2>2, <2>3, <2>4
  <2>6. f[j] = rows[r][k]
    BY <2>2, <2>3, <2>5, Zenon DEF Holds
  <2>7. QED BY <2>2, <2>3, <2>5, <2>6
<1>10. ASSUME NEW j \in 1..Len(f) PROVE f[j][1] \in Names \cup {"byte", "sha256"}
  <2>1. PICK r \in 1..m : \E k \in 1..Len(rows[r]) : f[j] = rows[r][k]
    BY <1>9, Zenon
  <2>2. QED BY <1>5, <2>1, Zenon DEF Tagged
<1>11. Tagged(f, Names \cup {"byte", "sha256"})
  BY <1>8, <1>10 DEF Tagged
<1>12. Tagged(f, DigestsTags)
  <2>1. Names \cup {"byte", "sha256"} \subseteq DigestsTags
    BY DEF DigestsTags
  <2>2. QED BY <1>11, <2>1, TagsGrow, Zenon
<1>13. Absent(f, <<"valueDigests", 0>>)
  <2>1. "valueDigests" \notin Names \cup {"byte", "sha256"}
    BY IssuedAssumption, SigTagsAre
  <2>2. QED BY <1>11, <2>1, TagAbsent, Zenon
<1>14. ASSUME NEW n \in Names, NEW j \in 1..Len(f), f[j] = <<n, 0>> PROVE Found(f, c, n, j)
  <2>0. PICK r \in 1..m : \E k \in 1..Len(rows[r]) :
               /\ e[r - 1] \in Nat /\ j = e[r - 1] + k /\ k \in Nat
               /\ f[j] = rows[r][k] /\ Holds(f, e[r - 1], rows[r])
    BY <1>9, Zenon
  <2>1. PICK k \in 1..Len(rows[r]) :
               /\ e[r - 1] \in Nat /\ j = e[r - 1] + k /\ k \in Nat
               /\ f[j] = rows[r][k] /\ Holds(f, e[r - 1], rows[r])
    BY <2>0, Zenon
  <2>2. n = c.namespaces[r].name /\ k = HeadLen(NameLen[n]) + 1
    <3>1. rows[r][k] = <<n, 0>>
      BY <1>14, <2>1, Zenon
    <3>2. NamespacePlaced(rows[r], c.namespaces[r])
      BY <1>4
    <3>3. QED BY <3>1, <3>2, Zenon DEF NamespacePlaced
  <2>3. HeadLen(NameLen[n]) \in Nat
    BY NameType, HeadLenType
  <2>4. j = e[r - 1] + HeadLen(NameLen[n]) + 1
    <3>1. PICK a, h : a = e[r - 1] /\ h = HeadLen(NameLen[n])
      OBVIOUS
    <3>2. a \in Nat /\ h \in Nat /\ j = a + k /\ k = h + 1
      BY <2>1, <2>2, <2>3, <3>1, Zenon
    <3>3. j = a + h + 1
      BY <3>2
    <3>4. QED BY <3>1, <3>3, Zenon
  <2>5. FoundAt(f, c, n, j, r, e[r - 1])
    BY <1>4, <2>1, <2>2, <2>4 DEF FoundAt
  <2>6. QED BY <1>1, <2>5 DEF Found
<1>15. OnlyAt(f, <<"valueDigests", 0>>, 0)
  BY <1>13 DEF OnlyAt, Absent
<1>16. ASSUME NEW i \in Nat, NEW j \in 1..Len(f), f[j] = <<"sha256", 32 * i + 1>> PROVE Listed(c, i)
  <2>1. PICK r \in 1..m : \E k \in 1..Len(rows[r]) : f[j] = rows[r][k]
    BY <1>9, Zenon
  <2>2. PICK k \in 1..Len(rows[r]) : f[j] = rows[r][k]
    BY <2>1
  <2>3. rows[r] = NamespaceBytes(c.namespaces[r]) /\ IsNamespace(c.namespaces[r])
    BY <1>2, <1>4
  <2>4. \E q \in 1..Len(c.namespaces[r].items) : c.namespaces[r].items[q] = i
    <3>1. NamespaceBytes(c.namespaces[r])[k] = <<"sha256", 32 * i + 1>>
          /\ k \in 1..Len(NamespaceBytes(c.namespaces[r]))
      BY <1>16, <2>2, <2>3
    <3>2. QED BY <2>3, <3>1, RowDigest, Zenon
  <2>5. QED BY <1>1, <2>4 DEF Listed
<1>17. TablePlaced(f, c)
  BY <1>8, <1>12, <1>13, <1>14, <1>15, <1>16 DEF TablePlaced, AllListed
<1>18. QED BY <1>1, <1>17

DigestsPlaced(d, c) ==
  /\ Tagged(d, DigestsTags) /\ d \in Seq(Cell) /\ Len(d) \in Nat
  /\ OnlyAt(d, <<"valueDigests", 0>>, 0)
  /\ \A n \in Names : \A j \in 1..Len(d) : d[j] = <<n, 0>> => Found(d, c, n, j)
  /\ AllListed(d, c)

LEMMA DigestsAre ==
  ASSUME NEW c, IsCredential(c)
  PROVE  DigestsPlaced(ValueDigests(c), c)
<1>1. PICK m, a, h, f : /\ m = Len(c.namespaces) /\ a = VALUE_DIGESTS_OPEN_KEY /\ h = map_header(m)
                        /\ f = FlattenSeq(NamespaceRows(c))
  OBVIOUS
<1>2. m \in Nat
  BY <1>1, CredentialType
<1>3. Tagged(a, {"valueDigests"}) /\ a \in Seq(Cell) /\ Len(a) = 13 /\ OnlyAt(a, <<"valueDigests", 0>>, 0)
  <2>1. Piece(Literal("valueDigests", 13), "valueDigests", 13)
    BY SigTagsAre, PieceIs
  <2>2. QED BY <1>1, <2>1 DEF Piece, VALUE_DIGESTS_OPEN_KEY
<1>4. Tagged(h, {"byte"}) /\ h \in Seq(Cell)
  BY <1>1, <1>2, MapHead DEF Header
<1>5. TablePlaced(f, c)
  BY <1>1, TableIs
<1>6. Tagged(f, DigestsTags) /\ Absent(f, <<"valueDigests", 0>>)
  BY <1>5 DEF TablePlaced
<1>7. PICK g, d : g = a \o h /\ d = g \o f
  OBVIOUS
<1>8. Joined(g, a, h) /\ Tagged(g, {"valueDigests"} \cup {"byte"})
  BY <1>3, <1>4, <1>7, Glue, Zenon
<1>9. Tagged(g, DigestsTags)
  <2>1. {"valueDigests"} \cup {"byte"} \subseteq DigestsTags
    BY DEF DigestsTags
  <2>2. QED BY <1>8, <2>1, TagsGrow, Zenon
<1>10. Joined(d, g, f) /\ Tagged(d, DigestsTags)
  BY <1>6, <1>7, <1>9, GlueIn, Zenon
<1>11. OnlyAt(d, <<"valueDigests", 0>>, 0)
  <2>1. "valueDigests" \notin {"byte"} /\ 0 \in Nat
    OBVIOUS
  <2>2. OnlyAt(g, <<"valueDigests", 0>>, 0)
    BY <1>3, <1>4, <1>8, <2>1, AloneLeft
  <2>3. QED BY <1>6, <1>10, <2>1, <2>2, AbsentIn DEF Joined
<1>12. ASSUME NEW n \in Names, NEW j \in 1..Len(d), d[j] = <<n, 0>> PROVE Found(d, c, n, j)
  <2>1. \/ j \in 1..Len(g) /\ d[j] = g[j]
        \/ j - Len(g) \in 1..Len(f) /\ d[j] = f[j - Len(g)]
    BY <1>10, InPart
  <2>2. ASSUME j \in 1..Len(g), d[j] = g[j] PROVE FALSE
    <3>1. g[j][1] \in {"valueDigests"} \cup {"byte"}
      BY <1>8, <2>2, Zenon DEF Tagged
    <3>2. g[j][1] = n
      BY <1>12, <2>2
    <3>3. n # "valueDigests" /\ n # "byte"
      BY NameType, SigTagsAre
    <3>4. QED BY <3>1, <3>2, <3>3
  <2>3. PICK k : k = j - Len(g)
    OBVIOUS
  <2>4. k \in 1..Len(f) /\ f[k] = <<n, 0>>
    BY <1>12, <2>1, <2>2, <2>3, Zenon
  <2>5. Found(f, c, n, k)
    BY <1>5, <2>4, Zenon DEF TablePlaced
  <2>6. Found(d, c, n, Len(g) + k)
    BY <1>10, <2>5, FoundIn, Zenon
  <2>7. Len(g) + k = j
    <3>1. Len(g) \in Nat /\ Len(d) \in Nat
      BY <1>10, LenProperties DEF Joined
    <3>2. QED BY <2>3, <3>1
  <2>8. QED BY <2>6, <2>7
<1>13. d = ValueDigests(c)
  BY <1>1, <1>7 DEF ValueDigests, NamespaceRows
<1>14. DigestsPlaced(d, c)
  <2>1. AllListed(g, c)
    <3>1. "sha256" \notin {"valueDigests"} \cup {"byte"}
      OBVIOUS
    <3>2. QED BY <1>8, <3>1, NoDigest, Zenon
  <2>2. AllListed(d, c)
    BY <1>5, <1>10, <2>1, ListedIn, Zenon DEF TablePlaced
  <2>3. QED BY <1>10, <1>11, <1>12, <2>2, LenProperties DEF DigestsPlaced, Joined
<1>15. QED BY <1>13, <1>14
-----------------------------------------------------------------------------
(* The signed bytes and the item, padded.                                  *)

\* Where what the circuit looks for stands in the signed bytes of c: the parts begin at
\* pv (validity), pd (digests) and pk (device key).
SigPlaced(u, c, pv, pd, pk) ==
  /\ u \in Seq(Cell) /\ pv \in Nat /\ pd \in Nat /\ pk \in Nat
  /\ OnlyAt(u, <<"docType", 0>>, 26) /\ OnlyAt(u, <<"validityInfo", 0>>, pv)
  /\ OnlyAt(u, <<"valueDigests", 0>>, pd) /\ OnlyAt(u, <<"deviceKeyInfo", 0>>, pk)
  /\ Holds(u, 34, NameBytes(c.doc_type))
  /\ Holds(u, pv + 55, DigitBytes(TimeDigits(c.from))) /\ Holds(u, pv + 88, DigitBytes(TimeDigits(c.until)))
  /\ Holds(u, pk + 33, Devices[c.device][1]) /\ Holds(u, pk + 68, Devices[c.device][2])
  /\ \A n \in Names : \A j \in 1..Len(u) : pd < j /\ u[j] = <<n, 0>> => Found(u, c, n, j)
  /\ ListedUpTo(u, c, pk)

\* The cells that the literals of SigPlaced are made of.
LEMMA PartsAreCells ==
  ASSUME NEW c, IsCredential(c)
  PROVE  /\ NameBytes(c.doc_type) \in Seq(Cell)
         /\ DigitBytes(TimeDigits(c.from)) \in Seq(Cell) /\ DigitBytes(TimeDigits(c.until)) \in Seq(Cell)
         /\ Devices[c.device][1] \in Seq(Cell) /\ Devices[c.device][2] \in Seq(Cell)
<1>1. c.doc_type \in Names /\ c.from \in Day /\ c.until \in Day /\ c.device \in DOMAIN Devices
  BY CredentialType
<1>2. NameBytes(c.doc_type) \in Seq(Cell)
  BY <1>1, NameIs DEF NamePlaced
<1>3. DigitBytes(TimeDigits(c.from)) \in Seq(Cell) /\ DigitBytes(TimeDigits(c.until)) \in Seq(Cell)
  BY <1>1, TimeBytes, Zenon DEF TimePlaced
<1>4. Devices[c.device][1] \in Seq(Cell) /\ Devices[c.device][2] \in Seq(Cell)
  BY <1>1, DeviceType, Zenon DEF Coord
<1>5. QED BY <1>2, <1>3, <1>4

LEMMA SigIs ==
  ASSUME NEW c, IsCredential(c)
  PROVE  \E pv, pd, pk : SigPlaced(SigStructure(c), c, pv, pd, pk)
<1>1. PICK o, v, d, k : o = Opening(c) /\ v = Validity(c) /\ d = ValueDigests(c) /\ k = DeviceKeyInfo(c)
  OBVIOUS
<1>2. OpeningPlaced(o, c) /\ ValidityPlaced(v, c) /\ DigestsPlaced(d, c) /\ KeyPlaced(k, c)
  BY <1>1, CredentialType, OpeningIs, ValidityIs, DigestsAre, KeyIs
<1>3. /\ Tagged(o, OpeningTags) /\ Tagged(v, ValidityTags) /\ Tagged(d, DigestsTags) /\ Tagged(k, KeyTags)
  BY <1>2 DEF OpeningPlaced, ValidityPlaced, DigestsPlaced, KeyPlaced
<1>4. PICK s1, s2, s : s1 = o \o v /\ s2 = s1 \o d /\ s = s2 \o k
  OBVIOUS
<1>5. Joined(s1, o, v) /\ Tagged(s1, OpeningTags \cup ValidityTags)
  BY <1>3, <1>4, Glue, Zenon
<1>6. Joined(s2, s1, d) /\ Tagged(s2, (OpeningTags \cup ValidityTags) \cup DigestsTags)
  BY <1>3, <1>4, <1>5, Glue, Zenon
<1>7. Joined(s, s2, k)
  BY <1>3, <1>4, <1>6, Glue, Zenon
<1>8. /\ Len(o) \in Nat /\ Len(s1) \in Nat /\ Len(s2) \in Nat
      /\ s1 \in Seq(Cell) /\ s2 \in Seq(Cell) /\ s \in Seq(Cell)
      /\ o \in Seq(Cell) /\ v \in Seq(Cell) /\ d \in Seq(Cell) /\ k \in Seq(Cell)
  BY <1>5, <1>6, <1>7 DEF Joined
<1>9. /\ Len(o) + 0 = Len(o) /\ Len(s1) + 0 = Len(s1) /\ Len(s2) + 0 = Len(s2) /\ 0 \in Nat /\ 26 \in Nat
  BY <1>8
<1>10. OnlyAt(s, <<"docType", 0>>, 26)
  <2>1. OnlyAt(o, <<"docType", 0>>, 26)
    BY <1>2 DEF OpeningPlaced
  <2>2. OnlyAt(s1, <<"docType", 0>>, 26)
    BY <1>3, <1>5, <1>9, <2>1, AnchorsApart, AloneLeft
  <2>3. OnlyAt(s2, <<"docType", 0>>, 26)
    BY <1>3, <1>6, <1>9, <2>2, AnchorsApart, AloneLeft
  <2>4. QED BY <1>3, <1>7, <1>9, <2>3, AnchorsApart, AloneLeft
<1>11. OnlyAt(s, <<"validityInfo", 0>>, Len(o))
  <2>1. OnlyAt(v, <<"validityInfo", 0>>, 0)
    BY <1>2 DEF ValidityPlaced
  <2>2. OnlyAt(s1, <<"validityInfo", 0>>, Len(o))
    BY <1>3, <1>5, <1>9, <2>1, AnchorsApart, AloneRight
  <2>3. OnlyAt(s2, <<"validityInfo", 0>>, Len(o))
    BY <1>3, <1>6, <1>8, <2>2, AnchorsApart, AloneLeft
  <2>4. QED BY <1>3, <1>7, <1>8, <2>3, AnchorsApart, AloneLeft
<1>12. OnlyAt(s, <<"valueDigests", 0>>, Len(s1))
  <2>1. OnlyAt(d, <<"valueDigests", 0>>, 0)
    BY <1>2 DEF DigestsPlaced
  <2>2. OnlyAt(s2, <<"valueDigests", 0>>, Len(s1))
    BY <1>5, <1>6, <1>9, <2>1, AnchorsApart, AloneRight
  <2>3. QED BY <1>3, <1>7, <1>8, <2>2, AnchorsApart, AloneLeft
<1>13. OnlyAt(s, <<"deviceKeyInfo", 0>>, Len(s2))
  <2>1. OnlyAt(k, <<"deviceKeyInfo", 0>>, 0)
    BY <1>2 DEF KeyPlaced
  <2>2. QED BY <1>6, <1>7, <1>9, <2>1, AnchorsApart, AloneRight
<1>14. Holds(s, 34, NameBytes(c.doc_type))
  <2>1. PICK p : p = NameBytes(c.doc_type)
    OBVIOUS
  <2>2. p \in Seq(Cell) /\ Holds(o, 34, p)
    BY <1>2, <2>1, PartsAreCells DEF OpeningPlaced
  <2>3. Holds(s1, 34, p)
    BY <1>5, <2>2, HoldsLeft, Zenon
  <2>4. Holds(s2, 34, p)
    BY <1>6, <2>2, <2>3, HoldsLeft, Zenon
  <2>5. QED BY <1>7, <2>1, <2>2, <2>4, HoldsLeft, Zenon
<1>15. ASSUME NEW p \in Seq(Cell), NEW a, Holds(v, a, p) PROVE Holds(s, Len(o) + a, p)
  <2>1. Holds(s1, Len(o) + a, p)
    BY <1>5, <1>8, <1>15, HoldsIn, Zenon DEF Joined
  <2>2. Holds(s2, Len(o) + a, p)
    BY <1>6, <2>1, HoldsLeft, Zenon
  <2>3. QED BY <1>7, <2>2, HoldsLeft, Zenon
<1>16. /\ Holds(s, Len(o) + 55, DigitBytes(TimeDigits(c.from)))
       /\ Holds(s, Len(o) + 88, DigitBytes(TimeDigits(c.until)))
  BY <1>2, <1>15, PartsAreCells, Zenon DEF ValidityPlaced
<1>17. ASSUME NEW p \in Seq(Cell), NEW a, Holds(k, a, p) PROVE Holds(s, Len(s2) + a, p)
  BY <1>7, <1>8, <1>17, HoldsIn, Zenon DEF Joined
<1>18. /\ Holds(s, Len(s2) + 33, Devices[c.device][1]) /\ Holds(s, Len(s2) + 68, Devices[c.device][2])
  BY <1>2, <1>17, PartsAreCells, Zenon DEF KeyPlaced
<1>19. ASSUME NEW n \in Names, NEW j \in 1..Len(s), Len(s1) < j, s[j] = <<n, 0>> PROVE Found(s, c, n, j)
  <2>1. \/ j \in 1..Len(s2) /\ s[j] = s2[j]
        \/ j - Len(s2) \in 1..Len(k) /\ s[j] = k[j - Len(s2)]
    BY <1>7, InPart
  <2>2. n \notin KeyTags
    BY NameType, SigTagsAre, IssuedAssumption DEF KeyTags
  <2>3. s[j][1] = n
    BY <1>19
  <2>4. j \in 1..Len(s2) /\ s2[j] = <<n, 0>>
    BY <1>3, <1>19, <2>1, <2>2, <2>3, Zenon DEF Tagged
  <2>5. \/ j \in 1..Len(s1) /\ s2[j] = s1[j]
        \/ j - Len(s1) \in 1..Len(d) /\ s2[j] = d[j - Len(s1)]
    BY <1>6, <2>4, InPart
  <2>6. ~(j \in 1..Len(s1))
    BY <1>8, <1>19
  <2>7. PICK i : i = j - Len(s1)
    OBVIOUS
  <2>8. i \in 1..Len(d) /\ d[i] = <<n, 0>>
    BY <2>4, <2>5, <2>6, <2>7, Zenon
  <2>9. Found(d, c, n, i)
    BY <1>2, <2>8, Zenon DEF DigestsPlaced
  <2>10. Found(s2, c, n, Len(s1) + i)
    BY <1>6, <2>9, FoundIn, Zenon
  <2>11. Len(s1) + i = j
    BY <1>8, <2>4, <2>7
  <2>12. Found(s2, c, n, j)
    BY <2>10, <2>11, Zenon
  <2>13. QED BY <1>7, <2>12, FoundIn, Zenon
<1>20. s = SigStructure(c)
  BY <1>1, <1>4 DEF SigStructure
<1>21. ListedUpTo(s, c, Len(s2))
  <2>1. "sha256" \notin OpeningTags \cup ValidityTags
    <3>1. "sha256" \notin Names
      BY NameType DEF SigTags
    <3>2. QED BY <3>1 DEF OpeningTags, ValidityTags
  <2>2. AllListed(s1, c)
    BY <1>5, <2>1, NoDigest, Zenon
  <2>3. AllListed(d, c)
    BY <1>2 DEF DigestsPlaced
  <2>4. AllListed(s2, c)
    BY <1>6, <2>2, <2>3, ListedIn, Zenon
  <2>5. QED BY <1>7, <2>4, ListedIn, Zenon
<1>22. SigPlaced(s, c, Len(o), Len(s1), Len(s2))
  BY <1>8, <1>10, <1>11, <1>12, <1>13, <1>14, <1>16, <1>18, <1>19, <1>21, Zenon DEF SigPlaced
<1>23. QED BY <1>20, <1>22, Zenon

\* Padding adds bytes that are none of these.
LEMMA PaddedIs ==
  ASSUME NEW u \in Seq(Cell), NEW max \in Nat, Len(u) <= max
  PROVE  \E z : Joined(Padded(u, max), u, z) /\ Tagged(z, {"byte"}) /\ Len(Padded(u, max)) = max
<1>1. PICK n, z : n = max - Len(u) /\ z = [k \in 1..n |-> Byte(0)]
  OBVIOUS
<1>2. Len(u) \in Nat /\ n \in Nat
  BY <1>1, LenProperties
<1>3. Byte(0) \in Cell /\ Byte(0)[1] = "byte"
  <2>1. "byte" \in Tags
    BY SigTagsAre
  <2>2. QED BY <2>1, CellIs DEF Byte
<1>4. z \in Seq(Cell) /\ Len(z) = n
  <2>1. z \in [1..n -> Cell]
    BY <1>1, <1>3
  <2>2. QED BY <1>2, <2>1, SeqIs
<1>5. Tagged(z, {"byte"})
  BY <1>1, <1>3, <1>4 DEF Tagged
<1>6. Tagged(u, {u[k][1] : k \in 1..Len(u)})
  BY DEF Tagged
<1>7. PICK v : v = u \o z
  OBVIOUS
<1>8. Joined(v, u, z)
  BY <1>5, <1>6, <1>7, Glue
<1>9. Len(v) = max
  BY <1>1, <1>2, <1>4, <1>8 DEF Joined
<1>10. v = Padded(u, max)
  BY <1>1, <1>7 DEF Padded
<1>11. QED BY <1>5, <1>8, <1>9, <1>10

LEMMA PaddedSigIs ==
  ASSUME NEW c, IsCredential(c), NEW u, NEW v, NEW z, Joined(v, u, z), Tagged(z, {"byte"}),
         NEW pv, NEW pd, NEW pk, SigPlaced(u, c, pv, pd, pk)
  PROVE  SigPlaced(v, c, pv, pd, pk)
<1>1. v \in Seq(Cell) /\ pv \in Nat /\ pd \in Nat /\ pk \in Nat /\ 26 \in Nat
  BY DEF Joined, SigPlaced
<1>2. ASSUME NEW y, y \notin {"byte"}, NEW a \in Nat, OnlyAt(u, <<y, 0>>, a) PROVE OnlyAt(v, <<y, 0>>, a)
  BY <1>2, AloneLeft, Zenon
<1>3. /\ OnlyAt(u, <<"docType", 0>>, 26) /\ OnlyAt(u, <<"validityInfo", 0>>, pv)
      /\ OnlyAt(u, <<"valueDigests", 0>>, pd) /\ OnlyAt(u, <<"deviceKeyInfo", 0>>, pk)
  BY Zenon DEF SigPlaced
<1>4. /\ "docType" \notin {"byte"} /\ "validityInfo" \notin {"byte"} /\ "valueDigests" \notin {"byte"}
      /\ "deviceKeyInfo" \notin {"byte"}
  OBVIOUS
<1>5. /\ OnlyAt(v, <<"docType", 0>>, 26) /\ OnlyAt(v, <<"validityInfo", 0>>, pv)
      /\ OnlyAt(v, <<"valueDigests", 0>>, pd) /\ OnlyAt(v, <<"deviceKeyInfo", 0>>, pk)
  BY <1>1, <1>2, <1>3, <1>4
<1>6. ASSUME NEW p \in Seq(Cell), NEW a, Holds(u, a, p) PROVE Holds(v, a, p)
  BY <1>6, HoldsLeft, Zenon
<1>7. /\ Holds(v, 34, NameBytes(c.doc_type))
      /\ Holds(v, pv + 55, DigitBytes(TimeDigits(c.from))) /\ Holds(v, pv + 88, DigitBytes(TimeDigits(c.until)))
      /\ Holds(v, pk + 33, Devices[c.device][1]) /\ Holds(v, pk + 68, Devices[c.device][2])
  BY <1>6, PartsAreCells, Zenon DEF SigPlaced
<1>8. ASSUME NEW n \in Names, NEW j \in 1..Len(v), pd < j, v[j] = <<n, 0>> PROVE Found(v, c, n, j)
  <2>1. \/ j \in 1..Len(u) /\ v[j] = u[j]
        \/ j - Len(u) \in 1..Len(z) /\ v[j] = z[j - Len(u)]
    BY InPart
  <2>2. n \notin {"byte"}
    BY NameType, SigTagsAre
  <2>3. v[j][1] = n
    BY <1>8
  <2>4. j \in 1..Len(u) /\ u[j] = <<n, 0>>
    BY <1>8, <2>1, <2>2, <2>3, Zenon DEF Tagged
  <2>5. Found(u, c, n, j)
    BY <1>8, <2>4, Zenon DEF SigPlaced
  <2>6. QED BY <2>5, FoundIn, Zenon
<1>9. ASSUME NEW i \in Nat, NEW j \in 1..Len(v), j <= pk, v[j] = <<"sha256", 32 * i + 1>> PROVE Listed(c, i)
  <2>1. \/ j \in 1..Len(u) /\ v[j] = u[j]
        \/ j - Len(u) \in 1..Len(z) /\ v[j] = z[j - Len(u)]
    BY InPart
  <2>2. v[j][1] = "sha256" /\ "sha256" \notin {"byte"}
    BY <1>9
  <2>3. j \in 1..Len(u) /\ v[j] = u[j]
    BY <2>1, <2>2, Zenon DEF Tagged
  <2>4. ListedUpTo(u, c, pk)
    BY Zenon DEF SigPlaced
  <2>5. QED BY <1>9, <2>3, <2>4, Zenon DEF ListedUpTo
<1>10. QED BY <1>1, <1>5, <1>7, <1>8, <1>9, Zenon DEF SigPlaced, ListedUpTo

HeadTags == {"item head", "salt", "digestID", "byte"}
PrefixTags == {"full-date", "map1", "map2"}

LEMMA ItemTagsAre ==
  /\ HeadTags \subseteq Tags /\ PrefixTags \subseteq Tags /\ "elementValue" \in Tags /\ "digit" \in Tags
  /\ "elementIdentifier" \in Tags /\ "birth_date" \in Tags
  /\ \A i \in DOMAIN Items : Items[i].element \in Tags
<1>1. ItemTags \subseteq Tags
  BY DEF Tags
<1>2. \A i \in DOMAIN Items : Items[i].element \in ItemTags
  BY DEF ItemTags
<1>3. /\ "item head" \in ItemTags /\ "salt" \in ItemTags /\ "digestID" \in ItemTags /\ "byte" \in ItemTags
      /\ "full-date" \in ItemTags /\ "map1" \in ItemTags /\ "map2" \in ItemTags /\ "elementValue" \in ItemTags
      /\ "digit" \in ItemTags /\ "elementIdentifier" \in ItemTags /\ "birth_date" \in ItemTags
  BY DEF ItemTags
<1>4. QED BY <1>1, <1>2, <1>3 DEF HeadTags, PrefixTags

\* The first cell of a prefix tells the encodings apart.
PrefixHead(encoding) ==
  IF encoding = "Bare" THEN "full-date" ELSE IF encoding = "PhotoIdMap" THEN "map1" ELSE "map2"
PrefixPlaced(p, encoding) ==
  /\ Tagged(p, PrefixTags) /\ p \in Seq(Cell) /\ Len(p) \in Nat /\ Len(p) >= 1
  /\ p[1] = <<PrefixHead(encoding), 0>>

LEMMA MapPrefix ==
  ASSUME NEW t \in {"map1", "map2"}, NEW p, p = Literal(t, 12) \o Literal("full-date", 4)
  PROVE  Tagged(p, PrefixTags) /\ p \in Seq(Cell) /\ Len(p) = 16 /\ p[1] = <<t, 0>>
<1>1. PICK a, b : a = Literal(t, 12) /\ b = Literal("full-date", 4)
  OBVIOUS
<1>2. t \in Tags /\ "full-date" \in Tags /\ {t} \subseteq PrefixTags /\ {"full-date"} \subseteq PrefixTags
  BY ItemTagsAre DEF PrefixTags
<1>3. Piece(a, t, 12) /\ Piece(b, "full-date", 4)
  BY <1>1, <1>2, PieceIs
<1>4. Tagged(a, PrefixTags) /\ Tagged(b, PrefixTags)
  BY <1>2, <1>3, TagsGrow DEF Piece
<1>5. Joined(p, a, b) /\ Tagged(p, PrefixTags)
  BY <1>1, <1>4, GlueIn, Zenon
<1>6. Len(a) = 12 /\ Len(b) = 4
  BY <1>3 DEF Piece
<1>7. Len(p) = 16 /\ p \in Seq(Cell) /\ Holds(p, 0, a)
  BY <1>5, <1>6 DEF Joined
<1>8. a[1] = <<t, 0>>
  BY <1>1 DEF Literal
<1>9. p[1] = a[1]
  <2>1. 1 \in 1..Len(a) /\ 0 + 1 = 1
    BY <1>6
  <2>2. p[0 + 1] = a[1]
    BY <1>7, <2>1, Zenon DEF Holds
  <2>3. QED BY <2>1, <2>2
<1>10. QED BY <1>5, <1>7, <1>8, <1>9

LEMMA PrefixIs ==
  ASSUME NEW encoding \in {"Bare", "PhotoIdMap", "Masked"}
  PROVE  PrefixPlaced(prefix(encoding), encoding)
<1>1. CASE encoding = "Bare"
  <2>1. PICK p : p = Literal("full-date", 4)
    OBVIOUS
  <2>2. Piece(p, "full-date", 4) /\ {"full-date"} \subseteq PrefixTags
    BY <2>1, ItemTagsAre, PieceIs DEF PrefixTags
  <2>3. Tagged(p, PrefixTags) /\ p \in Seq(Cell) /\ Len(p) = 4
    BY <2>2, TagsGrow DEF Piece
  <2>4. p[1] = <<"full-date", 0>>
    BY <2>1 DEF Literal
  <2>5. prefix(encoding) = p
    BY <1>1, <2>1 DEF prefix
  <2>6. QED BY <1>1, <2>3, <2>4, <2>5 DEF PrefixPlaced, PrefixHead
<1>2. CASE encoding = "PhotoIdMap"
  <2>1. PICK t, p : t = "map1" /\ p = Literal(t, 12) \o Literal("full-date", 4)
    OBVIOUS
  <2>2. t \in {"map1", "map2"} /\ PrefixHead(encoding) = t
    BY <1>2, <2>1 DEF PrefixHead
  <2>3. prefix(encoding) = p
    BY <1>2, <2>1 DEF prefix
  <2>4. Tagged(p, PrefixTags) /\ p \in Seq(Cell) /\ Len(p) = 16 /\ p[1] = <<t, 0>>
    BY <2>1, <2>2, MapPrefix, Zenon
  <2>5. PrefixPlaced(p, encoding)
    BY <2>2, <2>4 DEF PrefixPlaced
  <2>6. QED BY <2>3, <2>5
<1>3. CASE encoding = "Masked"
  <2>1. PICK t, p : t = "map2" /\ p = Literal(t, 12) \o Literal("full-date", 4)
    OBVIOUS
  <2>2. t \in {"map1", "map2"} /\ PrefixHead(encoding) = t
    BY <1>3, <2>1 DEF PrefixHead
  <2>3. prefix(encoding) = p
    BY <1>3, <2>1 DEF prefix
  <2>4. Tagged(p, PrefixTags) /\ p \in Seq(Cell) /\ Len(p) = 16 /\ p[1] = <<t, 0>>
    BY <2>1, <2>2, MapPrefix, Zenon
  <2>5. PrefixPlaced(p, encoding)
    BY <2>2, <2>4 DEF PrefixPlaced
  <2>6. QED BY <2>3, <2>5
<1>4. QED BY <1>1, <1>2, <1>3

\* The name of an element behind its key.
IdentifierPlaced(b, element) ==
  /\ Tagged(b, {"elementIdentifier", element}) /\ b \in Seq(Cell) /\ Len(b) = 29
  /\ b[19] = <<element, 0>>

LEMMA IdentifierIs ==
  ASSUME NEW element \in Tags
  PROVE  IdentifierPlaced(Identifier(element), element)
<1>1. PICK a, l, b : a = Literal("elementIdentifier", 18) /\ l = Literal(element, 11) /\ b = a \o l
  OBVIOUS
<1>2. Piece(a, "elementIdentifier", 18) /\ Piece(l, element, 11)
  BY <1>1, ItemTagsAre, PieceIs
<1>3. /\ Tagged(a, {"elementIdentifier"}) /\ Tagged(l, {element}) /\ Len(a) = 18 /\ Len(l) = 11
  BY <1>2 DEF Piece
<1>4. Joined(b, a, l) /\ Tagged(b, {"elementIdentifier"} \cup {element})
  BY <1>1, <1>3, Glue, ZenonT(40)
<1>5. {"elementIdentifier"} \cup {element} = {"elementIdentifier", element}
  OBVIOUS
<1>6. Len(b) = 29 /\ b \in Seq(Cell) /\ Holds(b, 18, l)
  BY <1>3, <1>4 DEF Joined
<1>7. l[1] = <<element, 0>>
  BY <1>1 DEF Literal
<1>8. b[19] = l[1]
  <2>1. 1 \in 1..Len(l) /\ 18 + 1 = 19
    BY <1>3
  <2>2. b[18 + 1] = l[1]
    BY <1>6, <2>1, Zenon DEF Holds
  <2>3. QED BY <2>1, <2>2
<1>9. b = Identifier(element)
  BY <1>1 DEF Identifier
<1>10. QED BY <1>4, <1>5, <1>6, <1>7, <1>8, <1>9 DEF IdentifierPlaced

LEMMA DateBytes ==
  ASSUME NEW a \in Day
  PROVE  /\ Tagged(DigitBytes(DateDigits(a)), {"digit"}) /\ DigitBytes(DateDigits(a)) \in Seq(Cell)
         /\ Len(DigitBytes(DateDigits(a))) = 10
<1>1. PICK t, b : t = DateDigits(a) /\ b = DigitBytes(t)
  OBVIOUS
<1>2. t \in Seq(Int) /\ Len(t) = 10
  BY <1>1, DateIs, SMT DEF TenDigits
<1>3. Tagged(b, {"digit"}) /\ b \in Seq(Cell) /\ Len(b) = Len(t)
  BY <1>1, <1>2, DigitBytesAre, Zenon
<1>4. QED BY <1>1, <1>2, <1>3, Zenon

\* An item's value begins behind `at` bytes.
ItemPlaced(b, it, at) ==
  /\ b \in Seq(Cell) /\ at \in Nat /\ Len(prefix(it.encoding)) \in Nat
  /\ OnlyAt(b, <<"elementValue", 0>>, at)
  /\ Holds(b, at + 13, prefix(it.encoding))
  /\ Holds(b, at + (13 + Len(prefix(it.encoding))), DigitBytes(DateDigits(it.date)))
  /\ Holds(b, at + ((13 + Len(prefix(it.encoding))) + 10), Identifier(it.element))

LEMMA ItemCells ==
  ASSUME NEW i \in DOMAIN Items
  PROVE  /\ PrefixPlaced(prefix(Items[i].encoding), Items[i].encoding)
         /\ IdentifierPlaced(Identifier(Items[i].element), Items[i].element)
         /\ prefix(Items[i].encoding) \in Seq(Cell) /\ Identifier(Items[i].element) \in Seq(Cell)
         /\ DigitBytes(DateDigits(Items[i].date)) \in Seq(Cell)
<1>1. Items[i].encoding \in {"Bare", "PhotoIdMap", "Masked"} /\ Items[i].date \in Day
  BY ItemType DEF IsItem
<1>2. PrefixPlaced(prefix(Items[i].encoding), Items[i].encoding)
  BY <1>1, PrefixIs
<1>3. IdentifierPlaced(Identifier(Items[i].element), Items[i].element)
  BY ItemTagsAre, IdentifierIs
<1>4. QED BY <1>1, <1>2, <1>3, DateBytes, Zenon DEF PrefixPlaced, IdentifierPlaced

LEMMA ValueIs ==
  ASSUME NEW i \in DOMAIN Items
  PROVE  ItemPlaced(ItemValue(Items[i]), Items[i], 0)
<1>1. PICK a, p, d, l : /\ a = ELEMENT_VALUE /\ p = prefix(Items[i].encoding)
                        /\ d = DigitBytes(DateDigits(Items[i].date)) /\ l = Identifier(Items[i].element)
  OBVIOUS
<1>2. Tagged(a, {"elementValue"}) /\ a \in Seq(Cell) /\ Len(a) = 13 /\ OnlyAt(a, <<"elementValue", 0>>, 0)
  <2>1. Piece(Literal("elementValue", 13), "elementValue", 13)
    BY ItemTagsAre, PieceIs
  <2>2. QED BY <1>1, <2>1 DEF Piece, ELEMENT_VALUE
<1>3. Tagged(p, PrefixTags) /\ p \in Seq(Cell) /\ Len(p) \in Nat
  BY <1>1, ItemCells DEF PrefixPlaced
<1>4. Tagged(d, {"digit"}) /\ d \in Seq(Cell) /\ Len(d) = 10
  BY <1>1, ItemType, DateBytes, Zenon
<1>5. Tagged(l, {"elementIdentifier", Items[i].element}) /\ l \in Seq(Cell)
  BY <1>1, ItemCells DEF IdentifierPlaced
<1>6. PICK v1, v2, v : v1 = a \o p /\ v2 = v1 \o d /\ v = v2 \o l
  OBVIOUS
<1>7. Joined(v1, a, p) /\ Tagged(v1, {"elementValue"} \cup PrefixTags)
  BY <1>2, <1>3, <1>6, Glue, Zenon
<1>8. Joined(v2, v1, d) /\ Tagged(v2, ({"elementValue"} \cup PrefixTags) \cup {"digit"})
  BY <1>4, <1>6, <1>7, Glue, Zenon
<1>9. Joined(v, v2, l)
  BY <1>5, <1>6, <1>8, Glue, Zenon
<1>10. OnlyAt(v, <<"elementValue", 0>>, 0)
  <2>1. /\ "elementValue" \notin PrefixTags /\ "elementValue" \notin {"digit"}
        /\ "elementValue" \notin {"elementIdentifier", Items[i].element} /\ 0 \in Nat
    BY ItemType DEF IsItem, PrefixTags
  <2>2. OnlyAt(v1, <<"elementValue", 0>>, 0)
    BY <1>2, <1>3, <1>7, <2>1, AloneLeft
  <2>3. OnlyAt(v2, <<"elementValue", 0>>, 0)
    BY <1>4, <1>8, <2>1, <2>2, AloneLeft
  <2>4. PICK T : T = {"elementIdentifier", Items[i].element}
    OBVIOUS
  <2>5. Tagged(l, T) /\ "elementValue" \notin T
    BY <1>5, <2>1, <2>4
  <2>6. QED BY <1>9, <2>1, <2>3, <2>5, AloneLeft
<1>11. Len(v1) = 13 + Len(p) /\ Len(v2) = (13 + Len(p)) + 10
  <2>1. Len(v1) = Len(a) + Len(p) /\ Len(v2) = Len(v1) + Len(d)
    BY <1>7, <1>8 DEF Joined
  <2>2. QED BY <1>2, <1>4, <2>1
<1>12. Holds(v, 13, p) /\ Holds(v, 13 + Len(p), d) /\ Holds(v, (13 + Len(p)) + 10, l)
  <2>1. Holds(v1, 13, p) /\ Holds(v2, 13 + Len(p), d) /\ Holds(v, (13 + Len(p)) + 10, l)
    BY <1>2, <1>7, <1>8, <1>9, <1>11 DEF Joined
  <2>2. Holds(v2, 13, p)
    BY <1>3, <1>8, <2>1, HoldsLeft, Zenon
  <2>3. Holds(v, 13, p)
    BY <1>3, <1>9, <2>2, HoldsLeft, Zenon
  <2>4. Holds(v, 13 + Len(p), d)
    BY <1>4, <1>9, <2>1, HoldsLeft, Zenon
  <2>5. QED BY <2>1, <2>3, <2>4
<1>13. 0 + 13 = 13 /\ 0 + (13 + Len(p)) = 13 + Len(p) /\ 0 + ((13 + Len(p)) + 10) = (13 + Len(p)) + 10
  BY <1>3
<1>14. v = ItemValue(Items[i])
  BY <1>1, <1>6, Zenon DEF ItemValue
<1>15. v \in Seq(Cell)
  BY <1>9 DEF Joined
<1>16. ItemPlaced(v, Items[i], 0)
  BY <1>1, <1>3, <1>10, <1>12, <1>13, <1>15 DEF ItemPlaced
<1>17. QED BY <1>14, <1>16, Zenon
LEMMA HeadIs ==
  ASSUME NEW i \in DOMAIN Items
  PROVE  Tagged(ItemHead(Items[i]), HeadTags)
<1>1. PICK n, a, b, c, d : /\ n = Items[i].salt + (IF Items[i].salt < 24 THEN 1 ELSE 2)
                           /\ a = Literal("item head", 12) /\ b = Literal("salt", n)
                           /\ c = Literal("digestID", 9) /\ d = Bytes(Items[i].id)
  OBVIOUS
<1>2. n \in Nat /\ Items[i].id \in Seq(Nat)
  <2>1. Items[i].salt \in Nat
    BY ItemType, Zenon DEF IsItem
  <2>2. Items[i].id \in Seq(Nat)
    BY ItemType, Zenon DEF IsDigestId
  <2>3. PICK k : k = Items[i].salt
    OBVIOUS
  <2>4. k \in Nat /\ n = k + (IF k < 24 THEN 1 ELSE 2)
    BY <1>1, <2>1, <2>3, Zenon
  <2>5. QED BY <2>2, <2>4
<1>3. "item head" \in Tags /\ "salt" \in Tags /\ "digestID" \in Tags
  BY ItemTagsAre DEF HeadTags
<1>4. Piece(a, "item head", 12) /\ Piece(b, "salt", n) /\ Piece(c, "digestID", 9)
  BY <1>1, <1>2, <1>3, PieceIs
<1>5. Tagged(a, {"item head"}) /\ Tagged(b, {"salt"}) /\ Tagged(c, {"digestID"})
  BY <1>4 DEF Piece
<1>6. Tagged(d, {"byte"})
  BY <1>1, <1>2, BytesIs
<1>7. /\ {"item head"} \subseteq HeadTags /\ {"salt"} \subseteq HeadTags /\ {"digestID"} \subseteq HeadTags
      /\ {"byte"} \subseteq HeadTags
  BY DEF HeadTags
<1>8. Tagged(a, HeadTags) /\ Tagged(b, HeadTags)
  BY <1>5, <1>7, TagsGrow, ZenonT(40)
<1>9. Tagged(c, HeadTags) /\ Tagged(d, HeadTags)
  <2>1. Tagged(c, HeadTags)
    BY <1>5, <1>7, TagsGrow, Zenon
  <2>2. Tagged(d, HeadTags)
    BY <1>6, <1>7, TagsGrow, Zenon
  <2>3. QED BY <2>1, <2>2
<1>10. PICK v1, v2, v : v1 = a \o b /\ v2 = v1 \o c /\ v = v2 \o d
  OBVIOUS
<1>11. Tagged(v1, HeadTags)
  BY <1>8, <1>10, GlueIn, Zenon
<1>12. Tagged(v2, HeadTags)
  BY <1>9, <1>10, <1>11, GlueIn, Zenon
<1>13. Tagged(v, HeadTags)
  BY <1>9, <1>10, <1>12, GlueIn, Zenon
<1>14. v = ItemHead(Items[i])
  BY <1>1, <1>10, Zenon DEF ItemHead
<1>15. QED BY <1>13, <1>14

LEMMA ItemIs ==
  ASSUME NEW i \in DOMAIN Items
  PROVE  \E at : ItemPlaced(ItemBytes(i), Items[i], at)
<1>1. PICK it, h, t, v : it = Items[i] /\ h = ItemHead(it) /\ t = ItemValue(it) /\ v = h \o t
  OBVIOUS
<1>2. Tagged(h, HeadTags)
  BY <1>1, HeadIs
<1>3. ItemPlaced(t, it, 0)
  BY <1>1, ValueIs
<1>4. PICK p, d, l, m : /\ p = prefix(it.encoding) /\ d = DigitBytes(DateDigits(it.date))
                        /\ l = Identifier(it.element) /\ m = Len(p)
  OBVIOUS
<1>5. p \in Seq(Cell) /\ d \in Seq(Cell) /\ l \in Seq(Cell)
  BY <1>1, <1>4, ItemCells
<1>6. /\ t \in Seq(Cell) /\ m \in Nat /\ OnlyAt(t, <<"elementValue", 0>>, 0)
      /\ Holds(t, 0 + 13, p) /\ Holds(t, 0 + (13 + m), d) /\ Holds(t, 0 + ((13 + m) + 10), l)
  BY <1>3, <1>4, Zenon DEF ItemPlaced
<1>7. Tagged(t, {t[k][1] : k \in 1..Len(t)})
  BY <1>6 DEF Tagged
<1>8. Joined(v, h, t)
  BY <1>1, <1>2, <1>7, Glue, Zenon
<1>9. h \in Seq(Cell) /\ Appended(v, h, t) /\ v \in Seq(Cell) /\ Len(h) \in Nat
  BY <1>8 DEF Joined
<1>10. OnlyAt(v, <<"elementValue", 0>>, Len(h))
  <2>1. "elementValue" \notin HeadTags /\ 0 \in Nat
    BY DEF HeadTags
  <2>2. OnlyAt(v, <<"elementValue", 0>>, Len(h) + 0)
    BY <1>2, <1>6, <1>8, <2>1, AloneRight
  <2>3. Len(h) + 0 = Len(h)
    BY <1>9
  <2>4. QED BY <2>2, <2>3
<1>11. ASSUME NEW q \in Seq(Cell), NEW a, Holds(t, a, q) PROVE Holds(v, Len(h) + a, q)
  BY <1>6, <1>9, <1>11, HoldsIn, Zenon
<1>12. Holds(v, Len(h) + (0 + 13), p) /\ Holds(v, Len(h) + (0 + (13 + m)), d) /\ Holds(v, Len(h) + (0 + ((13 + m) + 10)), l)
  BY <1>5, <1>6, <1>11, Zenon
<1>13. 0 + 13 = 13 /\ 0 + (13 + m) = 13 + m /\ 0 + ((13 + m) + 10) = (13 + m) + 10
  BY <1>6
<1>14. ItemPlaced(v, it, Len(h))
  BY <1>4, <1>6, <1>9, <1>10, <1>12, <1>13 DEF ItemPlaced
<1>15. v = ItemBytes(i)
  BY <1>1 DEF ItemBytes
<1>16. QED BY <1>1, <1>14, <1>15

LEMMA PaddedItemIs ==
  ASSUME NEW i \in DOMAIN Items, NEW u, NEW v, NEW z, Joined(v, u, z), Tagged(z, {"byte"}),
         NEW at, ItemPlaced(u, Items[i], at)
  PROVE  ItemPlaced(v, Items[i], at)
<1>1. PICK it, p, d, l : /\ it = Items[i] /\ p = prefix(it.encoding) /\ d = DigitBytes(DateDigits(it.date))
                         /\ l = Identifier(it.element)
  OBVIOUS
<1>2. p \in Seq(Cell) /\ d \in Seq(Cell) /\ l \in Seq(Cell)
  BY <1>1, ItemCells
<1>3. /\ at \in Nat /\ Len(p) \in Nat /\ OnlyAt(u, <<"elementValue", 0>>, at)
      /\ Holds(u, at + 13, p) /\ Holds(u, at + (13 + Len(p)), d) /\ Holds(u, at + ((13 + Len(p)) + 10), l)
  BY <1>1, Zenon DEF ItemPlaced
<1>4. OnlyAt(v, <<"elementValue", 0>>, at)
  <2>1. "elementValue" \notin {"byte"}
    OBVIOUS
  <2>2. QED BY <1>3, <2>1, AloneLeft, Zenon
<1>5. ASSUME NEW q \in Seq(Cell), NEW a, Holds(u, a, q) PROVE Holds(v, a, q)
  BY <1>5, HoldsLeft, Zenon
<1>6. Holds(v, at + 13, p) /\ Holds(v, at + (13 + Len(p)), d) /\ Holds(v, at + ((13 + Len(p)) + 10), l)
  BY <1>2, <1>3, <1>5, Zenon
<1>7. v \in Seq(Cell)
  BY DEF Joined
<1>8. QED BY <1>1, <1>3, <1>4, <1>6, <1>7, Zenon DEF ItemPlaced
-----------------------------------------------------------------------------
(* What a satisfied circuit says.                                          *)

\* Bytes that begin with a cell that stands alone stand where it does.
LEMMA Anchored ==
  ASSUME NEW u \in Seq(Cell), NEW p \in Seq(Cell), NEW at \in Nat, Holds(u, at, p), Len(p) >= 1,
         NEW x, p[1] = x, NEW a \in Nat, OnlyAt(u, x, a)
  PROVE  at = a
<1>1. Len(p) \in Nat /\ Len(u) \in Nat
  BY LenProperties
<1>2. 1 \in 1..Len(p) /\ at + 1 \in 1..Len(u)
  BY <1>1 DEF Holds
<1>3. u[at + 1] = x
  BY <1>2, Zenon DEF Holds
<1>4. at + 1 = a + 1
  BY <1>2, <1>3, Zenon DEF OnlyAt
<1>5. QED BY <1>4

LEMMA NameFirst ==
  ASSUME NEW n \in Names
  PROVE  Literal(n, NameLen[n])[1] = <<n, 0>> /\ Len(Literal(n, NameLen[n])) = NameLen[n]
<1>1. n \in Tags /\ NameLen[n] \in Nat /\ 1 \in 1..NameLen[n]
  BY NameType
<1>2. PICK l, k : l = Literal(n, NameLen[n]) /\ k = NameLen[n]
  OBVIOUS
<1>3. Len(l) = k
  BY <1>1, <1>2, LiteralIs
<1>4. l[1] = <<n, 0>>
  BY <1>1, <1>2 DEF Literal
<1>5. QED BY <1>2, <1>3, <1>4

\* Two names at one place are one name.
LEMMA SameName ==
  ASSUME NEW u \in Seq(Cell), NEW at, NEW n \in Names, NEW m \in Names,
         Holds(u, at, NameBytes(n)), Holds(u, at, NameBytes(m))
  PROVE  n = m
<1>1. PICK a, b, i, j : a = NameBytes(n) /\ b = NameBytes(m) /\ i = NameLen[n] /\ j = NameLen[m]
  OBVIOUS
<1>2. i \in Nat /\ j \in Nat /\ i >= 1 /\ j >= 1
  BY <1>1, NameType
<1>3. NamePlaced(a, n) /\ NamePlaced(b, m)
  BY <1>1, NameIs
<1>4. /\ Len(a) = HeadLen(i) + i /\ a[1] = <<"byte", First(96, 120, i)>> /\ Holds(a, HeadLen(i), Literal(n, i))
  BY <1>1, <1>3 DEF NamePlaced
<1>5. /\ Len(b) = HeadLen(j) + j /\ b[1] = <<"byte", First(96, 120, j)>> /\ Holds(b, HeadLen(j), Literal(m, j))
  BY <1>1, <1>3 DEF NamePlaced
<1>6. HeadLen(i) \in Nat /\ HeadLen(j) \in Nat /\ HeadLen(i) >= 1 /\ HeadLen(j) >= 1
  BY <1>2, HeadLenType
<1>7. u[at + 1] = a[1] /\ u[at + 1] = b[1]
  <2>1. 1 \in 1..Len(a) /\ 1 \in 1..Len(b)
    BY <1>2, <1>4, <1>5, <1>6
  <2>2. QED BY <1>1, <2>1, Zenon DEF Holds
<1>8. First(96, 120, i) = First(96, 120, j)
  BY <1>4, <1>5, <1>7
<1>9. HeadLen(i) = HeadLen(j)
  BY <1>2, <1>8 DEF First, HeadLen
<1>10. Literal(n, i)[1] = <<n, 0>> /\ Len(Literal(n, i)) = i /\ Literal(m, j)[1] = <<m, 0>> /\ Len(Literal(m, j)) = j
  BY <1>1, NameFirst
<1>11. a[HeadLen(i) + 1] = <<n, 0>>
  BY <1>2, <1>4, <1>10 DEF Holds
<1>12. b[HeadLen(j) + 1] = <<m, 0>>
  BY <1>2, <1>5, <1>10 DEF Holds
<1>13. u[at + (HeadLen(i) + 1)] = a[HeadLen(i) + 1]
  <2>1. HeadLen(i) + 1 \in 1..Len(a)
    BY <1>2, <1>4, <1>6
  <2>2. QED BY <1>1, <2>1, Zenon DEF Holds
<1>14. u[at + (HeadLen(j) + 1)] = b[HeadLen(j) + 1]
  <2>1. HeadLen(j) + 1 \in 1..Len(b)
    BY <1>2, <1>5, <1>6
  <2>2. QED BY <1>1, <2>1, Zenon DEF Holds
<1>15. <<n, 0>> = <<m, 0>>
  BY <1>9, <1>11, <1>12, <1>13, <1>14
<1>16. QED BY <1>15

\* Two counts at one place are one count.
LEMMA SameCount ==
  ASSUME NEW u \in Seq(Cell), NEW at, NEW n \in Nat, NEW m \in Nat,
         Holds(u, at, map_header(n)), Holds(u, at, map_header(m))
  PROVE  n = m
<1>1. PICK a, b : a = map_header(n) /\ b = map_header(m)
  OBVIOUS
<1>2. Header(a, 160, 184, n) /\ Header(b, 160, 184, m)
  BY <1>1, MapHead
<1>3. /\ Len(a) = HeadLen(n) /\ a[1] = <<"byte", First(160, 184, n)>> /\ (n >= 24 => a[2] = <<"byte", n>>)
      /\ Len(b) = HeadLen(m) /\ b[1] = <<"byte", First(160, 184, m)>> /\ (m >= 24 => b[2] = <<"byte", m>>)
  BY <1>2 DEF Header
<1>4. u[at + 1] = a[1] /\ u[at + 1] = b[1]
  <2>1. 1 \in 1..Len(a) /\ 1 \in 1..Len(b)
    BY <1>3, HeadLenType
  <2>2. QED BY <1>1, <2>1, Zenon DEF Holds
<1>5. First(160, 184, n) = First(160, 184, m)
  BY <1>3, <1>4
<1>6. CASE n < 24
  BY <1>5, <1>6 DEF First
<1>7. CASE ~(n < 24)
  <2>1. ~(m < 24)
    BY <1>5, <1>7 DEF First
  <2>2. 2 \in 1..Len(a) /\ 2 \in 1..Len(b)
    BY <1>3, <1>7, <2>1 DEF HeadLen
  <2>3. u[at + 2] = a[2] /\ u[at + 2] = b[2]
    BY <1>1, <2>2, Zenon DEF Holds
  <2>4. <<"byte", n>> = <<"byte", m>>
    BY <1>3, <1>7, <2>1, <2>3
  <2>5. QED BY <2>4
<1>8. QED BY <1>6, <1>7
\* select_anchor and its kin read what stands there.
LEMMA AnchorRead ==
  ASSUME NEW u \in Seq(Cell), NEW p \in Seq(Cell), NEW at, at \in anchor_offsets(Len(u)),
         NEW n, n = Len(p), n <= 48, BytesAt(u, at, n) = p
  PROVE  at \in Nat /\ Holds(u, at, p)
<1>1. Len(u) \in Nat /\ n \in Nat
  BY LenProperties
<1>2. at \in 0..(Len(u) - 48)
  BY DEF anchor_offsets, window_offsets, MAX_ANCHOR_WINDOW
<1>3. at \in Nat /\ at + n <= Len(u)
  BY <1>1, <1>2
<1>4. QED BY <1>1, <1>3, Read

\* doc_type_entry and ns_open, cell by cell.
DocEntry(e, n) ==
  /\ e \in Seq(Cell) /\ Len(NameBytes(n)) \in Nat /\ Len(e) = 8 + Len(NameBytes(n))
  /\ e[1] = <<"docType", 0>> /\ Holds(e, 8, NameBytes(n)) /\ Holds(e, 0, DOC_TYPE_KEY)

LEMMA DocEntryIs ==
  ASSUME NEW w, w.doc_type \in Names
  PROVE  DocEntry(doc_type_entry(w), w.doc_type)
<1>1. PICK n, k, t, e : n = w.doc_type /\ k = DOC_TYPE_KEY /\ t = NameBytes(n) /\ e = k \o t
  OBVIOUS
<1>2. Piece(k, "docType", 8)
  BY <1>1, SigTagsAre, PieceIs DEF DOC_TYPE_KEY
<1>3. Tagged(k, {"docType"}) /\ Len(k) = 8 /\ k \in Seq(Cell)
  BY <1>2 DEF Piece
<1>4. Tagged(t, {"byte", n}) /\ t \in Seq(Cell) /\ Len(t) \in Nat
  BY <1>1, NameIs, LenProperties DEF NamePlaced
<1>5. Joined(e, k, t)
  BY <1>1, <1>3, <1>4, Glue, Zenon
<1>6. e \in Seq(Cell) /\ Len(e) = 8 + Len(t) /\ Holds(e, 8, t) /\ Holds(e, 0, k)
  BY <1>3, <1>5 DEF Joined
<1>7. k[1] = <<"docType", 0>>
  BY <1>1 DEF DOC_TYPE_KEY, Literal
<1>8. e[1] = k[1]
  <2>1. 1 \in 1..Len(k) /\ 0 + 1 = 1
    BY <1>3
  <2>2. e[0 + 1] = k[1]
    BY <1>6, <2>1, Zenon DEF Holds
  <2>3. QED BY <2>1, <2>2
<1>9. e = doc_type_entry(w)
  BY <1>1 DEF doc_type_entry
<1>10. QED BY <1>1, <1>4, <1>6, <1>7, <1>8, <1>9 DEF DocEntry

NsOpen(e, n, m) ==
  /\ e \in Seq(Cell) /\ Len(NameBytes(n)) \in Nat /\ HeadLen(m) \in Nat
  /\ Len(NameBytes(n)) = HeadLen(NameLen[n]) + NameLen[n]
  /\ Len(e) = Len(NameBytes(n)) + HeadLen(m) /\ Len(map_header(m)) = HeadLen(m)
  /\ Holds(e, 0, NameBytes(n)) /\ Holds(e, Len(NameBytes(n)), map_header(m))
  /\ map_header(m) \in Seq(Cell) /\ NameBytes(n) \in Seq(Cell)

LEMMA NsOpenIs ==
  ASSUME NEW w, w.namespace \in Names, w.num_entries \in Nat
  PROVE  NsOpen(ns_open(w), w.namespace, w.num_entries)
<1>1. PICK n, m, t, h, e : /\ n = w.namespace /\ m = w.num_entries /\ t = NameBytes(n)
                           /\ h = map_header(m) /\ e = t \o h
  OBVIOUS
<1>2. Tagged(t, {"byte", n}) /\ t \in Seq(Cell) /\ Len(t) \in Nat /\ Len(t) = HeadLen(NameLen[n]) + NameLen[n]
  BY <1>1, NameIs, LenProperties DEF NamePlaced
<1>3. Tagged(h, {"byte"}) /\ Len(h) = HeadLen(m) /\ HeadLen(m) \in Nat /\ h \in Seq(Cell)
  BY <1>1, MapHead, HeadLenType DEF Header
<1>4. Joined(e, t, h)
  BY <1>1, <1>2, <1>3, Glue, Zenon
<1>5. e \in Seq(Cell) /\ Len(e) = Len(t) + HeadLen(m) /\ Holds(e, 0, t) /\ Holds(e, Len(t), h)
  BY <1>3, <1>4 DEF Joined
<1>6. e = ns_open(w)
  BY <1>1 DEF ns_open
<1>7. QED BY <1>1, <1>2, <1>3, <1>5, <1>6, Zenon DEF NsOpen

\* select_masked_text_anchor reads what stands there.
LEMMA MaskedRead ==
  ASSUME NEW u \in Seq(Cell), NEW p \in Seq(Cell), NEW at, NEW n, n = Len(p),
         select_masked_text_anchor(u, at, n), BytesAt(u, at, n) = p
  PROVE  at \in Nat /\ Holds(u, at, p) /\ n \in 1..40
<1>1. n \in 1..40 /\ at \in anchor_offsets(Len(u))
  BY Zenon DEF select_masked_text_anchor, ANCHOR_TEXT_WINDOW
<1>2. \A k \in 1..40 : k <= 48
  OBVIOUS
<1>3. n <= 48
  BY <1>1, <1>2, Zenon
<1>4. QED BY <1>1, <1>3, AnchorRead, Zenon

\* The docType is the credential's.
LEMMA DocTypeBound ==
  ASSUME NEW c, IsCredential(c), NEW u, NEW pv, NEW pd, NEW pk, SigPlaced(u, c, pv, pd, pk),
         NEW w, w.doc_type \in Names,
         select_masked_text_anchor(u, w.doc_type_key, doc_type_prefix_len(w)),
         BytesAt(u, w.doc_type_key, doc_type_prefix_len(w)) = doc_type_entry(w)
  PROVE  w.doc_type_key = 26 /\ w.doc_type = c.doc_type /\ Holds(u, 26, doc_type_entry(w))
<1>1. PICK e, t, n, at : e = doc_type_entry(w) /\ n = w.doc_type /\ t = NameBytes(n) /\ at = w.doc_type_key
  OBVIOUS
<1>2. /\ e \in Seq(Cell) /\ Len(t) \in Nat /\ Len(e) = 8 + Len(t) /\ e[1] = <<"docType", 0>> /\ Holds(e, 8, t)
  BY <1>1, DocEntryIs DEF DocEntry
<1>3. u \in Seq(Cell) /\ OnlyAt(u, <<"docType", 0>>, 26) /\ Holds(u, 34, NameBytes(c.doc_type)) /\ 26 \in Nat
  BY DEF SigPlaced
<1>4. PICK len : len = Len(e)
  OBVIOUS
<1>5. at \in Nat /\ Holds(u, at, e)
  <2>1. select_masked_text_anchor(u, at, len) /\ BytesAt(u, at, len) = e
    BY <1>1, <1>4, Zenon DEF doc_type_prefix_len
  <2>2. QED BY <1>2, <1>3, <1>4, <2>1, MaskedRead, Zenon
<1>6. Len(e) >= 1
  BY <1>2
<1>7. at = 26
  <2>1. PICK x : x = <<"docType", 0>>
    OBVIOUS
  <2>2. OnlyAt(u, x, 26) /\ e[1] = x /\ 26 \in Nat /\ u \in Seq(Cell) /\ e \in Seq(Cell)
    BY <1>2, <1>3, <2>1
  <2>3. QED BY <1>5, <1>6, <2>2, Anchored, ZenonT(40)
<1>8. t \in Seq(Cell) /\ n \in Names /\ c.doc_type \in Names
  BY <1>1, NameIs, CredentialType DEF NamePlaced
<1>9. Holds(u, 34, t)
  <2>1. Holds(u, at + 8, t)
    BY <1>2, <1>3, <1>5, <1>8, HoldsPart, Zenon
  <2>2. at + 8 = 34
    BY <1>7
  <2>3. QED BY <2>1, <2>2
<1>10. n = c.doc_type
  BY <1>1, <1>3, <1>8, <1>9, SameName, Zenon
<1>11. QED BY <1>1, <1>5, <1>7, <1>10

\* A literal of the signed bytes at a witnessed offset.
LEMMA LiteralAt ==
  ASSUME NEW name \in Tags, NEW len \in 1..48, NEW u \in Seq(Cell), NEW at, NEW l, l = Literal(name, len),
         select_anchor(u, at, l), NEW a \in Nat, NEW x, x = <<name, 0>>, OnlyAt(u, x, a)
  PROVE  at = a
<1>1. Tagged(l, {name}) /\ l \in Seq(Cell) /\ Len(l) = len /\ len \in Nat
  <2>1. len \in Nat
    OBVIOUS
  <2>2. QED BY <2>1, LiteralIs, Zenon
<1>2. l[1] = <<name, 0>>
  BY DEF Literal
<1>3. at \in anchor_offsets(Len(u)) /\ BytesAt(u, at, Len(l)) = l /\ Len(l) <= 48 /\ Len(l) >= 1
  BY <1>1 DEF select_anchor
<1>4. at \in Nat /\ Holds(u, at, l)
  BY <1>1, <1>3, AnchorRead, Zenon
<1>5. l[1] = x
  BY <1>2
<1>6. QED BY <1>1, <1>3, <1>4, <1>5, Anchored, Zenon

\* The validity is the credential's.
LEMMA ValidityBound ==
  ASSUME NEW c, IsCredential(c), NEW u, NEW pv, NEW pd, NEW pk, SigPlaced(u, c, pv, pd, pk),
         NEW at, bind_validity(u, at)
  PROVE  valid_from(u, at) = TimeDigits(c.from) /\ valid_until(u, at) = TimeDigits(c.until)
<1>1. /\ u \in Seq(Cell) /\ pv \in Nat /\ OnlyAt(u, <<"validityInfo", 0>>, pv)
      /\ Holds(u, pv + 55, DigitBytes(TimeDigits(c.from))) /\ Holds(u, pv + 88, DigitBytes(TimeDigits(c.until)))
  BY Zenon DEF SigPlaced
<1>2. select_anchor(u, at, Literal("validityInfo", 23))
  BY Zenon DEF bind_validity, VALIDITY_OPEN
<1>3. at = pv
  <2>1. 23 \in 1..48
    OBVIOUS
  <2>2. "validityInfo" \in Tags
    BY SigTagsAre, Zenon
  <2>3. PICK l, len, name, x : /\ name = "validityInfo" /\ len = 23 /\ l = Literal(name, len)
                               /\ x = <<name, 0>>
    OBVIOUS
  <2>4. select_anchor(u, at, l) /\ OnlyAt(u, x, pv) /\ len \in 1..48 /\ name \in Tags
    BY <1>1, <1>2, <2>1, <2>2, <2>3, Zenon
  <2>5. l = Literal(name, len) /\ x = <<name, 0>> /\ u \in Seq(Cell) /\ pv \in Nat
    BY <1>1, <2>3, Zenon
  <2>6. QED BY <2>4, <2>5, LiteralAt, Zenon
<1>4. c.from \in Day /\ c.until \in Day
  BY CredentialType
<1>5. PICK x, y : x = TimeDigits(c.from) /\ y = TimeDigits(c.until)
  OBVIOUS
<1>6. x \in Seq(Int) /\ Len(x) = 20 /\ y \in Seq(Int) /\ Len(y) = 20 /\ 20 \in Nat
  <2>1. OnTheDay(x, DateDigits(c.from)) /\ OnTheDay(y, DateDigits(c.until))
    BY <1>4, <1>5, TimeIs, Zenon
  <2>2. x \in Seq(Int) /\ Len(x) = 20
    BY <2>1, Zenon DEF OnTheDay
  <2>3. y \in Seq(Int) /\ Len(y) = 20
    BY <2>1, Zenon DEF OnTheDay
  <2>4. QED BY <2>2, <2>3
<1>7. Digits(BytesAt(u, pv + 55, 20)) = x
  <2>1. PICK p : p = pv + 55
    OBVIOUS
  <2>2. Holds(u, p, DigitBytes(x))
    BY <1>1, <1>5, <2>1, Zenon
  <2>3. PICK n : n = 20
    OBVIOUS
  <2>4. n \in Nat /\ n = Len(x)
    BY <1>6, <2>3
  <2>5. Digits(BytesAt(u, p, n)) = x
    BY <1>1, <1>6, <2>2, <2>4, DigitsAt, Zenon
  <2>6. QED BY <2>1, <2>3, <2>5, Zenon
<1>8. Digits(BytesAt(u, pv + 88, 20)) = y
  <2>1. PICK p : p = pv + 88
    OBVIOUS
  <2>2. Holds(u, p, DigitBytes(y))
    BY <1>1, <1>5, <2>1, Zenon
  <2>3. PICK n : n = 20
    OBVIOUS
  <2>4. n \in Nat /\ n = Len(y)
    BY <1>6, <2>3
  <2>5. Digits(BytesAt(u, p, n)) = y
    BY <1>1, <1>6, <2>2, <2>4, DigitsAt, Zenon
  <2>6. QED BY <2>1, <2>3, <2>5, Zenon
<1>9. VALID_FROM_DELTA = 55 /\ VALID_UNTIL_DELTA = 88 /\ TIMESTAMP_LEN = 20
  BY DEF VALID_FROM_DELTA, VALID_UNTIL_DELTA, TIMESTAMP_LEN
<1>10. QED BY <1>3, <1>5, <1>7, <1>8, <1>9, Zenon DEF valid_from, valid_until

\* The device key is the credential's.
LEMMA DeviceBound ==
  ASSUME NEW c, IsCredential(c), NEW u, NEW pv, NEW pd, NEW pk, SigPlaced(u, c, pv, pd, pk),
         NEW w, select_anchor(u, w.device_key_info, DEVICE_KEY_INFO)
  PROVE  device_key(u, w) = Devices[c.device]
<1>1. PICK x, y : x = Devices[c.device][1] /\ y = Devices[c.device][2]
  OBVIOUS
<1>2. /\ u \in Seq(Cell) /\ pk \in Nat /\ OnlyAt(u, <<"deviceKeyInfo", 0>>, pk)
      /\ Holds(u, pk + 33, x) /\ Holds(u, pk + 68, y)
  BY <1>1, Zenon DEF SigPlaced
<1>3. w.device_key_info = pk
  <2>1. 33 \in 1..48
    OBVIOUS
  <2>2. "deviceKeyInfo" \in Tags
    BY SigTagsAre, Zenon
  <2>3. PICK l, len, name, at, cell : /\ name = "deviceKeyInfo" /\ len = 33 /\ l = Literal(name, len)
                                   /\ at = w.device_key_info /\ cell = <<name, 0>>
    OBVIOUS
  <2>4. select_anchor(u, at, l) /\ OnlyAt(u, cell, pk) /\ len \in 1..48 /\ name \in Tags
    BY <1>2, <2>1, <2>2, <2>3, Zenon DEF DEVICE_KEY_INFO
  <2>5. l = Literal(name, len) /\ cell = <<name, 0>> /\ u \in Seq(Cell) /\ pk \in Nat
    BY <1>2, <2>3, Zenon
  <2>6. at = pk
    BY <2>4, <2>5, LiteralAt, Zenon
  <2>7. QED BY <2>3, <2>6, Zenon
<1>4. c.device \in DOMAIN Devices
  BY CredentialType
<1>5. Coord(x) /\ Coord(y) /\ Devices[c.device] = <<x, y>>
  BY <1>1, <1>4, DeviceType, Zenon
<1>6. x \in Seq(Cell) /\ y \in Seq(Cell) /\ Len(x) = 32 /\ Len(y) = 32 /\ 32 \in Nat
  BY <1>5 DEF Coord
<1>7. BytesAt(u, pk + 33, 32) = x
  <2>1. PICK a, n : a = pk + 33 /\ n = 32
    OBVIOUS
  <2>2. a \in Nat /\ n \in Nat /\ n = Len(x) /\ a + n <= Len(u) /\ Holds(u, a, x)
    BY <1>2, <1>6, <2>1 DEF Holds
  <2>3. BytesAt(u, a, n) = x
    <3>1. u \in Seq(Cell) /\ x \in Seq(Cell)
      BY <1>2, <1>6
    <3>2. QED BY <2>2, <3>1, Read
  <2>4. QED BY <2>1, <2>3, Zenon
<1>8. BytesAt(u, pk + 68, 32) = y
  <2>1. PICK a, n : a = pk + 68 /\ n = 32
    OBVIOUS
  <2>2. a \in Nat /\ n \in Nat /\ n = Len(y) /\ a + n <= Len(u) /\ Holds(u, a, y)
    BY <1>2, <1>6, <2>1 DEF Holds
  <2>3. BytesAt(u, a, n) = y
    <3>1. u \in Seq(Cell) /\ y \in Seq(Cell)
      BY <1>2, <1>6
    <3>2. QED BY <2>2, <3>1, Read
  <2>4. QED BY <2>1, <2>3, Zenon
<1>9. DEVICE_KEY_X_DELTA = 33 /\ DEVICE_KEY_Y_DELTA = 68
  <2>1. Piece(Literal("deviceKeyInfo", 33), "deviceKeyInfo", 33)
    BY SigTagsAre, PieceIs
  <2>2. Len(DEVICE_KEY_INFO) = 33
    BY <2>1 DEF Piece, DEVICE_KEY_INFO
  <2>3. QED BY <2>2 DEF DEVICE_KEY_X_DELTA, DEVICE_KEY_Y_DELTA
<1>10. device_key(u, w) = <<x, y>>
  BY <1>3, <1>7, <1>8, <1>9, Zenon DEF device_key
<1>11. QED BY <1>5, <1>10
\* The namespace ns of that name and size stands there.
Placed(s, nk, ns, n, m) ==
  Holds(s, nk, NamespaceBytes(ns)) /\ IsNamespace(ns) /\ ns.name = n /\ Len(ns.items) = m

\* The first cell of a name that stands in u.
LEMMA NameCell ==
  ASSUME NEW u \in Seq(Cell), NEW at \in Nat, NEW n \in Names, Holds(u, at, NameBytes(n)),
         NEW j, j = at + HeadLen(NameLen[n]) + 1
  PROVE  j \in 1..Len(u) /\ u[j] = <<n, 0>>
<1>1. PICK b, i, h, l : b = NameBytes(n) /\ i = NameLen[n] /\ h = HeadLen(i) /\ l = Literal(n, i)
  OBVIOUS
<1>2. i \in Nat /\ i >= 1 /\ h \in Nat /\ h >= 1
  BY <1>1, NameType, HeadLenType
<1>3. Len(b) = h + i /\ Holds(b, h, l)
  BY <1>1, NameIs DEF NamePlaced
<1>4. l[1] = <<n, 0>> /\ Len(l) = i
  BY <1>1, NameFirst
<1>5. b[h + 1] = l[1]
  <2>1. 1 \in 1..Len(l)
    BY <1>2, <1>4
  <2>2. QED BY <1>3, <2>1, Zenon DEF Holds
<1>6. h + 1 \in 1..Len(b)
  BY <1>2, <1>3
<1>7. at + Len(b) <= Len(u) /\ u[at + (h + 1)] = b[h + 1]
  BY <1>1, <1>6, Zenon DEF Holds
<1>8. Len(u) \in Nat
  BY LenProperties
<1>9. j = at + (h + 1) /\ j \in 1..Len(u)
  <2>1. PICK k : k = Len(u)
    OBVIOUS
  <2>2. at + (h + i) <= k /\ k \in Nat /\ j = at + h + 1
    BY <1>1, <1>3, <1>7, <1>8, <2>1
  <2>3. j = at + (h + 1) /\ j \in 1..k
    BY <1>2, <2>2
  <2>4. QED BY <2>1, <2>3
<1>10. QED BY <1>4, <1>5, <1>7, <1>9, Zenon

\* Framing bytes are no names.
LEMMA NameInFront ==
  ASSUME NEW v, NEW s, NEW z, Joined(v, s, z), Tagged(z, {"byte"}), NEW n \in Names,
         NEW j \in 1..Len(v), v[j] = <<n, 0>>
  PROVE  j \in 1..Len(s) /\ s[j] = <<n, 0>>
<1>1. n # "byte"
  BY NameType, SigTagsAre, Zenon
<1>2. CASE j \in 1..Len(s) /\ v[j] = s[j]
  BY <1>2
<1>3. CASE j - Len(s) \in 1..Len(z) /\ v[j] = z[j - Len(s)]
  <2>1. PICK k : k = j - Len(s)
    OBVIOUS
  <2>2. k \in 1..Len(z) /\ z[k] = <<n, 0>>
    BY <1>3, <2>1
  <2>3. z[k][1] \in {"byte"}
    BY <2>2, Zenon DEF Tagged
  <2>4. z[k][1] = n
    BY <2>2
  <2>5. QED BY <1>1, <2>3, <2>4, Zenon
<1>4. \/ j \in 1..Len(s) /\ v[j] = s[j]
      \/ j - Len(s) \in 1..Len(z) /\ v[j] = z[j - Len(s)]
  BY InPart
<1>5. QED BY <1>2, <1>3, <1>4, Zenon

\* A name and a number of entries behind the table's key are those of a namespace that stands there.
LEMMA NamespaceAt ==
  ASSUME NEW c, IsCredential(c), NEW v, NEW s, NEW z, Joined(v, s, z), Tagged(z, {"byte"}),
         NEW pv, NEW pd, NEW pk, SigPlaced(s, c, pv, pd, pk), NEW n \in Names, NEW m \in Nat,
         NEW nk \in Nat, pd <= nk, NEW e, NsOpen(e, n, m), Holds(v, nk, e)
  PROVE  \E r \in 1..Len(c.namespaces) : Placed(s, nk, c.namespaces[r], n, m)
<1>1. PICK b, g, j : b = NameBytes(n) /\ g = map_header(m) /\ j = nk + HeadLen(NameLen[n]) + 1
  OBVIOUS
<1>2. /\ e \in Seq(Cell) /\ b \in Seq(Cell) /\ g \in Seq(Cell) /\ Len(b) \in Nat
      /\ Holds(e, 0, b) /\ Holds(e, Len(b), g) /\ Len(b) = HeadLen(NameLen[n]) + NameLen[n]
  BY <1>1, Zenon DEF NsOpen
<1>3. v \in Seq(Cell) /\ s \in Seq(Cell)
  BY Zenon DEF Joined
<1>4. Holds(v, nk, b)
  <2>1. Holds(v, nk + 0, b)
    BY <1>2, <1>3, HoldsPart, Zenon
  <2>2. nk + 0 = nk
    OBVIOUS
  <2>3. QED BY <2>1, <2>2
<1>5. Holds(v, nk + Len(b), g)
  BY <1>2, <1>3, HoldsPart, Zenon
<1>6. j \in 1..Len(v) /\ v[j] = <<n, 0>>
  BY <1>1, <1>3, <1>4, NameCell, ZenonT(40)
<1>7. j \in 1..Len(s) /\ s[j] = <<n, 0>>
  BY <1>6, NameInFront, Zenon
<1>8. HeadLen(NameLen[n]) \in Nat /\ NameLen[n] \in Nat
  BY NameType, HeadLenType
<1>9. pd < j
  <2>1. pd \in Nat
    BY Zenon DEF SigPlaced
  <2>2. QED BY <1>1, <1>8, <2>1
<1>10. Found(s, c, n, j)
  BY <1>7, <1>9, Zenon DEF SigPlaced
<1>11. PICK r \in 1..Len(c.namespaces) : \E at : FoundAt(s, c, n, j, r, at)
  BY <1>10, Zenon DEF Found
<1>12. PICK at : FoundAt(s, c, n, j, r, at)
  BY <1>11, Zenon
<1>13. PICK ns : ns = c.namespaces[r]
  OBVIOUS
<1>14. Holds(s, at, NamespaceBytes(ns)) /\ at \in Nat /\ n = ns.name /\ j = at + HeadLen(NameLen[n]) + 1
  BY <1>12, <1>13, Zenon DEF FoundAt
<1>15. at = nk
  BY <1>1, <1>8, <1>14
<1>16. IsNamespace(ns)
  BY <1>13, CredentialType, Zenon
<1>17. PICK N, k : N = NamespaceBytes(ns) /\ k = Len(ns.items)
  OBVIOUS
<1>18. N \in Seq(Cell) /\ Holds(N, OpenLen(ns), map_header(k))
  BY <1>16, <1>17, NamespaceIs, Zenon DEF NamespacePlaced
<1>19. k \in Nat
  BY <1>16, <1>17, EntriesLaid, Zenon
<1>20. map_header(k) \in Seq(Cell)
  BY <1>19, MapHead, Zenon DEF Header
<1>21. Holds(s, nk + OpenLen(ns), map_header(k))
  BY <1>3, <1>14, <1>15, <1>17, <1>18, <1>20, HoldsPart, Zenon
<1>22. Holds(v, nk + OpenLen(ns), map_header(k))
  BY <1>20, <1>21, HoldsLeft, Zenon
<1>23. OpenLen(ns) = Len(b)
  BY <1>2, <1>14 DEF OpenLen
<1>24. Holds(v, nk + Len(b), map_header(k)) /\ Holds(v, nk + Len(b), map_header(m))
  BY <1>1, <1>5, <1>22, <1>23
<1>25. k = m
  BY <1>3, <1>19, <1>24, SameCount, Zenon
<1>26. Placed(s, nk, ns, n, m)
  BY <1>14, <1>15, <1>16, <1>17, <1>25, Zenon DEF Placed
<1>27. QED BY <1>13, <1>26, Zenon

\* A digest between the first entry and the end of the walk is that of an item of the namespace.
LEMMA DigestBound ==
  ASSUME NEW v, NEW s, NEW z, Joined(v, s, z), NEW n \in Names, NEW m \in Nat, NEW nk \in Nat,
         NEW ns, Placed(s, nk, ns, n, m), NEW e, NsOpen(e, n, m), NEW i \in Nat,
         NEW at \in window_offsets(Len(v), 32), BytesAt(v, at, 32) = ItemDigest(i),
         nk + Len(e) <= at, at + 32 <= native_region_end(v, nk + Len(e), m)
  PROVE  \E k \in 1..Len(ns.items) : ns.items[k] = i
<1>1. PICK N : N = NamespaceBytes(ns)
  OBVIOUS
<1>2. Holds(s, nk, N) /\ IsNamespace(ns) /\ ns.name = n /\ Len(ns.items) = m
  BY <1>1, Zenon DEF Placed
<1>3. N \in Seq(Cell) /\ BodyAt(ns) \in Nat
  BY <1>1, <1>2, NamespaceIs, Zenon DEF NamespacePlaced
<1>4. Holds(v, nk, N) /\ v \in Seq(Cell)
  BY <1>2, <1>3, HoldsLeft, Zenon DEF Joined
<1>5. BodyAt(ns) = Len(e)
  BY <1>2 DEF BodyAt, OpenLen, NsOpen
<1>6. native_region_end(v, nk + BodyAt(ns), Len(ns.items)) = nk + Len(N)
  BY <1>1, <1>2, <1>4, Region, Zenon
<1>7. native_region_end(v, nk + Len(e), m) = nk + Len(N)
  BY <1>2, <1>5, <1>6, Zenon
<1>8. PICK d, q : d = ItemDigest(i) /\ q = 32
  OBVIOUS
<1>9. d \in Seq(Cell) /\ Len(d) = q /\ d[1] = <<"sha256", 32 * i + 1>> /\ q \in Nat
  <2>1. d \in Seq(Cell) /\ Len(d) = 32 /\ \A k \in 1..32 : d[k] = <<"sha256", 32 * i + k>>
    BY <1>8, DigestIs
  <2>2. QED BY <1>8, <2>1
<1>10. Len(v) \in Nat
  BY <1>4, LenProperties
<1>11. at \in Nat /\ at + q <= Len(v)
  BY <1>8, <1>10 DEF window_offsets
<1>12. BytesAt(v, at, q) = d
  BY <1>8
<1>13. Holds(v, at, d)
  BY <1>4, <1>9, <1>11, <1>12, Read, Zenon
<1>14. v[at + 1] = <<"sha256", 32 * i + 1>>
  <2>1. 1 \in 1..Len(d)
    BY <1>8, <1>9
  <2>2. v[at + 1] = d[1]
    BY <1>13, <2>1, Zenon DEF Holds
  <2>3. QED BY <1>9, <2>2, Zenon
<1>15. PICK p : p = at + 1
  OBVIOUS
<1>16. p \in 1..Len(v) /\ v[p] = <<"sha256", 32 * i + 1>>
  BY <1>8, <1>10, <1>11, <1>14, <1>15
<1>17. nk + BodyAt(ns) < p
  BY <1>3, <1>5, <1>11, <1>15
<1>18. p <= nk + Len(N)
  <2>1. PICK l : l = nk + Len(N)
    OBVIOUS
  <2>2. Len(N) \in Nat
    BY <1>3, LenProperties
  <2>3. l \in Nat
    BY <2>1, <2>2
  <2>4. at + 32 <= l
    BY <1>7, <2>1
  <2>5. p <= l
    BY <1>11, <1>15, <2>3, <2>4
  <2>6. QED BY <2>1, <2>5
<1>19. OfItems(v, nk, ns)
  BY <1>1, <1>2, <1>4, Region, Zenon
<1>20. QED BY <1>1, <1>16, <1>17, <1>18, <1>19, Zenon DEF OfItems

\* The birth_date an item's literals enclose.
BirthDateOf(it, encoding) ==
  it.encoding = encoding /\ it.element = "birth_date"

LEMMA ItemBound ==
  ASSUME NEW i \in DOMAIN Items, NEW v, NEW a, ItemPlaced(v, Items[i], a), NEW at \in Nat,
         NEW encoding \in ALL, at + identifier_rel(encoding) + 29 <= Len(v),
         BytesAt(v, at, Len(ELEMENT_VALUE)) = ELEMENT_VALUE,
         BytesAt(v, at + Len(ELEMENT_VALUE), Len(prefix(encoding))) = prefix(encoding),
         BytesAt(v, at + identifier_rel(encoding), Len(IDENTIFIER_LITERAL)) = IDENTIFIER_LITERAL
  PROVE  /\ BirthDateOf(Items[i], encoding)
         /\ Digits(BytesAt(v, at + date_rel(encoding), 10)) = DateDigits(Items[i].date)
<1>1. PICK p, l, d : p = prefix(encoding) /\ l = IDENTIFIER_LITERAL /\ d = ELEMENT_VALUE
  OBVIOUS
<1>2. v \in Seq(Cell) /\ a \in Nat /\ OnlyAt(v, <<"elementValue", 0>>, a)
  BY Zenon DEF ItemPlaced
<1>3. Piece(d, "elementValue", 13) /\ d[1] = <<"elementValue", 0>>
  <2>1. d = Literal("elementValue", 13) /\ "elementValue" \in Tags
    BY <1>1, ItemTagsAre, Zenon DEF ELEMENT_VALUE
  <2>2. 13 \in Nat
    OBVIOUS
  <2>3. Piece(d, "elementValue", 13)
    BY <2>1, <2>2, PieceIs, Zenon
  <2>4. d[1] = <<"elementValue", 0>>
    BY <2>1 DEF Literal
  <2>5. QED BY <2>3, <2>4
<1>4. PrefixPlaced(p, encoding)
  BY <1>1, PrefixIs DEF ALL
<1>5. l = Identifier("birth_date") /\ IdentifierPlaced(l, "birth_date")
  BY <1>1, ItemTagsAre, IdentifierIs DEF IDENTIFIER_LITERAL
<1>6. d \in Seq(Cell) /\ Len(d) = 13 /\ p \in Seq(Cell) /\ Len(p) \in Nat /\ l \in Seq(Cell) /\ Len(l) = 29
  BY <1>3, <1>4, <1>5 DEF Piece, PrefixPlaced, IdentifierPlaced
<1>7. date_rel(encoding) = 13 + Len(p) /\ identifier_rel(encoding) = (13 + Len(p)) + 10
  BY <1>1, <1>6 DEF date_rel, identifier_rel
<1>8. Len(v) \in Nat /\ at + ((13 + Len(p)) + 10) + 29 <= Len(v)
  BY <1>2, <1>7, LenProperties
<1>9. Holds(v, at, d) /\ Holds(v, at + 13, p) /\ Holds(v, at + ((13 + Len(p)) + 10), l)
  <2>1. PICK x, y, k, q : x = at + 13 /\ y = at + ((13 + Len(p)) + 10) /\ k = Len(p) /\ q = Len(v)
    OBVIOUS
  <2>2. /\ x \in Nat /\ y \in Nat /\ 13 \in Nat /\ 29 \in Nat /\ k \in Nat
        /\ at + 13 <= q /\ x + k <= q /\ y + 29 <= q
    BY <1>6, <1>8, <2>1
  <2>3. BytesAt(v, at, 13) = d /\ BytesAt(v, x, k) = p /\ BytesAt(v, y, 29) = l
    BY <1>1, <1>6, <1>7, <2>1
  <2>4. Holds(v, at, d)
    BY <1>2, <1>6, <2>1, <2>2, <2>3, Read
  <2>5. Holds(v, x, p)
    <3>1. x + k <= Len(v) /\ k = Len(p)
      BY <2>1, <2>2
    <3>2. QED BY <1>2, <1>6, <2>2, <2>3, <3>1, Read, Zenon
  <2>6. Holds(v, y, l)
    BY <1>2, <1>6, <2>1, <2>2, <2>3, Read
  <2>7. QED BY <2>1, <2>4, <2>5, <2>6
<1>10. at = a
  <2>1. PICK x : x = <<"elementValue", 0>>
    OBVIOUS
  <2>2. OnlyAt(v, x, a) /\ d[1] = x
    BY <1>2, <1>3, <2>1
  <2>3. Len(d) >= 1
    BY <1>6
  <2>4. QED BY <1>2, <1>6, <1>9, <2>2, <2>3, Anchored, Zenon
<1>11. PICK it, pp, ll : it = Items[i] /\ pp = prefix(it.encoding) /\ ll = Identifier(it.element)
  OBVIOUS
<1>12. PrefixPlaced(pp, it.encoding) /\ IdentifierPlaced(ll, it.element)
  BY <1>11, ItemCells, Zenon
<1>13. /\ Holds(v, at + 13, pp) /\ Holds(v, at + (13 + Len(pp)), DigitBytes(DateDigits(it.date)))
       /\ Holds(v, at + ((13 + Len(pp)) + 10), ll)
  BY <1>10, <1>11, Zenon DEF ItemPlaced
<1>14. it.encoding = encoding
  <2>1. 1 \in 1..Len(p) /\ 1 \in 1..Len(pp)
    BY <1>4, <1>12 DEF PrefixPlaced
  <2>2. v[(at + 13) + 1] = p[1] /\ v[(at + 13) + 1] = pp[1]
    BY <1>9, <1>13, <2>1, Zenon DEF Holds
  <2>3. p[1] = <<PrefixHead(encoding), 0>> /\ pp[1] = <<PrefixHead(it.encoding), 0>>
    BY <1>4, <1>12, Zenon DEF PrefixPlaced
  <2>4. PrefixHead(encoding) = PrefixHead(it.encoding)
    <3>1. PICK f, g : f = PrefixHead(encoding) /\ g = PrefixHead(it.encoding)
      OBVIOUS
    <3>2. <<f, 0>> = <<g, 0>>
      BY <2>2, <2>3, <3>1, Zenon
    <3>3. QED BY <3>1, <3>2
  <2>5. it.encoding \in {"Bare", "PhotoIdMap", "Masked"}
    BY <1>11, ItemType DEF IsItem
  <2>6. QED BY <2>4, <2>5 DEF PrefixHead, ALL
<1>15. pp = p
  BY <1>1, <1>11, <1>14
<1>16. it.element = "birth_date"
  <2>1. PICK y : y = at + ((13 + Len(p)) + 10)
    OBVIOUS
  <2>2. Holds(v, y, l) /\ Holds(v, y, ll)
    BY <1>9, <1>13, <1>15, <2>1
  <2>3. Len(l) = 29 /\ Len(ll) = 29 /\ l[19] = <<"birth_date", 0>> /\ ll[19] = <<it.element, 0>>
    BY <1>5, <1>12, Zenon DEF IdentifierPlaced
  <2>4. 19 \in 1..Len(l) /\ 19 \in 1..Len(ll)
    BY <2>3
  <2>5. v[y + 19] = l[19] /\ v[y + 19] = ll[19]
    BY <2>2, <2>4, Zenon DEF Holds
  <2>6. QED BY <2>3, <2>5
<1>17. Digits(BytesAt(v, at + date_rel(encoding), 10)) = DateDigits(it.date)
  <2>1. PICK ds, y, k : ds = DateDigits(it.date) /\ y = at + (13 + Len(p)) /\ k = 10
    OBVIOUS
  <2>2. Holds(v, y, DigitBytes(ds))
    BY <1>13, <1>15, <2>1
  <2>3. it.date \in Day
    BY <1>11, ItemType
  <2>4. ds \in Seq(Int) /\ Len(ds) = k /\ k \in Nat
    <3>1. TenDigits(ds, it.date)
      BY <2>1, <2>3, DateIs, Zenon
    <3>2. ds \in Seq(Int) /\ Len(ds) = 10
      BY <3>1, SMT DEF TenDigits
    <3>3. QED BY <2>1, <3>2
  <2>5. Digits(BytesAt(v, y, k)) = ds
    BY <1>2, <2>2, <2>4, DigitsAt, Zenon
  <2>6. QED BY <1>7, <2>1, <2>5
<1>18. QED BY <1>11, <1>14, <1>16, <1>17, Zenon DEF BirthDateOf

-----------------------------------------------------------------------------
(* What a verifier reads from a window.                                    *)

LEMMA WindowHolds ==
  ASSUME NEW u \in Seq(Cell), NEW e \in Seq(Cell), NEW at, Holds(u, at, e), NEW n, n = Len(e), n \in 1..40,
         NEW W, W = MaskedWindow(u, at, n)
  PROVE  W \in Seq(Cell) /\ Len(W) = 40 /\ Holds(W, 0, e)
<1>1. W = [k \in 1..40 |-> IF k <= n THEN u[at + k] ELSE Byte(0)]
  BY Zenon DEF MaskedWindow, ANCHOR_TEXT_WINDOW
<1>2. at \in Nat /\ at + n <= Len(u) /\ Len(u) \in Nat
  BY LenProperties DEF Holds
<1>3. Byte(0) \in Cell
  <2>1. "byte" \in Tags
    BY SigTagsAre, Zenon
  <2>2. QED BY <2>1, CellIs DEF Byte
<1>4. ASSUME NEW k \in 1..40 PROVE W[k] \in Cell
  <2>1. CASE k <= n
    <3>1. at + k \in 1..Len(u)
      BY <1>2, <2>1
    <3>2. u[at + k] \in Cell
      BY <3>1, ElementOfSeq
    <3>3. QED BY <1>1, <2>1, <3>2
  <2>2. CASE ~(k <= n)
    BY <1>1, <1>3, <2>2
  <2>3. QED BY <2>1, <2>2
<1>5. W \in [1..40 -> Cell]
  BY <1>1, <1>4
<1>6. W \in Seq(Cell) /\ Len(W) = 40
  BY <1>5, SeqIs
<1>7. ASSUME NEW k \in 1..Len(e) PROVE W[0 + k] = e[k]
  <2>1. k \in 1..40 /\ k <= n /\ 0 + k = k
    <3>1. k \in 1..n /\ n \in 1..40
      OBVIOUS
    <3>2. \A i \in 1..40 : \A j \in 1..i : j \in 1..40 /\ j <= i /\ 0 + j = j
      OBVIOUS
    <3>3. QED BY <3>1, <3>2, Zenon
  <2>2. W[k] = u[at + k]
    BY <1>1, <2>1
  <2>3. u[at + k] = e[k]
    BY Zenon DEF Holds
  <2>4. QED BY <2>1, <2>2, <2>3
<1>8. 0 \in Nat /\ 0 + Len(e) <= Len(W)
  <2>1. \A i \in 1..40 : 0 + i <= 40
    OBVIOUS
  <2>2. 0 + n <= 40
    BY <2>1, Zenon
  <2>3. QED BY <1>6, <2>2
<1>9. QED BY <1>6, <1>7, <1>8, Zenon DEF Holds

\* read_tstr finds the name that stands there.
LEMMA ReadsName ==
  ASSUME NEW W \in Seq(Cell), NEW at \in Nat, NEW n \in Names, Holds(W, at, NameBytes(n)),
         NEW t, t = read_tstr(W, at), t.ok
  PROVE  t.start = at + HeadLen(NameLen[n]) /\ t.end = at + HeadLen(NameLen[n]) + NameLen[n]
<1>1. PICK b, i : b = NameBytes(n) /\ i = NameLen[n]
  OBVIOUS
<1>2. i \in Nat /\ i >= 1 /\ HeadLen(i) \in Nat
  BY <1>1, NameType, HeadLenType
<1>3. Len(b) = HeadLen(i) + i /\ b[1] = <<"byte", First(96, 120, i)>> /\ (i >= 24 => b[2] = <<"byte", i>>)
  BY <1>1, NameIs, Zenon DEF NamePlaced
<1>4. PICK h, g : h = W[at + 1][2] /\ g = W[at + 2][2]
  OBVIOUS
<1>5. h = First(96, 120, i)
  <2>1. 1 \in 1..Len(b)
    BY <1>2, <1>3
  <2>2. W[at + 1] = b[1]
    BY <1>1, <2>1, Zenon DEF Holds
  <2>3. QED BY <1>3, <1>4, <2>2
<1>6. t = CASE h \in 96..119 -> [ok |-> TRUE, start |-> at + 1, end |-> at + 1 + h - 96]
            [] h = 120 /\ g >= 24 -> [ok |-> at + 2 + g <= 40, start |-> at + 2, end |-> at + 2 + g]
            [] OTHER -> [ok |-> FALSE, start |-> 0, end |-> 0]
  BY <1>4, Zenon DEF read_tstr, ANCHOR_TEXT_WINDOW
<1>7. CASE i < 24
  <2>1. h = 96 + i /\ h \in 96..119 /\ HeadLen(i) = 1 /\ h # 120
    BY <1>2, <1>5, <1>7 DEF First, HeadLen
  <2>2. t = [ok |-> TRUE, start |-> at + 1, end |-> at + 1 + h - 96]
    BY <1>6, <2>1
  <2>3. t.start = at + 1 /\ t.end = at + 1 + h - 96
    BY <2>2
  <2>4. QED BY <1>1, <1>2, <2>1, <2>3
<1>8. CASE ~(i < 24)
  <2>1. h = 120 /\ HeadLen(i) = 2
    BY <1>2, <1>5, <1>8 DEF First, HeadLen
  <2>2. 2 \in 1..Len(b) /\ i >= 24
    BY <1>2, <1>3, <1>8, <2>1
  <2>3. W[at + 2] = b[2]
    BY <1>1, <2>2, Zenon DEF Holds
  <2>4. g = i
    BY <1>3, <1>4, <2>2, <2>3
  <2>5. t = [ok |-> at + 2 + g <= 40, start |-> at + 2, end |-> at + 2 + g]
    BY <1>6, <2>1, <2>2, <2>4
  <2>6. t.start = at + 2 /\ t.end = at + 2 + g
    BY <2>5
  <2>7. QED BY <1>1, <1>2, <2>1, <2>4, <2>6
<1>9. QED BY <1>7, <1>8

LEMMA SpellsName ==
  ASSUME NEW W \in Seq(Cell), NEW at \in Nat, NEW n \in Names, Holds(W, at, NameBytes(n)),
         NEW m \in Names, Spells(W, read_tstr(W, at), m)
  PROVE  m = n
<1>1. PICK t, i, k, h : t = read_tstr(W, at) /\ i = NameLen[n] /\ k = NameLen[m] /\ h = HeadLen(i)
  OBVIOUS
<1>2. t.ok /\ t.end - t.start = k /\ BytesAt(W, t.start, k) = Literal(m, k)
  BY <1>1, Zenon DEF Spells
<1>3. t.start = at + h /\ t.end = at + h + i
  BY <1>1, <1>2, ReadsName, Zenon
<1>4. i \in Nat /\ k \in Nat /\ k >= 1 /\ h \in Nat
  BY <1>1, NameType, HeadLenType
<1>5. k = i
  BY <1>2, <1>3, <1>4
<1>6. PICK x, l, j : x = at + h /\ l = Literal(m, k) /\ j = x + 1
  OBVIOUS
<1>7. x \in Nat /\ BytesAt(W, x, k) = l
  BY <1>2, <1>3, <1>4, <1>6
<1>8. l \in Seq(Cell) /\ Len(l) = k /\ l[1] = <<m, 0>>
  <2>1. m \in Tags
    BY NameType
  <2>2. l \in Seq(Cell) /\ Len(l) = k
    BY <1>4, <1>6, <2>1, LiteralIs
  <2>3. l[1] = <<m, 0>>
    BY <1>1, <1>6, NameFirst
  <2>4. QED BY <2>2, <2>3
<1>9. x + k <= Len(W)
  <2>1. Len(NameBytes(n)) = h + i
    BY <1>1, NameIs, Zenon DEF NamePlaced
  <2>2. at + Len(NameBytes(n)) <= Len(W)
    BY Zenon DEF Holds
  <2>3. Len(W) \in Nat
    BY LenProperties
  <2>4. QED BY <1>4, <1>5, <1>6, <2>1, <2>2, <2>3
<1>10. Holds(W, x, l)
  BY <1>4, <1>7, <1>8, <1>9, Read, Zenon
<1>11. W[x + 1] = <<m, 0>>
  <2>1. 1 \in 1..Len(l)
    BY <1>4, <1>8
  <2>2. W[x + 1] = l[1]
    BY <1>10, <2>1, Zenon DEF Holds
  <2>3. QED BY <1>8, <2>2, Zenon
<1>12. W[j] = <<n, 0>>
  <2>1. j = at + HeadLen(NameLen[n]) + 1
    BY <1>1, <1>4, <1>6
  <2>2. QED BY <2>1, NameCell, Zenon
<1>13. <<m, 0>> = <<n, 0>>
  BY <1>6, <1>11, <1>12
<1>14. QED BY <1>13

-----------------------------------------------------------------------------
(* A witness that satisfies the circuit.                                   *)

\* What stands in u followed by t, before the end of u, stands in u.
LEMMA HoldsInFront ==
  ASSUME NEW v, NEW u, NEW t, Joined(v, u, t), NEW e \in Seq(Cell), NEW at \in Nat, Holds(v, at, e),
         at + Len(e) <= Len(u)
  PROVE  Holds(u, at, e)
<1>1. Len(e) \in Nat /\ Len(u) \in Nat /\ Holds(v, 0, u)
  BY LenProperties DEF Joined
<1>2. ASSUME NEW k \in 1..Len(e) PROVE u[at + k] = e[k]
  <2>1. at + k \in 1..Len(u) /\ 0 + (at + k) = at + k
    <3>1. PICK x, y : x = Len(e) /\ y = Len(u)
      OBVIOUS
    <3>2. x \in Nat /\ y \in Nat /\ at + x <= y /\ k \in 1..x
      BY <1>1, <1>2, <3>1
    <3>3. at + k \in 1..y /\ 0 + (at + k) = at + k
      BY <3>2
    <3>4. QED BY <3>1, <3>3
  <2>2. v[0 + (at + k)] = u[at + k]
    BY <1>1, <2>1, Zenon DEF Holds
  <2>3. v[at + k] = e[k]
    BY Zenon DEF Holds
  <2>4. QED BY <2>1, <2>2, <2>3
<1>3. QED BY <1>2, Zenon DEF Holds

\* The signed bytes s of c, padded to v.
Signed(c, s, v, z, pv, pd, pk) ==
  /\ IsCredential(c) /\ Joined(v, s, z) /\ Tagged(z, {"byte"})
  /\ SigPlaced(s, c, pv, pd, pk) /\ SigPlaced(v, c, pv, pd, pk)

LEMMA SignedIs ==
  ASSUME NEW i \in DOMAIN Credentials, Len(SigTable[i]) <= MAX_SIG_STRUCTURE_BYTES
  PROVE  \E z, pv, pd, pk : Signed(Credentials[i], SigTable[i], PaddedSig[i], z, pv, pd, pk)
<1>1. PICK c, s, v, m : c = Credentials[i] /\ s = SigTable[i] /\ v = PaddedSig[i] /\ m = MAX_SIG_STRUCTURE_BYTES
  OBVIOUS
<1>2. IsCredential(c) /\ m \in Nat
  BY <1>1, IssuedAssumption
<1>3. s = SigStructure(c)
  BY <1>1 DEF SigTable
<1>4. PICK pv, pd, pk : SigPlaced(s, c, pv, pd, pk)
  BY <1>2, <1>3, SigIs, Zenon
<1>5. s \in Seq(Cell) /\ Len(s) <= m
  BY <1>1, <1>4, Zenon DEF SigPlaced
<1>6. v = Padded(s, m)
  BY <1>1 DEF PaddedSig
<1>7. PICK z : Joined(v, s, z) /\ Tagged(z, {"byte"})
  BY <1>2, <1>5, <1>6, PaddedIs, Zenon
<1>8. SigPlaced(v, c, pv, pd, pk)
  BY <1>2, <1>4, <1>7, PaddedSigIs, Zenon
<1>9. Signed(c, s, v, z, pv, pd, pk)
  BY <1>2, <1>4, <1>7, <1>8, Zenon DEF Signed
<1>10. QED BY <1>1, <1>9, Zenon

LEMMA GeIs ==
  ASSUME NEW a \in Int, NEW b \in Int, enforce_ge(a, b, a - b)
  PROVE  b <= a
BY SMT DEF enforce_ge

\* Bytes of the signed part in a window of text.
Shown(s, at, e) == e \in Seq(Cell) /\ at \in Nat /\ Holds(s, at, e) /\ Len(e) \in 1..40

\* What is published of the namespace stands in the bytes.
LEMMA NamespaceShown ==
  ASSUME NEW v \in Seq(Cell), NEW w, w.namespace \in Names, bind_digest_region(v, w)
  PROVE  /\ w.num_entries \in Nat /\ NsOpen(ns_open(w), w.namespace, w.num_entries)
         /\ Shown(v, w.namespace_key, ns_open(w))
<1>1. PICK e, n, m, nk, len : /\ e = ns_open(w) /\ n = w.namespace /\ m = w.num_entries /\ len = Len(e)
                              /\ nk = w.namespace_key
  OBVIOUS
<1>2. /\ select_masked_text_anchor(v, nk, len) /\ BytesAt(v, nk, len) = e
      /\ m \in 1..MAX_NAMESPACE_ENTRIES
  BY <1>1, Zenon DEF bind_digest_region, namespace_prefix_len, walk_namespace_entries
<1>3. m \in Nat
  BY <1>2, NamesAssumption
<1>4. NsOpen(e, n, m)
  BY <1>1, <1>3, NsOpenIs, Zenon
<1>5. e \in Seq(Cell)
  BY <1>4, Zenon DEF NsOpen
<1>6. nk \in Nat /\ Holds(v, nk, e) /\ len \in 1..40
  BY <1>1, <1>2, <1>5, MaskedRead, Zenon
<1>7. QED BY <1>1, <1>3, <1>4, <1>5, <1>6, Zenon DEF Shown

\* Where the walk starts from the published header, the namespace is one of the credential's.
LEMMA NamespaceBound ==
  ASSUME NEW c, NEW s, NEW v, NEW z, NEW pv, NEW pd, NEW pk, Signed(c, s, v, z, pv, pd, pk),
         NEW w, w.namespace \in Names, bind_digest_region(v, w), w.namespace_offset = w.namespace_key
  PROVE  \E r \in 1..Len(c.namespaces) :
            Placed(s, w.namespace_key, c.namespaces[r], w.namespace, w.num_entries)
<1>1. PICK e, n, m, nk, dk : /\ e = ns_open(w) /\ n = w.namespace /\ m = w.num_entries
                             /\ nk = w.namespace_key /\ dk = w.value_digests_key
  OBVIOUS
<1>2. /\ IsCredential(c) /\ Joined(v, s, z) /\ Tagged(z, {"byte"}) /\ SigPlaced(s, c, pv, pd, pk)
      /\ SigPlaced(v, c, pv, pd, pk)
  BY Zenon DEF Signed
<1>3. v \in Seq(Cell) /\ pd \in Nat /\ OnlyAt(v, <<"valueDigests", 0>>, pd) /\ s \in Seq(Cell)
  BY <1>2, Zenon DEF SigPlaced
<1>4. /\ select_anchor(v, dk, Literal("valueDigests", 13))
      /\ enforce_ge(nk, dk + Len(VALUE_DIGESTS_OPEN_KEY) + 1, nk - (dk + Len(VALUE_DIGESTS_OPEN_KEY) + 1))
  BY <1>1, Zenon DEF bind_digest_region, VALUE_DIGESTS_OPEN_KEY
<1>5. m \in Nat /\ NsOpen(e, n, m) /\ Shown(v, nk, e)
  BY <1>1, <1>3, NamespaceShown, Zenon
<1>6. nk \in Nat /\ Holds(v, nk, e)
  BY <1>5, Zenon DEF Shown
<1>7. dk = pd
  <2>1. 13 \in 1..48
    OBVIOUS
  <2>2. "valueDigests" \in Tags
    BY SigTagsAre, Zenon
  <2>3. PICK l, k, name, x : name = "valueDigests" /\ k = 13 /\ l = Literal(name, k) /\ x = <<name, 0>>
    OBVIOUS
  <2>4. select_anchor(v, dk, l) /\ OnlyAt(v, x, pd) /\ k \in 1..48 /\ name \in Tags
    BY <1>3, <1>4, <2>1, <2>2, <2>3, Zenon
  <2>5. l = Literal(name, k) /\ x = <<name, 0>>
    BY <2>3, Zenon
  <2>6. QED BY <1>3, <2>4, <2>5, LiteralAt, Zenon
<1>8. pd <= nk
  <2>1. PICK k : k = Len(VALUE_DIGESTS_OPEN_KEY)
    OBVIOUS
  <2>2. Piece(VALUE_DIGESTS_OPEN_KEY, "valueDigests", 13)
    <3>1. "valueDigests" \in Tags
      BY SigTagsAre, Zenon
    <3>2. 13 \in Nat
      OBVIOUS
    <3>3. QED BY <3>1, <3>2, PieceIs, Zenon DEF VALUE_DIGESTS_OPEN_KEY
  <2>3. k = 13
    BY <2>1, <2>2, Zenon DEF Piece
  <2>4. PICK x : x = dk + k + 1
    OBVIOUS
  <2>5. enforce_ge(nk, x, nk - x)
    BY <1>4, <2>1, <2>4, Zenon
  <2>6. x \in Int /\ pd <= x /\ nk \in Int
    BY <1>3, <1>6, <1>7, <2>3, <2>4
  <2>7. x <= nk
    BY <2>5, <2>6, GeIs, Zenon
  <2>8. QED BY <1>3, <2>6, <2>7
<1>9. n \in Names
  BY <1>1, Zenon
<1>10. \E r \in 1..Len(c.namespaces) : Placed(s, nk, c.namespaces[r], n, m)
  BY <1>2, <1>5, <1>6, <1>8, <1>9, NamespaceAt, Zenon
<1>11. QED BY <1>1, <1>10, Zenon

\* The item i, padded.
LEMMA ItemSigned ==
  ASSUME NEW i \in DOMAIN Items, Len(ItemTable[i]) <= MAX_CLAIM_BYTES
  PROVE  /\ \E a : ItemPlaced(PaddedItem[i], Items[i], a)
         /\ Len(ItemTable[i]) \in Nat /\ Len(PaddedItem[i]) \in Nat /\ Len(ItemTable[i]) <= Len(PaddedItem[i])
<1>1. PICK s, v, m : s = ItemTable[i] /\ v = PaddedItem[i] /\ m = MAX_CLAIM_BYTES
  OBVIOUS
<1>2. m \in Nat
  BY <1>1, IssuedAssumption
<1>3. s = ItemBytes(i)
  BY <1>1 DEF ItemTable
<1>4. PICK a : ItemPlaced(s, Items[i], a)
  BY <1>3, ItemIs, Zenon
<1>5. s \in Seq(Cell) /\ Len(s) <= m
  BY <1>1, <1>4, Zenon DEF ItemPlaced
<1>6. v = Padded(s, m)
  BY <1>1 DEF PaddedItem
<1>7. PICK z : Joined(v, s, z) /\ Tagged(z, {"byte"})
  BY <1>2, <1>5, <1>6, PaddedIs, Zenon
<1>8. ItemPlaced(v, Items[i], a)
  BY <1>4, <1>7, PaddedItemIs, Zenon
<1>9. Len(s) \in Nat /\ Len(v) \in Nat /\ Len(s) <= Len(v)
  <2>1. Len(s) \in Nat /\ Len(z) \in Nat /\ Len(v) = Len(s) + Len(z)
    BY <1>7, Zenon DEF Joined
  <2>2. QED BY <2>1
<1>10. QED BY <1>1, <1>8, <1>9, Zenon

LEMMA CandidateIs ==
  ASSUME NEW at \in candidate_value_key_offsets
  PROVE  at \in Nat
<1>1. MIN_SALT_BYTES \in Nat /\ MAX_SALT_BYTES \in Nat
  BY DEF MIN_SALT_BYTES, MAX_SALT_BYTES
<1>2. PICK n \in MIN_SALT_BYTES..MAX_SALT_BYTES, k \in {1, 2, 3, 5} : at = element_value_key_offset(n, k)
  BY SMT DEF candidate_value_key_offsets
<1>3. n \in Nat
  BY <1>1
<1>4. k \in Nat
  OBVIOUS
<1>5. QED BY <1>2, <1>3, <1>4 DEF element_value_key_offset

\* The date the circuit compares is the birth_date of the item.
LEMMA BirthDateBound ==
  ASSUME NEW i \in DOMAIN Items, Len(ItemTable[i]) <= MAX_CLAIM_BYTES, NEW at, NEW encoding,
         extract_birth_date(i, at, encoding)
  PROVE  /\ encoding \in ALL /\ BirthDateOf(Items[i], encoding)
         /\ Digits(BytesAt(PaddedItem[i], at + date_rel(encoding), 10)) = DateDigits(Items[i].date)
<1>1. PICK v, l, rel, end : /\ v = PaddedItem[i] /\ l = IDENTIFIER_LITERAL /\ rel = identifier_rel(encoding)
                            /\ end = Len(ItemTable[i])
  OBVIOUS
<1>2. PICK a : ItemPlaced(v, Items[i], a)
  BY <1>1, ItemSigned, Zenon
<1>3. end \in Nat /\ Len(v) \in Nat /\ end <= Len(v)
  BY <1>1, ItemSigned, Zenon
<1>4. /\ encoding \in ALL /\ at \in candidate_value_key_offsets /\ at + rel + Len(l) - 1 < end
      /\ BytesAt(v, at, Len(ELEMENT_VALUE)) = ELEMENT_VALUE
      /\ BytesAt(v, at + Len(ELEMENT_VALUE), Len(prefix(encoding))) = prefix(encoding)
      /\ BytesAt(v, at + identifier_rel(encoding), Len(IDENTIFIER_LITERAL)) = IDENTIFIER_LITERAL
  BY <1>1, Zenon DEF extract_birth_date
<1>5. at \in Nat
  BY <1>4, CandidateIs, Zenon
<1>6. Len(l) = 29
  <2>1. "birth_date" \in Tags
    BY ItemTagsAre, Zenon
  <2>2. IdentifierPlaced(l, "birth_date")
    BY <1>1, <2>1, IdentifierIs, Zenon DEF IDENTIFIER_LITERAL
  <2>3. QED BY <2>2, Zenon DEF IdentifierPlaced
<1>7. rel \in Nat
  <2>1. PrefixPlaced(prefix(encoding), encoding)
    BY <1>4, PrefixIs DEF ALL
  <2>2. Len(prefix(encoding)) \in Nat
    BY <2>1, Zenon DEF PrefixPlaced
  <2>3. Len(ELEMENT_VALUE) \in Nat
    <3>1. "elementValue" \in Tags
      BY ItemTagsAre, Zenon
    <3>2. 13 \in Nat
      OBVIOUS
    <3>3. Piece(ELEMENT_VALUE, "elementValue", 13)
      BY <3>1, <3>2, PieceIs, Zenon DEF ELEMENT_VALUE
    <3>4. QED BY <3>2, <3>3, Zenon DEF Piece
  <2>4. QED BY <1>1, <2>2, <2>3 DEF identifier_rel, date_rel
<1>8. at + identifier_rel(encoding) + 29 <= Len(v)
  <2>1. PICK k : k = Len(v)
    OBVIOUS
  <2>2. at + rel + 29 - 1 < end /\ k \in Nat /\ end <= k
    BY <1>3, <1>4, <1>6, <2>1
  <2>3. at + rel + 29 <= k
    BY <1>3, <1>5, <1>7, <2>2
  <2>4. QED BY <1>1, <2>1, <2>3
<1>9. /\ BirthDateOf(Items[i], encoding)
      /\ Digits(BytesAt(v, at + date_rel(encoding), 10)) = DateDigits(Items[i].date)
  BY <1>2, <1>4, <1>5, <1>8, ItemBound, Zenon
<1>10. QED BY <1>1, <1>4, <1>9, Zenon

\* A credential with the item in a namespace of that name.
Carries(c, name, i) ==
  \E r \in 1..Len(c.namespaces) :
     c.namespaces[r].name = name /\ \E k \in 1..Len(c.namespaces[r].items) : c.namespaces[r].items[k] = i

\* The digest that was found is that of an item of the namespace.
LEMMA ItemCarried ==
  ASSUME NEW c, NEW s, NEW v, NEW z, NEW pv, NEW pd, NEW pk, Signed(c, s, v, z, pv, pd, pk),
         Len(v) = MAX_SIG_STRUCTURE_BYTES, NEW w, w.namespace \in Names, w.item \in DOMAIN Items,
         bind_digest_region(v, w), w.namespace_offset = w.namespace_key,
         w.digest_offset \in window_offsets(MAX_SIG_STRUCTURE_BYTES, 32),
         enforce_ge(w.digest_offset, region_start(w), w.digest_offset - w.region_start),
         enforce_ge(region_end(v, w), w.digest_offset + 32, region_end(v, w) - (w.digest_offset + 32)),
         BytesAt(v, w.digest_offset, 32) = ItemDigest(w.item)
  PROVE  Carries(c, w.namespace, w.item)
<1>1. PICK e, n, m, nk, at, i : /\ e = ns_open(w) /\ n = w.namespace /\ m = w.num_entries /\ nk = w.namespace_key
                                /\ at = w.digest_offset /\ i = w.item
  OBVIOUS
<1>2. m \in Nat /\ NsOpen(e, n, m) /\ Shown(v, nk, e)
  <2>1. v \in Seq(Cell)
    BY Zenon DEF Signed, Joined
  <2>2. QED BY <1>1, <2>1, NamespaceShown, Zenon
<1>3. PICK r \in 1..Len(c.namespaces) : Placed(s, nk, c.namespaces[r], n, m)
  BY <1>1, NamespaceBound, Zenon
<1>5. nk \in Nat /\ Len(e) \in Nat
  <2>1. e \in Seq(Cell) /\ nk \in Nat
    BY <1>2, Zenon DEF Shown
  <2>2. QED BY <2>1, LenProperties
<1>6. region_start(w) = nk + Len(e) /\ w.region_start = region_start(w)
  BY <1>1, Zenon DEF region_start, namespace_prefix_len, bind_digest_region, walk_namespace_entries
<1>7. Joined(v, s, z)
  BY Zenon DEF Signed
<1>8. at \in window_offsets(Len(v), 32) /\ BytesAt(v, at, 32) = ItemDigest(i) /\ i \in DOMAIN Items /\ n \in Names
  BY <1>1, Zenon
<1>9. i \in Nat
  BY <1>8, ItemType, Zenon
<1>10. at \in Nat
  <2>1. v \in Seq(Cell)
    BY <1>7, Zenon DEF Joined
  <2>2. Len(v) \in Nat
    BY <2>1, LenProperties
  <2>3. QED BY <1>8, <2>2 DEF window_offsets
<1>11. PICK ns, a, b : ns = c.namespaces[r] /\ a = nk + Len(e) /\ b = native_region_end(v, a, m)
  OBVIOUS
<1>12. Placed(s, nk, ns, n, m)
  BY <1>3, <1>11, Zenon
<1>13. a \in Nat /\ a <= at
  <2>1. a \in Nat
    BY <1>5, <1>11
  <2>2. enforce_ge(at, a, at - a)
    BY <1>1, <1>6, <1>11, Zenon
  <2>3. a \in Int /\ at \in Int
    BY <1>10, <2>1
  <2>4. QED BY <2>1, <2>2, <2>3, GeIs, Zenon
<1>14. b \in Int
  <2>1. PICK N : N = NamespaceBytes(ns)
    OBVIOUS
  <2>2. Holds(s, nk, N) /\ IsNamespace(ns) /\ ns.name = n /\ Len(ns.items) = m
    BY <1>12, <2>1, Zenon DEF Placed
  <2>3. N \in Seq(Cell)
    BY <2>1, <2>2, NamespaceIs, Zenon DEF NamespacePlaced
  <2>4. Holds(v, nk, N) /\ v \in Seq(Cell)
    BY <1>7, <2>2, <2>3, HoldsLeft, Zenon DEF Joined
  <2>5. native_region_end(v, nk + BodyAt(ns), Len(ns.items)) = nk + Len(N)
    BY <2>1, <2>2, <2>4, Region, Zenon
  <2>6. BodyAt(ns) = Len(e)
    BY <1>2, <2>2 DEF BodyAt, OpenLen, NsOpen
  <2>7. b = nk + Len(N)
    BY <1>11, <2>2, <2>5, <2>6, Zenon
  <2>8. Len(N) \in Nat
    BY <2>3, LenProperties
  <2>9. QED BY <1>5, <2>7, <2>8
<1>15. at + 32 <= b
  <2>1. PICK x : x = at + 32
    OBVIOUS
  <2>2. x \in Int
    BY <1>10, <2>1
  <2>3. region_end(v, w) = b
    BY <1>1, <1>6, <1>11, Zenon DEF region_end
  <2>4. enforce_ge(b, x, b - x)
    BY <1>1, <2>1, <2>3, Zenon
  <2>5. x <= b
    BY <1>14, <2>2, <2>4, GeIs, Zenon
  <2>6. QED BY <2>1, <2>5
<1>16. \E k \in 1..Len(ns.items) : ns.items[k] = i
  <2>1. nk + Len(e) <= at /\ at + 32 <= native_region_end(v, nk + Len(e), m)
    BY <1>11, <1>13, <1>15, Zenon
  <2>2. QED BY <1>2, <1>5, <1>7, <1>8, <1>9, <1>12, <2>1, DigestBound, SMT
<1>17. ns.name = n
  BY <1>12, Zenon DEF Placed
<1>18. QED BY <1>1, <1>11, <1>16, <1>17, Zenon DEF Carries

\* Wherever the walk starts, the digest that was found is that of an item the credential
\* lists: the walk ends in front of the device key.
LEMMA ItemListed ==
  ASSUME NEW c, NEW s, NEW v, NEW z, NEW pv, NEW pd, NEW pk, Signed(c, s, v, z, pv, pd, pk),
         Len(v) = MAX_SIG_STRUCTURE_BYTES, NEW w, w.item \in DOMAIN Items,
         bind_digest_region(v, w), w.digest_offset \in window_offsets(MAX_SIG_STRUCTURE_BYTES, 32),
         enforce_ge(region_end(v, w), w.digest_offset + 32, region_end(v, w) - (w.digest_offset + 32)),
         BytesAt(v, w.digest_offset, 32) = ItemDigest(w.item)
  PROVE  Listed(c, w.item)
<1>1. PICK at, i, b, dk, q : /\ at = w.digest_offset /\ i = w.item /\ b = region_end(v, w)
                             /\ dk = w.device_key_info /\ q = 32
  OBVIOUS
<1>2. SigPlaced(v, c, pv, pd, pk)
  BY Zenon DEF Signed
<1>3. v \in Seq(Cell) /\ pk \in Nat /\ OnlyAt(v, <<"deviceKeyInfo", 0>>, pk) /\ ListedUpTo(v, c, pk)
  BY <1>2, Zenon DEF SigPlaced
<1>4. /\ select_anchor(v, dk, Literal("deviceKeyInfo", 33))
      /\ w.region_start = region_start(w)
      /\ native_region_end(v, region_start(w), w.num_entries) \in Nat
      /\ enforce_ge(dk, native_region_end(v, region_start(w), w.num_entries),
                    dk - native_region_end(v, w.region_start, w.num_entries))
  BY <1>1, Zenon DEF bind_digest_region, DEVICE_KEY_INFO, walk_namespace_entries
<1>5. b \in Nat /\ enforce_ge(dk, b, dk - b)
  BY <1>1, <1>4, Zenon DEF region_end
<1>6. dk = pk
  <2>1. 33 \in 1..48
    OBVIOUS
  <2>2. "deviceKeyInfo" \in Tags
    BY SigTagsAre, Zenon
  <2>3. PICK l, k, name, x : name = "deviceKeyInfo" /\ k = 33 /\ l = Literal(name, k) /\ x = <<name, 0>>
    OBVIOUS
  <2>4. select_anchor(v, dk, l) /\ OnlyAt(v, x, pk) /\ k \in 1..48 /\ name \in Tags
    BY <1>3, <1>4, <2>1, <2>2, <2>3, Zenon
  <2>5. l = Literal(name, k) /\ x = <<name, 0>>
    BY <2>3, Zenon
  <2>6. QED BY <1>3, <2>4, <2>5, LiteralAt, Zenon
<1>7. Len(v) \in Nat /\ i \in Nat
  <2>1. Len(v) \in Nat
    BY <1>3, LenProperties
  <2>2. QED BY <1>1, <2>1, ItemType, Zenon
<1>8. at \in Nat /\ q \in Nat /\ at + q <= Len(v)
  <2>1. at \in window_offsets(Len(v), q)
    BY <1>1, Zenon
  <2>2. q \in Nat
    BY <1>1
  <2>3. QED BY <1>7, <2>1, <2>2 DEF window_offsets
<1>9. b <= pk
  <2>1. b \in Int /\ dk \in Int
    BY <1>3, <1>5, <1>6
  <2>2. b <= dk
    BY <1>5, <2>1, GeIs, Zenon
  <2>3. QED BY <1>6, <2>2
<1>10. at + q <= b
  <2>1. PICK x : x = at + q
    OBVIOUS
  <2>2. x \in Int /\ b \in Int
    BY <1>5, <1>8, <2>1
  <2>3. enforce_ge(b, x, b - x)
    BY <1>1, <2>1, Zenon
  <2>4. x <= b
    BY <2>2, <2>3, GeIs, Zenon
  <2>5. QED BY <2>1, <2>4
<1>11. PICK d : d = ItemDigest(i)
  OBVIOUS
<1>12. d \in Seq(Cell) /\ Len(d) = q /\ d[1] = <<"sha256", 32 * i + 1>>
  <2>1. d \in Seq(Cell) /\ Len(d) = 32 /\ \A k \in 1..32 : d[k] = <<"sha256", 32 * i + k>>
    BY <1>7, <1>11, DigestIs
  <2>2. QED BY <1>1, <2>1
<1>13. Holds(v, at, d)
  <2>1. BytesAt(v, at, q) = d
    BY <1>1, <1>11, Zenon
  <2>2. QED BY <1>3, <1>8, <1>12, <2>1, Read, Zenon
<1>14. v[at + 1] = <<"sha256", 32 * i + 1>>
  <2>1. 1 \in 1..Len(d)
    BY <1>1, <1>12
  <2>2. v[at + 1] = d[1]
    BY <1>13, <2>1, Zenon DEF Holds
  <2>3. QED BY <1>12, <2>2, Zenon
<1>15. PICK p : p = at + 1
  OBVIOUS
<1>16. p \in 1..Len(v) /\ p <= pk
  <2>1. q = 32
    BY <1>1
  <2>2. QED BY <1>3, <1>5, <1>7, <1>8, <1>9, <1>10, <1>15, <2>1
<1>17. v[p] = <<"sha256", 32 * i + 1>>
  BY <1>14, <1>15
<1>18. QED BY <1>1, <1>3, <1>7, <1>16, <1>17, Zenon DEF ListedUpTo

\* The fields of a witness that name something issued.
Typed(w) ==
  /\ w.cred \in DOMAIN Credentials /\ w.item \in DOMAIN Items
  /\ w.namespace \in Names /\ w.doc_type \in Names
  /\ w.cutoff \in Day /\ w.now \in Day /\ w.device_auth.key \in DOMAIN Devices

\* What synthesize_credential shows of a witness with nothing behind the signed bytes.
Genuine(w) ==
  /\ w.issuer = Credentials[w.cred].issuer /\ w.doc_type = Credentials[w.cred].doc_type
  /\ PaddedSig[w.cred] \in Seq(Cell)
  /\ w.doc_type_key = 26 /\ Shown(PaddedSig[w.cred], 26, doc_type_entry(w))
  /\ w.num_entries \in Nat /\ Shown(PaddedSig[w.cred], w.namespace_key, ns_open(w))
  /\ Listed(Credentials[w.cred], w.item)
  /\ w.namespace_offset = w.namespace_key => Carries(Credentials[w.cred], w.namespace, w.item)
  /\ w.encoding \in ALL /\ BirthDateOf(Items[w.item], w.encoding)
  /\ birth_date_bytes(w) = DateDigits(Items[w.item].date)

LEMMA CredentialGenuine ==
  ASSUME NEW w, Typed(w), w.behind = NoTail, synthesize_credential(w)
  PROVE  Genuine(w)
<1>1. PICK i, c, s, v : i = w.cred /\ c = Credentials[i] /\ s = SigTable[i] /\ v = PaddedSig[i]
  OBVIOUS
<1>2. i \in DOMAIN Credentials /\ w.item \in DOMAIN Items /\ w.namespace \in Names /\ w.doc_type \in Names
  BY <1>1, Zenon DEF Typed
<1>3. /\ Len(SigTable[i]) <= MAX_SIG_STRUCTURE_BYTES /\ Len(ItemTable[w.item]) <= MAX_CLAIM_BYTES
      /\ w.issuer = c.issuer /\ bind_digest_region(v, w)
      /\ w.digest_offset \in window_offsets(MAX_SIG_STRUCTURE_BYTES, 32)
      /\ enforce_ge(w.digest_offset, region_start(w), w.digest_offset - w.region_start)
      /\ enforce_ge(region_end(v, w), w.digest_offset + 32, region_end(v, w) - (w.digest_offset + 32))
      /\ BytesAt(v, w.digest_offset, 32) = ItemDigest(w.item)
      /\ extract_birth_date(w.item, w.value_key_offset, w.encoding)
  BY <1>1, Zenon DEF synthesize_credential, sig_bytes
<1>4. PICK z, pv, pd, pk : Signed(c, s, v, z, pv, pd, pk)
  BY <1>1, <1>2, <1>3, SignedIs, Zenon
<1>5. Len(v) = MAX_SIG_STRUCTURE_BYTES
  <2>1. PICK m : m = MAX_SIG_STRUCTURE_BYTES
    OBVIOUS
  <2>2. m \in Nat
    BY <2>1, IssuedAssumption
  <2>3. s \in Seq(Cell) /\ Len(s) <= m
    BY <1>1, <1>3, <1>4, <2>1, Zenon DEF Signed, Joined
  <2>4. v = Padded(s, m)
    BY <1>1, <1>2, <2>1 DEF PaddedSig
  <2>5. QED BY <2>1, <2>2, <2>3, <2>4, PaddedIs, Zenon
<1>6. /\ w.namespace_offset = w.namespace_key => Carries(c, w.namespace, w.item)
      /\ Listed(c, w.item)
  <2>1. ASSUME w.namespace_offset = w.namespace_key PROVE Carries(c, w.namespace, w.item)
    BY <1>2, <1>3, <1>4, <1>5, <2>1, ItemCarried, Zenon
  <2>2. Listed(c, w.item)
    BY <1>2, <1>3, <1>4, <1>5, ItemListed, Zenon
  <2>3. QED BY <2>1, <2>2
<1>7. IsCredential(c) /\ SigPlaced(v, c, pv, pd, pk) /\ v \in Seq(Cell)
  BY <1>4, Zenon DEF Signed, Joined
<1>8. w.num_entries \in Nat /\ Shown(v, w.namespace_key, ns_open(w))
  BY <1>2, <1>3, <1>7, NamespaceShown, Zenon
<1>9. /\ select_masked_text_anchor(v, w.doc_type_key, doc_type_prefix_len(w))
      /\ BytesAt(v, w.doc_type_key, doc_type_prefix_len(w)) = doc_type_entry(w)
  BY <1>3, Zenon DEF bind_digest_region
<1>10. w.doc_type_key = 26 /\ w.doc_type = c.doc_type /\ Holds(v, 26, doc_type_entry(w))
  BY <1>2, <1>7, <1>9, DocTypeBound, Zenon
<1>11. Shown(v, 26, doc_type_entry(w))
  <2>1. doc_type_entry(w) \in Seq(Cell)
    BY <1>2, DocEntryIs, Zenon DEF DocEntry
  <2>2. 26 \in Nat
    OBVIOUS
  <2>3. Len(doc_type_entry(w)) \in 1..40
    BY <1>9, Zenon DEF select_masked_text_anchor, doc_type_prefix_len, ANCHOR_TEXT_WINDOW
  <2>4. QED BY <1>10, <2>1, <2>2, <2>3, Zenon DEF Shown
<1>12. /\ w.encoding \in ALL /\ BirthDateOf(Items[w.item], w.encoding)
       /\ birth_date_bytes(w) = DateDigits(Items[w.item].date)
  BY <1>2, <1>3, BirthDateBound, Zenon DEF birth_date_bytes
<1>13. QED BY <1>1, <1>3, <1>6, <1>8, <1>7, <1>10, <1>11, <1>12, Zenon DEF Genuine

\* What synthesize_session shows of such a witness.
Live(w) ==
  /\ w.device_auth.key = Credentials[w.cred].device /\ w.device_auth.digest = w.device_auth_digest
  /\ Credentials[w.cred].from <= w.now /\ w.now <= Credentials[w.cred].until

LEMMA SessionLive ==
  ASSUME NEW w, Typed(w), w.behind = NoTail, Satisfied(w)
  PROVE  Live(w)
<1>1. PICK i, c, s, v : i = w.cred /\ c = Credentials[i] /\ s = SigTable[i] /\ v = PaddedSig[i]
  OBVIOUS
<1>2. i \in DOMAIN Credentials /\ w.now \in Day /\ w.device_auth.key \in DOMAIN Devices
  BY <1>1, Zenon DEF Typed
<1>3. /\ Len(SigTable[i]) <= MAX_SIG_STRUCTURE_BYTES /\ bind_digest_region(v, w) /\ bind_validity(v, w.validity_info)
  BY <1>1, Zenon DEF Satisfied, synthesize_credential, sig_bytes
<1>4. /\ Devices[w.device_auth.key] = device_key(v, w) /\ w.device_auth.digest = w.device_auth_digest
      /\ date_not_after(valid_from(v, w.validity_info), TimeDigits(w.now))
      /\ date_not_after(TimeDigits(w.now), valid_until(v, w.validity_info))
  BY <1>1, Zenon DEF Satisfied, synthesize_session, sig_bytes
<1>5. PICK z, pv, pd, pk : Signed(c, s, v, z, pv, pd, pk)
  BY <1>1, <1>2, <1>3, SignedIs, Zenon
<1>6. IsCredential(c) /\ SigPlaced(v, c, pv, pd, pk)
  BY <1>5, Zenon DEF Signed
<1>7. c.from \in Day /\ c.until \in Day /\ c.device \in DOMAIN Devices
  BY <1>6, CredentialType, Zenon
<1>8. valid_from(v, w.validity_info) = TimeDigits(c.from) /\ valid_until(v, w.validity_info) = TimeDigits(c.until)
  BY <1>3, <1>6, ValidityBound, Zenon
<1>9. c.from <= w.now
  BY <1>2, <1>4, <1>7, <1>8, TimesOrder, Zenon
<1>10. w.now <= c.until
  BY <1>2, <1>4, <1>7, <1>8, TimesOrder, Zenon
<1>11. select_anchor(v, w.device_key_info, DEVICE_KEY_INFO)
  BY <1>3, Zenon DEF bind_digest_region
<1>12. device_key(v, w) = Devices[c.device]
  BY <1>6, <1>11, DeviceBound, Zenon
<1>13. w.device_auth.key = c.device
  BY <1>2, <1>4, <1>7, <1>12, IssuedAssumption, Zenon
<1>14. QED BY <1>1, <1>4, <1>9, <1>10, <1>13, Zenon DEF Live

\* An accepted proof names the docType and the namespace of its witness.
LEMMA AcceptedNames ==
  ASSUME NEW w, Typed(w), w.behind = NoTail, Genuine(w), NEW v, v = public_values(w), NEW a \in Names \X Names,
         Spells(v.doc_type, read_tstr(v.doc_type, Len(DOC_TYPE_KEY)), a[1]),
         Spells(v.namespace, read_tstr(v.namespace, 0), a[2])
  PROVE  a[1] = w.doc_type /\ a[2] = w.namespace
<1>1. PICK s, e, f, V, W : /\ s = PaddedSig[w.cred] /\ e = doc_type_entry(w) /\ f = ns_open(w)
                           /\ V = v.doc_type /\ W = v.namespace
  OBVIOUS
<1>2. /\ Shown(s, 26, e) /\ Shown(s, w.namespace_key, f) /\ w.doc_type_key = 26 /\ w.num_entries \in Nat
      /\ w.doc_type \in Names /\ w.namespace \in Names /\ w.cred \in DOMAIN Credentials
  BY <1>1, Zenon DEF Genuine, Typed
<1>3. V = MaskedWindow(s, 26, Len(e)) /\ W = MaskedWindow(s, w.namespace_key, Len(f))
  BY <1>1, <1>2 DEF public_values, sig_bytes, doc_type_prefix_len, namespace_prefix_len
<1>4. s \in Seq(Cell)
  BY <1>1, Zenon DEF Genuine
<1>5. V \in Seq(Cell) /\ Holds(V, 0, e)
  BY <1>2, <1>3, <1>4, WindowHolds, ZenonT(40) DEF Shown
<1>6. W \in Seq(Cell) /\ Holds(W, 0, f)
  BY <1>2, <1>3, <1>4, WindowHolds, ZenonT(40) DEF Shown
<1>7. a[1] \in Names /\ a[2] \in Names
  OBVIOUS
<1>8. a[1] = w.doc_type
  <2>1. PICK t, k : t = NameBytes(w.doc_type) /\ k = Len(DOC_TYPE_KEY)
    OBVIOUS
  <2>2. e \in Seq(Cell) /\ Holds(e, 8, t)
    BY <1>1, <1>2, <2>1, DocEntryIs, Zenon DEF DocEntry
  <2>3. t \in Seq(Cell)
    BY <1>2, <2>1, NameIs, Zenon DEF NamePlaced
  <2>4. Holds(V, 0 + 8, t)
    BY <1>5, <2>2, <2>3, HoldsPart, Zenon
  <2>5. k = 8
    <3>1. "docType" \in Tags
      BY SigTagsAre, Zenon
    <3>2. 8 \in Nat
      OBVIOUS
    <3>3. Piece(DOC_TYPE_KEY, "docType", 8)
      BY <3>1, <3>2, PieceIs, Zenon DEF DOC_TYPE_KEY
    <3>4. QED BY <2>1, <3>3, Zenon DEF Piece
  <2>6. k \in Nat /\ Holds(V, k, t)
    BY <2>4, <2>5
  <2>7. Spells(V, read_tstr(V, k), a[1])
    BY <1>1, <2>1, Zenon
  <2>8. QED BY <1>2, <1>5, <1>7, <2>1, <2>6, <2>7, SpellsName, Zenon
<1>9. a[2] = w.namespace
  <2>1. PICK t : t = NameBytes(w.namespace)
    OBVIOUS
  <2>2. f \in Seq(Cell) /\ Holds(f, 0, t) /\ t \in Seq(Cell)
    BY <1>1, <1>2, <2>1, NsOpenIs, Zenon DEF NsOpen
  <2>3. Holds(W, 0 + 0, t)
    BY <1>6, <2>2, HoldsPart, Zenon
  <2>4. 0 \in Nat /\ Holds(W, 0, t)
    BY <2>3
  <2>5. Spells(W, read_tstr(W, 0), a[2])
    BY <1>1, Zenon
  <2>6. QED BY <1>2, <1>6, <1>7, <2>1, <2>4, <2>5, SpellsName, Zenon
<1>10. QED BY <1>8, <1>9

-----------------------------------------------------------------------------
(* What wallets, holders and verifiers do with a witness.                  *)

LEMMA ProvableIs ==
  ASSUME NEW q \in Provable
  PROVE  /\ q[1] \in DOMAIN Credentials /\ q[2] \in DOMAIN Credentials[q[1]].namespaces
         /\ \E k \in DOMAIN Credentials[q[1]].namespaces[q[2]].items :
              Items[Credentials[q[1]].namespaces[q[2]].items[k]].element = "birth_date"
<1>1. PICK c \in DOMAIN Credentials : q \in {c} \X DOMAIN Credentials[c].namespaces
  BY DEF Provable
<1>2. q[1] = c /\ q[2] \in DOMAIN Credentials[c].namespaces
  BY <1>1
<1>3. QED BY <1>1, <1>2 DEF Provable

\* A wallet's witness names what was issued.
LEMMA WalletIs ==
  ASSUME NEW q \in Provable
  PROVE  /\ WalletTable[q].cred \in DOMAIN Credentials /\ WalletTable[q].item \in DOMAIN Items
         /\ WalletTable[q].namespace \in Names /\ WalletTable[q].doc_type \in Names
         /\ WalletTable[q].cred = q[1]
<1>1. PICK c, ns, k, t : /\ c = Credentials[q[1]] /\ ns = c.namespaces[q[2]] /\ k = BirthDate(ns)
                         /\ t = WalletTable[q]
  OBVIOUS
<1>2. q[1] \in DOMAIN Credentials /\ q[2] \in DOMAIN c.namespaces
  BY <1>1, ProvableIs, Zenon
<1>3. \E j \in DOMAIN ns.items : Items[ns.items[j]].element = "birth_date"
  BY <1>1, ProvableIs, Zenon
<1>4. IsCredential(c)
  BY <1>1, <1>2, IssuedAssumption, Zenon
<1>5. c.doc_type \in Names /\ IsNamespace(ns)
  BY <1>1, <1>2, <1>4, CredentialType
<1>6. k \in DOMAIN ns.items
  BY <1>1, <1>3, Zenon DEF BirthDate
<1>7. ns.name \in Names /\ ns.items[k] \in DOMAIN Items
  BY <1>5, <1>6, EntriesLaid DEF IsNamespace
<1>8. t.cred = q[1] /\ t.item = ns.items[k] /\ t.namespace = ns.name /\ t.doc_type = c.doc_type
  BY <1>1 DEF WalletTable
<1>9. QED BY <1>1, <1>2, <1>5, <1>7, <1>8, Zenon

\* A witness with all its fields.
Record(w) == Fields \cup {"cred"} \subseteq DOMAIN w

LEMMA WitnessIs ==
  ASSUME NEW q \in Provable, NEW i \in DOMAIN Sessions, NEW w, w = Witness(q, Sessions[i])
  PROVE  /\ Typed(w) /\ Record(w) /\ w.cred = q[1]
         /\ w.behind = NoTail /\ w.namespace_offset = w.namespace_key
         /\ w.device_auth = Signature(q[1], Sessions[i].device_auth_digest)
         /\ w.cutoff = Sessions[i].cutoff /\ w.now = Sessions[i].now
         /\ w.device_auth_digest = Sessions[i].device_auth_digest
<1>1. PICK s, t : s = Sessions[i] /\ t = WalletTable[q]
  OBVIOUS
<1>2. Record(w)
  BY DEF Record, Witness
<1>3. w.cutoff = s.cutoff /\ w.now = s.now /\ w.device_auth_digest = s.device_auth_digest
  BY <1>1 DEF Witness, Fields
<1>4. w.device_auth = Signature(q[1], s.device_auth_digest)
  BY <1>1 DEF Witness, Fields
<1>5. w.cred = t.cred /\ w.item = t.item
  BY <1>1 DEF Witness, Fields
<1>6. w.namespace = t.namespace /\ w.doc_type = t.doc_type
  BY <1>1 DEF Witness, Fields
<1>7. s.cutoff \in Day /\ s.now \in Day
  BY <1>1, IssuedAssumption DEF IsSession
<1>8. /\ t.cred \in DOMAIN Credentials /\ t.item \in DOMAIN Items /\ t.namespace \in Names /\ t.doc_type \in Names
      /\ t.cred = q[1]
  BY <1>1, WalletIs, Zenon
<1>9. w.device_auth.key \in DOMAIN Devices
  <2>1. w.device_auth.key = Credentials[q[1]].device
    BY <1>4 DEF Signature
  <2>2. IsCredential(Credentials[q[1]])
    BY <1>8, IssuedAssumption
  <2>3. QED BY <2>1, <2>2, CredentialType
<1>10. Typed(w)
  BY <1>3, <1>5, <1>6, <1>7, <1>8, <1>9, Zenon DEF Typed
<1>11. w.behind = NoTail /\ w.namespace_offset = w.namespace_key
  <2>1. t.behind = NoTail /\ t.namespace_offset = t.namespace_key
    BY <1>1 DEF WalletTable
  <2>2. w.behind = t.behind /\ w.namespace_offset = t.namespace_offset /\ w.namespace_key = t.namespace_key
    BY <1>1 DEF Witness, Fields
  <2>3. QED BY <2>1, <2>2
<1>12. QED BY <1>1, <1>2, <1>3, <1>4, <1>5, <1>8, <1>10, <1>11, Zenon

LEMMA ValuesAre ==
  /\ Values("namespace") = Names /\ Values("doc_type") = Names /\ Values("item") = DOMAIN Items
  /\ Values("device_auth") = signed
  /\ Values("cutoff") = {s.cutoff : s \in Range(Sessions)} /\ Values("now") = {s.now : s \in Range(Sessions)}
<1>1. Values("namespace") = Names
  BY DEF Values
<1>2. Values("doc_type") = Names
  BY DEF Values
<1>3. Values("item") = DOMAIN Items
  BY DEF Values
<1>4. Values("device_auth") = signed
  BY DEF Values
<1>5. Values("cutoff") = {s.cutoff : s \in Range(Sessions)}
  BY DEF Values
<1>6. Values("now") = {s.now : s \in Range(Sessions)}
  BY DEF Values
<1>7. QED BY <1>1, <1>2, <1>3, <1>4, <1>5, <1>6

\* Devices sign with their keys.
SignedKeys == \A g \in signed : g = [key |-> g.key, digest |-> g.digest] /\ g.key \in DOMAIN Devices

\* The wallet's witness.
Drafted == Typed(draft) /\ Record(draft) /\ draft.device_auth \in signed

\* A changed witness still names what was issued.
LEMMA ChangeTyped ==
  ASSUME SignedKeys, Drafted, NEW f \in Fields, NEW v \in Values(f), NEW w, w = [draft EXCEPT ![f] = v]
  PROVE  Typed(w) /\ Record(w) /\ w.device_auth \in signed
<1>1. Typed(draft) /\ Record(draft) /\ draft.device_auth \in signed
  BY Zenon DEF Drafted
<1>2. Record(w)
  <2>1. DOMAIN w = DOMAIN draft
    OBVIOUS
  <2>2. QED BY <1>1, <2>1, Zenon DEF Record
<1>3. \A g \in Fields \cup {"cred"} : w[g] = IF g = f THEN v ELSE draft[g]
  BY <1>1 DEF Record
<1>4. w.cred = draft.cred
  <2>1. f # "cred"
    BY DEF Fields
  <2>2. QED BY <1>3, <2>1
<1>5. ASSUME NEW g \in Fields PROVE w[g] = draft[g] \/ (g = f /\ w[g] \in Values(g))
  BY <1>3, <1>5
<1>6. /\ "item" \in Fields /\ "namespace" \in Fields /\ "doc_type" \in Fields /\ "cutoff" \in Fields
      /\ "now" \in Fields /\ "device_auth" \in Fields
  BY DEF Fields
<1>7. w.item \in DOMAIN Items
  <2>1. draft.item \in DOMAIN Items
    BY <1>1, Zenon DEF Typed
  <2>2. w.item = draft.item \/ w.item \in Values("item")
    BY <1>5, <1>6
  <2>3. QED BY <2>1, <2>2, ValuesAre
<1>8. w.namespace \in Names
  <2>1. draft.namespace \in Names
    BY <1>1, Zenon DEF Typed
  <2>2. w.namespace = draft.namespace \/ w.namespace \in Values("namespace")
    BY <1>5, <1>6
  <2>3. QED BY <2>1, <2>2, ValuesAre
<1>9. w.doc_type \in Names
  <2>1. draft.doc_type \in Names
    BY <1>1, Zenon DEF Typed
  <2>2. w.doc_type = draft.doc_type \/ w.doc_type \in Values("doc_type")
    BY <1>5, <1>6
  <2>3. QED BY <2>1, <2>2, ValuesAre
<1>10. \A s \in Range(Sessions) : s.cutoff \in Day /\ s.now \in Day
  BY IssuedAssumption DEF IsSession, Range
<1>11. w.cutoff \in Day
  <2>1. draft.cutoff \in Day
    BY <1>1, Zenon DEF Typed
  <2>2. w.cutoff = draft.cutoff \/ w.cutoff \in Values("cutoff")
    BY <1>5, <1>6
  <2>3. QED BY <1>10, <2>1, <2>2, ValuesAre
<1>12. w.now \in Day
  <2>1. draft.now \in Day
    BY <1>1, Zenon DEF Typed
  <2>2. w.now = draft.now \/ w.now \in Values("now")
    BY <1>5, <1>6
  <2>3. QED BY <1>10, <2>1, <2>2, ValuesAre
<1>13. w.device_auth \in signed
  <2>1. w.device_auth = draft.device_auth \/ w.device_auth \in Values("device_auth")
    BY <1>5, <1>6
  <2>2. QED BY <1>1, <2>1, ValuesAre
<1>14. w.device_auth.key \in DOMAIN Devices
  BY <1>13, Zenon DEF SignedKeys
<1>15. Typed(w)
  <2>1. w.cred \in DOMAIN Credentials
    BY <1>1, <1>4, Zenon DEF Typed
  <2>2. QED BY <1>7, <1>8, <1>9, <1>11, <1>12, <1>14, <2>1, Zenon DEF Typed
<1>16. QED BY <1>2, <1>13, <1>15

\* A witness no holder changed is a wallet's.
Unchanged ==
  asked \in DOMAIN Sessions /\ \E q \in Provable : draft = Witness(q, Sessions[asked])

\* The inductive invariant: a proof is one of the witness at hand, which names what was issued
\* and satisfied the circuit, and it is the proof that was accepted.
AgeInv ==
  /\ SignedKeys
  /\ asked # NoSession => Drafted
  /\ asked # NoSession /\ changed = {} => Unchanged
  /\ proof # NoProof => asked # NoSession /\ proof = public_values(draft) /\ Satisfied(draft)
  /\ accepted # {} => proof # NoProof
  /\ \A s \in accepted : s \in DOMAIN Sessions /\ check_public_values(proof, Sessions[s])

LEMMA SignatureIs ==
  ASSUME NEW c \in DOMAIN Credentials, NEW d, NEW g, g = Signature(c, d)
  PROVE  g = [key |-> g.key, digest |-> g.digest] /\ g.key \in DOMAIN Devices
<1>1. g = [key |-> Credentials[c].device, digest |-> d]
  BY DEF Signature
<1>2. g.key = Credentials[c].device /\ g.digest = d
  BY <1>1
<1>3. IsCredential(Credentials[c])
  BY IssuedAssumption
<1>4. Credentials[c].device \in DOMAIN Devices
  BY <1>3, CredentialType
<1>5. QED BY <1>1, <1>2, <1>4, Zenon

LEMMA AgeInit == Init => AgeInv
<1>1. SUFFICES ASSUME Init PROVE AgeInv
  OBVIOUS
<1>2. asked = NoSession /\ changed = {} /\ proof = NoProof /\ accepted = {}
  BY <1>1 DEF Init
<1>3. SignedKeys
  <2>1. SUFFICES ASSUME NEW g \in signed PROVE g = [key |-> g.key, digest |-> g.digest] /\ g.key \in DOMAIN Devices
    BY Zenon DEF SignedKeys
  <2>2. PICK e \in Earlier : g = Signature(e[1], Sessions[e[2]].device_auth_digest)
    BY <1>1 DEF Init
  <2>3. e[1] \in DOMAIN Credentials
    BY IssuedAssumption
  <2>4. QED BY <2>2, <2>3, SignatureIs, Zenon
<1>4. QED BY <1>2, <1>3, Zenon DEF AgeInv

LEMMA AgeFill ==
  ASSUME AgeInv, NEW q \in Provable, NEW s \in DOMAIN Sessions, Fill(q, s)
  PROVE  AgeInv'
<1>1. /\ asked = NoSession /\ asked' = s /\ draft' = Witness(q, Sessions[s])
      /\ signed' = signed \cup {Signature(q[1], Sessions[s].device_auth_digest)}
      /\ changed' = changed /\ proof' = proof /\ accepted' = accepted
  BY DEF Fill
<1>2. proof = NoProof /\ accepted = {}
  BY <1>1, Zenon DEF AgeInv
<1>3. PICK w : w = Witness(q, Sessions[s])
  OBVIOUS
<1>4. Typed(w) /\ Record(w) /\ w.device_auth = Signature(q[1], Sessions[s].device_auth_digest)
  BY <1>3, WitnessIs, Zenon
<1>5. SignedKeys'
  <2>1. q[1] \in DOMAIN Credentials
    BY ProvableIs, Zenon
  <2>2. SUFFICES ASSUME NEW g \in signed' PROVE g = [key |-> g.key, digest |-> g.digest] /\ g.key \in DOMAIN Devices
    BY Zenon DEF SignedKeys
  <2>3. CASE g \in signed
    BY <2>3, Zenon DEF AgeInv, SignedKeys
  <2>4. CASE g = Signature(q[1], Sessions[s].device_auth_digest)
    BY <2>1, <2>4, SignatureIs, Zenon
  <2>5. QED BY <1>1, <2>3, <2>4
<1>6. Drafted'
  BY <1>1, <1>3, <1>4, Zenon DEF Drafted, Typed, Record
<1>7. Unchanged'
  BY <1>1, Zenon DEF Unchanged
<1>8. proof' = NoProof' /\ accepted' = {}
  BY <1>1, <1>2 DEF NoProof
<1>9. QED BY <1>5, <1>6, <1>7, <1>8, Zenon DEF AgeInv

LEMMA AgeChange ==
  ASSUME AgeInv, NEW f \in UNION Changes, Change(f)
  PROVE  AgeInv'
<1>1. /\ asked # NoSession /\ proof = NoProof /\ changed' = changed \cup {f} /\ asked' = asked /\ signed' = signed
      /\ proof' = proof /\ accepted' = accepted
  BY DEF Change
<1>2. PICK v \in Values(f) : draft' = [draft EXCEPT ![f] = v]
  BY DEF Change
<1>3. SignedKeys /\ Drafted /\ accepted = {}
  BY <1>1, Zenon DEF AgeInv
<1>4. f \in Fields
  BY IssuedAssumption
<1>5. PICK w : w = [draft EXCEPT ![f] = v]
  OBVIOUS
<1>6. Typed(w) /\ Record(w) /\ w.device_auth \in signed
  BY <1>3, <1>4, <1>5, ChangeTyped, Zenon
<1>7. SignedKeys'
  BY <1>1, <1>3, Zenon DEF SignedKeys
<1>8. Drafted'
  BY <1>1, <1>2, <1>5, <1>6, Zenon DEF Drafted, Typed, Record
<1>9. changed' # {} /\ proof' = NoProof' /\ accepted' = {}
  BY <1>1, <1>3 DEF NoProof
<1>10. QED BY <1>7, <1>8, <1>9, Zenon DEF AgeInv

LEMMA AgeProve ==
  ASSUME AgeInv, Prove
  PROVE  AgeInv'
<1>1. /\ asked # NoSession /\ proof = NoProof /\ Satisfied(draft) /\ proof' = public_values(draft) /\ asked' = asked
      /\ draft' = draft /\ changed' = changed /\ signed' = signed /\ accepted' = accepted
  BY DEF Prove
<1>2. SignedKeys /\ Drafted /\ accepted = {} /\ (changed = {} => Unchanged)
  BY <1>1, Zenon DEF AgeInv
<1>3. SignedKeys' /\ Drafted'
  BY <1>1, <1>2, Zenon DEF SignedKeys, Drafted
<1>4. changed' = {} => Unchanged'
  BY <1>1, <1>2, Zenon DEF Unchanged
<1>5. asked' # NoSession' /\ proof' = public_values(draft)' /\ Satisfied(draft)' /\ accepted' = {}
  BY <1>1, <1>2, Zenon DEF NoSession
<1>6. QED BY <1>3, <1>4, <1>5, Zenon DEF AgeInv

LEMMA AgeVerify ==
  ASSUME AgeInv, NEW s \in DOMAIN Sessions, Verify(s)
  PROVE  AgeInv'
<1>1. /\ proof # NoProof /\ check_public_values(proof, Sessions[s]) /\ accepted' = accepted \cup {s}
      /\ asked' = asked /\ draft' = draft /\ changed' = changed /\ signed' = signed /\ proof' = proof
  BY DEF Verify
<1>2. \A t \in accepted' : t \in DOMAIN Sessions /\ check_public_values(proof, Sessions[t])
  <2>1. \A t \in accepted : t \in DOMAIN Sessions /\ check_public_values(proof, Sessions[t])
    BY Zenon DEF AgeInv
  <2>2. QED BY <1>1, <2>1, Zenon
<1>3. /\ SignedKeys /\ (asked # NoSession => Drafted) /\ (asked # NoSession /\ changed = {} => Unchanged)
      /\ asked # NoSession /\ proof = public_values(draft) /\ Satisfied(draft)
  BY <1>1, Zenon DEF AgeInv
<1>4. SignedKeys' /\ Drafted'
  BY <1>1, <1>3, Zenon DEF SignedKeys, Drafted
<1>5. changed' = {} => Unchanged'
  BY <1>1, <1>3, Zenon DEF Unchanged
<1>6. QED BY <1>1, <1>2, <1>3, <1>4, <1>5, Zenon DEF AgeInv, NoSession, NoProof

LEMMA AgeNext == AgeInv /\ [Next]_vars => AgeInv'
<1>1. SUFFICES ASSUME AgeInv, [Next]_vars PROVE AgeInv'
  OBVIOUS
<1>2. CASE Next
  <2>1. CASE \E q \in Provable, s \in DOMAIN Sessions : Fill(q, s)
    BY <1>1, <2>1, AgeFill, Zenon
  <2>2. CASE \E f \in UNION Changes \ changed : Change(f)
    BY <1>1, <2>2, AgeChange, Zenon
  <2>3. CASE Prove
    BY <1>1, <2>3, AgeProve, Zenon
  <2>4. CASE \E s \in DOMAIN Sessions : Verify(s)
    BY <1>1, <2>4, AgeVerify, Zenon
  <2>5. QED BY <1>2, <2>1, <2>2, <2>3, <2>4, Zenon DEF Next
<1>3. CASE UNCHANGED vars
  <2>1. /\ asked' = asked /\ draft' = draft /\ changed' = changed /\ signed' = signed
        /\ proof' = proof /\ accepted' = accepted
    BY <1>3 DEF vars
  <2>2. QED BY <1>1, <2>1, Zenon DEF AgeInv, SignedKeys, Drafted, Unchanged
<1>4. QED BY <1>1, <1>2, <1>3

\* In every reachable state a stored proof is one of the witness at hand, that witness names a
\* credential that was issued and satisfied the circuit's constraints, and a session accepted only
\* the proof that stands; for every credential, item and session IssuedAssumption admits.
THEOREM AgeInvariant == Spec => []AgeInv
<1>1. QED BY AgeInit, AgeNext, PTL DEF Spec

\* The namespace of that name a verifier accepts, for the credential c behind w.
Attested(w, c, a, cutoff) ==
  /\ c.doc_type = a[1]
  /\ \E name \in Names : AttestsAge(c, name, cutoff)
  /\ w.namespace_offset = w.namespace_key => AttestsAge(c, a[2], cutoff)

\* What a verifier knows that accepts v, the public values of w, with nothing behind the
\* signed bytes.
Entitles(w, v, ctx, c) ==
  /\ \E a \in ctx.accepted : Attested(w, c, a, ctx.cutoff)
  /\ c.from <= ctx.now /\ ctx.now <= c.until
  /\ w.device_auth.key = c.device /\ w.device_auth.digest = ctx.device_auth_digest

LEMMA Entitled ==
  ASSUME NEW w, Typed(w), w.behind = NoTail, Satisfied(w), NEW i \in DOMAIN Sessions, NEW ctx, ctx = Sessions[i], NEW v, v = public_values(w),
         check_public_values(v, ctx), NEW c, c = Credentials[w.cred]
  PROVE  Entitles(w, v, ctx, c)
<1>1. Genuine(w) /\ Live(w)
  BY CredentialGenuine, SessionLive, Zenon DEF Satisfied
<1>2. /\ ctx.cutoff \in Day /\ ctx.now \in Day /\ ctx.accepted \subseteq Names \X Names
  BY IssuedAssumption DEF IsSession
<1>3. /\ w.cred \in DOMAIN Credentials /\ w.item \in DOMAIN Items /\ w.now \in Day
  BY Zenon DEF Typed
<1>4. IsCredential(c)
  BY <1>3, IssuedAssumption
<1>5. /\ v.device_auth_digest = w.device_auth_digest
      /\ v.now = TimeDigits(w.now) /\ v.cutoff = DateDigits(w.cutoff)
  BY DEF public_values
<1>6. v.old_enough = date_not_after(birth_date_bytes(w), DateDigits(w.cutoff))
  BY DEF public_values
<1>7. /\ v.old_enough /\ v.device_auth_digest = ctx.device_auth_digest /\ v.cutoff = DateDigits(ctx.cutoff)
      /\ v.now = TimeDigits(ctx.now)
  BY Zenon DEF check_public_values
<1>8. PICK a \in ctx.accepted : /\ Spells(v.doc_type, read_tstr(v.doc_type, Len(DOC_TYPE_KEY)), a[1])
                                /\ Spells(v.namespace, read_tstr(v.namespace, 0), a[2])
  BY Zenon DEF check_public_values
<1>9. a[1] = w.doc_type /\ a[2] = w.namespace
  <2>1. a \in Names \X Names
    BY <1>2, <1>8, Zenon
  <2>2. QED BY <1>1, <1>8, <2>1, AcceptedNames, Zenon
<1>10. /\ w.doc_type = c.doc_type /\ Listed(c, w.item)
       /\ (w.namespace_offset = w.namespace_key => Carries(c, w.namespace, w.item))
       /\ w.encoding \in ALL /\ BirthDateOf(Items[w.item], w.encoding)
       /\ birth_date_bytes(w) = DateDigits(Items[w.item].date)
  BY <1>1, Zenon DEF Genuine
<1>11. Items[w.item].date <= ctx.cutoff
  <2>1. date_not_after(DateDigits(Items[w.item].date), DateDigits(ctx.cutoff))
    BY <1>5, <1>6, <1>7, <1>10, Zenon
  <2>2. Items[w.item].date \in Day
    BY <1>3, ItemType, Zenon
  <2>3. QED BY <1>2, <2>1, <2>2, DatesCompare, Zenon
<1>12. Items[w.item].element = "birth_date" /\ Items[w.item].encoding # "Masked"
  BY <1>10 DEF BirthDateOf, ALL
<1>13. ASSUME NEW r \in 1..Len(c.namespaces), \E k \in 1..Len(c.namespaces[r].items) : c.namespaces[r].items[k] = w.item
       PROVE  AttestsAge(c, c.namespaces[r].name, ctx.cutoff) /\ c.namespaces[r].name \in Names
  <2>1. PICK ns : ns = c.namespaces[r]
    OBVIOUS
  <2>2. \E k \in 1..Len(ns.items) : ns.items[k] = w.item
    BY <1>13, <2>1, Zenon
  <2>3. ns \in Range(c.namespaces) /\ IsNamespace(ns)
    BY <1>4, <2>1, CredentialType DEF Range
  <2>4. w.item \in Range(ns.items)
    BY <2>2, <2>3, EntriesLaid DEF Range
  <2>5. AttestsAge(c, ns.name, ctx.cutoff)
    BY <1>11, <1>12, <2>3, <2>4, Zenon DEF AttestsAge
  <2>6. QED BY <2>1, <2>3, <2>5, Zenon DEF IsNamespace
<1>14. \E name \in Names : AttestsAge(c, name, ctx.cutoff)
  BY <1>10, <1>13, Zenon DEF Listed
<1>15. ASSUME w.namespace_offset = w.namespace_key PROVE AttestsAge(c, w.namespace, ctx.cutoff)
  <2>1. PICK r \in 1..Len(c.namespaces) :
           c.namespaces[r].name = w.namespace /\ \E k \in 1..Len(c.namespaces[r].items) : c.namespaces[r].items[k] = w.item
    BY <1>10, <1>15, Zenon DEF Carries
  <2>2. AttestsAge(c, c.namespaces[r].name, ctx.cutoff)
    BY <1>13, <2>1, Zenon
  <2>3. QED BY <2>1, <2>2, Zenon
<1>16. c.from \in Day /\ c.until \in Day
  BY <1>4, CredentialType, Zenon
<1>17. /\ w.device_auth.key = c.device /\ w.device_auth.digest = w.device_auth_digest
       /\ c.from <= w.now /\ w.now <= c.until
  BY <1>1, Zenon DEF Live
<1>18. TimeDigits(w.now) = TimeDigits(ctx.now)
  BY <1>5, <1>7, Zenon
<1>19. c.from <= ctx.now
  <2>1. date_not_after(TimeDigits(c.from), TimeDigits(w.now))
    BY <1>3, <1>16, <1>17, TimesOrder, Zenon
  <2>2. date_not_after(TimeDigits(c.from), TimeDigits(ctx.now))
    BY <1>18, <2>1, Zenon
  <2>3. QED BY <1>2, <1>16, <2>2, TimesOrder, Zenon
<1>20. ctx.now <= c.until
  <2>1. date_not_after(TimeDigits(w.now), TimeDigits(c.until))
    BY <1>3, <1>16, <1>17, TimesOrder, Zenon
  <2>2. date_not_after(TimeDigits(ctx.now), TimeDigits(c.until))
    BY <1>18, <2>1, Zenon
  <2>3. QED BY <1>2, <1>16, <2>2, TimesOrder, Zenon
<1>21. Attested(w, c, a, ctx.cutoff)
  BY <1>9, <1>10, <1>14, <1>15, Zenon DEF Attested
<1>22. QED BY <1>5, <1>7, <1>8, <1>17, <1>19, <1>20, <1>21, Zenon DEF Entitles

LEMMA InvEntitled == AgeInv => AcceptedIsEntitled
<1>1. SUFFICES ASSUME AgeInv, NEW s \in accepted, NEW ctx, ctx = Sessions[s], NEW c, c = Credentials[draft.cred]
               PROVE  /\ c.issuer = proof.issuer
                      /\ ctx.policy = "Only" => c.issuer \in ctx.issuers
                      /\ draft.behind = NoTail =>
                           /\ \E a \in ctx.accepted : Attested(draft, c, a, ctx.cutoff)
                           /\ c.from <= ctx.now /\ ctx.now <= c.until
                           /\ [key |-> c.device, digest |-> ctx.device_auth_digest] \in signed
  BY Zenon DEF AcceptedIsEntitled, Attested
<1>2. proof # NoProof /\ s \in DOMAIN Sessions /\ check_public_values(proof, ctx)
  BY <1>1, Zenon DEF AgeInv
<1>3. SignedKeys /\ Drafted /\ proof = public_values(draft) /\ Satisfied(draft)
  BY <1>1, <1>2, Zenon DEF AgeInv
<1>4. Typed(draft) /\ draft.device_auth \in signed
  BY <1>3, Zenon DEF Drafted
<1>5. c.issuer = proof.issuer /\ (ctx.policy = "Only" => c.issuer \in ctx.issuers)
  <2>1. proof.issuer = draft.issuer
    BY <1>3 DEF public_values
  <2>2. draft.issuer = c.issuer
    BY <1>1, <1>3, Zenon DEF Satisfied, synthesize_credential
  <2>3. ctx.policy = "Only" => proof.issuer \in ctx.issuers
    BY <1>2, Zenon DEF check_public_values
  <2>4. QED BY <2>1, <2>2, <2>3
<1>6. ASSUME draft.behind = NoTail
      PROVE  /\ \E a \in ctx.accepted : Attested(draft, c, a, ctx.cutoff)
             /\ c.from <= ctx.now /\ ctx.now <= c.until
             /\ [key |-> c.device, digest |-> ctx.device_auth_digest] \in signed
  <2>1. Entitles(draft, proof, ctx, c)
    BY <1>1, <1>2, <1>3, <1>4, <1>6, Entitled, Zenon
  <2>2. /\ \E a \in ctx.accepted : Attested(draft, c, a, ctx.cutoff)
        /\ c.from <= ctx.now /\ ctx.now <= c.until
        /\ draft.device_auth.key = c.device /\ draft.device_auth.digest = ctx.device_auth_digest
    BY <2>1, Zenon DEF Entitles
  <2>3. PICK g : g = draft.device_auth
    OBVIOUS
  <2>4. g \in signed /\ g = [key |-> g.key, digest |-> g.digest] /\ g.key = c.device /\ g.digest = ctx.device_auth_digest
    BY <1>3, <1>4, <2>2, <2>3, Zenon DEF SignedKeys
  <2>5. [key |-> c.device, digest |-> ctx.device_auth_digest] \in signed
    BY <2>4
  <2>6. QED BY <2>2, <2>5, Zenon
<1>7. QED BY <1>5, <1>6, Zenon

\* An accepted proof means what its verifier asked, whatever was issued and whatever the
\* holder put into the witness: an issuer the verifier takes signed the credential, and, when
\* nothing stands behind the signed bytes, it is of an accepted docType, live now, lists a
\* birth_date not after the cutoff, in the accepted namespace if the walk starts from the
\* published header, and its device signed this session (mdoc_age_circuit.rs, offset_bind.rs).
THEOREM AcceptedEntitled == Spec => []AcceptedIsEntitled
<1>1. QED BY AgeInvariant, InvEntitled, PTL

\* A window shows what it is opened on and nothing else.
Opened(e) == [k \in 1..40 |-> IF k <= Len(e) THEN e[k] ELSE Byte(0)]

LEMMA WindowIs ==
  ASSUME NEW s, NEW at, NEW e, Shown(s, at, e)
  PROVE  MaskedWindow(s, at, Len(e)) = Opened(e)
<1>1. PICK n : n = Len(e)
  OBVIOUS
<1>2. Holds(s, at, e) /\ n \in 1..40
  BY <1>1, Zenon DEF Shown
<1>3. ASSUME NEW k \in 1..40 PROVE (IF k <= n THEN s[at + k] ELSE Byte(0)) = (IF k <= n THEN e[k] ELSE Byte(0))
  <2>1. CASE k <= n
    <3>1. \A i \in 1..40 : \A j \in 1..40 : i <= j => i \in 1..j
      OBVIOUS
    <3>2. k \in 1..Len(e)
      BY <1>1, <1>2, <2>1, <3>1, Zenon
    <3>3. s[at + k] = e[k]
      BY <1>2, <3>2, Zenon DEF Holds
    <3>4. QED BY <3>3
  <2>2. CASE ~(k <= n)
    BY <2>2
  <2>3. QED BY <2>1, <2>2
<1>4. MaskedWindow(s, at, n) = [k \in 1..40 |-> IF k <= n THEN s[at + k] ELSE Byte(0)]
  BY Zenon DEF MaskedWindow, ANCHOR_TEXT_WINDOW
<1>5. Opened(e) = [k \in 1..40 |-> IF k <= n THEN e[k] ELSE Byte(0)]
  BY <1>1, Zenon DEF Opened
<1>6. QED BY <1>1, <1>3, <1>4, <1>5, Zenon

\* The public values of a witness that satisfies the circuit: they name issuer, docType,
\* namespace, number of entries and session, and say whether the holder was born by the cutoff.
LEMMA PublicIs ==
  ASSUME NEW w, Typed(w), w.behind = NoTail, Satisfied(w)
  PROVE  public_values(w) =
           [issuer |-> w.issuer, doc_type |-> Opened(doc_type_entry(w)), namespace |-> Opened(ns_open(w)),
            prefix_len |-> Len(ns_open(w)), num_entries |-> w.num_entries,
            cutoff |-> DateDigits(w.cutoff), now |-> TimeDigits(w.now), device_auth_digest |-> w.device_auth_digest,
            old_enough |-> date_not_after(DateDigits(Items[w.item].date), DateDigits(w.cutoff))]
<1>1. Genuine(w)
  BY CredentialGenuine, Zenon DEF Satisfied
<1>2. /\ Shown(sig_bytes(w), w.doc_type_key, doc_type_entry(w))
      /\ Shown(sig_bytes(w), w.namespace_key, ns_open(w))
      /\ birth_date_bytes(w) = DateDigits(Items[w.item].date)
  BY <1>1, Zenon DEF Genuine, sig_bytes
<1>3. MaskedWindow(sig_bytes(w), w.doc_type_key, doc_type_prefix_len(w)) = Opened(doc_type_entry(w))
  BY <1>2, WindowIs, Zenon DEF doc_type_prefix_len
<1>4. MaskedWindow(sig_bytes(w), w.namespace_key, namespace_prefix_len(w)) = Opened(ns_open(w))
  BY <1>2, WindowIs, Zenon DEF namespace_prefix_len
<1>5. namespace_prefix_len(w) = Len(ns_open(w))
  BY Zenon DEF namespace_prefix_len
<1>6. QED BY <1>2, <1>3, <1>4, <1>5, Zenon DEF public_values

\* What two witnesses have in common that a verifier cannot tell apart.
Alike(w, x) ==
  /\ w.issuer = x.issuer /\ w.doc_type = x.doc_type /\ w.namespace = x.namespace /\ w.num_entries = x.num_entries
  /\ w.cutoff = x.cutoff /\ w.now = x.now /\ w.device_auth_digest = x.device_auth_digest
  /\ Items[w.item].date <= w.cutoff <=> Items[x.item].date <= x.cutoff

LEMMA AlikeShown ==
  ASSUME NEW w, NEW x, Typed(w), Satisfied(w), Typed(x), Satisfied(x), Alike(w, x),
         w.behind = NoTail, x.behind = NoTail
  PROVE  public_values(w) = public_values(x)
<1>1. PICK p, q : /\ p = date_not_after(DateDigits(Items[w.item].date), DateDigits(w.cutoff))
                  /\ q = date_not_after(DateDigits(Items[x.item].date), DateDigits(x.cutoff))
  OBVIOUS
<1>2. /\ w.item \in DOMAIN Items /\ w.cutoff \in Day /\ x.item \in DOMAIN Items /\ x.cutoff \in Day
  BY Zenon DEF Typed
<1>3. Items[w.item].date \in Day /\ Items[x.item].date \in Day
  BY <1>2, ItemType, Zenon
<1>4. date_not_after(DateDigits(Items[w.item].date), DateDigits(w.cutoff)) <=> Items[w.item].date <= w.cutoff
  BY <1>2, <1>3, DatesCompare, Zenon
<1>5. date_not_after(DateDigits(Items[x.item].date), DateDigits(x.cutoff)) <=> Items[x.item].date <= x.cutoff
  BY <1>2, <1>3, DatesCompare, Zenon
<1>6. date_not_after(DateDigits(Items[w.item].date), DateDigits(w.cutoff))
      <=> date_not_after(DateDigits(Items[x.item].date), DateDigits(x.cutoff))
  <2>1. Items[w.item].date <= w.cutoff <=> Items[x.item].date <= x.cutoff
    BY Zenon DEF Alike
  <2>2. QED BY <1>4, <1>5, <2>1, Zenon
<1>7. p \in BOOLEAN /\ q \in BOOLEAN
  BY <1>1, Zenon DEF date_not_after
<1>8. p = q
  <2>1. p <=> q
    BY <1>1, <1>6, Zenon
  <2>2. QED BY <1>7, <2>1
<1>9. doc_type_entry(w) = doc_type_entry(x) /\ ns_open(w) = ns_open(x)
  BY Zenon DEF Alike, doc_type_entry, ns_open
<1>10. public_values(w) =
         [issuer |-> w.issuer, doc_type |-> Opened(doc_type_entry(w)), namespace |-> Opened(ns_open(w)),
          prefix_len |-> Len(ns_open(w)), num_entries |-> w.num_entries,
          cutoff |-> DateDigits(w.cutoff), now |-> TimeDigits(w.now), device_auth_digest |-> w.device_auth_digest,
          old_enough |-> p]
  BY <1>1, PublicIs, Zenon
<1>11. public_values(x) =
         [issuer |-> x.issuer, doc_type |-> Opened(doc_type_entry(x)), namespace |-> Opened(ns_open(x)),
          prefix_len |-> Len(ns_open(x)), num_entries |-> x.num_entries,
          cutoff |-> DateDigits(x.cutoff), now |-> TimeDigits(x.now), device_auth_digest |-> x.device_auth_digest,
          old_enough |-> q]
  BY <1>1, PublicIs, Zenon
<1>12. /\ w.issuer = x.issuer /\ w.num_entries = x.num_entries /\ w.cutoff = x.cutoff /\ w.now = x.now
       /\ w.device_auth_digest = x.device_auth_digest
  BY Zenon DEF Alike
<1>13. QED BY <1>8, <1>9, <1>10, <1>11, <1>12, Zenon

LEMMA InvUnlinkable == AgeInv => NothingLinkable
<1>1. SUFFICES ASSUME AgeInv, proof # NoProof, changed = {}, NEW q \in Provable, NEW w, w = Witness(q, Sessions[asked]),
                      Satisfied(w),
                      <<w.issuer, w.doc_type, w.namespace, w.num_entries>> =
                        <<draft.issuer, draft.doc_type, draft.namespace, draft.num_entries>>,
                      (Items[w.item].date <= Sessions[asked].cutoff) = proof.old_enough
               PROVE  public_values(w) = proof
  BY Zenon DEF NothingLinkable
<1>2. asked # NoSession /\ proof = public_values(draft) /\ Satisfied(draft) /\ Drafted /\ Unchanged
  BY <1>1, Zenon DEF AgeInv
<1>3. Typed(draft) /\ asked \in DOMAIN Sessions
  BY <1>2, Zenon DEF Drafted, Unchanged
<1>4. PICK p \in Provable : draft = Witness(p, Sessions[asked])
  BY <1>2, Zenon DEF Unchanged
<1>5. PICK s : s = Sessions[asked]
  OBVIOUS
<1>6. /\ draft.cutoff = s.cutoff /\ draft.now = s.now /\ draft.device_auth_digest = s.device_auth_digest
      /\ draft.behind = NoTail
  BY <1>3, <1>4, <1>5, WitnessIs, Zenon
<1>7. /\ Typed(w) /\ w.cutoff = s.cutoff /\ w.now = s.now /\ w.device_auth_digest = s.device_auth_digest
      /\ w.behind = NoTail
  BY <1>1, <1>3, <1>5, WitnessIs, Zenon
<1>8. /\ w.issuer = draft.issuer /\ w.doc_type = draft.doc_type /\ w.namespace = draft.namespace
      /\ w.num_entries = draft.num_entries
  BY <1>1
<1>9. Items[w.item].date <= w.cutoff <=> Items[draft.item].date <= draft.cutoff
  <2>1. proof.old_enough = date_not_after(birth_date_bytes(draft), DateDigits(draft.cutoff))
    BY <1>2 DEF public_values
  <2>2. birth_date_bytes(draft) = DateDigits(Items[draft.item].date)
    BY <1>2, <1>3, <1>6, CredentialGenuine, Zenon DEF Satisfied, Genuine
  <2>3. Items[draft.item].date \in Day /\ draft.cutoff \in Day
    BY <1>3, ItemType, Zenon DEF Typed
  <2>4. date_not_after(DateDigits(Items[draft.item].date), DateDigits(draft.cutoff))
        <=> Items[draft.item].date <= draft.cutoff
    BY <2>3, DatesCompare, Zenon
  <2>5. (Items[w.item].date <= w.cutoff) = date_not_after(DateDigits(Items[draft.item].date), DateDigits(draft.cutoff))
    BY <1>1, <1>5, <1>7, <2>1, <2>2, Zenon
  <2>6. QED BY <2>4, <2>5, Zenon
<1>10. Alike(w, draft)
  BY <1>6, <1>7, <1>8, <1>9, Zenon DEF Alike
<1>11. QED BY <1>1, <1>2, <1>3, <1>6, <1>7, <1>10, AlikeShown, Zenon

\* Two holders whose credentials agree on issuer, docType, namespace and its number of
\* entries, and who are both old enough or both not, give a verifier the same public values,
\* whatever else was issued to them (mdoc_age.rs, MdocAgeOutputs).
THEOREM Unlinkable == Spec => []NothingLinkable
<1>1. QED BY AgeInvariant, InvUnlinkable, PTL

-----------------------------------------------------------------------------
(* What a wallet looks for is there.                                       *)

\* What a string followed by another one holds.
Extended(v, u, t) ==
  /\ v \in Seq(Cell) /\ Len(u) \in Nat /\ Len(t) \in Nat /\ Len(v) = Len(u) + Len(t)
  /\ Holds(v, 0, u) /\ Holds(v, Len(u), t)
  /\ \A p \in Seq(Cell) : \A a : Holds(u, a, p) => Holds(v, a, p)

LEMMA Behind ==
  ASSUME NEW u \in Seq(Cell), NEW t \in Seq(Cell), NEW v, v = u \o t
  PROVE  Extended(v, u, t) /\ v \in Seq(Cell)
<1>1. Appended(v, u, t) /\ Len(u) \in Nat /\ Len(t) \in Nat
  BY Append2
<1>2. \A p \in Seq(Cell) : \A a : Holds(u, a, p) => Holds(v, a, p)
  BY <1>1, HoldsIn, Zenon
<1>3. Holds(v, 0, u)
  BY <1>2, HoldsItself, Zenon
<1>4. Holds(v, Len(u), t)
  <2>1. Holds(v, Len(u) + 0, t)
    BY <1>1, HoldsIn, HoldsItself, Zenon
  <2>2. Len(u) + 0 = Len(u)
    BY <1>1
  <2>3. QED BY <2>1, <2>2, Zenon
<1>5. QED BY <1>1, <1>2, <1>3, <1>4, Zenon DEF Extended, Appended

\* What stands at an offset is read there.
ReadAt(v, at, p) == BytesAt(v, at, Len(p)) = p

LEMMA Reads ==
  ASSUME NEW v \in Seq(Cell), NEW p \in Seq(Cell), NEW at \in Nat, Holds(v, at, p)
  PROVE  ReadAt(v, at, p)
<1>1. PICK n : n = Len(p)
  OBVIOUS
<1>2. n \in Nat /\ at + n <= Len(v)
  BY <1>1, LenProperties DEF Holds
<1>3. BytesAt(v, at, n) = p
  BY <1>1, <1>2, Read
<1>4. QED BY <1>1, <1>3, Zenon DEF ReadAt

LEMMA LiteralCells == \A name \in Tags, len \in Nat : Literal(name, len) \in Seq(Cell) /\ Len(Literal(name, len)) = len
BY PieceIs, Zenon DEF Piece

LEMMA OpeningHolds ==
  ASSUME NEW c, c.doc_type \in Names
  PROVE  Opening(c) \in Seq(Cell) /\ Holds(Opening(c), 26, DOC_TYPE_KEY)
<1>1. PICK a, k, t, z : /\ a = Literal("Sig_structure", 26) /\ k = DOC_TYPE_KEY
                        /\ t = NameBytes(c.doc_type) /\ z = Literal("version", 12)
  OBVIOUS
<1>2. a \in Seq(Cell) /\ Len(a) = 26 /\ k \in Seq(Cell) /\ z \in Seq(Cell)
  BY <1>1, SigTagsAre, LiteralCells DEF DOC_TYPE_KEY
<1>3. t \in Seq(Cell)
  BY <1>1, NameIs, Zenon DEF NamePlaced
<1>4. PICK u, v, o : u = a \o k /\ v = u \o t /\ o = v \o z
  OBVIOUS
<1>5. Extended(u, a, k)
  BY <1>2, <1>4, Behind, Zenon
<1>6. u \in Seq(Cell) /\ Holds(u, 26, k)
  BY <1>2, <1>5, Zenon DEF Extended
<1>7. Extended(v, u, t)
  BY <1>3, <1>4, <1>6, Behind, Zenon
<1>8. v \in Seq(Cell) /\ Holds(v, 26, k)
  BY <1>2, <1>6, <1>7, Zenon DEF Extended
<1>9. Extended(o, v, z)
  BY <1>2, <1>4, <1>8, Behind, Zenon
<1>10. o \in Seq(Cell) /\ Holds(o, 26, k)
  BY <1>2, <1>8, <1>9, Zenon DEF Extended
<1>11. o = Opening(c)
  BY <1>1, <1>4, Zenon DEF Opening
<1>12. QED BY <1>1, <1>10, <1>11, Zenon

LEMMA ValidityHolds ==
  ASSUME NEW c, c.from \in Day, c.until \in Day
  PROVE  /\ Validity(c) \in Seq(Cell) /\ Len(Validity(c)) = 108 /\ Holds(Validity(c), 0, VALIDITY_OPEN)
         /\ Holds(Validity(c), 43, VALIDITY_MID_FROM) /\ Holds(Validity(c), 75, VALIDITY_MID_UNTIL)
<1>1. PICK a, p, q, x, y : /\ a = VALIDITY_OPEN /\ p = VALIDITY_MID_FROM /\ q = VALIDITY_MID_UNTIL
                           /\ x = DigitBytes(TimeDigits(c.from)) /\ y = DigitBytes(TimeDigits(c.until))
  OBVIOUS
<1>2. a \in Seq(Cell) /\ Len(a) = 23 /\ p \in Seq(Cell) /\ Len(p) = 12 /\ q \in Seq(Cell) /\ Len(q) = 13
  BY <1>1, SigTagsAre, LiteralCells DEF VALIDITY_OPEN, VALIDITY_MID_FROM, VALIDITY_MID_UNTIL
<1>3. x \in Seq(Cell) /\ Len(x) = 20 /\ y \in Seq(Cell) /\ Len(y) = 20
  BY <1>1, TimeBytes, Zenon DEF TimePlaced
<1>4. PICK v1, v2, v3, v4, v : /\ v1 = a \o x /\ v2 = v1 \o p /\ v3 = v2 \o x /\ v4 = v3 \o q
                               /\ v = v4 \o y
  OBVIOUS
<1>5. Extended(v1, a, x) /\ v1 \in Seq(Cell)
  BY <1>2, <1>3, <1>4, Behind, Zenon
<1>6. Extended(v2, v1, p) /\ v2 \in Seq(Cell)
  BY <1>2, <1>4, <1>5, Behind, Zenon
<1>7. Extended(v3, v2, x) /\ v3 \in Seq(Cell)
  BY <1>3, <1>4, <1>6, Behind, Zenon
<1>8. Extended(v4, v3, q) /\ v4 \in Seq(Cell)
  BY <1>2, <1>4, <1>7, Behind, Zenon
<1>9. Extended(v, v4, y) /\ v \in Seq(Cell)
  BY <1>3, <1>4, <1>8, Behind, Zenon
<1>10. Len(v1) = 43 /\ Len(v3) = 75 /\ Len(v) = 108
  <2>1. Len(v1) = Len(a) + Len(x) /\ Len(v2) = Len(v1) + Len(p) /\ Len(v3) = Len(v2) + Len(x)
        /\ Len(v4) = Len(v3) + Len(q) /\ Len(v) = Len(v4) + Len(y)
    BY <1>5, <1>6, <1>7, <1>8, <1>9, Zenon DEF Extended
  <2>2. QED BY <1>2, <1>3, <2>1
<1>11. Holds(v1, 0, a) /\ Holds(v2, 43, p) /\ Holds(v4, 75, q)
  <2>1. Holds(v1, 0, a) /\ Holds(v2, Len(v1), p) /\ Holds(v4, Len(v3), q)
    BY <1>5, <1>6, <1>8, Zenon DEF Extended
  <2>2. Len(v1) = 43 /\ Len(v3) = 75
    BY <1>10
  <2>3. QED BY <2>1, <2>2
<1>12. \A b \in Seq(Cell) : \A i :
         /\ Holds(v1, i, b) => Holds(v2, i, b)
         /\ Holds(v2, i, b) => Holds(v3, i, b)
         /\ Holds(v3, i, b) => Holds(v4, i, b)
         /\ Holds(v4, i, b) => Holds(v, i, b)
  BY <1>6, <1>7, <1>8, <1>9, Zenon DEF Extended
<1>13. Holds(v, 0, a) /\ Holds(v, 43, p) /\ Holds(v, 75, q)
  <2>1. Holds(v, 0, a)
    BY <1>2, <1>11, <1>12, Zenon
  <2>2. Holds(v, 43, p)
    BY <1>2, <1>11, <1>12, Zenon
  <2>3. Holds(v, 75, q)
    BY <1>2, <1>11, <1>12, Zenon
  <2>4. QED BY <2>1, <2>2, <2>3
<1>14. v = Validity(c)
  BY <1>1, <1>4, Zenon DEF Validity
<1>15. QED BY <1>1, <1>9, <1>10, <1>13, <1>14, Zenon

LEMMA KeyHolds ==
  ASSUME NEW c, c.device \in DOMAIN Devices
  PROVE  /\ DeviceKeyInfo(c) \in Seq(Cell) /\ Len(DeviceKeyInfo(c)) = 124
         /\ Holds(DeviceKeyInfo(c), 0, DEVICE_KEY_INFO)
<1>1. PICK a, x, l, y, z : /\ a = DEVICE_KEY_INFO /\ x = Devices[c.device][1] /\ l = Literal("y label", 3)
                           /\ y = Devices[c.device][2] /\ z = Literal("digestAlgorithm", 24)
  OBVIOUS
<1>2. a \in Seq(Cell) /\ Len(a) = 33 /\ l \in Seq(Cell) /\ Len(l) = 3 /\ z \in Seq(Cell) /\ Len(z) = 24
  BY <1>1, SigTagsAre, LiteralCells DEF DEVICE_KEY_INFO
<1>3. x \in Seq(Cell) /\ Len(x) = 32 /\ y \in Seq(Cell) /\ Len(y) = 32
  BY <1>1, DeviceType, Zenon DEF Coord
<1>4. PICK v1, v2, v3, v : v1 = a \o x /\ v2 = v1 \o l /\ v3 = v2 \o y /\ v = v3 \o z
  OBVIOUS
<1>5. Extended(v1, a, x) /\ v1 \in Seq(Cell)
  BY <1>2, <1>3, <1>4, Behind, Zenon
<1>6. Extended(v2, v1, l) /\ v2 \in Seq(Cell)
  BY <1>2, <1>4, <1>5, Behind, Zenon
<1>7. Extended(v3, v2, y) /\ v3 \in Seq(Cell)
  BY <1>3, <1>4, <1>6, Behind, Zenon
<1>8. Extended(v, v3, z) /\ v \in Seq(Cell)
  BY <1>2, <1>4, <1>7, Behind, Zenon
<1>9. Len(v) = 124
  <2>1. Len(v1) = Len(a) + Len(x) /\ Len(v2) = Len(v1) + Len(l) /\ Len(v3) = Len(v2) + Len(y)
        /\ Len(v) = Len(v3) + Len(z)
    BY <1>5, <1>6, <1>7, <1>8, Zenon DEF Extended
  <2>2. QED BY <1>2, <1>3, <2>1
<1>10. Holds(v, 0, a)
  BY <1>2, <1>5, <1>6, <1>7, <1>8, Zenon DEF Extended
<1>11. v = DeviceKeyInfo(c)
  BY <1>1, <1>4, Zenon DEF DeviceKeyInfo
<1>12. QED BY <1>1, <1>8, <1>9, <1>10, <1>11, Zenon

LEMMA RowsLaid ==
  ASSUME NEW c, IsCredential(c), NEW r \in 1..Len(c.namespaces)
  PROVE  /\ FlattenSeq(NamespaceRows(c)) \in Seq(Cell) /\ NamespaceBytes(c.namespaces[r]) \in Seq(Cell)
         /\ \E at : Holds(FlattenSeq(NamespaceRows(c)), at, NamespaceBytes(c.namespaces[r]))
<1>1. PICK m, f, rows : m = Len(c.namespaces) /\ rows = NamespaceRows(c) /\ f = FlattenSeq(NamespaceRows(c))
  OBVIOUS
<1>2. m \in Nat /\ DOMAIN c.namespaces = 1..m /\ \A k \in 1..m : IsNamespace(c.namespaces[k])
  BY <1>1, CredentialType
<1>3. rows = [k \in 1..m |-> NamespaceBytes(c.namespaces[k])]
  BY <1>1, <1>2 DEF NamespaceRows
<1>4. \A k \in 1..m : NamespaceBytes(c.namespaces[k]) \in Seq(Cell)
  BY <1>2, NamespaceIs, Zenon DEF NamespacePlaced
<1>5. rows \in Seq(Seq(Cell)) /\ Len(rows) = m
  <2>1. rows \in [1..m -> Seq(Cell)]
    BY <1>3, <1>4
  <2>2. QED BY <1>2, <2>1, SeqIs, Zenon
<1>6. PICK e : LaidOut(f, rows, e, m)
  <2>1. \E e : LaidOut(FlattenSeq(rows), rows, e, Len(rows))
    BY <1>5, Flatten, Zenon
  <2>2. QED BY <1>1, <1>5, <2>1
<1>7. f \in Seq(Cell) /\ \A k \in 1..m : Holds(f, e[k - 1], rows[k])
  BY <1>6, Zenon DEF LaidOut
<1>8. r \in 1..m /\ rows[r] = NamespaceBytes(c.namespaces[r])
  BY <1>1, <1>3
<1>9. QED BY <1>1, <1>4, <1>7, <1>8, Zenon

\* A namespace that stands behind the table's head.
Row(d, c, r, from, to) ==
  \E at \in Nat : /\ from <= at /\ Holds(d, at, NamespaceBytes(c.namespaces[r]))
                  /\ at + Len(NamespaceBytes(c.namespaces[r])) <= to

LEMMA DigestsHold ==
  ASSUME NEW c, IsCredential(c)
  PROVE  /\ ValueDigests(c) \in Seq(Cell) /\ Len(ValueDigests(c)) \in Nat /\ 14 <= Len(ValueDigests(c))
         /\ Holds(ValueDigests(c), 0, VALUE_DIGESTS_OPEN_KEY)
         /\ ValueDigests(c)[14] = <<"byte", First(160, 184, Len(c.namespaces))>>
         /\ \A r \in 1..Len(c.namespaces) : Row(ValueDigests(c), c, r, 14, Len(ValueDigests(c)))
<1>1. PICK m, a, h, f : /\ m = Len(c.namespaces) /\ a = VALUE_DIGESTS_OPEN_KEY /\ h = map_header(m)
                        /\ f = FlattenSeq(NamespaceRows(c))
  OBVIOUS
<1>2. m \in Nat
  BY <1>1, CredentialType
<1>3. a \in Seq(Cell) /\ Len(a) = 13
  BY <1>1, SigTagsAre, LiteralCells DEF VALUE_DIGESTS_OPEN_KEY
<1>4. h \in Seq(Cell) /\ Len(h) = HeadLen(m) /\ h[1] = <<"byte", First(160, 184, m)>> /\ HeadLen(m) \in Nat
      /\ HeadLen(m) >= 1
  BY <1>1, <1>2, MapHead, HeadLenType DEF Header
<1>5. f \in Seq(Cell)
  BY <1>1, TableIs, Zenon DEF TablePlaced
<1>6. PICK g, d : g = a \o h /\ d = g \o f
  OBVIOUS
<1>7. Extended(g, a, h) /\ g \in Seq(Cell)
  BY <1>3, <1>4, <1>6, Behind, Zenon
<1>8. Extended(d, g, f) /\ d \in Seq(Cell)
  BY <1>5, <1>6, <1>7, Behind, Zenon
<1>9. /\ Len(g) = Len(a) + Len(h) /\ Len(d) = Len(g) + Len(f) /\ Len(f) \in Nat /\ Len(g) \in Nat
      /\ Holds(d, 0, a) /\ Holds(d, 0, g) /\ Holds(g, Len(a), h)
  BY <1>3, <1>7, <1>8, Zenon DEF Extended
<1>10. Len(d) \in Nat /\ 14 <= Len(g) /\ 14 <= Len(d)
  BY <1>3, <1>4, <1>9
<1>11. d[14] = h[1]
  <2>1. 14 \in 1..Len(g) /\ 1 \in 1..Len(h) /\ 0 + 14 = 14 /\ Len(a) + 1 = 14
    BY <1>3, <1>4, <1>10
  <2>2. d[0 + 14] = g[14] /\ g[Len(a) + 1] = h[1]
    BY <1>9, <2>1, Zenon DEF Holds
  <2>3. QED BY <2>1, <2>2
<1>12. ASSUME NEW r \in 1..m PROVE Row(d, c, r, 14, Len(d))
  <2>1. PICK b : b = NamespaceBytes(c.namespaces[r])
    OBVIOUS
  <2>2. PICK at : b \in Seq(Cell) /\ Holds(f, at, b)
    BY <1>1, <2>1, RowsLaid, Zenon
  <2>3. at \in Nat /\ at + Len(b) <= Len(f) /\ Len(b) \in Nat
    BY <2>2, LenProperties DEF Holds
  <2>4. Holds(d, Len(g) + at, b)
    BY <1>5, <1>7, <1>8, <2>2, <1>9, HoldsPart, Zenon DEF Extended
  <2>5. Len(g) + at \in Nat /\ 14 <= Len(g) + at /\ Len(g) + at + Len(b) <= Len(d)
    BY <1>9, <1>10, <2>3
  <2>6. QED BY <2>1, <2>4, <2>5, Zenon DEF Row
<1>13. d = ValueDigests(c)
  BY <1>1, <1>6, Zenon DEF ValueDigests, NamespaceRows
<1>14. QED BY <1>1, <1>4, <1>8, <1>9, <1>10, <1>11, <1>12, <1>13, Zenon

\* The signed bytes s of c, with what a wallet searches them for.
Laid(s, c, pv, pd, pk) ==
  /\ s \in Seq(Cell) /\ Len(s) \in Nat /\ pv \in Nat /\ pd \in Nat /\ pk \in Nat
  /\ Holds(s, 26, DOC_TYPE_KEY) /\ Holds(s, pv, VALIDITY_OPEN)
  /\ Holds(s, pv + 43, VALIDITY_MID_FROM) /\ Holds(s, pv + 75, VALIDITY_MID_UNTIL)
  /\ Holds(s, pd, VALUE_DIGESTS_OPEN_KEY) /\ Holds(s, pk, DEVICE_KEY_INFO)
  /\ 34 <= pv /\ pv + 108 <= pd /\ pd + 14 <= pk /\ pk + 124 <= Len(s)
  /\ s[pd + 14] = <<"byte", First(160, 184, Len(c.namespaces))>>
  /\ \A r \in 1..Len(c.namespaces) : Row(s, c, r, pd + 14, pk)

LEMMA SigHolds ==
  ASSUME NEW c, IsCredential(c)
  PROVE  \E pv, pd, pk : Laid(SigStructure(c), c, pv, pd, pk)
<1>1. PICK o, v, d, k : o = Opening(c) /\ v = Validity(c) /\ d = ValueDigests(c) /\ k = DeviceKeyInfo(c)
  OBVIOUS
<1>2. c.doc_type \in Names /\ c.from \in Day /\ c.until \in Day /\ c.device \in DOMAIN Devices
  BY CredentialType
<1>3. o \in Seq(Cell) /\ Holds(o, 26, DOC_TYPE_KEY)
  BY <1>1, <1>2, OpeningHolds, Zenon
<1>4. /\ v \in Seq(Cell) /\ Len(v) = 108 /\ Holds(v, 0, VALIDITY_OPEN)
      /\ Holds(v, 43, VALIDITY_MID_FROM) /\ Holds(v, 75, VALIDITY_MID_UNTIL)
  BY <1>1, <1>2, ValidityHolds, Zenon
<1>5. /\ d \in Seq(Cell) /\ Len(d) \in Nat /\ 14 <= Len(d) /\ Holds(d, 0, VALUE_DIGESTS_OPEN_KEY)
      /\ d[14] = <<"byte", First(160, 184, Len(c.namespaces))>>
      /\ \A r \in 1..Len(c.namespaces) : Row(d, c, r, 14, Len(d))
  BY <1>1, DigestsHold, Zenon
<1>6. k \in Seq(Cell) /\ Len(k) = 124 /\ Holds(k, 0, DEVICE_KEY_INFO)
  BY <1>1, <1>2, KeyHolds, Zenon
<1>7. PICK s1, s2, s : s1 = o \o v /\ s2 = s1 \o d /\ s = s2 \o k
  OBVIOUS
<1>8. Extended(s1, o, v) /\ s1 \in Seq(Cell)
  BY <1>3, <1>4, <1>7, Behind, Zenon
<1>9. Extended(s2, s1, d) /\ s2 \in Seq(Cell)
  BY <1>5, <1>7, <1>8, Behind, Zenon
<1>10. Extended(s, s2, k) /\ s \in Seq(Cell)
  BY <1>6, <1>7, <1>9, Behind, Zenon
<1>11. PICK pv, pd, pk, ld : pv = Len(o) /\ pd = Len(s1) /\ pk = Len(s2) /\ ld = Len(d)
  OBVIOUS
<1>12. /\ pv \in Nat /\ pd \in Nat /\ pk \in Nat
       /\ pd = pv + 108 /\ pk = pd + ld /\ Len(s) = pk + 124 /\ 14 <= ld /\ ld \in Nat
  <2>1. Len(s1) = Len(o) + Len(v) /\ Len(s2) = Len(s1) + Len(d) /\ Len(s) = Len(s2) + Len(k)
        /\ Len(o) \in Nat /\ Len(s1) \in Nat /\ Len(s2) \in Nat
    BY <1>8, <1>9, <1>10, Zenon DEF Extended
  <2>2. QED BY <1>4, <1>5, <1>6, <1>11, <2>1
<1>13. 34 <= pv
  <2>1. 26 + Len(DOC_TYPE_KEY) <= Len(o)
    BY <1>3, Zenon DEF Holds
  <2>2. Len(DOC_TYPE_KEY) = 8
    BY SigTagsAre, LiteralCells DEF DOC_TYPE_KEY
  <2>3. QED BY <1>11, <1>12, <2>1, <2>2
<1>14. /\ DOC_TYPE_KEY \in Seq(Cell) /\ VALIDITY_OPEN \in Seq(Cell) /\ VALIDITY_MID_FROM \in Seq(Cell)
       /\ VALIDITY_MID_UNTIL \in Seq(Cell) /\ VALUE_DIGESTS_OPEN_KEY \in Seq(Cell) /\ DEVICE_KEY_INFO \in Seq(Cell)
  BY SigTagsAre, LiteralCells DEF DOC_TYPE_KEY, VALIDITY_OPEN, VALIDITY_MID_FROM, VALIDITY_MID_UNTIL,
     VALUE_DIGESTS_OPEN_KEY, DEVICE_KEY_INFO
<1>15. \A p \in Seq(Cell) : \A a :
          /\ Holds(o, a, p) => Holds(s, a, p)
          /\ Holds(s1, a, p) => Holds(s, a, p)
          /\ Holds(s2, a, p) => Holds(s, a, p)
  BY <1>8, <1>9, <1>10, Zenon DEF Extended
<1>16. Holds(s1, pv, v) /\ Holds(s2, pd, d) /\ Holds(s, pk, k)
  BY <1>8, <1>9, <1>10, <1>11, Zenon DEF Extended
<1>17. Holds(s, pv, v) /\ Holds(s, pd, d)
  BY <1>4, <1>5, <1>15, <1>16, Zenon
<1>18. Holds(s, 26, DOC_TYPE_KEY)
  BY <1>3, <1>14, <1>15, Zenon
<1>19. Holds(s, pv, VALIDITY_OPEN) /\ Holds(s, pv + 43, VALIDITY_MID_FROM) /\ Holds(s, pv + 75, VALIDITY_MID_UNTIL)
  <2>0. \A p \in Seq(Cell) : \A a : Holds(v, a, p) => Holds(s, pv + a, p)
    BY <1>4, <1>10, <1>17, HoldsPart, Zenon
  <2>1. PICK x, y, f, u : x = 43 /\ y = 75 /\ f = VALIDITY_MID_FROM /\ u = VALIDITY_MID_UNTIL
    OBVIOUS
  <2>2. f \in Seq(Cell) /\ u \in Seq(Cell) /\ Holds(v, x, f) /\ Holds(v, y, u)
    BY <1>4, <1>14, <2>1
  <2>3. Holds(s, pv + x, f)
    BY <2>0, <2>2, Zenon
  <2>4. Holds(s, pv + y, u)
    BY <2>0, <2>2, Zenon
  <2>5. Holds(s, pv + 0, VALIDITY_OPEN)
    BY <1>4, <1>14, <2>0, Zenon
  <2>6. pv + 0 = pv
    BY <1>12
  <2>7. QED BY <2>1, <2>3, <2>4, <2>5, <2>6
<1>20. Holds(s, pd, VALUE_DIGESTS_OPEN_KEY) /\ Holds(s, pk, DEVICE_KEY_INFO)
  <2>1. Holds(s, pd + 0, VALUE_DIGESTS_OPEN_KEY)
    BY <1>5, <1>10, <1>14, <1>17, HoldsPart, Zenon
  <2>2. Holds(s, pk + 0, DEVICE_KEY_INFO)
    BY <1>6, <1>10, <1>14, <1>16, HoldsPart, Zenon
  <2>3. pd + 0 = pd /\ pk + 0 = pk
    BY <1>12
  <2>4. QED BY <2>1, <2>2, <2>3
<1>21. s[pd + 14] = <<"byte", First(160, 184, Len(c.namespaces))>>
  <2>1. 14 \in 1..Len(d)
    BY <1>5
  <2>2. s[pd + 14] = d[14]
    BY <1>17, <2>1, Zenon DEF Holds
  <2>3. QED BY <1>5, <2>2
<1>22. ASSUME NEW r \in 1..Len(c.namespaces) PROVE Row(s, c, r, pd + 14, pk)
  <2>1. PICK b : b = NamespaceBytes(c.namespaces[r])
    OBVIOUS
  <2>2. PICK at \in Nat : 14 <= at /\ Holds(d, at, b) /\ at + Len(b) <= ld
    BY <1>5, <1>11, <2>1, Zenon DEF Row
  <2>3. b \in Seq(Cell) /\ Len(b) \in Nat
    BY <2>1, RowsLaid, LenProperties
  <2>4. Holds(s, pd + at, b)
    BY <1>5, <1>10, <1>17, <2>2, <2>3, HoldsPart, Zenon
  <2>5. pd + at \in Nat /\ pd + 14 <= pd + at /\ pd + at + Len(b) <= pk
    BY <1>12, <2>2, <2>3
  <2>6. QED BY <2>1, <2>4, <2>5, Zenon DEF Row
<1>23. s = SigStructure(c)
  BY <1>1, <1>7, Zenon DEF SigStructure
<1>24. pv + 108 <= pd /\ pd + 14 <= pk /\ pk + 124 <= Len(s) /\ Len(s) \in Nat
  BY <1>12
<1>25. Laid(s, c, pv, pd, pk)
  BY <1>10, <1>12, <1>13, <1>18, <1>19, <1>20, <1>21, <1>22, <1>24 DEF Laid
<1>26. QED BY <1>23, <1>25, Zenon

\* A search from an offset on finds what stands behind it, there or earlier.
LEMMA Located ==
  ASSUME NEW i \in DOMAIN Credentials, NEW s, s = SigTable[i], s \in Seq(Cell), NEW from \in Nat,
         NEW p \in Seq(Cell), NEW a \in Nat, from <= a, Holds(s, a, p), NEW at, at = Locate(i, from, p)
  PROVE  at \in Nat /\ from <= at /\ at <= a /\ Holds(s, at, p)
<1>1. PICK n, l : n = Len(p) /\ l = Len(s)
  OBVIOUS
<1>2. n \in Nat /\ l \in Nat
  BY <1>1, LenProperties
<1>0. \A k \in Nat : k + n <= l => (BytesAt(s, k, n) = p <=> Holds(s, k, p))
  BY <1>1, <1>2, Read
<1>3. \A k \in Nat : Holds(s, k, p) => k + n <= l /\ BytesAt(s, k, n) = p
  <2>1. \A k \in Nat : Holds(s, k, p) => k + n <= l
    BY <1>1, Zenon DEF Holds
  <2>2. QED BY <1>0, <2>1, Zenon
<1>4. \A k \in Nat : k + n <= l /\ BytesAt(s, k, n) = p => Holds(s, k, p)
  BY <1>0, Zenon
<1>5. PICK T : T = {k \in Nat : from <= k /\ Holds(s, k, p)}
  OBVIOUS
<1>6. T \in SUBSET Nat /\ T # {}
  BY <1>5
<1>7. PICK m \in T : \A k \in T : m <= k
  BY <1>6, Least, Zenon
<1>8. m \in Nat /\ from <= m /\ Holds(s, m, p)
  BY <1>5, <1>7, Zenon
<1>9. m \in from..(l - n) /\ BytesAt(s, m, n) = p
  <2>1. m + n <= l /\ BytesAt(s, m, n) = p
    BY <1>3, <1>8, Zenon
  <2>2. QED BY <1>2, <1>8, <2>1
<1>10. ASSUME NEW q \in from..(m - 1) PROVE BytesAt(s, q, n) # p
  <2>1. q \in Nat /\ from <= q /\ q < m /\ ~(m <= q) /\ q + n <= l
    BY <1>2, <1>8, <1>9, <1>10
  <2>2. q \notin T
    BY <1>7, <2>1, Zenon
  <2>3. QED BY <1>4, <1>5, <2>1, <2>2, Zenon
<1>11. at = CHOOSE x \in from..(l - n) :
              BytesAt(s, x, n) = p /\ \A q \in from..(x - 1) : BytesAt(s, q, n) # p
  BY <1>1, Zenon DEF Locate
<1>12. at \in from..(l - n) /\ BytesAt(s, at, n) = p /\ \A q \in from..(at - 1) : BytesAt(s, q, n) # p
  BY <1>9, <1>10, <1>11, Zenon
<1>13. at \in Nat /\ from <= at /\ at + n <= l
  BY <1>2, <1>12
<1>14. at <= a
  <2>1. SUFFICES ASSUME ~(at <= a) PROVE FALSE
    OBVIOUS
  <2>2. a \in from..(at - 1)
    BY <1>13, <2>1
  <2>3. QED BY <1>3, <1>12, <2>2, Zenon
<1>15. QED BY <1>4, <1>12, <1>13, <1>14, Zenon

LEMMA WidthIs ==
  ASSUME NEW u, NEW at
  PROVE  digest_id_width(u, at) \in Nat
BY DEF digest_id_width

LEMMA EntryLaid ==
  ASSUME NEW i \in DOMAIN Items
  PROVE  /\ EntryBytes(i) \in Seq(Cell) /\ Len(Items[i].id) \in Nat /\ Len(Items[i].id) >= 1
         /\ Len(EntryBytes(i)) = Len(Items[i].id) + 34
         /\ Holds(EntryBytes(i), Len(Items[i].id), BSTR32)
         /\ Holds(EntryBytes(i), Len(Items[i].id) + 2, ItemDigest(i))
<1>1. PICK id, a, h, d : id = Items[i].id /\ a = Bytes(id) /\ h = BSTR32 /\ d = ItemDigest(i)
  OBVIOUS
<1>2. i \in Nat /\ id \in Seq(Nat) /\ Len(id) \in Nat /\ Len(id) >= 1
  BY <1>1, ItemType, LenProperties DEF IsDigestId
<1>3. a \in Seq(Cell) /\ Len(a) = Len(id)
  BY <1>1, <1>2, BytesIs, Zenon
<1>4. h \in Seq(Cell)
  BY <1>1, HeadBytes
<1>5. d \in Seq(Cell)
  BY <1>1, <1>2, DigestIs, Zenon
<1>6. PICK g, b : g = a \o h /\ b = g \o d
  OBVIOUS
<1>7. Extended(g, a, h) /\ g \in Seq(Cell)
  BY <1>3, <1>4, <1>6, Behind, Zenon
<1>8. Extended(b, g, d) /\ b \in Seq(Cell)
  BY <1>5, <1>6, <1>7, Behind, Zenon
<1>9. Holds(b, Len(id), h)
  BY <1>3, <1>4, <1>7, <1>8, Zenon DEF Extended
<1>10. b = EntryBytes(i)
  BY <1>1, <1>6, Zenon DEF EntryBytes
<1>11. Len(b) = Len(id) + 34 /\ Holds(b, Len(id) + 2, d)
  BY <1>1, <1>10, EntryIs, Zenon DEF Entry
<1>12. QED BY <1>1, <1>2, <1>8, <1>9, <1>10, <1>11, Zenon

\* Where an entry stands, the walk reads its head.
Headed(u, x) ==
  x \in Nat /\ x + 7 <= Len(u) /\ BytesAt(u, x + digest_id_width(u, x), 2) = BSTR32

LEMMA EntryHeaded ==
  ASSUME NEW u \in Seq(Cell), NEW i \in DOMAIN Items, NEW x, Holds(u, x, EntryBytes(i))
  PROVE  Headed(u, x)
<1>1. PICK b, n, w, l : b = EntryBytes(i) /\ n = Len(Items[i].id) /\ w = digest_id_width(u, x) /\ l = Len(u)
  OBVIOUS
<1>2. b \in Seq(Cell) /\ n \in Nat /\ n >= 1 /\ Len(b) = n + 34 /\ Holds(b, n, BSTR32)
  BY <1>1, EntryLaid, Zenon
<1>3. x \in Nat /\ x + Len(b) <= l /\ l \in Nat
  BY <1>1, LenProperties DEF Holds
<1>4. w = n
  <2>1. entry_end(u, x) = x + Len(b)
    BY <1>1, EntryEnds, Zenon
  <2>2. ~(x < 0)
    BY <1>3
  <2>3. entry_end(u, x) = IF w = 0 THEN -1 ELSE x + w + 34
    BY <1>1, <2>2, Zenon DEF entry_end, DIGEST_VALUE_LEN
  <2>4. w \in Nat
    BY <1>1, WidthIs
  <2>5. QED BY <1>2, <1>3, <2>1, <2>3, <2>4
<1>5. BSTR32 \in Seq(Cell) /\ Len(BSTR32) = 2
  BY HeadBytes
<1>6. Holds(u, x + n, BSTR32)
  BY <1>1, <1>2, <1>5, HoldsPart, Zenon
<1>7. x + n \in Nat /\ x + n + 2 <= l /\ x + 7 <= l /\ 2 \in Nat
  BY <1>2, <1>3
<1>8. BytesAt(u, x + n, 2) = BSTR32
  <2>1. ReadAt(u, x + n, BSTR32)
    BY <1>5, <1>6, <1>7, Reads, Zenon
  <2>2. QED BY <1>5, <2>1 DEF ReadAt
<1>9. QED BY <1>1, <1>3, <1>4, <1>7, <1>8, Zenon DEF Headed

\* The walk over a namespace stops at every entry, and every item's digest lies in between.
LEMMA WalkStops ==
  ASSUME NEW u \in Seq(Cell), NEW ns, IsNamespace(ns), NEW at, Holds(u, at, NamespaceBytes(ns))
  PROVE  /\ \A i \in 0..(Len(ns.items) - 1) : Headed(u, native_region_end(u, at + BodyAt(ns), i))
         /\ \A k \in 1..Len(ns.items) : \E x \in Nat :
              /\ at + BodyAt(ns) <= x /\ x + 32 <= at + Len(NamespaceBytes(ns))
              /\ Holds(u, x, ItemDigest(ns.items[k]))
<1>1. PICK b, m, rows, base : /\ b = NamespaceBytes(ns) /\ m = Len(ns.items) /\ rows = EntryRows(ns)
                              /\ base = at + BodyAt(ns)
  OBVIOUS
<1>2. NamespacePlaced(b, ns)
  BY <1>1, NamespaceIs
<1>3. PICK f, e : EntriesAre(f, ns, e) /\ Holds(b, BodyAt(ns), f) /\ Len(b) = BodyAt(ns) + Len(f)
  BY <1>2, Zenon DEF NamespacePlaced
<1>4. b \in Seq(Cell) /\ BodyAt(ns) \in Nat /\ f \in Seq(Cell) /\ Len(f) \in Nat /\ at \in Nat /\ base \in Nat
  <2>1. b \in Seq(Cell) /\ BodyAt(ns) \in Nat
    BY <1>2, Zenon DEF NamespacePlaced
  <2>2. f \in Seq(Cell) /\ Len(f) \in Nat
    BY <1>3, Zenon DEF EntriesAre
  <2>3. at \in Nat
    BY Zenon DEF Holds
  <2>4. QED BY <1>1, <2>1, <2>2, <2>3
<1>5. Holds(u, base, f)
  <2>1. Holds(u, at, b)
    BY <1>1
  <2>2. QED BY <1>1, <1>3, <1>4, <2>1, HoldsPart, Zenon
<1>6. LaidOut(f, rows, e, m) /\ Ends(rows, e, m) /\ Len(f) = e[m]
  BY <1>1, <1>3 DEF EntriesAre, LaidOut
<1>7. /\ m \in Nat /\ \A r \in 1..m : ns.items[r] \in DOMAIN Items /\ rows[r] = EntryBytes(ns.items[r])
  BY <1>1, EntriesLaid
<1>8. ASSUME NEW r \in 1..m
      PROVE  /\ e[r - 1] \in Nat /\ Holds(u, base + e[r - 1], rows[r]) /\ rows[r] \in Seq(Cell)
             /\ Len(rows[r]) \in Nat /\ e[r] = e[r - 1] + Len(rows[r]) /\ e[r - 1] + Len(rows[r]) <= Len(f)
  <2>1. Holds(f, e[r - 1], rows[r]) /\ e[r - 1] \in Nat
    BY <1>6, Zenon DEF LaidOut, Holds
  <2>2. rows[r] \in Seq(Cell) /\ Len(rows[r]) \in Nat
    <3>1. Entry(rows[r], ns.items[r])
      BY <1>7, EntryIs, Zenon
    <3>2. QED BY <3>1, LenProperties DEF Entry
  <2>3. Holds(u, base + e[r - 1], rows[r])
    BY <1>4, <1>5, <2>1, <2>2, HoldsPart, Zenon
  <2>4. QED BY <1>6, <2>1, <2>2, <2>3, Zenon DEF Ends, Holds
<1>9. PICK x : x = [r \in 0..m |-> base + e[r]]
  OBVIOUS
<1>10. x[0] = base /\ \A r \in 0..m : x[r] = base + e[r]
  <2>1. 0 \in 0..m /\ e[0] = 0
    BY <1>6, <1>7 DEF Ends
  <2>2. QED BY <1>4, <1>9, <2>1
<1>11. ASSUME NEW r \in 1..m
       PROVE  Holds(u, x[r - 1], EntryBytes(ns.items[r])) /\ entry_end(u, x[r - 1]) = x[r]
  <2>1. r \in 0..m /\ r - 1 \in 0..m
    BY <1>7
  <2>2. x[r] = base + e[r] /\ x[r - 1] = base + e[r - 1]
    BY <1>10, <2>1
  <2>3. Holds(u, x[r - 1], EntryBytes(ns.items[r])) /\ ns.items[r] \in DOMAIN Items
    BY <1>7, <1>8, <2>2, Zenon
  <2>4. entry_end(u, x[r - 1]) = x[r - 1] + Len(EntryBytes(ns.items[r]))
    BY <2>3, EntryEnds, Zenon
  <2>5. Len(EntryBytes(ns.items[r])) = Len(rows[r]) /\ Len(rows[r]) \in Nat /\ e[r - 1] \in Nat
        /\ e[r] = e[r - 1] + Len(rows[r])
    BY <1>7, <1>8
  <2>6. QED BY <1>4, <2>2, <2>3, <2>4, <2>5
<1>12. ASSUME NEW i \in 0..(m - 1) PROVE Headed(u, native_region_end(u, base, i))
  <2>1. i \in Nat /\ i + 1 \in 1..m /\ (i + 1) - 1 = i /\ \A r \in 1..i : r \in 1..m
    BY <1>7
  <2>2. native_region_end(u, x[0], i) = x[i]
    BY <1>11, <2>1, WalkEnds, Zenon
  <2>3. Holds(u, x[(i + 1) - 1], EntryBytes(ns.items[i + 1])) /\ ns.items[i + 1] \in DOMAIN Items
    BY <1>7, <1>11, <2>1, Zenon
  <2>4. Headed(u, x[(i + 1) - 1])
    BY <2>3, EntryHeaded, Zenon
  <2>5. QED BY <1>10, <2>1, <2>2, <2>4
<1>13. ASSUME NEW k \in 1..m
       PROVE  \E y \in Nat : base <= y /\ y + 32 <= at + Len(b) /\ Holds(u, y, ItemDigest(ns.items[k]))
  <2>1. PICK j, n, z, le : /\ j = ns.items[k] /\ n = Len(Items[ns.items[k]].id) /\ z = e[k - 1]
                           /\ le = Len(rows[k])
    OBVIOUS
  <2>2. j \in DOMAIN Items /\ rows[k] = EntryBytes(j)
    BY <1>7, <2>1
  <2>3. n \in Nat /\ le = n + 34 /\ Holds(rows[k], n + 2, ItemDigest(j))
    BY <2>1, <2>2, EntryLaid, Zenon
  <2>4. ItemDigest(j) \in Seq(Cell)
    <3>1. j \in Nat
      BY <2>2, ItemType
    <3>2. QED BY <3>1, DigestIs, Zenon
  <2>5. z \in Nat /\ Holds(u, base + z, rows[k]) /\ rows[k] \in Seq(Cell) /\ z + le <= Len(f)
    BY <1>8, <2>1, Zenon
  <2>6. Holds(u, base + z + (n + 2), ItemDigest(j))
    <3>1. PICK row, y, a, d : row = rows[k] /\ y = n + 2 /\ a = base + z /\ d = ItemDigest(j)
      OBVIOUS
    <3>2. row \in Seq(Cell) /\ d \in Seq(Cell) /\ Holds(u, a, row) /\ Holds(row, y, d)
      BY <2>3, <2>4, <2>5, <3>1
    <3>3. Holds(u, a + y, d)
      BY <3>2, HoldsPart, Zenon
    <3>4. QED BY <3>1, <3>3
  <2>7. base + Len(f) = at + Len(b)
    BY <1>1, <1>3, <1>4
  <2>8. /\ base + z + (n + 2) \in Nat /\ base <= base + z + (n + 2)
        /\ base + z + (n + 2) + 32 <= at + Len(b)
    <3>1. base + z + (n + 2) + 32 <= base + Len(f)
      BY <1>4, <2>3, <2>5
    <3>2. base + z + (n + 2) \in Nat /\ base <= base + z + (n + 2)
      BY <1>4, <2>3, <2>5
    <3>3. QED BY <2>7, <3>1, <3>2, Zenon
  <2>9. QED BY <2>1, <2>6, <2>8, Zenon
<1>14. QED BY <1>1, <1>12, <1>13, Zenon

\* An anchor stands where it stands only.
LEMMA AnchorOnly ==
  ASSUME NEW name \in Tags, NEW len \in Nat, len >= 1, NEW l, l = Literal(name, len), NEW s \in Seq(Cell),
         NEW at \in Nat, Holds(s, at, l), NEW x, x = <<name, 0>>, NEW a \in Nat, OnlyAt(s, x, a)
  PROVE  at = a
<1>1. l \in Seq(Cell) /\ Len(l) = len /\ \A k \in 1..len : l[k] = <<name, k - 1>>
  BY LiteralIs, Zenon
<1>2. 1 \in 1..len /\ 1 - 1 = 0
  OBVIOUS
<1>3. l[1] = x
  BY <1>1, <1>2
<1>4. Len(l) >= 1
  BY <1>1
<1>5. QED BY <1>1, <1>3, <1>4, Anchored, Zenon

\* Where the anchors are searched for and where they were laid is the same.
LEMMA SameAnchors ==
  ASSUME NEW c, IsCredential(c), NEW s, NEW pv, NEW pd, NEW pk, SigPlaced(s, c, pv, pd, pk), s = SigStructure(c)
  PROVE  Laid(s, c, pv, pd, pk)
<1>1. PICK qv, qd, qk : Laid(s, c, qv, qd, qk)
  BY SigHolds, Zenon
<1>2. /\ s \in Seq(Cell) /\ pv \in Nat /\ pd \in Nat /\ pk \in Nat /\ OnlyAt(s, <<"validityInfo", 0>>, pv)
      /\ OnlyAt(s, <<"valueDigests", 0>>, pd) /\ OnlyAt(s, <<"deviceKeyInfo", 0>>, pk)
  BY DEF SigPlaced
<1>3. /\ qv \in Nat /\ qd \in Nat /\ qk \in Nat /\ Holds(s, qv, VALIDITY_OPEN)
      /\ Holds(s, qd, VALUE_DIGESTS_OPEN_KEY) /\ Holds(s, qk, DEVICE_KEY_INFO)
  BY <1>1, Zenon DEF Laid
<1>4. "validityInfo" \in Tags /\ "valueDigests" \in Tags /\ "deviceKeyInfo" \in Tags
  BY SigTagsAre
<1>5. 23 \in Nat /\ 23 >= 1 /\ 13 \in Nat /\ 13 >= 1 /\ 33 \in Nat /\ 33 >= 1
  OBVIOUS
<1>6. qv = pv
  BY <1>2, <1>3, <1>4, <1>5, AnchorOnly DEF VALIDITY_OPEN
<1>7. qd = pd
  BY <1>2, <1>3, <1>4, <1>5, AnchorOnly DEF VALUE_DIGESTS_OPEN_KEY
<1>8. qk = pk
  BY <1>2, <1>3, <1>4, <1>5, AnchorOnly DEF DEVICE_KEY_INFO
<1>9. QED BY <1>1, <1>6, <1>7, <1>8

\* The fixed anchors are found.
AnchorsAt(i, pv, pd, pk) ==
  /\ Locate(i, 0, VALUE_DIGESTS_OPEN_KEY) = pd /\ Locate(i, 0, DEVICE_KEY_INFO) = pk
  /\ Locate(i, 0, DOC_TYPE_KEY) = 26 /\ Locate(i, 0, VALIDITY_OPEN) = pv

LEMMA AnchorsFound ==
  ASSUME NEW i \in DOMAIN Credentials, NEW c, NEW s, s = SigTable[i], NEW pv, NEW pd, NEW pk,
         SigPlaced(s, c, pv, pd, pk), Laid(s, c, pv, pd, pk)
  PROVE  AnchorsAt(i, pv, pd, pk)
<1>1. /\ s \in Seq(Cell) /\ pv \in Nat /\ pd \in Nat /\ pk \in Nat /\ OnlyAt(s, <<"validityInfo", 0>>, pv)
      /\ OnlyAt(s, <<"valueDigests", 0>>, pd) /\ OnlyAt(s, <<"deviceKeyInfo", 0>>, pk)
      /\ OnlyAt(s, <<"docType", 0>>, 26)
  BY DEF SigPlaced
<1>2. /\ Holds(s, pv, VALIDITY_OPEN) /\ Holds(s, 26, DOC_TYPE_KEY)
      /\ Holds(s, pd, VALUE_DIGESTS_OPEN_KEY) /\ Holds(s, pk, DEVICE_KEY_INFO)
  BY Zenon DEF Laid
<1>3. "validityInfo" \in Tags /\ "valueDigests" \in Tags /\ "deviceKeyInfo" \in Tags /\ "docType" \in Tags
  BY SigTagsAre
<1>4. 23 \in Nat /\ 23 >= 1 /\ 13 \in Nat /\ 13 >= 1 /\ 33 \in Nat /\ 33 >= 1 /\ 8 \in Nat /\ 8 >= 1
      /\ 0 \in Nat /\ 26 \in Nat
  OBVIOUS
<1>5. ASSUME NEW name \in Tags, NEW len \in Nat, len >= 1, NEW l, l = Literal(name, len), NEW a \in Nat,
             Holds(s, a, l), NEW x, x = <<name, 0>>, OnlyAt(s, x, a)
      PROVE  Locate(i, 0, l) = a
  <2>1. l \in Seq(Cell)
    BY <1>5, LiteralCells, Zenon
  <2>2. PICK at : at = Locate(i, 0, l)
    OBVIOUS
  <2>3. 0 \in Nat /\ 0 <= a
    BY <1>5
  <2>4. at \in Nat /\ Holds(s, at, l)
    BY <1>1, <1>5, <2>1, <2>2, <2>3, Located, Zenon
  <2>5. at = a
    BY <1>1, <1>5, <2>4, AnchorOnly, Zenon
  <2>6. QED BY <2>2, <2>5
<1>6. Locate(i, 0, VALUE_DIGESTS_OPEN_KEY) = pd
  BY <1>1, <1>2, <1>3, <1>4, <1>5 DEF VALUE_DIGESTS_OPEN_KEY
<1>7. Locate(i, 0, DEVICE_KEY_INFO) = pk
  BY <1>1, <1>2, <1>3, <1>4, <1>5 DEF DEVICE_KEY_INFO
<1>8. Locate(i, 0, DOC_TYPE_KEY) = 26
  BY <1>1, <1>2, <1>3, <1>4, <1>5 DEF DOC_TYPE_KEY
<1>9. Locate(i, 0, VALIDITY_OPEN) = pv
  BY <1>1, <1>2, <1>3, <1>4, <1>5 DEF VALIDITY_OPEN
<1>10. QED BY <1>6, <1>7, <1>8, <1>9 DEF AnchorsAt

\* The opening of a namespace: its name and the number of its entries.
NamespaceOpen(ns) == NameBytes(ns.name) \o map_header(Len(ns.items))

OpenPlaced(e, ns) ==
  /\ NsOpen(e, ns.name, Len(ns.items)) /\ Tagged(e, {"byte", ns.name}) /\ Len(e) = BodyAt(ns)
  /\ e[1] = <<"byte", First(96, 120, NameLen[ns.name])>> /\ e \in Seq(Cell) /\ Len(e) \in Nat /\ Len(e) >= 1
  /\ Holds(NamespaceBytes(ns), 0, e)

LEMMA OpenIs ==
  ASSUME NEW ns, IsNamespace(ns), NEW e, e = NamespaceOpen(ns)
  PROVE  OpenPlaced(e, ns)
<1>1. PICK n, m, a, h : n = ns.name /\ m = Len(ns.items) /\ a = NameBytes(ns.name) /\ h = map_header(Len(ns.items))
  OBVIOUS
<1>2. n \in Names /\ m \in Nat /\ n \in Tags
  BY <1>1, EntriesLaid, NameType DEF IsNamespace
<1>3. e = a \o h
  BY <1>1 DEF NamespaceOpen
<1>4. PICK r : r.namespace = n /\ r.num_entries = m
  <2>1. PICK r : r = [namespace |-> n, num_entries |-> m]
    OBVIOUS
  <2>2. QED BY <2>1
<1>5. NsOpen(e, n, m)
  <2>1. ns_open(r) = e
    BY <1>1, <1>3, <1>4, Zenon DEF ns_open
  <2>2. NsOpen(ns_open(r), r.namespace, r.num_entries)
    BY <1>2, <1>4, NsOpenIs, Zenon
  <2>3. QED BY <1>4, <2>1, <2>2, Zenon
<1>6. Tagged(a, {"byte", n}) /\ a[1] = <<"byte", First(96, 120, NameLen[n])>>
  BY <1>1, <1>2, NameIs, Zenon DEF NamePlaced
<1>7. Tagged(h, {"byte"})
  BY <1>1, <1>2, MapHead, Zenon DEF Header
<1>8. Tagged(h, {"byte", n})
  BY <1>7, TagsGrow
<1>9. Joined(e, a, h) /\ Tagged(e, {"byte", n})
  BY <1>3, <1>6, <1>8, GlueIn, Zenon
<1>10. /\ Len(a) = HeadLen(NameLen[n]) + NameLen[n] /\ Len(e) = Len(a) + HeadLen(m) /\ HeadLen(m) \in Nat
       /\ Len(a) \in Nat /\ e \in Seq(Cell) /\ Holds(e, 0, a)
  BY <1>1, <1>5, Zenon DEF NsOpen
<1>11. NameLen[n] \in Nat /\ NameLen[n] >= 1 /\ HeadLen(NameLen[n]) \in Nat
  BY <1>2, NameType, HeadLenType
<1>12. Len(e) = BodyAt(ns) /\ Len(e) \in Nat /\ Len(e) >= 1 /\ 1 \in 1..Len(a)
  BY <1>1, <1>10, <1>11 DEF BodyAt, OpenLen
<1>13. e[1] = a[1]
  <2>1. e[0 + 1] = a[1]
    BY <1>10, <1>12, Zenon DEF Holds
  <2>2. QED BY <2>1
<1>14. Holds(NamespaceBytes(ns), 0, e)
  <2>1. PICK f : f = FlattenSeq(EntryRows(ns))
    OBVIOUS
  <2>2. f \in Seq(Cell)
    BY <2>1, EntriesExist, Zenon DEF EntriesAre
  <2>3. NamespaceBytes(ns) = e \o f
    BY <1>1, <1>3, <2>1 DEF NamespaceBytes, EntryRows
  <2>4. QED BY <1>10, <2>2, <2>3, Behind, Zenon DEF Extended
<1>15. QED BY <1>1, <1>5, <1>6, <1>9, <1>10, <1>12, <1>13, <1>14, Zenon DEF OpenPlaced

\* A namespace's opening is found where the namespace stands, in the table of digests.
Keyed(s, nk, ns, pd, pk) ==
  /\ nk \in Nat /\ pd + 14 <= nk /\ Holds(s, nk, NamespaceBytes(ns))
  /\ nk + Len(NamespaceBytes(ns)) <= pk

LEMMA NamespaceFound ==
  ASSUME NEW i \in DOMAIN Credentials, NEW c, NEW s, s = SigTable[i], NEW v, NEW z, NEW pv, NEW pd, NEW pk,
         Signed(c, s, v, z, pv, pd, pk), Laid(s, c, pv, pd, pk), FitsWindows(c),
         NEW r \in 1..Len(c.namespaces), NEW ns, ns = c.namespaces[r], NEW e, e = NamespaceOpen(ns),
         NEW nk, nk = Locate(i, pd, e)
  PROVE  Keyed(s, nk, ns, pd, pk)
<1>1. IsCredential(c) /\ Joined(v, s, z) /\ Tagged(z, {"byte"}) /\ SigPlaced(s, c, pv, pd, pk)
  BY Zenon DEF Signed
<1>2. Len(c.namespaces) \in Nat /\ DOMAIN c.namespaces = 1..Len(c.namespaces) /\ IsNamespace(ns)
  BY <1>1, CredentialType
<1>3. PICK b, n, m, ln : b = NamespaceBytes(ns) /\ n = ns.name /\ m = Len(ns.items) /\ ln = Len(c.namespaces)
  OBVIOUS
<1>4. b \in Seq(Cell) /\ Len(b) \in Nat
  BY <1>2, <1>3, NamespaceIs, LenProperties DEF NamespacePlaced
<1>5. /\ NsOpen(e, n, m) /\ e[1] = <<"byte", First(96, 120, NameLen[n])>> /\ Len(e) \in Nat /\ Len(e) >= 1
      /\ Holds(b, 0, e) /\ e \in Seq(Cell)
  <2>1. OpenPlaced(e, ns)
    BY <1>2, OpenIs, Zenon
  <2>2. QED BY <1>3, <2>1, Zenon DEF OpenPlaced
<1>6. n \in Names /\ m \in Nat /\ NameLen[n] \in Nat
  BY <1>2, <1>3, EntriesLaid, NameType DEF IsNamespace
<1>7. /\ s \in Seq(Cell) /\ pd \in Nat /\ pk \in Nat /\ Holds(s, pd, VALUE_DIGESTS_OPEN_KEY)
      /\ s[pd + 14] = <<"byte", First(160, 184, ln)>> /\ Row(s, c, r, pd + 14, pk)
  BY <1>3, Zenon DEF Laid
<1>8. PICK at \in Nat : pd + 14 <= at /\ Holds(s, at, b) /\ at + Len(b) <= pk
  BY <1>3, <1>7, Zenon DEF Row
<1>9. Holds(s, at, e)
  <2>1. Holds(s, at + 0, e)
    BY <1>4, <1>5, <1>7, <1>8, HoldsPart, Zenon
  <2>2. at + 0 = at
    BY <1>8
  <2>3. QED BY <2>1, <2>2, Zenon
<1>10. pd <= at
  BY <1>7, <1>8
<1>11. nk \in Nat /\ pd <= nk /\ nk <= at /\ Holds(s, nk, e)
  BY <1>5, <1>7, <1>8, <1>9, <1>10, Located, ZenonT(60)
<1>12. s[nk + 1] = <<"byte", First(96, 120, NameLen[n])>>
  <2>1. 1 \in 1..Len(e)
    BY <1>5
  <2>2. s[nk + 1] = e[1]
    BY <1>11, <2>1, Zenon DEF Holds
  <2>3. QED BY <1>5, <2>2
<1>13. pd + 14 <= nk
  <2>1. SUFFICES ASSUME ~(pd + 14 <= nk) PROVE FALSE
    OBVIOUS
  <2>2. CASE nk = pd + 13
    <3>1. nk + 1 = pd + 14
      BY <1>7, <2>2
    <3>2. s[nk + 1] = <<"byte", First(160, 184, ln)>>
      BY <1>7, <3>1
    <3>3. First(160, 184, ln) = First(96, 120, NameLen[n])
      BY <1>12, <3>2
    <3>4. First(96, 120, NameLen[n]) # First(160, 184, ln)
      <4>1. ln \in Nat /\ NameLen[n] \in Nat
        BY <1>2, <1>3, <1>6
      <4>2. PICK x, y : x = NameLen[n] /\ y = ln
        OBVIOUS
      <4>3. x \in Nat /\ y \in Nat
        BY <4>1, <4>2, Zenon
      <4>4. First(96, 120, x) # First(160, 184, y)
        BY <4>3, SMT DEF First
      <4>5. QED BY <4>2, <4>4, Zenon
    <3>5. QED BY <3>3, <3>4
  <2>3. CASE nk < pd + 13
    <3>1. PICK j, l, q, y : j = nk + 1 - pd /\ l = VALUE_DIGESTS_OPEN_KEY /\ q = 13 /\ y = "valueDigests"
      OBVIOUS
    <3>2. j \in 1..q /\ pd + j = nk + 1
      <4>1. pd \in Nat /\ nk \in Nat /\ pd <= nk /\ nk < pd + 13 /\ j = nk + 1 - pd /\ q = 13
        BY <1>7, <1>11, <2>3, <3>1, Zenon
      <4>2. j \in Nat /\ q \in Nat /\ 1 <= j /\ j <= q /\ pd + j = nk + 1
        BY <4>1
      <4>3. QED BY <4>2
    <3>3. Len(l) = q /\ \A k \in 1..q : l[k] = <<y, k - 1>>
      <4>1. y \in Tags /\ q \in Nat
        BY <3>1, SigTagsAre
      <4>2. l = Literal(y, q)
        BY <3>1 DEF VALUE_DIGESTS_OPEN_KEY
      <4>3. QED BY <4>1, <4>2, LiteralIs, ZenonT(60)
    <3>4. s[pd + j] = l[j]
      <4>1. Holds(s, pd, l) /\ j \in 1..Len(l)
        BY <1>7, <3>1, <3>2, <3>3
      <4>2. QED BY <4>1, Zenon DEF Holds
    <3>5. l[j] = <<y, j - 1>>
      BY <3>2, <3>3, Zenon
    <3>6. s[nk + 1] = <<"valueDigests", j - 1>>
      BY <3>1, <3>2, <3>4, <3>5
    <3>7. <<"valueDigests", j - 1>>[1] = "valueDigests"
          /\ <<"byte", First(96, 120, NameLen[n])>>[1] = "byte"
      OBVIOUS
    <3>8. s[nk + 1][1] = "valueDigests" /\ s[nk + 1][1] = "byte"
      BY <1>12, <3>6, <3>7, Zenon
    <3>9. QED BY <3>8
  <2>4. QED BY <1>7, <1>11, <2>1, <2>2, <2>3
<1>14. Holds(v, nk, e)
  BY <1>1, <1>5, <1>11, HoldsLeft, Zenon
<1>15. PICK t \in 1..ln : Placed(s, nk, c.namespaces[t], n, m)
  BY <1>1, <1>3, <1>5, <1>6, <1>11, <1>14, NamespaceAt, ZenonT(60)
<1>16. t = r
  <2>1. t \in DOMAIN c.namespaces /\ r \in DOMAIN c.namespaces
    BY <1>2, <1>3, <1>15, Zenon
  <2>2. c.namespaces[t].name = c.namespaces[r].name
    BY <1>3, <1>15, Zenon DEF Placed
  <2>3. QED BY <2>1, <2>2, Zenon DEF FitsWindows
<1>17. Holds(s, nk, b)
  BY <1>3, <1>15, <1>16, Zenon DEF Placed
<1>18. nk + Len(b) <= pk
  BY <1>4, <1>7, <1>8, <1>11
<1>19. QED BY <1>3, <1>11, <1>13, <1>17, <1>18, Zenon DEF Keyed

\* An item's digest is found among its namespace's entries.
DigestAt(s, d, nk, ns, j) ==
  /\ d \in Nat /\ nk + BodyAt(ns) <= d /\ d + 32 <= nk + Len(NamespaceBytes(ns))
  /\ Holds(s, d, ItemDigest(j))

LEMMA DigestFound ==
  ASSUME NEW i \in DOMAIN Credentials, NEW s \in Seq(Cell), s = SigTable[i], NEW ns, IsNamespace(ns),
         NEW nk \in Nat, Holds(s, nk, NamespaceBytes(ns)), NEW k \in 1..Len(ns.items), NEW j, j = ns.items[k],
         NEW d, d = Locate(i, nk, ItemDigest(j))
  PROVE  DigestAt(s, d, nk, ns, j)
<1>1. PICK b, e, g, l : b = NamespaceBytes(ns) /\ e = NamespaceOpen(ns) /\ g = ItemDigest(j) /\ l = BodyAt(ns)
  OBVIOUS
<1>2. b \in Seq(Cell) /\ Len(b) \in Nat
  BY <1>1, NamespaceIs, LenProperties DEF NamespacePlaced
<1>3. /\ Tagged(e, {"byte", ns.name}) /\ Len(e) = l /\ l \in Nat /\ Holds(b, 0, e) /\ e \in Seq(Cell)
  <2>1. OpenPlaced(e, ns)
    BY <1>1, OpenIs, Zenon
  <2>2. QED BY <1>1, <2>1, Zenon DEF OpenPlaced
<1>4. j \in DOMAIN Items /\ ns.name \in Names
  BY EntriesLaid DEF IsNamespace
<1>5. j \in Nat
  BY <1>4, ItemType
<1>6. Tagged(g, {"sha256"}) /\ g \in Seq(Cell) /\ Len(g) = 32
  BY <1>1, <1>5, DigestIs, Zenon
<1>7. PICK x \in Nat : nk + l <= x /\ x + 32 <= nk + Len(b) /\ Holds(s, x, g)
  BY <1>1, WalkStops, Zenon
<1>8. nk <= x
  BY <1>3, <1>7
<1>9. d \in Nat /\ nk <= d /\ d <= x /\ Holds(s, d, g)
  BY <1>1, <1>6, <1>7, <1>8, Located, ZenonT(60)
<1>10. nk + l <= d
  <2>1. SUFFICES ASSUME ~(nk + l <= d) PROVE FALSE
    OBVIOUS
  <2>2. PICK p : p = d + 1 - nk
    OBVIOUS
  <2>3. p \in 1..l /\ nk + p = d + 1 /\ 1 \in 1..32
    <3>1. l \in Nat /\ d \in Nat /\ nk <= d
      BY <1>3, <1>9, Zenon
    <3>2. p \in Nat /\ 1 <= p /\ nk + p = d + 1
      BY <2>2, <3>1, SMT
    <3>3. p <= l
      BY <2>1, <2>2, <3>1, SMT
    <3>4. p \in 1..l
      BY <3>1, <3>2, <3>3, SMT
    <3>5. 1 \in 1..32
      BY SMT
    <3>6. QED BY <3>2, <3>4, <3>5, Zenon
  <2>4. Holds(s, nk, e)
    <3>1. Holds(s, nk + 0, e)
      BY <1>1, <1>2, <1>3, HoldsPart, Zenon
    <3>2. nk + 0 = nk
      OBVIOUS
    <3>3. QED BY <3>1, <3>2, Zenon
  <2>5. s[nk + p] = e[p] /\ e[p][1] \in {"byte", ns.name}
    BY <1>3, <2>3, <2>4, Zenon DEF Holds, Tagged
  <2>6. s[d + 1] = g[1] /\ g[1][1] \in {"sha256"}
    BY <1>6, <1>9, <2>3, Zenon DEF Holds, Tagged
  <2>7. s[d + 1][1] = "sha256" /\ s[d + 1][1] \in {"byte", ns.name}
    BY <2>3, <2>5, <2>6
  <2>8. ns.name # "sha256"
    BY <1>4, NameType DEF SigTags
  <2>9. QED BY <2>7, <2>8
<1>11. d + 32 <= nk + Len(b)
  BY <1>2, <1>3, <1>7, <1>9
<1>12. QED BY <1>1, <1>9, <1>10, <1>11, Zenon DEF DigestAt

\* What precedes an item's value is as long as the wallet computes.
LEMMA HeadLaid ==
  ASSUME NEW i \in DOMAIN Items, NEW it, it = Items[i]
  PROVE  /\ ItemHead(it) \in Seq(Cell)
         /\ Len(ItemHead(it)) = element_value_key_offset(it.salt, Len(it.id))
<1>1. PICK n, l, a, b, d, g : /\ n = it.salt + (IF it.salt < 24 THEN 1 ELSE 2) /\ l = Len(it.id)
                              /\ a = Literal("item head", 12) /\ b = Literal("salt", n)
                              /\ d = Literal("digestID", 9) /\ g = Bytes(it.id)
  OBVIOUS
<1>2. it.salt \in Nat /\ it.id \in Seq(Nat)
  BY ItemType DEF IsItem, IsDigestId
<1>3. n \in Nat /\ l \in Nat /\ 12 + n + 9 + l = element_value_key_offset(it.salt, l)
  <2>1. PICK y : y = it.salt
    OBVIOUS
  <2>2. y \in Nat /\ n = y + (IF y < 24 THEN 1 ELSE 2)
    BY <1>1, <1>2, <2>1, Zenon
  <2>3. l \in Nat
    BY <1>1, <1>2, LenProperties
  <2>4. n \in Nat /\ 12 + n + 9 + l = 2 + 2 + 1 + 7 + (IF y < 24 THEN 1 ELSE 2) + y + 9 + l
    BY <2>2, <2>3
  <2>5. QED BY <2>1, <2>3, <2>4, Zenon DEF element_value_key_offset
<1>4. "item head" \in Tags /\ "salt" \in Tags /\ "digestID" \in Tags
  BY ItemTagsAre DEF HeadTags
<1>5. a \in Seq(Cell) /\ Len(a) = 12 /\ b \in Seq(Cell) /\ Len(b) = n /\ d \in Seq(Cell) /\ Len(d) = 9
  BY <1>1, <1>3, <1>4, LiteralCells
<1>6. g \in Seq(Cell) /\ Len(g) = l
  BY <1>1, <1>2, BytesIs, Zenon
<1>7. PICK u, v, h : u = a \o b /\ v = u \o d /\ h = v \o g
  OBVIOUS
<1>8. Extended(u, a, b) /\ u \in Seq(Cell)
  BY <1>5, <1>7, Behind, Zenon
<1>9. Extended(v, u, d) /\ v \in Seq(Cell)
  BY <1>5, <1>7, <1>8, Behind, Zenon
<1>10. Extended(h, v, g) /\ h \in Seq(Cell)
  BY <1>6, <1>7, <1>9, Behind, Zenon
<1>11. Len(u) = Len(a) + Len(b) /\ Len(v) = Len(u) + Len(d) /\ Len(h) = Len(v) + Len(g)
  BY <1>8, <1>9, <1>10, Zenon DEF Extended
<1>12. Len(h) = 12 + n + 9 + l
  BY <1>3, <1>5, <1>6, <1>11
<1>13. h = ItemHead(it)
  BY <1>1, <1>7, Zenon DEF ItemHead
<1>14. QED BY <1>1, <1>3, <1>10, <1>12, <1>13, Zenon

LEMMA ElementValueIs == ELEMENT_VALUE \in Seq(Cell) /\ Len(ELEMENT_VALUE) = 13
BY ItemTagsAre, LiteralCells DEF ELEMENT_VALUE

\* A value starts with its key.
LEMMA ValueLaid ==
  ASSUME NEW i \in DOMAIN Items
  PROVE  ItemValue(Items[i]) \in Seq(Cell) /\ Holds(ItemValue(Items[i]), 0, ELEMENT_VALUE)
<1>1. PICK it, a, p, d, b : /\ it = Items[i] /\ a = ELEMENT_VALUE /\ p = prefix(it.encoding)
                            /\ d = DigitBytes(DateDigits(it.date)) /\ b = Identifier(it.element)
  OBVIOUS
<1>2. a \in Seq(Cell) /\ p \in Seq(Cell) /\ d \in Seq(Cell) /\ b \in Seq(Cell)
  BY <1>1, ElementValueIs, ItemCells, Zenon
<1>3. PICK u, v, x : u = a \o p /\ v = u \o d /\ x = v \o b
  OBVIOUS
<1>4. Extended(u, a, p) /\ u \in Seq(Cell)
  BY <1>2, <1>3, Behind, Zenon
<1>5. Extended(v, u, d) /\ v \in Seq(Cell)
  BY <1>2, <1>3, <1>4, Behind, Zenon
<1>6. Extended(x, v, b) /\ x \in Seq(Cell)
  BY <1>2, <1>3, <1>5, Behind, Zenon
<1>7. Holds(x, 0, a)
  BY <1>2, <1>4, <1>5, <1>6, Zenon DEF Extended
<1>8. x = ItemValue(it)
  BY <1>1, <1>3, Zenon DEF ItemValue
<1>9. QED BY <1>1, <1>6, <1>7, <1>8, Zenon

\* An item, with what the wallet says of its value.
ItemLaid(u, it, at) ==
  /\ u \in Seq(Cell) /\ at \in Nat /\ Len(prefix(it.encoding)) \in Nat
  /\ Holds(u, at, ELEMENT_VALUE) /\ Holds(u, at + 13, prefix(it.encoding))
  /\ Holds(u, at + (13 + Len(prefix(it.encoding)) + 10), Identifier(it.element))

LEMMA ItemHolds ==
  ASSUME NEW i \in DOMAIN Items, NEW at, at = element_value_key_offset(Items[i].salt, Len(Items[i].id))
  PROVE  ItemLaid(ItemBytes(i), Items[i], at)
<1>1. PICK it, h, x, u, p, b, n : /\ it = Items[i] /\ h = ItemHead(it) /\ x = ItemValue(it) /\ u = ItemBytes(i)
                                  /\ p = prefix(it.encoding) /\ b = Identifier(it.element) /\ n = Len(p)
  OBVIOUS
<1>2. h \in Seq(Cell) /\ Len(h) = at
  BY <1>1, HeadLaid, Zenon
<1>3. x \in Seq(Cell) /\ Holds(x, 0, ELEMENT_VALUE)
  BY <1>1, ValueLaid, Zenon
<1>4. Holds(x, 0 + 13, p) /\ Holds(x, 0 + ((13 + n) + 10), b) /\ n \in Nat
  BY <1>1, ValueIs, Zenon DEF ItemPlaced
<1>5. p \in Seq(Cell) /\ b \in Seq(Cell) /\ ELEMENT_VALUE \in Seq(Cell)
  BY <1>1, ItemCells, ElementValueIs, Zenon
<1>6. u = h \o x
  BY <1>1, Zenon DEF ItemBytes
<1>7. Extended(u, h, x)
  BY <1>2, <1>3, <1>6, Behind, Zenon
<1>8. u \in Seq(Cell) /\ at \in Nat /\ Holds(u, at, x)
  BY <1>2, <1>7, Zenon DEF Extended
<1>9. Holds(u, at + 0, ELEMENT_VALUE)
  BY <1>3, <1>5, <1>8, HoldsPart, Zenon
<1>10. Holds(u, at + (0 + 13), p)
  BY <1>3, <1>4, <1>5, <1>8, HoldsPart, Zenon
<1>11. Holds(u, at + (0 + ((13 + n) + 10)), b)
  BY <1>3, <1>4, <1>5, <1>8, HoldsPart, Zenon
<1>12. at + 0 = at /\ at + (0 + 13) = at + 13 /\ at + (0 + ((13 + n) + 10)) = at + (13 + n + 10)
  BY <1>4, <1>8
<1>13. Holds(u, at, ELEMENT_VALUE) /\ Holds(u, at + 13, p) /\ Holds(u, at + (13 + n + 10), b)
  BY <1>9, <1>10, <1>11, <1>12, Zenon
<1>14. QED BY <1>1, <1>4, <1>8, <1>13, Zenon DEF ItemLaid

\* The circuit extracts the birth date of an item at the offset the wallet computes.
LEMMA BirthDateShown ==
  ASSUME WithinBudget, NEW i \in DOMAIN Items, Items[i].element = "birth_date", NEW encoding \in ALL,
         Items[i].encoding = encoding, NEW at, at = element_value_key_offset(Items[i].salt, Len(Items[i].id))
  PROVE  extract_birth_date(i, at, encoding)
<1>1. PICK u, v, p, b, n, m, k, e : /\ u = ItemTable[i] /\ v = PaddedItem[i] /\ p = prefix(encoding)
                                 /\ b = IDENTIFIER_LITERAL /\ n = Len(p) /\ m = MAX_CLAIM_BYTES
                                 /\ k = at + (13 + n + 10) /\ e = ELEMENT_VALUE
  OBVIOUS
<1>2. u = ItemBytes(i) /\ v = Padded(u, m)
  BY <1>1 DEF ItemTable, PaddedItem
<1>3. ItemLaid(u, Items[i], at)
  BY <1>2, ItemHolds, Zenon
<1>4. b = Identifier(Items[i].element)
  BY <1>1, Zenon DEF IDENTIFIER_LITERAL
<1>5. /\ u \in Seq(Cell) /\ at \in Nat /\ n \in Nat /\ Holds(u, at, e) /\ Holds(u, at + 13, p)
      /\ Holds(u, k, b)
  BY <1>1, <1>3, <1>4, Zenon DEF ItemLaid
<1>6. p \in Seq(Cell) /\ b \in Seq(Cell) /\ Len(b) = 29 /\ e \in Seq(Cell) /\ Len(e) = 13
  BY <1>1, <1>4, ItemCells, ElementValueIs DEF IdentifierPlaced
<1>7. m \in Nat /\ Len(u) <= m /\ 16 <= Items[i].salt /\ Items[i].salt <= 32
  BY <1>1, IssuedAssumption DEF WithinBudget, MIN_SALT_BYTES, MAX_SALT_BYTES
<1>8. PICK z : Joined(v, u, z)
  BY <1>2, <1>5, <1>7, PaddedIs, Zenon
<1>9. Holds(v, at, e) /\ Holds(v, at + 13, p) /\ Holds(v, k, b)
  BY <1>5, <1>6, <1>8, HoldsLeft, Zenon
<1>10. v \in Seq(Cell) /\ Len(v) \in Nat /\ Len(u) \in Nat
  BY <1>8, LenProperties DEF Joined
<1>11. ASSUME NEW y \in Nat, NEW q \in Seq(Cell), Holds(v, y, q) PROVE BytesAt(v, y, Len(q)) = q
  BY <1>10, <1>11, Reads, Zenon DEF ReadAt
<1>12. at + 13 \in Nat /\ k \in Nat
  BY <1>1, <1>5
<1>13. BytesAt(v, at, Len(e)) = e /\ BytesAt(v, at + 13, Len(p)) = p /\ BytesAt(v, k, Len(b)) = b
  BY <1>5, <1>6, <1>9, <1>11, <1>12, Zenon
<1>14. identifier_rel(encoding) = 13 + n + 10
  BY <1>1, <1>6 DEF identifier_rel, date_rel
<1>15. at + identifier_rel(encoding) + 29 - 1 < Len(u)
  <2>1. k + 29 <= Len(u)
    <3>1. k + Len(b) <= Len(u)
      BY <1>5, Zenon DEF Holds
    <3>2. QED BY <1>6, <3>1
  <2>2. PICK q, x : q = identifier_rel(encoding) /\ x = Len(u)
    OBVIOUS
  <2>3. at \in Nat /\ n \in Nat /\ x \in Nat /\ k + 29 <= x
    BY <1>5, <1>10, <2>1, <2>2, Zenon
  <2>4. q = 13 + n + 10 /\ k = at + (13 + n + 10)
    BY <1>1, <1>14, <2>2, Zenon
  <2>5. at + q + 29 - 1 < x
    BY <2>3, <2>4, SMT
  <2>6. QED BY <2>2, <2>5, Zenon
<1>16. at \in candidate_value_key_offsets
  <2>1. PICK t, w : t = Items[i].salt /\ w = Len(Items[i].id)
    OBVIOUS
  <2>2. w \in {1, 2, 3, 5}
    BY <2>1, ItemType DEF IsDigestId
  <2>3. t \in Nat
    BY <2>1, ItemType DEF IsItem
  <2>4. t \in MIN_SALT_BYTES..MAX_SALT_BYTES
    <3>1. PICK lo, hi : lo = MIN_SALT_BYTES /\ hi = MAX_SALT_BYTES
      OBVIOUS
    <3>2. lo = 16 /\ hi = 32
      BY <3>1 DEF MIN_SALT_BYTES, MAX_SALT_BYTES
    <3>3. lo \in Nat /\ hi \in Nat /\ lo <= t /\ t <= hi
      BY <1>7, <2>1, <3>2
    <3>4. t \in lo..hi
      BY <2>3, <3>3
    <3>5. QED BY <3>1, <3>4, Zenon
  <2>5. at = element_value_key_offset(t, w)
    BY <2>1
  <2>6. PICK S, W : S = MIN_SALT_BYTES..MAX_SALT_BYTES /\ W = {1, 2, 3, 5}
    OBVIOUS
  <2>7. candidate_value_key_offsets = {element_value_key_offset(s, x) : s \in S, x \in W}
    BY <2>6, SMT DEF candidate_value_key_offsets
  <2>8. t \in S /\ w \in W
    BY <2>2, <2>4, <2>6, Zenon
  <2>9. QED BY <2>5, <2>7, <2>8, SMT
<1>17. k = at + identifier_rel(encoding)
  BY <1>1, <1>14
<1>18. at + 13 = at + Len(ELEMENT_VALUE) /\ Len(IDENTIFIER_LITERAL) = 29
  BY <1>1, <1>6
<1>19. QED BY <1>1, <1>13, <1>15, <1>16, <1>17, <1>18 DEF extract_birth_date

\* What the wallet looks up, field by field.
LookedUp(w, i, c, ns, e) ==
  /\ w.issuer = c.issuer /\ w.namespace = ns.name /\ w.doc_type = c.doc_type
  /\ w.num_entries = Len(ns.items) /\ w.item = ns.items[BirthDate(ns)]
  /\ w.value_digests_key = Locate(i, 0, VALUE_DIGESTS_OPEN_KEY)
  /\ w.namespace_key = Locate(i, w.value_digests_key, e)
  /\ w.region_start = w.namespace_key + Len(e)
  /\ w.device_key_info = Locate(i, 0, DEVICE_KEY_INFO)
  /\ w.doc_type_key = Locate(i, 0, DOC_TYPE_KEY) /\ w.validity_info = Locate(i, 0, VALIDITY_OPEN)
  /\ w.digest_offset = Locate(i, w.namespace_key, ItemDigest(w.item))
  /\ w.value_key_offset = element_value_key_offset(Items[w.item].salt, Len(Items[w.item].id))
  /\ Items[w.item].encoding \in ALL => w.encoding = Items[w.item].encoding

LEMMA WalletFields ==
  ASSUME NEW q \in Provable, NEW j \in DOMAIN Sessions, NEW w, w = Witness(q, Sessions[j]),
         NEW i, i = q[1], NEW c, c = Credentials[i], NEW r, r = q[2], NEW ns, ns = c.namespaces[r],
         NEW e, e = NamespaceOpen(ns)
  PROVE  LookedUp(w, i, c, ns, e)
<1>1. PICK t, o : t = WalletTable[q] /\ o = NameBytes(ns.name) \o map_header(Len(ns.items))
  OBVIOUS
<1>2. e = o
  BY <1>1, Zenon DEF NamespaceOpen
<1>3. w.issuer = t.issuer /\ w.namespace = t.namespace
  BY <1>1 DEF Witness, Fields
<1>4. w.doc_type = t.doc_type /\ w.num_entries = t.num_entries
  BY <1>1 DEF Witness, Fields
<1>5. w.item = t.item /\ w.value_digests_key = t.value_digests_key
  BY <1>1 DEF Witness, Fields
<1>6. w.namespace_key = t.namespace_key /\ w.region_start = t.region_start
  BY <1>1 DEF Witness, Fields
<1>7. w.device_key_info = t.device_key_info /\ w.doc_type_key = t.doc_type_key
  BY <1>1 DEF Witness, Fields
<1>8. w.validity_info = t.validity_info /\ w.digest_offset = t.digest_offset
  BY <1>1 DEF Witness, Fields
<1>9. w.value_key_offset = t.value_key_offset /\ w.encoding = t.encoding
  BY <1>1 DEF Witness, Fields
<1>10. t.issuer = c.issuer /\ t.namespace = ns.name /\ t.doc_type = c.doc_type
  BY <1>1 DEF WalletTable
<1>11. t.num_entries = Len(ns.items) /\ t.item = ns.items[BirthDate(ns)]
  BY <1>1 DEF WalletTable
<1>12. t.value_digests_key = Locate(i, 0, VALUE_DIGESTS_OPEN_KEY)
  BY <1>1 DEF WalletTable
<1>13. t.namespace_key = Locate(i, t.value_digests_key, o)
  BY <1>1 DEF WalletTable
<1>14. t.region_start = t.namespace_key + Len(o)
  BY <1>1 DEF WalletTable
<1>15. t.device_key_info = Locate(i, 0, DEVICE_KEY_INFO)
  BY <1>1 DEF WalletTable
<1>16. t.doc_type_key = Locate(i, 0, DOC_TYPE_KEY)
  BY <1>1 DEF WalletTable
<1>17. t.validity_info = Locate(i, 0, VALIDITY_OPEN)
  BY <1>1 DEF WalletTable
<1>18. t.digest_offset = Locate(i, t.namespace_key, ItemDigest(t.item))
  BY <1>1 DEF WalletTable
<1>19. t.value_key_offset = element_value_key_offset(Items[t.item].salt, Len(Items[t.item].id))
  BY <1>1 DEF WalletTable
<1>20. Items[t.item].encoding \in ALL => t.encoding = Items[t.item].encoding
  BY <1>1 DEF WalletTable
<1>21. QED BY <1>2, <1>3, <1>4, <1>5, <1>6, <1>7, <1>8, <1>9, <1>10, <1>11, <1>12, <1>13, <1>14, <1>15,
              <1>16, <1>17, <1>18, <1>19, <1>20, Zenon DEF LookedUp

\* A witness whose offsets are where the signed bytes have what they stand for.
FilledAnchors(w, pv, pd, pk) ==
  w.value_digests_key = pd /\ w.device_key_info = pk /\ w.doc_type_key = 26 /\ w.validity_info = pv
InTable(w, s, ns, pd, pk) ==
  /\ IsNamespace(ns) /\ w.namespace = ns.name /\ w.num_entries = Len(ns.items)
  /\ Len(NamespaceOpen(ns)) <= 40 /\ Len(ns.items) <= MAX_NAMESPACE_ENTRIES /\ Len(ns.items) < 256
  /\ w.namespace_offset = w.namespace_key
  /\ w.namespace_key \in Nat /\ pd + 14 <= w.namespace_key
  /\ Holds(s, w.namespace_key, NamespaceBytes(ns)) /\ w.namespace_key + Len(NamespaceBytes(ns)) <= pk
  /\ w.region_start = w.namespace_key + BodyAt(ns)
DigestIn(w, s, ns) ==
  /\ \E k \in 1..Len(ns.items) : ns.items[k] = w.item
  /\ w.digest_offset \in Nat /\ w.namespace_key + BodyAt(ns) <= w.digest_offset
  /\ w.digest_offset + 32 <= w.namespace_key + Len(NamespaceBytes(ns))
  /\ Holds(s, w.digest_offset, ItemDigest(w.item))

Filled(w, c, s, v, z, pv, pd, pk, ns) ==
  /\ Signed(c, s, v, z, pv, pd, pk) /\ Laid(s, c, pv, pd, pk) /\ FilledAnchors(w, pv, pd, pk)
  /\ InTable(w, s, ns, pd, pk) /\ DigestIn(w, s, ns)
  /\ w.doc_type = c.doc_type /\ 8 + Len(NameBytes(c.doc_type)) <= 40

LEMMA WalletLocates ==
  ASSUME WithinBudget, NEW q \in Provable, NEW j \in DOMAIN Sessions, NEW w, w = Witness(q, Sessions[j]),
         NEW i, i = q[1], NEW c, c = Credentials[i], NEW s, s = SigTable[i], NEW v, v = PaddedSig[i]
  PROVE  \E z, pv, pd, pk, ns : Filled(w, c, s, v, z, pv, pd, pk, ns)
<1>1. PICK r, ns, e, b : r = q[2] /\ ns = c.namespaces[r] /\ e = NamespaceOpen(ns) /\ b = BirthDate(ns)
  OBVIOUS
<1>2. i \in DOMAIN Credentials /\ r \in DOMAIN c.namespaces
  BY <1>1, ProvableIs, Zenon
<1>3. \E k \in DOMAIN ns.items : Items[ns.items[k]].element = "birth_date"
  BY <1>1, ProvableIs, Zenon
<1>4. b \in DOMAIN ns.items
  BY <1>1, <1>3, Zenon DEF BirthDate
<1>5. Len(SigTable[i]) <= MAX_SIG_STRUCTURE_BYTES /\ FitsWindows(c)
  BY <1>2 DEF WithinBudget
<1>6. PICK z, pv, pd, pk : Signed(c, s, v, z, pv, pd, pk)
  BY <1>2, <1>5, SignedIs, Zenon
<1>7. IsCredential(c) /\ SigPlaced(s, c, pv, pd, pk)
  BY <1>6, Zenon DEF Signed
<1>8. s = SigStructure(c)
  BY <1>2 DEF SigTable
<1>9. Laid(s, c, pv, pd, pk)
  BY <1>7, <1>8, SameAnchors, Zenon
<1>10. DOMAIN c.namespaces = 1..Len(c.namespaces) /\ IsNamespace(ns)
  BY <1>1, <1>2, <1>7, CredentialType
<1>11. Len(ns.items) \in Nat /\ DOMAIN ns.items = 1..Len(ns.items)
  BY <1>10, EntriesLaid, Zenon
<1>12. /\ w.namespace = ns.name /\ w.doc_type = c.doc_type
       /\ w.num_entries = Len(ns.items) /\ w.item = ns.items[b]
       /\ w.value_digests_key = Locate(i, 0, VALUE_DIGESTS_OPEN_KEY)
       /\ w.namespace_key = Locate(i, w.value_digests_key, e)
       /\ w.region_start = w.namespace_key + Len(e)
       /\ w.device_key_info = Locate(i, 0, DEVICE_KEY_INFO)
       /\ w.doc_type_key = Locate(i, 0, DOC_TYPE_KEY) /\ w.validity_info = Locate(i, 0, VALIDITY_OPEN)
       /\ w.digest_offset = Locate(i, w.namespace_key, ItemDigest(w.item))
  <2>1. LookedUp(w, i, c, ns, e)
    BY <1>1, WalletFields, Zenon
  <2>2. QED BY <1>1, <2>1, Zenon DEF LookedUp
<1>13. FilledAnchors(w, pv, pd, pk)
  <2>1. AnchorsAt(i, pv, pd, pk)
    BY <1>2, <1>7, <1>9, AnchorsFound, Zenon
  <2>2. QED BY <1>12, <2>1, Zenon DEF FilledAnchors, AnchorsAt
<1>14. w.namespace_key = Locate(i, pd, e)
  BY <1>12, <1>13, Zenon DEF FilledAnchors
<1>15. r \in 1..Len(c.namespaces)
  BY <1>2, <1>10, Zenon
<1>16. /\ w.namespace_key \in Nat /\ pd + 14 <= w.namespace_key /\ Holds(s, w.namespace_key, NamespaceBytes(ns))
       /\ w.namespace_key + Len(NamespaceBytes(ns)) <= pk
  <2>1. Keyed(s, w.namespace_key, ns, pd, pk)
    BY <1>1, <1>2, <1>5, <1>6, <1>9, <1>14, <1>15, NamespaceFound, Zenon
  <2>2. QED BY <2>1, Zenon DEF Keyed
<1>17. Len(e) = BodyAt(ns)
  BY <1>1, <1>10, OpenIs, Zenon DEF OpenPlaced
<1>18. Len(NameBytes(ns.name)) + Len(map_header(Len(ns.items))) <= 40 /\ Len(ns.items) <= MAX_NAMESPACE_ENTRIES
  BY <1>1, <1>2, <1>5, Zenon DEF FitsWindows, ANCHOR_TEXT_WINDOW
<1>19. Len(e) <= 40
  <2>1. NsOpen(e, ns.name, Len(ns.items))
    BY <1>1, <1>10, OpenIs, Zenon DEF OpenPlaced
  <2>2. Len(e) = Len(NameBytes(ns.name)) + HeadLen(Len(ns.items)) /\ Len(map_header(Len(ns.items))) = HeadLen(Len(ns.items))
    BY <2>1, Zenon DEF NsOpen
  <2>3. Len(e) = Len(NameBytes(ns.name)) + Len(map_header(Len(ns.items)))
    BY <2>2, Zenon
  <2>4. QED BY <1>18, <2>3, Zenon
<1>20. Len(ns.items) < 256
  BY <1>1, <1>2, <1>7, Zenon DEF IsCredential
<1>27. w.namespace_offset = w.namespace_key
  BY WitnessIs, Zenon
<1>21. InTable(w, s, ns, pd, pk)
  BY <1>27, <1>1, <1>10, <1>12, <1>16, <1>17, <1>18, <1>19, <1>20, Zenon DEF InTable
<1>22. b \in 1..Len(ns.items) /\ s \in Seq(Cell)
  BY <1>4, <1>9, <1>11, Zenon DEF Laid
<1>23. /\ w.digest_offset \in Nat /\ w.namespace_key + BodyAt(ns) <= w.digest_offset
       /\ w.digest_offset + 32 <= w.namespace_key + Len(NamespaceBytes(ns))
       /\ Holds(s, w.digest_offset, ItemDigest(w.item))
  <2>1. DigestAt(s, w.digest_offset, w.namespace_key, ns, w.item)
    BY <1>2, <1>10, <1>12, <1>16, <1>22, DigestFound, Zenon
  <2>2. QED BY <2>1, Zenon DEF DigestAt
<1>24. DigestIn(w, s, ns)
  BY <1>12, <1>22, <1>23, Zenon DEF DigestIn
<1>25. 8 + Len(NameBytes(c.doc_type)) <= 40
  <2>1. Len(DOC_TYPE_KEY) = 8
    BY SigTagsAre, LiteralCells DEF DOC_TYPE_KEY
  <2>2. Len(DOC_TYPE_KEY) + Len(NameBytes(c.doc_type)) <= 40
    BY <1>5, Zenon DEF FitsWindows, ANCHOR_TEXT_WINDOW
  <2>3. QED BY <2>1, <2>2, Zenon
<1>26. QED BY <1>6, <1>9, <1>12, <1>13, <1>21, <1>24, <1>25, Zenon DEF Filled

LEMMA HoldsBoth ==
  ASSUME NEW u \in Seq(Cell), NEW p \in Seq(Cell), NEW t \in Seq(Cell), NEW a \in Nat, NEW n, n = Len(p),
         Holds(u, a, p), Holds(u, a + n, t), NEW y, y = p \o t
  PROVE  Holds(u, a, y)
<1>1. PICK m, l : m = Len(t) /\ l = Len(u)
  OBVIOUS
<1>2. Appended(y, p, t) /\ n \in Nat /\ m \in Nat /\ l \in Nat
  BY <1>1, Append2, LenProperties
<1>3. Len(y) = n + m /\ \A k \in 1..n + m : y[k] = IF k <= n THEN p[k] ELSE t[k - n]
  BY <1>1, <1>2 DEF Appended
<1>4. a + n + m <= l /\ (\A k \in 1..n : u[a + k] = p[k]) /\ (\A k \in 1..m : u[a + n + k] = t[k])
  BY <1>1, Zenon DEF Holds
<1>5. ASSUME NEW k \in 1..n + m PROVE u[a + k] = y[k]
  <2>1. CASE k <= n
    <3>1. k \in 1..n
      BY <1>2, <2>1
    <3>2. y[k] = p[k]
      BY <1>3, <2>1
    <3>3. QED BY <1>4, <3>1, <3>2, Zenon
  <2>2. CASE ~(k <= n)
    <3>1. k - n \in 1..m /\ a + n + (k - n) = a + k
      BY <1>2, <2>2
    <3>2. y[k] = t[k - n]
      BY <1>3, <2>2
    <3>3. u[a + n + (k - n)] = t[k - n]
      BY <1>4, <3>1, Zenon
    <3>4. QED BY <3>1, <3>2, <3>3, Zenon
  <2>3. QED BY <2>1, <2>2, Zenon
<1>6. a + (n + m) <= l
  BY <1>2, <1>4
<1>7. QED BY <1>1, <1>3, <1>5, <1>6, Zenon DEF Holds


LEMMA FitsAnchor ==
  ASSUME NEW n \in Nat, NEW at \in Nat, at + 48 <= n
  PROVE  at \in anchor_offsets(n)
<1>1. PICK m : m = n - 48
  OBVIOUS
<1>2. m \in Nat /\ 0 <= at /\ at <= m
  BY <1>1
<1>3. at \in 0..m
  BY <1>2
<1>4. QED BY <1>1, <1>3, Zenon DEF anchor_offsets, window_offsets, MAX_ANCHOR_WINDOW

LEMMA Selects ==
  ASSUME NEW v \in Seq(Cell), NEW p \in Seq(Cell), NEW at \in Nat, Holds(v, at, p), at + 48 <= Len(v)
  PROVE  select_anchor(v, at, p)
<1>1. Len(v) \in Nat
  BY LenProperties
<1>2. at \in anchor_offsets(Len(v))
  BY <1>1, FitsAnchor, Zenon
<1>3. ReadAt(v, at, p)
  BY Reads, Zenon
<1>4. QED BY <1>2, <1>3, Zenon DEF select_anchor, ReadAt

LEMMA SelectsText ==
  ASSUME NEW v \in Seq(Cell), NEW at \in Nat, at + 48 <= Len(v), NEW n \in Nat, 1 <= n, n <= 40
  PROVE  select_masked_text_anchor(v, at, n)
<1>1. Len(v) \in Nat
  BY LenProperties
<1>2. at \in anchor_offsets(Len(v))
  BY <1>1, FitsAnchor, Zenon
<1>3. PICK m : m = 40
  OBVIOUS
<1>4. n \in 1..m
  BY <1>3
<1>5. QED BY <1>2, <1>3, <1>4, Zenon DEF select_masked_text_anchor, ANCHOR_TEXT_WINDOW

\* A difference the circuit can bear.
LEMMA Bears ==
  ASSUME NEW a \in Nat, NEW b \in Nat, b <= a, a < 65536, NEW d, d = a - b
  PROVE  enforce_ge(a, b, d)
BY DEF enforce_ge

\* The walk over the entries of a namespace succeeds.
LEMMA Walks ==
  ASSUME NEW v \in Seq(Cell), NEW ns, IsNamespace(ns), NEW at \in Nat, Holds(v, at, NamespaceBytes(ns)),
         NEW m, m = Len(ns.items), 1 <= m, m <= MAX_NAMESPACE_ENTRIES, NEW x, x = at + BodyAt(ns)
  PROVE  walk_namespace_entries(v, x, x, m)
<1>1. m \in Nat /\ MAX_NAMESPACE_ENTRIES \in Nat
  BY EntriesLaid, NamesAssumption
<1>2. m \in 1..MAX_NAMESPACE_ENTRIES
  BY <1>1
<1>3. native_region_end(v, x, m) = at + Len(NamespaceBytes(ns))
  BY Region, Zenon
<1>4. Len(NamespaceBytes(ns)) \in Nat
  BY NamespaceIs, LenProperties DEF NamespacePlaced
<1>5. native_region_end(v, x, m) \in Nat
  BY <1>3, <1>4
<1>6. ASSUME NEW i \in 0..(m - 1), NEW y, y = native_region_end(v, x, i)
      PROVE  y \in window_offsets(Len(v), 7) /\ BytesAt(v, y + digest_id_width(v, y), 2) = BSTR32
  <2>1. Headed(v, y)
    BY <1>6, WalkStops, Zenon
  <2>2. y \in Nat /\ y + 7 <= Len(v) /\ BytesAt(v, y + digest_id_width(v, y), 2) = BSTR32
    BY <2>1, Zenon DEF Headed
  <2>3. Len(v) \in Nat
    BY LenProperties
  <2>4. PICK n : n = Len(v) - 7
    OBVIOUS
  <2>5. n \in Nat /\ y <= n
    BY <2>2, <2>3, <2>4
  <2>6. y \in 0..n
    BY <2>2, <2>5
  <2>7. QED BY <2>2, <2>4, <2>6, Zenon DEF window_offsets
<1>7. QED BY <1>2, <1>5, <1>6, Zenon DEF walk_namespace_entries, ENTRY_HEAD_WINDOW

\* The order of what the wallet located, in padded bytes of length n.
Arranged(pv, pd, nk, l, d, b, pk, n) ==
  /\ pv \in Nat /\ pd \in Nat /\ nk \in Nat /\ l \in Nat /\ d \in Nat /\ b \in Nat /\ pk \in Nat /\ n \in Nat
  /\ 1 <= l /\ l <= 40 /\ 34 <= pv /\ pv + 108 <= pd /\ pd + 14 <= nk /\ nk + l <= d /\ d + 32 <= nk + b
  /\ nk + b <= pk /\ pk + 124 <= n

LEMMA ArrangedIs ==
  ASSUME NEW w, NEW c, NEW s, NEW v, NEW z, NEW pv, NEW pd, NEW pk, NEW ns,
         Filled(w, c, s, v, z, pv, pd, pk, ns)
  PROVE  /\ Arranged(pv, pd, w.namespace_key, BodyAt(ns), w.digest_offset, Len(NamespaceBytes(ns)), pk, Len(v))
         /\ s \in Seq(Cell) /\ v \in Seq(Cell) /\ Joined(v, s, z) /\ IsNamespace(ns) /\ IsCredential(c)
         /\ \A p \in Seq(Cell) : \A a : Holds(s, a, p) => Holds(v, a, p)
<1>1. /\ Signed(c, s, v, z, pv, pd, pk) /\ Laid(s, c, pv, pd, pk)
      /\ InTable(w, s, ns, pd, pk) /\ DigestIn(w, s, ns)
  BY Zenon DEF Filled
<1>2. IsCredential(c) /\ Joined(v, s, z)
  BY <1>1, Zenon DEF Signed
<1>3. s \in Seq(Cell) /\ v \in Seq(Cell) /\ Len(v) = Len(s) + Len(z) /\ Len(s) \in Nat /\ Len(z) \in Nat
  BY <1>2, Zenon DEF Joined
<1>4. /\ pv \in Nat /\ pd \in Nat /\ pk \in Nat /\ 34 <= pv /\ pv + 108 <= pd /\ pk + 124 <= Len(s)
  BY <1>1, Zenon DEF Laid
<1>5. /\ IsNamespace(ns) /\ w.namespace_key \in Nat /\ pd + 14 <= w.namespace_key
      /\ w.namespace_key + Len(NamespaceBytes(ns)) <= pk /\ Len(NamespaceOpen(ns)) <= 40
  BY <1>1, Zenon DEF InTable
<1>6. /\ w.digest_offset \in Nat /\ w.namespace_key + BodyAt(ns) <= w.digest_offset
      /\ w.digest_offset + 32 <= w.namespace_key + Len(NamespaceBytes(ns))
  BY <1>1, Zenon DEF DigestIn
<1>7. PICK e : e = NamespaceOpen(ns)
  OBVIOUS
<1>8. Len(e) = BodyAt(ns) /\ Len(e) \in Nat /\ Len(e) >= 1
  BY <1>5, <1>7, OpenIs, Zenon DEF OpenPlaced
<1>9. Len(NamespaceBytes(ns)) \in Nat
  BY <1>5, NamespaceIs, LenProperties DEF NamespacePlaced
<1>10. BodyAt(ns) \in Nat /\ 1 <= BodyAt(ns) /\ BodyAt(ns) <= 40
  BY <1>5, <1>7, <1>8
<1>11. Len(v) \in Nat /\ pk + 124 <= Len(v)
  BY <1>3, <1>4
<1>12. Arranged(pv, pd, w.namespace_key, BodyAt(ns), w.digest_offset, Len(NamespaceBytes(ns)), pk, Len(v))
  BY <1>4, <1>5, <1>6, <1>9, <1>10, <1>11, Zenon DEF Arranged
<1>13. \A p \in Seq(Cell) : \A a : Holds(s, a, p) => Holds(v, a, p)
  BY <1>2, HoldsLeft, Zenon
<1>14. QED BY <1>2, <1>3, <1>5, <1>12, <1>13, Zenon

\* The constants the circuit compares with.
LEMMA AnchorCells ==
  /\ DOC_TYPE_KEY \in Seq(Cell) /\ VALIDITY_OPEN \in Seq(Cell) /\ VALIDITY_MID_FROM \in Seq(Cell)
  /\ VALIDITY_MID_UNTIL \in Seq(Cell) /\ VALUE_DIGESTS_OPEN_KEY \in Seq(Cell) /\ DEVICE_KEY_INFO \in Seq(Cell)
  /\ Len(DOC_TYPE_KEY) = 8 /\ Len(VALIDITY_OPEN) = 23 /\ Len(VALIDITY_MID_FROM) = 12
  /\ Len(VALIDITY_MID_UNTIL) = 13 /\ Len(VALUE_DIGESTS_OPEN_KEY) = 13 /\ Len(DEVICE_KEY_INFO) = 33
BY SigTagsAre, LiteralCells DEF DOC_TYPE_KEY, VALIDITY_OPEN, VALIDITY_MID_FROM, VALIDITY_MID_UNTIL,
   VALUE_DIGESTS_OPEN_KEY, DEVICE_KEY_INFO

\* The document's type stands behind its key.
LEMMA DocTypeLocated ==
  ASSUME NEW w, NEW c, NEW s, NEW v, NEW z, NEW pv, NEW pd, NEW pk, NEW ns,
         Filled(w, c, s, v, z, pv, pd, pk, ns), NEW e, e = doc_type_entry(w)
  PROVE  /\ Holds(v, 26, e) /\ e \in Seq(Cell) /\ Len(e) \in Nat /\ 1 <= Len(e) /\ Len(e) <= 40
         /\ doc_type_prefix_len(w) = Len(e)
<1>1. PICK n, t : n = c.doc_type /\ t = NameBytes(n)
  OBVIOUS
<1>2. w.doc_type = n /\ 8 + Len(t) <= 40 /\ Signed(c, s, v, z, pv, pd, pk) /\ Laid(s, c, pv, pd, pk)
  BY <1>1, Zenon DEF Filled
<1>3. IsCredential(c) /\ SigPlaced(v, c, pv, pd, pk) /\ Joined(v, s, z)
  BY <1>2, Zenon DEF Signed
<1>4. n \in Names
  BY <1>1, <1>3, CredentialType
<1>5. t \in Seq(Cell)
  BY <1>1, <1>4, NameIs, Zenon DEF NamePlaced
<1>6. Holds(v, 34, t) /\ v \in Seq(Cell)
  BY <1>1, <1>3, Zenon DEF SigPlaced
<1>7. Holds(v, 26, DOC_TYPE_KEY)
  <2>1. Holds(s, 26, DOC_TYPE_KEY) /\ DOC_TYPE_KEY \in Seq(Cell)
    BY <1>2, AnchorCells, Zenon DEF Laid
  <2>2. QED BY <1>3, <2>1, HoldsLeft, Zenon
<1>8. PICK k, a, l : k = DOC_TYPE_KEY /\ a = 26 /\ l = Len(k)
  OBVIOUS
<1>9. k \in Seq(Cell) /\ l = 8 /\ a \in Nat /\ a + l = 34
  BY <1>8, AnchorCells
<1>10. e = k \o t
  BY <1>1, <1>2, <1>8, Zenon DEF doc_type_entry
<1>11. Holds(v, a, k) /\ Holds(v, a + l, t)
  BY <1>6, <1>7, <1>8, <1>9
<1>12. Holds(v, a, e)
  BY <1>5, <1>6, <1>8, <1>9, <1>10, <1>11, HoldsBoth, Zenon
<1>13. DocEntry(e, n)
  BY <1>2, <1>4, DocEntryIs, Zenon
<1>14. e \in Seq(Cell) /\ Len(t) \in Nat /\ Len(e) = 8 + Len(t)
  BY <1>1, <1>13, Zenon DEF DocEntry
<1>15. Len(e) \in Nat /\ 1 <= Len(e) /\ Len(e) <= 40
  BY <1>2, <1>14
<1>16. doc_type_prefix_len(w) = Len(e)
  BY Zenon DEF doc_type_prefix_len
<1>17. QED BY <1>8, <1>12, <1>14, <1>15, <1>16

\* Bytes whose offsets differ by what 16 bits hold.
Short(v) == Len(v) < 65536

\* bind_digest_region binds what the wallet located.
Bound(w, v, ns) ==
  /\ bind_digest_region(v, w) /\ region_start(w) = w.namespace_key + BodyAt(ns)
  /\ w.region_start = w.namespace_key + BodyAt(ns)
  /\ region_end(v, w) = w.namespace_key + Len(NamespaceBytes(ns))

LEMMA RegionSatisfied ==
  ASSUME NEW w, NEW c, NEW s, NEW v, NEW z, NEW pv, NEW pd, NEW pk, NEW ns,
         Filled(w, c, s, v, z, pv, pd, pk, ns), Short(v)
  PROVE  Bound(w, v, ns)
<1>1. PICK nk, l, d, b, n, e, m, x : /\ nk = w.namespace_key /\ l = BodyAt(ns) /\ d = w.digest_offset
                                     /\ b = Len(NamespaceBytes(ns)) /\ n = Len(v) /\ e = NamespaceOpen(ns)
                                     /\ m = Len(ns.items) /\ x = nk + l
  OBVIOUS
<1>2. /\ Arranged(pv, pd, nk, l, d, b, pk, n) /\ s \in Seq(Cell) /\ v \in Seq(Cell) /\ IsNamespace(ns)
      /\ \A p \in Seq(Cell) : \A a : Holds(s, a, p) => Holds(v, a, p)
  BY <1>1, ArrangedIs, Zenon
<1>3. /\ pv \in Nat /\ pd \in Nat /\ nk \in Nat /\ l \in Nat /\ d \in Nat /\ b \in Nat /\ pk \in Nat /\ n \in Nat
      /\ 1 <= l /\ l <= 40 /\ 34 <= pv /\ pv + 108 <= pd /\ pd + 14 <= nk /\ nk + l <= d /\ d + 32 <= nk + b
      /\ nk + b <= pk /\ pk + 124 <= n
  BY <1>2, Zenon DEF Arranged
<1>4. /\ Laid(s, c, pv, pd, pk) /\ FilledAnchors(w, pv, pd, pk) /\ InTable(w, s, ns, pd, pk) /\ DigestIn(w, s, ns)
  BY Zenon DEF Filled
<1>5. w.value_digests_key = pd /\ w.device_key_info = pk /\ w.doc_type_key = 26
  BY <1>4, Zenon DEF FilledAnchors
<1>6. /\ w.namespace = ns.name /\ w.num_entries = m /\ m <= MAX_NAMESPACE_ENTRIES /\ m < 256
      /\ w.namespace_offset = nk /\ w.region_start = x /\ Holds(s, nk, NamespaceBytes(ns))
  BY <1>1, <1>4 DEF InTable
<1>7. e \in Seq(Cell) /\ Len(e) = l /\ NamespaceBytes(ns) \in Seq(Cell) /\ Holds(NamespaceBytes(ns), 0, e)
  <2>1. NsOpen(e, ns.name, m) /\ Len(e) = l /\ Holds(NamespaceBytes(ns), 0, e)
    BY <1>1, <1>2, OpenIs, Zenon DEF OpenPlaced
  <2>2. NamespaceBytes(ns) \in Seq(Cell)
    BY <1>2, NamespaceIs, Zenon DEF NamespacePlaced
  <2>3. QED BY <2>1, <2>2, Zenon DEF NsOpen
<1>8. ns_open(w) = e
  BY <1>1, <1>6, Zenon DEF ns_open, NamespaceOpen
<1>9. namespace_prefix_len(w) = l /\ region_start(w) = x
  BY <1>1, <1>6, <1>7, <1>8, Zenon DEF namespace_prefix_len, region_start
<1>10. Holds(v, nk, NamespaceBytes(ns))
  BY <1>2, <1>6, <1>7, Zenon
<1>11. Holds(v, nk, e)
  <2>1. Holds(v, nk + 0, e)
    BY <1>2, <1>7, <1>10, HoldsPart, Zenon
  <2>2. nk + 0 = nk
    BY <1>3
  <2>3. QED BY <2>1, <2>2, Zenon
<1>12. select_anchor(v, pd, VALUE_DIGESTS_OPEN_KEY)
  <2>1. Holds(v, pd, VALUE_DIGESTS_OPEN_KEY)
    BY <1>2, <1>4, AnchorCells, Zenon DEF Laid
  <2>2. pd + 48 <= n
    BY <1>3
  <2>3. QED BY <1>1, <1>2, <1>3, <2>1, <2>2, AnchorCells, Selects, Zenon
<1>13. select_anchor(v, pk, DEVICE_KEY_INFO)
  <2>1. Holds(v, pk, DEVICE_KEY_INFO)
    BY <1>2, <1>4, AnchorCells, Zenon DEF Laid
  <2>2. pk + 48 <= n
    BY <1>3
  <2>3. QED BY <1>1, <1>2, <1>3, <2>1, <2>2, AnchorCells, Selects, Zenon
<1>14. select_masked_text_anchor(v, nk, l) /\ BytesAt(v, nk, l) = e
  <2>1. nk + 48 <= n
    BY <1>3
  <2>2. select_masked_text_anchor(v, nk, l)
    BY <1>1, <1>2, <1>3, <2>1, SelectsText, Zenon
  <2>3. BytesAt(v, nk, l) = e
    <3>1. ReadAt(v, nk, e)
      BY <1>2, <1>3, <1>7, <1>11, Reads, Zenon
    <3>2. QED BY <1>7, <3>1 DEF ReadAt
  <2>4. QED BY <2>2, <2>3
<1>28. n < 65536
  <2>1. n = Len(v)
    BY <1>1
  <2>2. QED BY <2>1 DEF Short
<1>15. ASSUME NEW t, t = pd + Len(VALUE_DIGESTS_OPEN_KEY) + 1 PROVE enforce_ge(nk, t, nk - t)
  <2>1. t = pd + 14 /\ t \in Nat
    BY <1>3, <1>15, AnchorCells
  <2>2. t <= nk /\ nk < 65536
    BY <1>3, <1>28, <2>1
  <2>3. QED BY <1>3, <2>1, <2>2, Bears
<1>16. nk \in anchor_offsets(n)
  <2>1. nk + 48 <= n
    BY <1>3
  <2>2. QED BY <1>3, <2>1, FitsAnchor, Zenon
<1>17. 1 <= m
  <2>1. \E k \in 1..m : TRUE
    BY <1>1, <1>4, Zenon DEF DigestIn
  <2>2. m \in Nat
    BY <1>1, <1>2, EntriesLaid
  <2>3. QED BY <2>1, <2>2
<1>18. walk_namespace_entries(v, x, x, m)
  BY <1>1, <1>2, <1>3, <1>6, <1>10, <1>17, Walks, Zenon
<1>19. native_region_end(v, x, m) = nk + b
  BY <1>1, <1>2, <1>10, Region, Zenon
<1>20. enforce_ge(pk, nk + b, pk - (nk + b))
  <2>1. nk + b \in Nat /\ pk < 65536
    BY <1>3, <1>28
  <2>2. QED BY <1>3, <2>1, Bears
<1>21. pk + DEVICE_KEY_X_DELTA \in anchor_offsets(n) /\ pk + DEVICE_KEY_Y_DELTA \in anchor_offsets(n)
  <2>1. DEVICE_KEY_X_DELTA = 33 /\ DEVICE_KEY_Y_DELTA = 68
    BY AnchorCells DEF DEVICE_KEY_X_DELTA, DEVICE_KEY_Y_DELTA
  <2>2. PICK a1, a2 : a1 = pk + DEVICE_KEY_X_DELTA /\ a2 = pk + DEVICE_KEY_Y_DELTA
    OBVIOUS
  <2>3. a1 \in Nat /\ a2 \in Nat /\ a1 + 48 <= n /\ a2 + 48 <= n
    BY <1>3, <2>1, <2>2
  <2>4. a1 \in anchor_offsets(n) /\ a2 \in anchor_offsets(n)
    BY <1>3, <2>3, FitsAnchor, Zenon
  <2>5. QED BY <2>2, <2>4, Zenon
<1>22. PICK g : g = doc_type_entry(w)
  OBVIOUS
<1>23. /\ Holds(v, 26, g) /\ g \in Seq(Cell) /\ Len(g) \in Nat /\ 1 <= Len(g) /\ Len(g) <= 40
       /\ doc_type_prefix_len(w) = Len(g)
  BY <1>22, DocTypeLocated, Zenon
<1>24. select_masked_text_anchor(v, 26, Len(g)) /\ BytesAt(v, 26, Len(g)) = g
  <2>1. PICK a : a = 26
    OBVIOUS
  <2>2. a \in Nat /\ a + 48 <= n
    BY <1>3, <2>1
  <2>3. Holds(v, a, g)
    BY <1>23, <2>1
  <2>4. select_masked_text_anchor(v, a, Len(g))
    BY <1>1, <1>2, <1>23, <2>2, SelectsText, Zenon
  <2>5. BytesAt(v, a, Len(g)) = g
    BY <1>2, <1>23, <2>2, <2>3, Reads, Zenon DEF ReadAt
  <2>6. QED BY <2>1, <2>4, <2>5
<1>25. bind_digest_region(v, w)
  <2>1. w.num_entries < 256
    BY <1>6
  <2>2. select_anchor(v, w.value_digests_key, VALUE_DIGESTS_OPEN_KEY)
        /\ select_anchor(v, w.device_key_info, DEVICE_KEY_INFO)
    BY <1>5, <1>12, <1>13, Zenon
  <2>3. /\ select_masked_text_anchor(v, w.namespace_key, namespace_prefix_len(w))
        /\ BytesAt(v, w.namespace_key, namespace_prefix_len(w)) = ns_open(w)
    BY <1>1, <1>8, <1>9, <1>14, Zenon
  <2>4. ASSUME NEW t, t = w.value_digests_key + Len(VALUE_DIGESTS_OPEN_KEY) + 1
        PROVE  enforce_ge(w.namespace_offset, t, w.namespace_offset - t)
    BY <1>5, <1>6, <1>15, <2>4, Zenon
  <2>5. w.namespace_offset \in anchor_offsets(Len(v))
    BY <1>1, <1>6, <1>16, Zenon
  <2>6. walk_namespace_entries(v, region_start(w), w.region_start, w.num_entries)
    BY <1>6, <1>9, <1>18, Zenon
  <2>7. enforce_ge(w.device_key_info, native_region_end(v, region_start(w), w.num_entries),
                   w.device_key_info - native_region_end(v, w.region_start, w.num_entries))
    BY <1>5, <1>6, <1>9, <1>19, <1>20, Zenon
  <2>8. \A delta \in {DEVICE_KEY_X_DELTA, DEVICE_KEY_Y_DELTA} : w.device_key_info + delta \in anchor_offsets(Len(v))
    BY <1>1, <1>5, <1>21, Zenon
  <2>9. /\ select_masked_text_anchor(v, w.doc_type_key, doc_type_prefix_len(w))
        /\ BytesAt(v, w.doc_type_key, doc_type_prefix_len(w)) = doc_type_entry(w)
    BY <1>5, <1>22, <1>23, <1>24, Zenon
  <2>10. QED BY <2>1, <2>2, <2>3, <2>4, <2>5, <2>6, <2>7, <2>8, <2>9, Zenon DEF bind_digest_region
<1>26. region_end(v, w) = nk + b
  BY <1>6, <1>9, <1>19, Zenon DEF region_end
<1>27. QED BY <1>1, <1>6, <1>9, <1>25, <1>26, Zenon DEF Bound

\* bind_validity binds what the wallet located.
LEMMA ValiditySatisfied ==
  ASSUME NEW w, NEW c, NEW s, NEW v, NEW z, NEW pv, NEW pd, NEW pk, NEW ns,
         Filled(w, c, s, v, z, pv, pd, pk, ns)
  PROVE  bind_validity(v, w.validity_info)
<1>1. PICK n : n = Len(v)
  OBVIOUS
<1>2. /\ Arranged(pv, pd, w.namespace_key, BodyAt(ns), w.digest_offset, Len(NamespaceBytes(ns)), pk, n)
      /\ s \in Seq(Cell) /\ v \in Seq(Cell)
      /\ \A p \in Seq(Cell) : \A a : Holds(s, a, p) => Holds(v, a, p)
  BY <1>1, ArrangedIs, Zenon
<1>3. Laid(s, c, pv, pd, pk) /\ w.validity_info = pv
  BY Zenon DEF Filled, FilledAnchors
<1>4. pv \in Nat /\ n \in Nat /\ pv + 108 <= n
  <2>1. PICK nk, l, d, b : Arranged(pv, pd, nk, l, d, b, pk, n)
    BY <1>2, Zenon
  <2>2. QED BY <2>1 DEF Arranged
<1>5. Holds(v, pv, VALIDITY_OPEN) /\ Holds(v, pv + 43, VALIDITY_MID_FROM) /\ Holds(v, pv + 75, VALIDITY_MID_UNTIL)
  BY <1>2, <1>3, AnchorCells, Zenon DEF Laid
<1>6. pv + 48 <= n /\ pv + 43 \in Nat /\ pv + 75 \in Nat
  BY <1>4
<1>7. select_anchor(v, pv, VALIDITY_OPEN)
  BY <1>1, <1>2, <1>4, <1>5, <1>6, AnchorCells, Selects, Zenon
<1>8. PICK f, u, a1, a2 : f = VALIDITY_MID_FROM /\ u = VALIDITY_MID_UNTIL /\ a1 = pv + 43 /\ a2 = pv + 75
  OBVIOUS
<1>9. BytesAt(v, a1, Len(f)) = f /\ BytesAt(v, a2, Len(u)) = u
  <2>1. a1 \in Nat /\ a2 \in Nat /\ f \in Seq(Cell) /\ u \in Seq(Cell) /\ Holds(v, a1, f) /\ Holds(v, a2, u)
    BY <1>5, <1>6, <1>8, AnchorCells
  <2>2. ReadAt(v, a1, f) /\ ReadAt(v, a2, u)
    BY <1>2, <2>1, Reads, Zenon
  <2>3. QED BY <2>2, Zenon DEF ReadAt
<1>10. Len(f) = 12 /\ Len(u) = 13
  BY <1>8, AnchorCells
<1>11. BytesAt(v, a1, 12) = f /\ BytesAt(v, a2, 13) = u
  BY <1>9, <1>10
<1>12. /\ a1 = pv + Len(VALIDITY_OPEN) + TIMESTAMP_LEN /\ a2 = pv + VALID_FROM_DELTA + TIMESTAMP_LEN
       /\ VALIDITY_WINDOW_LEN = 108
  BY <1>4, <1>8, AnchorCells DEF VALIDITY_WINDOW_LEN, VALID_FROM_DELTA, VALID_UNTIL_DELTA, TIMESTAMP_LEN
<1>13. pv + VALIDITY_WINDOW_LEN <= Len(v)
  BY <1>1, <1>4, <1>12
<1>14. BytesAt(v, pv + Len(VALIDITY_OPEN) + TIMESTAMP_LEN, 12) = VALIDITY_MID_FROM
  BY <1>8, <1>11, <1>12
<1>15. BytesAt(v, pv + VALID_FROM_DELTA + TIMESTAMP_LEN, 13) = VALIDITY_MID_UNTIL
  BY <1>8, <1>11, <1>12
<1>16. QED BY <1>3, <1>7, <1>13, <1>14, <1>15 DEF bind_validity

\* The digest lies in the region the walk bounds.
LEMMA DigestSatisfied ==
  ASSUME NEW w, NEW c, NEW s, NEW v, NEW z, NEW pv, NEW pd, NEW pk, NEW ns,
         Filled(w, c, s, v, z, pv, pd, pk, ns), Short(v), w.item \in DOMAIN Items
  PROVE  /\ w.digest_offset \in window_offsets(Len(v), 32)
         /\ enforce_ge(w.digest_offset, region_start(w), w.digest_offset - w.region_start)
         /\ enforce_ge(region_end(v, w), w.digest_offset + 32, region_end(v, w) - (w.digest_offset + 32))
         /\ BytesAt(v, w.digest_offset, 32) = ItemDigest(w.item)
<1>1. PICK nk, l, d, b, n, x, y, g, j : /\ nk = w.namespace_key /\ l = BodyAt(ns) /\ d = w.digest_offset
                                  /\ b = Len(NamespaceBytes(ns)) /\ n = Len(v) /\ x = nk + l /\ y = nk + b
                                  /\ j = w.item /\ g = ItemDigest(j)
  OBVIOUS
<1>2. /\ Arranged(pv, pd, nk, l, d, b, pk, n) /\ s \in Seq(Cell) /\ v \in Seq(Cell)
      /\ \A p \in Seq(Cell) : \A a : Holds(s, a, p) => Holds(v, a, p)
  BY <1>1, ArrangedIs, Zenon
<1>3. /\ nk \in Nat /\ l \in Nat /\ d \in Nat /\ b \in Nat /\ pk \in Nat /\ n \in Nat
      /\ nk + l <= d /\ d + 32 <= nk + b /\ nk + b <= pk /\ pk + 124 <= n
  BY <1>2, Zenon DEF Arranged
<1>4. region_start(w) = x /\ w.region_start = x /\ region_end(v, w) = y
  <2>1. Bound(w, v, ns)
    BY RegionSatisfied, Zenon
  <2>2. QED BY <1>1, <2>1, Zenon DEF Bound
<1>5. Holds(s, d, g)
  BY <1>1, Zenon DEF Filled, DigestIn
<1>6. g \in Seq(Cell) /\ Len(g) = 32
  <2>1. j \in Nat
    BY <1>1, ItemType
  <2>2. QED BY <1>1, <2>1, DigestIs, Zenon
<1>7. BytesAt(v, d, 32) = g
  <2>1. Holds(v, d, g)
    BY <1>2, <1>5, <1>6, Zenon
  <2>2. ReadAt(v, d, g)
    BY <1>2, <1>3, <1>6, <2>1, Reads, Zenon
  <2>3. QED BY <1>6, <2>2 DEF ReadAt
<1>8. d \in window_offsets(n, 32)
  <2>1. PICK m : m = n - 32
    OBVIOUS
  <2>2. m \in Nat /\ d <= m
    BY <1>3, <2>1
  <2>3. d \in 0..m
    BY <1>3, <2>2
  <2>4. QED BY <2>1, <2>3, Zenon DEF window_offsets
<1>9. enforce_ge(d, x, d - x)
  <2>1. x \in Nat /\ x <= d /\ d < 65536
    <3>1. x = nk + l /\ n = Len(v)
      BY <1>1
    <3>2. n < 65536
      BY <3>1 DEF Short
    <3>3. QED BY <1>3, <3>1, <3>2
  <2>2. QED BY <1>3, <2>1, Bears
<1>10. enforce_ge(y, d + 32, y - (d + 32))
  <2>1. y \in Nat /\ d + 32 \in Nat /\ d + 32 <= y /\ y < 65536
    <3>1. y = nk + b /\ n = Len(v)
      BY <1>1
    <3>2. n < 65536
      BY <3>1 DEF Short
    <3>3. QED BY <1>3, <3>1, <3>2
  <2>2. QED BY <2>1, Bears
<1>11. QED BY <1>1, <1>4, <1>7, <1>8, <1>9, <1>10, Zenon

LEMMA PaddedLen ==
  ASSUME NEW i \in DOMAIN Credentials, WithinBudget
  PROVE  Len(PaddedSig[i]) = MAX_SIG_STRUCTURE_BYTES /\ Short(PaddedSig[i])
<1>1. PICK m, s, v : m = MAX_SIG_STRUCTURE_BYTES /\ s = SigTable[i] /\ v = PaddedSig[i]
  OBVIOUS
<1>2. m \in Nat /\ m < 65536 /\ Len(s) <= m
  BY <1>1, IssuedAssumption DEF WithinBudget
<1>3. IsCredential(Credentials[i])
  BY IssuedAssumption
<1>4. s = SigStructure(Credentials[i]) /\ v = Padded(s, m)
  BY <1>1 DEF SigTable, PaddedSig
<1>5. s \in Seq(Cell)
  BY <1>3, <1>4, SigIs, Zenon DEF SigPlaced
<1>6. m \in Nat /\ Len(s) <= m
  BY <1>2
<1>7. Len(v) = m
  <2>1. \A k \in Nat : Len(s) <= k => Len(Padded(s, k)) = k
    BY <1>5, PaddedIs
  <2>2. QED BY <1>4, <1>6, <2>1
<1>8. Short(v)
  BY <1>2, <1>7 DEF Short
<1>9. QED BY <1>1, <1>7, <1>8

\* The item a wallet proves is its namespace's birth_date.
LEMMA WalletItem ==
  ASSUME NEW q \in Provable, NEW j \in DOMAIN Sessions, NEW w, w = Witness(q, Sessions[j])
  PROVE  /\ w.item \in DOMAIN Items /\ Items[w.item].element = "birth_date"
         /\ w.cred = q[1] /\ w.cred \in DOMAIN Credentials /\ w.issuer = Credentials[w.cred].issuer
         /\ w.value_key_offset = element_value_key_offset(Items[w.item].salt, Len(Items[w.item].id))
         /\ Items[w.item].encoding \in ALL => w.encoding = Items[w.item].encoding
<1>1. PICK i, r, c, ns, e, b : /\ i = q[1] /\ r = q[2] /\ c = Credentials[i] /\ ns = c.namespaces[r]
                               /\ e = NamespaceOpen(ns) /\ b = BirthDate(ns)
  OBVIOUS
<1>2. LookedUp(w, i, c, ns, e)
  BY <1>1, WalletFields, Zenon
<1>3. \E k \in DOMAIN ns.items : Items[ns.items[k]].element = "birth_date"
  BY <1>1, ProvableIs, Zenon
<1>4. Items[ns.items[b]].element = "birth_date"
  BY <1>1, <1>3, Zenon DEF BirthDate
<1>5. Typed(w) /\ w.cred = i
  BY <1>1, WitnessIs, Zenon
<1>6. w.cred \in DOMAIN Credentials /\ w.item \in DOMAIN Items
  BY <1>5, Zenon DEF Typed
<1>7. w.item = ns.items[b] /\ w.issuer = c.issuer
  BY <1>1, <1>2, Zenon DEF LookedUp
<1>8. /\ w.value_key_offset = element_value_key_offset(Items[w.item].salt, Len(Items[w.item].id))
      /\ Items[w.item].encoding \in ALL => w.encoding = Items[w.item].encoding
  BY <1>2, Zenon DEF LookedUp
<1>9. Items[w.item].element = "birth_date"
  BY <1>4, <1>7, Zenon
<1>10. QED BY <1>1, <1>5, <1>6, <1>7, <1>8, <1>9, Zenon

\* An answer a verifier asked for satisfies the circuit.
LEMMA HonestSatisfied ==
  ASSUME WithinBudget, NEW q \in Provable, NEW j \in DOMAIN Sessions, NEW w, w = Witness(q, Sessions[j]),
         Deserves(w, Sessions[j])
  PROVE  Satisfied(w)
<1>1. PICK i, k, c, s, v, o : /\ i = w.cred /\ k = w.item /\ c = Credentials[i] /\ s = SigTable[i]
                              /\ v = PaddedSig[i] /\ o = Sessions[j]
  OBVIOUS
<1>2. /\ k \in DOMAIN Items /\ Items[k].element = "birth_date"
      /\ i = q[1] /\ i \in DOMAIN Credentials /\ w.issuer = c.issuer
      /\ w.value_key_offset = element_value_key_offset(Items[k].salt, Len(Items[k].id))
      /\ Items[k].encoding \in ALL => w.encoding = Items[k].encoding
  BY <1>1, WalletItem, Zenon
<1>3. /\ Items[k].encoding \in ALL /\ c.from <= o.now /\ o.now <= c.until
  BY <1>1, Zenon DEF Deserves
<1>4. PICK z, pv, pd, pk, ns : Filled(w, c, s, v, z, pv, pd, pk, ns)
  BY <1>1, <1>2, WalletLocates, Zenon
<1>5. Len(v) = MAX_SIG_STRUCTURE_BYTES /\ Short(v)
  BY <1>1, <1>2, PaddedLen, Zenon
<1>6. /\ bind_digest_region(v, w) /\ bind_validity(v, w.validity_info)
  <2>1. Bound(w, v, ns)
    BY <1>4, <1>5, RegionSatisfied, Zenon
  <2>2. bind_validity(v, w.validity_info)
    BY <1>4, ValiditySatisfied, Zenon
  <2>3. QED BY <2>1, <2>2, Zenon DEF Bound
<1>7. /\ w.digest_offset \in window_offsets(Len(v), 32)
      /\ enforce_ge(w.digest_offset, region_start(w), w.digest_offset - w.region_start)
      /\ enforce_ge(region_end(v, w), w.digest_offset + 32, region_end(v, w) - (w.digest_offset + 32))
      /\ BytesAt(v, w.digest_offset, 32) = ItemDigest(w.item)
  BY <1>1, <1>2, <1>4, <1>5, DigestSatisfied, Zenon
<1>8. extract_birth_date(k, w.value_key_offset, w.encoding)
  BY <1>2, <1>3, BirthDateShown, Zenon
<1>9. Len(SigTable[i]) <= MAX_SIG_STRUCTURE_BYTES /\ Len(ItemTable[k]) <= MAX_CLAIM_BYTES
  BY <1>2 DEF WithinBudget
<1>20. sig_bytes(w) = v
  BY <1>1, WitnessIs, Zenon DEF sig_bytes
<1>10. synthesize_credential(w)
  BY <1>20, <1>1, <1>2, <1>5, <1>6, <1>7, <1>8, <1>9, Zenon DEF synthesize_credential
<1>11. /\ Typed(w) /\ w.device_auth = Signature(q[1], o.device_auth_digest) /\ w.now = o.now
       /\ w.device_auth_digest = o.device_auth_digest
  BY <1>1, WitnessIs, Zenon
<1>12. w.device_auth.key = c.device /\ w.device_auth.digest = o.device_auth_digest
  BY <1>1, <1>2, <1>11 DEF Signature
<1>13. IsCredential(c) /\ SigPlaced(v, c, pv, pd, pk)
  BY <1>4, Zenon DEF Filled, Signed
<1>14. c.from \in Day /\ c.until \in Day /\ o.now \in Day
  BY <1>1, <1>13, CredentialType, IssuedAssumption DEF IsSession
<1>15. valid_from(v, w.validity_info) = TimeDigits(c.from) /\ valid_until(v, w.validity_info) = TimeDigits(c.until)
  BY <1>6, <1>13, ValidityBound, Zenon
<1>16. device_key(v, w) = Devices[c.device]
  <2>1. select_anchor(v, w.device_key_info, DEVICE_KEY_INFO)
    BY <1>6, Zenon DEF bind_digest_region
  <2>2. QED BY <1>13, <2>1, DeviceBound, Zenon
<1>17. date_not_after(TimeDigits(c.from), TimeDigits(o.now)) /\ date_not_after(TimeDigits(o.now), TimeDigits(c.until))
  BY <1>3, <1>14, TimesOrder, Zenon
<1>18. synthesize_session(w)
  BY <1>20, <1>1, <1>11, <1>12, <1>15, <1>16, <1>17, Zenon DEF synthesize_session
<1>19. QED BY <1>10, <1>18, Zenon DEF Satisfied

\* read_tstr reads a name that stands there and fits.
NameReadAs(t, W, at, n) ==
  /\ t.ok /\ t.start = at + HeadLen(NameLen[n]) /\ t.end = at + HeadLen(NameLen[n]) + NameLen[n]
  /\ Spells(W, t, n)

LEMMA NameReads ==
  ASSUME NEW W \in Seq(Cell), NEW at \in Nat, NEW n \in Names, Holds(W, at, NameBytes(n)),
         at + Len(NameBytes(n)) <= 40, NEW t, t = read_tstr(W, at)
  PROVE  NameReadAs(t, W, at, n)
<1>1. PICK b, i, lit : b = NameBytes(n) /\ i = NameLen[n] /\ lit = Literal(n, i)
  OBVIOUS
<1>2. i \in Nat /\ i >= 1 /\ HeadLen(i) \in Nat
  BY <1>1, NameType, HeadLenType
<1>3. /\ Len(b) = HeadLen(i) + i /\ b[1] = <<"byte", First(96, 120, i)>> /\ (i >= 24 => b[2] = <<"byte", i>>)
      /\ Holds(b, HeadLen(i), lit) /\ b \in Seq(Cell)
  BY <1>1, NameIs, Zenon DEF NamePlaced
<1>4. PICK h, g : h = W[at + 1][2] /\ g = W[at + 2][2]
  OBVIOUS
<1>5. h = First(96, 120, i)
  <2>1. 1 \in 1..Len(b)
    BY <1>2, <1>3
  <2>2. W[at + 1] = b[1]
    BY <1>1, <2>1, Zenon DEF Holds
  <2>3. QED BY <1>3, <1>4, <2>2
<1>6. t = CASE h \in 96..119 -> [ok |-> TRUE, start |-> at + 1, end |-> at + 1 + h - 96]
            [] h = 120 /\ g >= 24 -> [ok |-> at + 2 + g <= 40, start |-> at + 2, end |-> at + 2 + g]
            [] OTHER -> [ok |-> FALSE, start |-> 0, end |-> 0]
  BY <1>4, Zenon DEF read_tstr, ANCHOR_TEXT_WINDOW
<1>7. t.ok /\ t.start = at + HeadLen(i) /\ t.end = at + HeadLen(i) + i
  <2>1. CASE i < 24
    <3>1. h = 96 + i /\ h \in 96..119 /\ HeadLen(i) = 1 /\ h # 120
      BY <1>2, <1>5, <2>1 DEF First, HeadLen
    <3>2. t = [ok |-> TRUE, start |-> at + 1, end |-> at + 1 + h - 96]
      BY <1>6, <3>1
    <3>3. t.ok = TRUE /\ t.start = at + 1 /\ t.end = at + 1 + h - 96
      BY <3>2
    <3>4. QED BY <1>2, <3>1, <3>3
  <2>2. CASE ~(i < 24)
    <3>1. h = 120 /\ HeadLen(i) = 2
      BY <1>2, <1>5, <2>2 DEF First, HeadLen
    <3>2. 2 \in 1..Len(b) /\ i >= 24
      BY <1>2, <1>3, <2>2, <3>1
    <3>3. W[at + 2] = b[2]
      BY <1>1, <3>2, Zenon DEF Holds
    <3>4. g = i
      BY <1>3, <1>4, <3>2, <3>3
    <3>5. at + 2 + g <= 40
      <4>1. Len(b) = 2 + i /\ at + Len(b) <= 40
        BY <1>1, <1>3, <3>1
      <4>2. QED BY <1>2, <3>4, <4>1
    <3>6. t = [ok |-> TRUE, start |-> at + 2, end |-> at + 2 + g]
      <4>1. t = [ok |-> at + 2 + g <= 40, start |-> at + 2, end |-> at + 2 + g]
        BY <1>6, <3>1, <3>2, <3>4
      <4>2. QED BY <3>5, <4>1
    <3>7. t.ok = TRUE /\ t.start = at + 2 /\ t.end = at + 2 + g
      BY <3>6
    <3>8. QED BY <1>2, <3>1, <3>4, <3>7
  <2>3. QED BY <2>1, <2>2
<1>8. PICK a : a = at + HeadLen(i)
  OBVIOUS
<1>9. a \in Nat /\ lit \in Seq(Cell) /\ i = Len(lit)
  <2>1. lit \in Seq(Cell) /\ Len(lit) = i
    BY <1>1, <1>2, NameType, LiteralCells, Zenon
  <2>2. QED BY <1>2, <1>8, <2>1
<1>10. Holds(W, a, lit)
  BY <1>1, <1>3, <1>8, <1>9, HoldsPart, Zenon
<1>11. BytesAt(W, a, i) = lit
  <2>1. ReadAt(W, a, lit)
    BY <1>9, <1>10, Reads, Zenon
  <2>2. QED BY <1>9, <2>1 DEF ReadAt
<1>12. t.end - t.start = i
  <2>1. PICK x, y : x = t.start /\ y = t.end
    OBVIOUS
  <2>2. x = at + HeadLen(i) /\ y = at + HeadLen(i) + i
    BY <1>7, <2>1
  <2>3. y - x = i
    BY <1>2, <2>2
  <2>4. QED BY <2>1, <2>3
<1>13. Spells(W, t, n)
  BY <1>1, <1>7, <1>8, <1>11, <1>12, Zenon DEF Spells
<1>14. QED BY <1>1, <1>7, <1>13, Zenon DEF NameReadAs

\* map_entries reads the number of entries that stands there.
CountReadAs(t, m) == t.ok /\ t.len = HeadLen(m) /\ t.entries = m

LEMMA CountReads ==
  ASSUME NEW W \in Seq(Cell), NEW at \in Nat, NEW m \in Nat, Holds(W, at, map_header(m)),
         NEW t, t = map_entries(W, at)
  PROVE  CountReadAs(t, m)
<1>1. PICK b : b = map_header(m)
  OBVIOUS
<1>2. Len(b) = HeadLen(m) /\ b[1] = <<"byte", First(160, 184, m)>> /\ (m >= 24 => b[2] = <<"byte", m>>)
  BY <1>1, MapHead, Zenon DEF Header
<1>3. PICK h, g : h = W[at + 1][2] /\ g = W[at + 2][2]
  OBVIOUS
<1>4. h = First(160, 184, m)
  <2>1. 1 \in 1..Len(b)
    BY <1>2, HeadLenType
  <2>2. W[at + 1] = b[1]
    BY <1>1, <2>1, Zenon DEF Holds
  <2>3. QED BY <1>2, <1>3, <2>2
<1>5. t = CASE h \in 160..183 -> [ok |-> TRUE, len |-> 1, entries |-> h - 160]
            [] h = 184 -> [ok |-> g >= 24, len |-> 2, entries |-> g]
            [] OTHER -> [ok |-> FALSE, len |-> 0, entries |-> 0]
  BY <1>3, Zenon DEF map_entries
<1>6. CASE m < 24
  <2>1. h = 160 + m /\ h \in 160..183 /\ HeadLen(m) = 1 /\ h # 184
    BY <1>4, <1>6 DEF First, HeadLen
  <2>2. t = [ok |-> TRUE, len |-> 1, entries |-> h - 160]
    BY <1>5, <2>1
  <2>3. t.ok = TRUE /\ t.len = 1 /\ t.entries = h - 160
    BY <2>2
  <2>4. QED BY <2>1, <2>3 DEF CountReadAs
<1>7. CASE ~(m < 24)
  <2>1. h = 184 /\ HeadLen(m) = 2
    BY <1>4, <1>7 DEF First, HeadLen
  <2>2. 2 \in 1..Len(b) /\ m >= 24
    BY <1>2, <1>7, <2>1
  <2>3. W[at + 2] = b[2]
    BY <1>1, <2>2, Zenon DEF Holds
  <2>4. g = m
    BY <1>2, <1>3, <2>2, <2>3
  <2>5. t = [ok |-> TRUE, len |-> 2, entries |-> g]
    <3>1. t = [ok |-> g >= 24, len |-> 2, entries |-> g]
      BY <1>5, <2>1
    <3>2. QED BY <2>2, <2>4, <3>1
  <2>6. t.ok = TRUE /\ t.len = 2 /\ t.entries = g
    BY <2>5
  <2>7. QED BY <2>1, <2>4, <2>6 DEF CountReadAs
<1>8. QED BY <1>6, <1>7

\* What a window shows.
LEMMA WindowShown ==
  ASSUME NEW s \in Seq(Cell), NEW at, NEW e, Shown(s, at, e), NEW n, n = Len(e), NEW W, W = MaskedWindow(s, at, n)
  PROVE  W \in Seq(Cell) /\ Holds(W, 0, e) /\ n \in Nat /\ n <= 40 /\ e \in Seq(Cell)
<1>1. e \in Seq(Cell) /\ Holds(s, at, e) /\ n \in 1..40
  BY Zenon DEF Shown
<1>2. W \in Seq(Cell) /\ Holds(W, 0, e)
  BY <1>1, WindowHolds, ZenonT(40)
<1>3. \A k \in 1..40 : k \in Nat /\ k <= 40
  OBVIOUS
<1>4. QED BY <1>1, <1>2, <1>3, Zenon

\* The verifier reads the docType in its window.
LEMMA DocTypeRead ==
  ASSUME NEW w, Typed(w), w.behind = NoTail, Genuine(w), NEW v, v = public_values(w)
  PROVE  /\ BytesAt(v.doc_type, 0, Len(DOC_TYPE_KEY)) = DOC_TYPE_KEY
         /\ Spells(v.doc_type, read_tstr(v.doc_type, Len(DOC_TYPE_KEY)), w.doc_type)
<1>1. PICK s, e, n, W, k, l, b : /\ s = PaddedSig[w.cred] /\ e = doc_type_entry(w) /\ n = w.doc_type /\ W = v.doc_type
                              /\ k = DOC_TYPE_KEY /\ l = Len(k) /\ b = NameBytes(n)
  OBVIOUS
<1>2. n \in Names
  BY <1>1, Zenon DEF Typed
<1>3. w.doc_type_key = 26 /\ Shown(s, 26, e)
  BY <1>1, Zenon DEF Genuine
<1>4. W = MaskedWindow(s, w.doc_type_key, Len(e))
  BY <1>1 DEF public_values, doc_type_prefix_len, sig_bytes
<1>5. W = MaskedWindow(s, 26, Len(e))
  BY <1>3, <1>4, Zenon
<1>6. s \in Seq(Cell)
  BY <1>1, Zenon DEF Genuine
<1>7. e \in Seq(Cell) /\ Len(e) \in Nat /\ Len(e) <= 40
  BY <1>3, <1>5, <1>6, WindowShown, Zenon
<1>8. W \in Seq(Cell) /\ Holds(W, 0, e)
  BY <1>3, <1>5, <1>6, WindowShown, Zenon
<1>9. DocEntry(e, n)
  BY <1>1, <1>2, DocEntryIs, Zenon
<1>10. Len(e) = 8 + Len(b) /\ Holds(e, 8, b) /\ Holds(e, 0, k) /\ Len(b) \in Nat
  BY <1>1, <1>9, Zenon DEF DocEntry
<1>11. k \in Seq(Cell) /\ l = 8
  BY <1>1, AnchorCells
<1>12. b \in Seq(Cell)
  BY <1>1, <1>2, NameIs, Zenon DEF NamePlaced
<1>13. Holds(W, 0 + 8, b) /\ Holds(W, 0 + 0, k)
  BY <1>7, <1>8, <1>10, <1>11, <1>12, HoldsPart, Zenon
<1>14. 0 + 8 = l /\ 0 + 0 = 0 /\ 0 \in Nat /\ l \in Nat
  BY <1>11
<1>15. Holds(W, l, b) /\ Holds(W, 0, k)
  BY <1>13, <1>14
<1>16. BytesAt(W, 0, l) = k
  <2>1. PICK x : x = 0
    OBVIOUS
  <2>2. x \in Nat /\ Holds(W, x, k) /\ l = Len(k) /\ k \in Seq(Cell)
    BY <1>1, <1>11, <1>15, <2>1
  <2>3. ReadAt(W, x, k)
    BY <1>8, <2>2, Reads, Zenon
  <2>4. QED BY <2>1, <2>2, <2>3 DEF ReadAt
<1>17. l + Len(b) <= 40
  BY <1>7, <1>10, <1>11
<1>18. Spells(W, read_tstr(W, l), n)
  <2>1. NameReadAs(read_tstr(W, l), W, l, n)
    BY <1>1, <1>2, <1>8, <1>14, <1>15, <1>17, NameReads, Zenon
  <2>2. QED BY <2>1, Zenon DEF NameReadAs
<1>19. QED BY <1>1, <1>16, <1>18, Zenon

\* The verifier reads the namespace and the number of its entries in its window.
NamespaceReads(W, n, m, len) ==
  LET t == read_tstr(W, 0)
      map == map_entries(W, t.end)
  IN  Spells(W, t, n) /\ map.ok /\ len = t.end + map.len /\ m = map.entries

LEMMA NamespaceRead ==
  ASSUME NEW w, Typed(w), w.behind = NoTail, Genuine(w), NEW v, v = public_values(w)
  PROVE  NamespaceReads(v.namespace, w.namespace, w.num_entries, v.prefix_len)
<1>1. PICK s, e, n, W, m, at, b, h, t, map : /\ s = PaddedSig[w.cred] /\ e = ns_open(w) /\ n = w.namespace
                              /\ W = v.namespace /\ m = w.num_entries /\ at = w.namespace_key
                              /\ b = NameBytes(n) /\ h = map_header(m)
                              /\ t = read_tstr(W, 0) /\ map = map_entries(W, t.end)
  OBVIOUS
<1>2. n \in Names
  BY <1>1, Zenon DEF Typed
<1>3. m \in Nat /\ Shown(s, at, e)
  BY <1>1, Zenon DEF Genuine
<1>4. W = MaskedWindow(s, at, Len(e)) /\ v.prefix_len = Len(e)
  BY <1>1 DEF public_values, namespace_prefix_len, sig_bytes
<1>5. s \in Seq(Cell)
  BY <1>1, Zenon DEF Genuine
<1>6. e \in Seq(Cell) /\ Len(e) \in Nat /\ Len(e) <= 40
  BY <1>3, <1>4, <1>5, WindowShown, Zenon
<1>7. W \in Seq(Cell) /\ Holds(W, 0, e)
  BY <1>3, <1>4, <1>5, WindowShown, Zenon
<1>8. NsOpen(e, n, m)
  BY <1>1, <1>2, <1>3, NsOpenIs, Zenon
<1>9. PICK l, y : l = Len(b) /\ y = HeadLen(m)
  OBVIOUS
<1>10. /\ l \in Nat /\ y \in Nat /\ l = HeadLen(NameLen[n]) + NameLen[n] /\ Len(e) = l + y
       /\ Holds(e, 0, b) /\ Holds(e, l, h) /\ b \in Seq(Cell) /\ h \in Seq(Cell)
  BY <1>1, <1>8, <1>9, Zenon DEF NsOpen
<1>11. Holds(W, 0 + 0, b) /\ Holds(W, 0 + l, h)
  BY <1>6, <1>7, <1>10, HoldsPart, Zenon
<1>12. 0 + 0 = 0 /\ 0 + l = l /\ 0 \in Nat /\ l \in Nat /\ 0 + l <= 40
  BY <1>6, <1>10
<1>13. Holds(W, 0, b) /\ Holds(W, l, h)
  BY <1>11, <1>12, Zenon
<1>14. t.end = 0 + HeadLen(NameLen[n]) + NameLen[n] /\ Spells(W, t, n)
  <2>1. PICK x : x = 0
    OBVIOUS
  <2>2. x \in Nat /\ Holds(W, x, NameBytes(n)) /\ x + Len(NameBytes(n)) <= 40 /\ t = read_tstr(W, x)
    BY <1>1, <1>9, <1>12, <1>13, <2>1
  <2>3. NameReadAs(t, W, x, n)
    BY <1>2, <1>7, <2>2, NameReads, Zenon
  <2>4. QED BY <2>1, <2>3 DEF NameReadAs
<1>15. t.end = l
  <2>1. NameLen[n] \in Nat /\ HeadLen(NameLen[n]) \in Nat
    BY <1>2, NameType, HeadLenType
  <2>2. PICK x, a : x = NameLen[n] /\ a = HeadLen(NameLen[n])
    OBVIOUS
  <2>3. 0 + a + x = a + x
    BY <2>1, <2>2
  <2>4. QED BY <1>10, <1>14, <2>2, <2>3, Zenon
<1>16. map = map_entries(W, l)
  BY <1>1, <1>15, Zenon
<1>17. map.ok /\ map.len = y /\ map.entries = m
  <2>1. Holds(W, l, map_header(m))
    BY <1>1, <1>13, Zenon
  <2>2. CountReadAs(map, m)
    BY <1>3, <1>7, <1>12, <1>16, <2>1, CountReads, Zenon
  <2>3. QED BY <1>9, <2>2, Zenon DEF CountReadAs
<1>18. v.prefix_len = t.end + map.len
  BY <1>4, <1>10, <1>15, <1>17, Zenon
<1>19. NamespaceReads(W, n, m, v.prefix_len)
  BY <1>1, <1>14, <1>17, <1>18, Zenon DEF NamespaceReads
<1>20. QED BY <1>1, <1>19, Zenon

\* A verifier accepts the answer it asked for.
LEMMA HonestAccepts ==
  ASSUME NEW q \in Provable, NEW j \in DOMAIN Sessions, NEW w, w = Witness(q, Sessions[j]),
         Deserves(w, Sessions[j]), Satisfied(w)
  PROVE  check_public_values(public_values(w), Sessions[j])
<1>1. PICK o, v, c, k, d : /\ o = Sessions[j] /\ v = public_values(w) /\ c = Credentials[w.cred] /\ k = w.item
                           /\ d = Items[k].date
  OBVIOUS
<1>2. Typed(w) /\ w.behind = NoTail /\ w.cutoff = o.cutoff /\ w.now = o.now /\ w.device_auth_digest = o.device_auth_digest
  BY <1>1, WitnessIs, Zenon
<1>3. Genuine(w)
  BY <1>2, CredentialGenuine, Zenon DEF Satisfied
<1>4. /\ d <= o.cutoff /\ <<w.doc_type, w.namespace>> \in o.accepted
      /\ o.policy = "Only" => c.issuer \in o.issuers
  BY <1>1, Zenon DEF Deserves
<1>5. /\ v.issuer = w.issuer /\ v.device_auth_digest = w.device_auth_digest
      /\ v.now = TimeDigits(w.now) /\ v.cutoff = DateDigits(w.cutoff) /\ v.num_entries = w.num_entries
  BY <1>1 DEF public_values
<1>6. v.old_enough = date_not_after(birth_date_bytes(w), DateDigits(w.cutoff))
  BY <1>1 DEF public_values
<1>7. w.issuer = c.issuer /\ birth_date_bytes(w) = DateDigits(d)
  BY <1>1, <1>3, Zenon DEF Genuine
<1>8. date_not_after(DateDigits(d), DateDigits(o.cutoff))
  <2>1. k \in DOMAIN Items /\ o.cutoff \in Day
    BY <1>1, <1>2, Zenon DEF Typed
  <2>2. d \in Day
    BY <1>1, <2>1, ItemType, Zenon
  <2>3. QED BY <1>4, <2>1, <2>2, DatesCompare, Zenon
<1>9. v.old_enough
  BY <1>2, <1>6, <1>7, <1>8, Zenon
<1>10. /\ BytesAt(v.doc_type, 0, Len(DOC_TYPE_KEY)) = DOC_TYPE_KEY
       /\ Spells(v.doc_type, read_tstr(v.doc_type, Len(DOC_TYPE_KEY)), w.doc_type)
  BY <1>1, <1>2, <1>3, DocTypeRead, Zenon
<1>11. NamespaceReads(v.namespace, w.namespace, w.num_entries, v.prefix_len)
  BY <1>1, <1>2, <1>3, NamespaceRead, Zenon
<1>12. PICK t, map : t = read_tstr(v.namespace, 0) /\ map = map_entries(v.namespace, t.end)
  OBVIOUS
<1>13. Spells(v.namespace, t, w.namespace) /\ map.ok /\ v.prefix_len = t.end + map.len /\ v.num_entries = map.entries
  BY <1>5, <1>11, <1>12, Zenon DEF NamespaceReads
<1>14. PICK a : a = <<w.doc_type, w.namespace>>
  OBVIOUS
<1>15. a \in o.accepted /\ a[1] = w.doc_type /\ a[2] = w.namespace
  BY <1>4, <1>14
<1>16. \E x \in o.accepted : /\ Spells(v.doc_type, read_tstr(v.doc_type, Len(DOC_TYPE_KEY)), x[1])
                             /\ Spells(v.namespace, t, x[2])
  BY <1>10, <1>13, <1>15, Zenon
<1>17. /\ v.device_auth_digest = o.device_auth_digest /\ v.cutoff = DateDigits(o.cutoff)
       /\ v.now = TimeDigits(o.now) /\ (o.policy = "Only" => v.issuer \in o.issuers)
  BY <1>2, <1>4, <1>5, <1>7, Zenon
<1>18. check_public_values(v, o)
  BY <1>9, <1>10, <1>12, <1>13, <1>16, <1>17, Zenon DEF check_public_values
<1>19. QED BY <1>1, <1>18, Zenon

LEMMA InvHonest == WithinBudget => (AgeInv => HonestIsAccepted)
<1>1. SUFFICES ASSUME WithinBudget, AgeInv, asked # NoSession, changed = {}, Deserves(draft, Sessions[asked])
               PROVE  Satisfied(draft) /\ check_public_values(public_values(draft), Sessions[asked])
  BY DEF HonestIsAccepted
<1>2. Unchanged
  BY <1>1, Zenon DEF AgeInv
<1>3. asked \in DOMAIN Sessions /\ \E q \in Provable : draft = Witness(q, Sessions[asked])
  BY <1>2, Zenon DEF Unchanged
<1>4. Satisfied(draft)
  BY <1>1, <1>3, HonestSatisfied, Zenon
<1>5. check_public_values(public_values(draft), Sessions[asked])
  BY <1>1, <1>3, <1>4, HonestAccepts, Zenon
<1>6. QED BY <1>4, <1>5

\* A wallet whose credential answers what a verifier asked, and which changes nothing, satisfies the
\* circuit and is accepted, for every credential, item and session within the circuit's budgets
\* (WithinBudget): every salt length, digestID width, number of namespaces and of entries, a
\* birthday on the cutoff and a credential that fills its buffer (offset_bind.rs,
\* mdoc_age_circuit.rs synthesize_credential, synthesize_session and check_public_values).
THEOREM HonestAccepted == WithinBudget => (Spec => []HonestIsAccepted)
<1>1. SUFFICES ASSUME WithinBudget PROVE Spec => []HonestIsAccepted
  OBVIOUS
<1>2. AgeInv => HonestIsAccepted
  BY <1>1, InvHonest
<1>3. QED BY <1>2, AgeInvariant, PTL
=============================================================================
