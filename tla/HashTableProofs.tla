-------------------------- MODULE HashTableProofs ---------------------------
(***************************************************************************)
(* The properties of HashTable for any layout whose regions do not overlap,*)
(* messages of any length, and a prover that changes any number of entries.*)
(***************************************************************************)
EXTENDS HashTable, SequenceTheorems, WellFoundedInduction, TLAPS

-----------------------------------------------------------------------------
(* Chains of blocks.                                                       *)

MsgNames == {"signed", "attribute", "ssc", "seed", "nym"}
Block == [of : MsgNames \cup {"zero"}, n : Nat]

\* State x followed by the blocks at the positions i to j.
Chain(b, x, i, j) == x \o [n \in 1..(j - i + 1) |-> b[i + n - 1]]

\* A state that holds x and then the blocks at the positions i to j.
Holds(c, b, x, i, j) ==
  /\ c \in Seq(Block) /\ Len(c) = Len(x) + j - i + 1
  /\ \A m \in 1..Len(x) + j - i + 1 :
       c[m] = IF m <= Len(x) THEN x[m] ELSE b[i + m - Len(x) - 1]

LEMMA ChainIsState ==
  ASSUME NEW b \in [Position -> Block], NEW x \in Seq(Block),
         NEW i \in Position, NEW j \in Position, i <= j, POSITIONS \in Nat
  PROVE  Holds(Chain(b, x, i, j), b, x, i, j)
<1>1. PICK t : t = [n \in 1..(j - i + 1) |-> b[i + n - 1]]
  OBVIOUS
<1>2. t \in Seq(Block) /\ Len(t) = j - i + 1
  BY <1>1 DEF Position
<1>3. /\ x \o t \in Seq(Block) /\ Len(x \o t) = Len(x) + Len(t)
      /\ \A m \in 1..Len(x) + Len(t) : (x \o t)[m] = IF m <= Len(x) THEN x[m] ELSE t[m - Len(x)]
  BY <1>2, ConcatProperties, Zenon
<1>4. Len(x) \in Nat
  BY LenProperties
<1>5. PICK r : r = x \o t
  OBVIOUS
<1>6. Chain(b, x, i, j) = r
  BY <1>1, <1>5, Zenon DEF Chain
<1>7. Len(r) = Len(x) + j - i + 1
  BY <1>2, <1>3, <1>4, <1>5 DEF Position
<1>8. ASSUME NEW m \in 1..Len(x) + j - i + 1
      PROVE  r[m] = IF m <= Len(x) THEN x[m] ELSE b[i + m - Len(x) - 1]
  <2>1. m \in 1..Len(x) + Len(t)
    BY <1>2, <1>4 DEF Position
  <2>2. r[m] = IF m <= Len(x) THEN x[m] ELSE t[m - Len(x)]
    BY <1>3, <1>5, <2>1, Zenon
  <2>3. ~(m <= Len(x)) => t[m - Len(x)] = b[i + (m - Len(x)) - 1]
    BY <1>1, <1>4, <2>1 DEF Position
  <2>4. i + (m - Len(x)) - 1 = i + m - Len(x) - 1
    BY <1>4 DEF Position
  <2>5. QED BY <2>2, <2>3, <2>4
<1>9. QED BY <1>3, <1>5, <1>6, <1>7, <1>8 DEF Holds

LEMMA ChainStarts ==
  ASSUME NEW b \in [Position -> Block], NEW x \in Seq(Block), NEW i \in Position, POSITIONS \in Nat
  PROVE  Chain(b, x, i, i) = Append(x, b[i])
<1>1. PICK c : c = Chain(b, x, i, i)
  OBVIOUS
<1>2. PICK a : a = Append(x, b[i])
  OBVIOUS
<1>3. i <= i
  BY DEF Position
<1>4. /\ c \in Seq(Block) /\ Len(c) = Len(x) + i - i + 1
      /\ \A m \in 1..Len(x) + i - i + 1 :
           c[m] = IF m <= Len(x) THEN x[m] ELSE b[i + m - Len(x) - 1]
  <2>1. Holds(c, b, x, i, i)
    BY <1>1, <1>3, ChainIsState, Zenon
  <2>2. QED BY <2>1, Zenon DEF Holds
<1>5. /\ a \in Seq(Block) /\ Len(a) = Len(x) + 1
      /\ \A m \in 1..Len(x) : a[m] = x[m]
      /\ a[Len(x) + 1] = b[i]
  BY <1>2, AppendProperties
<1>6. Len(x) \in Nat
  BY LenProperties
<1>7. Len(c) = Len(a) /\ \A m \in 1..Len(c) : c[m] = a[m]
  <2>1. i \in Nat
    BY DEF Position
  <2>2. Len(c) = Len(x) + 1 /\ Len(x) + i - i + 1 = Len(x) + 1
    BY <1>4, <1>6, <2>1
  <2>3. ASSUME NEW m \in 1..Len(x) + 1 PROVE c[m] = a[m]
    <3>1. c[m] = IF m <= Len(x) THEN x[m] ELSE b[i + m - Len(x) - 1]
      BY <1>4, <2>2
    <3>2. CASE m <= Len(x)
      BY <1>5, <1>6, <3>1, <3>2
    <3>3. CASE ~(m <= Len(x))
      <4>1. m = Len(x) + 1 /\ i + m - Len(x) - 1 = i
        BY <1>6, <2>1, <3>3
      <4>2. QED BY <1>5, <3>1, <3>3, <4>1
    <3>4. QED BY <3>2, <3>3
  <2>4. QED BY <1>5, <2>2, <2>3
<1>8. c = a
  BY <1>4, <1>5, <1>7, SeqEqual, Zenon
<1>9. QED BY <1>1, <1>2, <1>8

LEMMA ChainGrows ==
  ASSUME NEW b \in [Position -> Block], NEW x \in Seq(Block), NEW i \in Position, NEW j \in Position,
         i < j, POSITIONS \in Nat
  PROVE  Chain(b, x, i, j) = Append(Chain(b, x, i, j - 1), b[j])
<1>1. PICK c : c = Chain(b, x, i, j)
  OBVIOUS
<1>2. PICK d : d = Chain(b, x, i, j - 1)
  OBVIOUS
<1>3. PICK a : a = Append(d, b[j])
  OBVIOUS
<1>4. i <= j /\ j - 1 \in Position /\ i <= j - 1
  BY DEF Position
<1>5. /\ c \in Seq(Block) /\ Len(c) = Len(x) + j - i + 1
      /\ \A m \in 1..Len(x) + j - i + 1 :
           c[m] = IF m <= Len(x) THEN x[m] ELSE b[i + m - Len(x) - 1]
  <2>1. Holds(c, b, x, i, j)
    BY <1>1, <1>4, ChainIsState, Zenon
  <2>2. QED BY <2>1, Zenon DEF Holds
<1>6. /\ d \in Seq(Block) /\ Len(d) = Len(x) + (j - 1) - i + 1
      /\ \A m \in 1..Len(x) + (j - 1) - i + 1 :
           d[m] = IF m <= Len(x) THEN x[m] ELSE b[i + m - Len(x) - 1]
  <2>1. Holds(d, b, x, i, j - 1)
    BY <1>2, <1>4, ChainIsState, Zenon
  <2>2. QED BY <2>1, Zenon DEF Holds
<1>7. /\ a \in Seq(Block) /\ Len(a) = Len(d) + 1
      /\ \A m \in 1..Len(d) : a[m] = d[m]
      /\ a[Len(d) + 1] = b[j]
  BY <1>3, <1>6, AppendProperties
<1>8. Len(x) \in Nat
  BY LenProperties
<1>9. Len(c) = Len(a) /\ \A m \in 1..Len(c) : c[m] = a[m]
  <2>0. i \in Nat /\ j \in Nat /\ i < j
    BY DEF Position
  <2>1. Len(c) = Len(a)
    BY <1>5, <1>6, <1>7, <1>8, <2>0
  <2>2. ASSUME NEW m \in 1..Len(c) PROVE c[m] = a[m]
    <3>1. CASE m = Len(c)
      <4>1. c[m] = b[i + m - Len(x) - 1] /\ i + m - Len(x) - 1 = j
        <5>1. ~(m <= Len(x)) /\ m \in 1..Len(x) + j - i + 1 /\ i + m - Len(x) - 1 = j
          BY <1>5, <1>8, <3>1, <2>0
        <5>2. QED BY <1>5, <5>1, Zenon
      <4>2. a[m] = b[j]
        BY <1>7, <2>1, <3>1
      <4>3. QED BY <4>1, <4>2
    <3>2. CASE m # Len(c)
      <4>1. m \in 1..Len(x) + (j - 1) - i + 1
        <5>1. PICK k : k = Len(x) + j - i + 1
          OBVIOUS
        <5>2. k \in Int /\ Len(c) = k /\ Len(x) + (j - 1) - i + 1 = k - 1
          BY <1>5, <1>8, <2>0, <5>1
        <5>3. m \in 1..k /\ m # k
          BY <3>2, <5>2
        <5>4. m \in 1..(k - 1)
          BY <5>2, <5>3
        <5>5. QED BY <5>2, <5>4, Zenon
      <4>2. d[m] = IF m <= Len(x) THEN x[m] ELSE b[i + m - Len(x) - 1]
        BY <1>6, <4>1, Zenon
      <4>3. m \in 1..Len(x) + j - i + 1 /\ m \in 1..Len(d)
        BY <1>5, <1>6, <1>8, <2>0, <2>2, <4>1
      <4>4. c[m] = IF m <= Len(x) THEN x[m] ELSE b[i + m - Len(x) - 1]
        BY <1>5, <4>3, Zenon
      <4>5. QED BY <1>7, <4>2, <4>3, <4>4, Zenon
    <3>3. QED BY <3>1, <3>2
  <2>3. QED BY <2>1, <2>2
<1>10. c = a
  BY <1>5, <1>7, <1>9, SeqEqual, Zenon
<1>11. QED BY <1>1, <1>2, <1>3, <1>10

-----------------------------------------------------------------------------
(* The states that from_blocks_in computes.                                *)

LEMMA Least ==
  ASSUME NEW T \in SUBSET Nat, T # {}
  PROVE  \E m \in T : \A k \in T : m <= k
<1>1. PICK m \in T : \A i \in T : <<i, m>> \notin OpToRel(<, Nat)
  BY NatLessThanWellFounded, WFMin, Zenon
<1>2. ASSUME NEW i \in T, i < m PROVE FALSE
  <2>1. <<i, m>> \in OpToRel(<, Nat)
    BY <1>2 DEF OpToRel
  <2>2. QED BY <1>1, <2>1, Zenon
<1>3. QED BY <1>2

\* A chain starts at position j, from state x or from the initial value.
Starts(j) == j = Regions.signed.first \/ starts_from_iv(j)
Origin(x, j) == IF j = Regions.signed.first THEN x ELSE IV

\* Position j belongs to the chain that starts at i.
InRun(i, j) ==
  /\ i \in Position /\ Starts(i) /\ i <= j
  /\ \A k \in Position : i < k /\ k <= j => ~Starts(k)

LEMMA RunStarts ==
  ASSUME LayoutAssumption, NEW j \in Position
  PROVE  Starts(j) => \A i : InRun(i, j) <=> i = j
<1>1. j \in Nat /\ Position \subseteq Nat
  BY DEF Position, LayoutAssumption
<1>2. ASSUME Starts(j), NEW i, InRun(i, j) PROVE i = j
  <2>1. i \in Nat /\ i <= j /\ ~(i < j)
    BY <1>1, <1>2 DEF InRun
  <2>2. QED BY <1>1, <2>1
<1>3. ASSUME Starts(j) PROVE InRun(j, j)
  BY <1>1, <1>3 DEF InRun
<1>4. QED BY <1>2, <1>3, Zenon

LEMMA RunGoesOn ==
  ASSUME LayoutAssumption, NEW j \in Position, ~Starts(j)
  PROVE  j # 0 /\ j - 1 \in Position /\ \A i : InRun(i, j) <=> InRun(i, j - 1)
<1>1. j \in Nat /\ Position \subseteq Nat /\ POSITIONS \in Nat
  BY DEF Position, LayoutAssumption
<1>2. j # 0
  BY DEF LayoutAssumption, Starts
<1>3. j - 1 \in Position
  BY <1>1, <1>2 DEF Position
<1>4. ASSUME NEW i, InRun(i, j) PROVE InRun(i, j - 1)
  <2>1. i # j
    BY <1>4 DEF InRun
  <2>2. QED BY <1>1, <1>3, <1>4, <2>1 DEF InRun
<1>5. ASSUME NEW i, InRun(i, j - 1) PROVE InRun(i, j)
  <2>1. i \in Nat /\ i <= j
    BY <1>1, <1>5 DEF InRun
  <2>2. ASSUME NEW k \in Position, i < k, k <= j PROVE ~Starts(k)
    <3>1. CASE k = j
      BY <3>1
    <3>2. CASE k # j
      BY <1>1, <1>5, <2>2, <3>2 DEF InRun
    <3>3. QED BY <3>1, <3>2
  <2>3. QED BY <1>5, <2>1, <2>2 DEF InRun
<1>6. QED BY <1>2, <1>3, <1>4, <1>5

LEMMA RunExists ==
  ASSUME LayoutAssumption
  PROVE  \A j \in Position : \E i : InRun(i, j)
<1> DEFINE T == {j \in Position : ~\E i : InRun(i, j)}
<1> SUFFICES ASSUME T # {} PROVE FALSE
  OBVIOUS
<1>1. T \in SUBSET Nat /\ Position \subseteq Nat
  BY DEF Position, LayoutAssumption
<1>2. PICK j \in T : \A k \in T : j <= k
  BY <1>1, Least
<1>3. j \in Position /\ ~\E i : InRun(i, j)
  OBVIOUS
<1>4. ~Starts(j)
  BY <1>3, RunStarts
<1>5. j - 1 \in Position /\ \A i : InRun(i, j) <=> InRun(i, j - 1)
  BY <1>3, <1>4, RunGoesOn
<1>6. j - 1 \in T
  BY <1>3, <1>5
<1>7. QED BY <1>1, <1>2, <1>3, <1>6

\* One pass of from_blocks_in's loop over the states f.
Pass(f, b, x) ==
  [j \in Position |->
     compress(IF j = Regions.signed.first THEN x ELSE IF starts_from_iv(j) THEN IV
              ELSE IF j = 0 THEN IV ELSE f[j - 1], b[j])]

LEMMA StatesExist ==
  ASSUME LayoutAssumption, NEW b \in [Position -> Block], NEW x \in Seq(Block)
  PROVE  \E f \in [Position -> Seq(Block)] : f = Pass(f, b, x)
<1> DEFINE from(j) == CHOOSE i : InRun(i, j)
           g == [j \in Position |-> Chain(b, Origin(x, from(j)), from(j), j)]
<1>1. POSITIONS \in Nat /\ Position \subseteq Nat
  BY DEF Position, LayoutAssumption
<1>2. \A j \in Position : InRun(from(j), j)
  BY RunExists, Zenon
<1>3. \A j \in Position : Origin(x, j) \in Seq(Block)
  BY EmptySeq DEF Origin, IV
<1>4. g \in [Position -> Seq(Block)]
  <2> SUFFICES ASSUME NEW j \in Position PROVE g[j] \in Seq(Block)
    OBVIOUS
  <2>1. from(j) \in Position /\ from(j) <= j
    BY <1>2 DEF InRun
  <2> HIDE DEF from
  <2>2. Chain(b, Origin(x, from(j)), from(j), j) \in Seq(Block)
    BY <1>1, <1>3, <2>1, ChainIsState, Zenon DEF Holds
  <2>3. QED BY <2>2
<1>5. ASSUME NEW j \in Position, Starts(j)
      PROVE  g[j] = Pass(g, b, x)[j]
  <2>1. from(j) = j
    BY <1>2, <1>5, RunStarts
  <2> HIDE DEF from
  <2>2. g[j] = Chain(b, Origin(x, j), j, j)
    BY <2>1
  <2>3. Chain(b, Origin(x, j), j, j) = Append(Origin(x, j), b[j])
    BY <1>1, <1>3, ChainStarts, Zenon
  <2>4. Pass(g, b, x)[j] = Append(Origin(x, j), b[j])
    BY <1>5, Zenon DEF Pass, Origin, Starts, compress
  <2>5. QED BY <2>2, <2>3, <2>4, Zenon
<1>6. ASSUME NEW j \in Position, ~Starts(j)
      PROVE  g[j] = Pass(g, b, x)[j]
  <2>1. j # 0 /\ j - 1 \in Position /\ \A i : InRun(i, j) <=> InRun(i, j - 1)
    BY <1>6, RunGoesOn
  <2>2. PICK i : i = from(j)
    OBVIOUS
  <2>3. from(j - 1) = i
    <3>1. \A a, c : InRun(a, j) /\ InRun(c, j) => a = c
      <4> SUFFICES ASSUME NEW a, NEW c, InRun(a, j), InRun(c, j) PROVE a = c
        OBVIOUS
      <4>1. a \in Nat /\ c \in Nat /\ j \in Nat
        BY <1>1 DEF InRun
      <4>2. QED BY <4>1 DEF InRun
    <3>2. InRun(from(j), j) /\ InRun(from(j - 1), j)
      BY <1>2, <2>1, Zenon
    <3>3. QED BY <2>2, <3>1, <3>2, Zenon
  <2>4. i \in Position /\ i <= j - 1
    BY <1>2, <2>1, <2>3 DEF InRun
  <2> HIDE DEF from
  <2>5. g[j] = Chain(b, Origin(x, i), i, j) /\ g[j - 1] = Chain(b, Origin(x, i), i, j - 1)
    BY <2>1, <2>2, <2>3
  <2>6. i < j
    BY <1>1, <2>1, <2>4
  <2>7. Chain(b, Origin(x, i), i, j) = Append(Chain(b, Origin(x, i), i, j - 1), b[j])
    BY <1>1, <1>3, <2>4, <2>6, ChainGrows, Zenon
  <2> HIDE DEF g
  <2>8. Pass(g, b, x)[j] = Append(g[j - 1], b[j])
    BY <1>6, <2>1, Zenon DEF Pass, Starts, compress
  <2>9. QED BY <2>5, <2>7, <2>8, Zenon
<1>7. g = Pass(g, b, x)
  <2>1. \A j \in Position : g[j] = Pass(g, b, x)[j]
    BY <1>5, <1>6, Zenon
  <2> HIDE DEF g
  <2>2. g = [j \in Position |-> g[j]] /\ Pass(g, b, x) = [j \in Position |-> Pass(g, b, x)[j]]
    BY <1>4, Zenon DEF Pass
  <2>3. QED BY <2>1, <2>2
<1>8. QED BY <1>4, <1>7, Zenon

\* What from_blocks_in returns: its blocks and start state, and in each position the state
\* before it compressed with its block.
Computed(t, b, x) ==
  /\ t = [blocks |-> t.blocks, states |-> t.states, start |-> t.start]
  /\ t.blocks = b /\ t.start = x
  /\ t.states \in [Position -> Seq(Block)]
  /\ \A j \in Position : compression(t, j)

LEMMA FromBlocks ==
  ASSUME LayoutAssumption, NEW b \in [Position -> Block], NEW x \in Seq(Block)
  PROVE  Computed(from_blocks_in(b, x), b, x)
<1>1. PICK f : f = CHOOSE g : g = Pass(g, b, x)
  OBVIOUS
<1>2. f = Pass(f, b, x)
  BY <1>1, StatesExist, Zenon
<1>3. PICK t : t = [blocks |-> b, states |-> f, start |-> x]
  OBVIOUS
<1>4. from_blocks_in(b, x) = t
  BY <1>1, <1>3, Zenon DEF from_blocks_in, Pass
<1>5. t.blocks = b /\ t.states = f /\ t.start = x
      /\ t = [blocks |-> t.blocks, states |-> t.states, start |-> t.start]
  BY <1>3
<1>6. ASSUME NEW j \in Position, Starts(j)
      PROVE  f[j] = Append(Origin(x, j), b[j])
  <2>1. Pass(f, b, x)[j] = Append(Origin(x, j), b[j])
    BY <1>6, Zenon DEF Pass, Origin, Starts, compress
  <2>2. QED BY <1>2, <2>1, Zenon
<1>7. ASSUME NEW j \in Position, ~Starts(j)
      PROVE  j - 1 \in Position /\ f[j] = Append(f[j - 1], b[j])
  <2>1. j # 0 /\ j - 1 \in Position
    BY <1>7, RunGoesOn
  <2>2. Pass(f, b, x)[j] = Append(f[j - 1], b[j])
    BY <1>7, <2>1, Zenon DEF Pass, Starts, compress
  <2>3. QED BY <1>2, <2>1, <2>2, Zenon
<1>8. f \in [Position -> Seq(Block)]
  <2> DEFINE T == {j \in Position : f[j] \notin Seq(Block)}
  <2>1. T = {}
    <3> SUFFICES ASSUME T # {} PROVE FALSE
      OBVIOUS
    <3>1. T \in SUBSET Nat /\ Position \subseteq Nat
      BY DEF Position, LayoutAssumption
    <3>2. PICK j \in T : \A k \in T : j <= k
      BY <3>1, Least
    <3>3. j \in Position /\ f[j] \notin Seq(Block) /\ b[j] \in Block
      OBVIOUS
    <3>4. CASE Starts(j)
      <4>1. Origin(x, j) \in Seq(Block)
        BY EmptySeq DEF Origin, IV
      <4>2. f[j] = Append(Origin(x, j), b[j])
        BY <1>6, <3>3, <3>4
      <4>3. PICK y : y = Origin(x, j)
        OBVIOUS
      <4>4. Append(y, b[j]) \in Seq(Block)
        BY <3>3, <4>1, <4>3, AppendProperties
      <4>5. QED BY <3>3, <4>2, <4>3, <4>4, Zenon
    <3>5. CASE ~Starts(j)
      <4>1. j - 1 \in Position /\ f[j] = Append(f[j - 1], b[j])
        BY <1>7, <3>3, <3>5
      <4>2. j - 1 \notin T
        BY <3>1, <3>2, <3>3
      <4>3. f[j - 1] \in Seq(Block)
        BY <4>1, <4>2
      <4>4. QED BY <3>3, <4>1, <4>3, AppendProperties
    <3>6. QED BY <3>4, <3>5
  <2>2. f = [j \in Position |-> f[j]]
    BY <1>2, Zenon DEF Pass
  <2>3. QED BY <2>1, <2>2
<1>9. ASSUME NEW j \in Position PROVE compression(t, j)
  <2>1. CASE Starts(j)
    <3>1. state_before_in(t, j) = Origin(x, j)
      BY <1>5, <2>1, Zenon DEF state_before_in, Origin, Starts
    <3>2. QED BY <1>5, <1>6, <2>1, <3>1, Zenon DEF compression, compress
  <2>2. CASE ~Starts(j)
    <3>1. state_before_in(t, j) = f[j - 1]
      BY <1>5, <2>2, Zenon DEF state_before_in, Starts
    <3>2. QED BY <1>5, <1>7, <2>2, <3>1, Zenon DEF compression, compress
  <2>3. QED BY <2>1, <2>2
<1>10. Computed(t, b, x)
  BY <1>5, <1>8, <1>9, Zenon DEF Computed
<1>11. QED BY <1>4, <1>10, Zenon

\* Whoever filled it, a table whose every compression was checked holds the chain of its
\* blocks from each start.
LEMMA Hashed ==
  ASSUME LayoutAssumption, NEW t, t.blocks \in [Position -> Block], t.start \in Seq(Block),
         \A j \in Position : compression(t, j),
         NEW r \in DOMAIN Regions, NEW k \in 0..Regions[r].blocks - 1
  PROVE  open(t, r, k) =
           Chain(t.blocks, IF r = "signed" THEN t.start ELSE IV, Regions[r].first, Regions[r].first + k)
<1>1. PICK first : first = Regions[r].first
  OBVIOUS
<1>2. PICK size : size = Regions[r].blocks
  OBVIOUS
<1>3. PICK x : x = IF r = "signed" THEN t.start ELSE IV
  OBVIOUS
<1>4. /\ POSITIONS \in Nat /\ first \in Nat /\ size \in Nat \ {0} /\ first + size <= POSITIONS
      /\ DOMAIN Regions = {"signed", "attribute", "ssc", "seed", "nym"}
  BY <1>1, <1>2 DEF LayoutAssumption
<1>5. \A i \in 0..size - 1 : first + i \in Position
  BY <1>4 DEF Position
<1>6. x \in Seq(Block)
  BY <1>3, EmptySeq DEF IV
<1>7. state_before_in(t, first) = x
  <2>1. CASE r = "signed"
    BY <1>1, <1>3, <2>1, Zenon DEF state_before_in
  <2>2. CASE r # "signed"
    <3>1. first # Regions.signed.first
      <4>1. /\ Regions["signed"].first \in Nat /\ Regions["signed"].blocks \in Nat \ {0}
            /\ \/ Regions["signed"].first + Regions["signed"].blocks <= first
               \/ first + size <= Regions["signed"].first
        BY <1>1, <1>2, <1>4, <2>2 DEF LayoutAssumption
      <4>2. QED BY <1>4, <4>1
    <3>2. starts_from_iv(first)
      BY <1>1, <1>4, <2>2 DEF starts_from_iv
    <3>3. QED BY <1>3, <2>2, <3>1, <3>2, Zenon DEF state_before_in
  <2>3. QED BY <2>1, <2>2
<1>8. ASSUME NEW i \in 1..size - 1
      PROVE  state_before_in(t, first + i) = t.states[first + i - 1]
  <2>1. ASSUME NEW q \in DOMAIN Regions PROVE first + i # Regions[q].first
    <3>1. CASE q = r
      BY <1>1, <1>4, <3>1
    <3>2. CASE q # r
      <4>1. /\ Regions[q].first \in Nat /\ Regions[q].blocks \in Nat \ {0}
            /\ \/ Regions[q].first + Regions[q].blocks <= first
               \/ first + size <= Regions[q].first
        BY <1>1, <1>2, <1>4, <3>2 DEF LayoutAssumption
      <4>2. QED BY <1>4, <4>1
    <3>3. QED BY <3>1, <3>2
  <2>2. first + i # Regions.signed.first /\ ~starts_from_iv(first + i)
    BY <1>4, <2>1 DEF starts_from_iv
  <2>3. PICK p : p = first + i
    OBVIOUS
  <2>4. state_before_in(t, p) = t.states[p - 1]
    BY <2>2, <2>3, Zenon DEF state_before_in
  <2>5. p - 1 = first + i - 1
    BY <1>4, <2>3
  <2>6. QED BY <2>3, <2>4, <2>5, Zenon
<1> DEFINE T == {i \in 0..size - 1 : t.states[first + i] # Chain(t.blocks, x, first, first + i)}
<1>9. T = {}
  <2> SUFFICES ASSUME T # {} PROVE FALSE
    OBVIOUS
  <2>1. T \in SUBSET Nat
    BY <1>4
  <2>2. PICK i \in T : \A m \in T : i <= m
    BY <2>1, Least
  <2>3. i \in 0..size - 1 /\ t.states[first + i] # Chain(t.blocks, x, first, first + i)
    OBVIOUS
  <2>4. first \in Position /\ first + i \in Position
    BY <1>4, <1>5, <2>3 DEF Position
  <2>5. t.states[first + i] = Append(state_before_in(t, first + i), t.blocks[first + i])
    BY <2>4, Zenon DEF compression, compress
  <2>6. CASE i = 0
    <3>1. first + i = first
      BY <1>4, <2>6
    <3>2. Chain(t.blocks, x, first, first) = Append(x, t.blocks[first])
      BY <1>4, <1>6, <2>4, ChainStarts, Zenon
    <3>3. QED BY <1>7, <2>3, <2>5, <3>1, <3>2, Zenon
  <2>7. CASE i # 0
    <3>1. i \in 1..size - 1 /\ i - 1 \in 0..size - 1 /\ first < first + i
          /\ first + i - 1 = first + (i - 1)
      BY <1>4, <2>3, <2>7
    <3>2. i - 1 \notin T
      BY <2>1, <2>2
    <3>3. t.states[first + (i - 1)] = Chain(t.blocks, x, first, first + (i - 1))
      BY <3>1, <3>2
    <3>4. Chain(t.blocks, x, first, first + i)
            = Append(Chain(t.blocks, x, first, first + i - 1), t.blocks[first + i])
      <4>1. PICK p : p = first + i
        OBVIOUS
      <4>2. Chain(t.blocks, x, first, p) = Append(Chain(t.blocks, x, first, p - 1), t.blocks[p])
        BY <1>4, <1>6, <2>4, <3>1, <4>1, ChainGrows, Zenon
      <4>3. p - 1 = first + i - 1
        BY <1>4, <3>1, <4>1
      <4>4. QED BY <4>1, <4>2, <4>3, Zenon
    <3>5. QED BY <1>8, <2>3, <2>5, <3>1, <3>3, <3>4, Zenon
  <2>8. QED BY <2>6, <2>7
<1>10. t.states[first + k] = Chain(t.blocks, x, first, first + k)
  BY <1>2, <1>9
<1>11. QED BY <1>1, <1>3, <1>10, Zenon DEF open

-----------------------------------------------------------------------------
(* The inductive invariant.                                                *)

Tables == [blocks : [Position -> Block], states : [Position -> Seq(Block)], start : Seq(Block)]
Proofs == [table : Tables, reported : [Position -> Position]]

MsgKeys == {"signed", "attribute", "ssc", "seed", "nym", "skipped"}

\* The i-th message as with_messages copies it, without the blocks it skips of the first.
Part(m, i) ==
  [region |-> Names[i],
   padded |-> IF i = 1 THEN SubSeq(pad("signed", m.signed), m.skipped + 1, Len(pad("signed", m.signed)))
              ELSE pad(Names[i], m[Names[i]])]

\* The i-th message fits in its region and its blocks are there.
Placed(m, i, b) ==
  LET r == Regions[Names[i]]
      p == Part(m, i).padded
  IN  /\ Len(p) <= r.blocks
      /\ \A k \in 1..Len(p) : b[r.first + k - 1] = p[k]

MsgOk ==
  /\ msg \in [MsgKeys -> Nat]
  /\ pc \in {"copy", "built"} =>
       /\ msg.skipped < PadBlocks(msg.signed)
       /\ start = SubSeq(pad("signed", msg.signed), 1, msg.skipped)

CopyOk ==
  pc = "copy" =>
    \E n \in 0..5 :
      /\ todo = [i \in 1..(5 - n) |-> Part(msg, n + i)]
      /\ \A i \in 1..n : Placed(msg, i, blocks)

BuiltOk ==
  pc = "built" /\ changes = 0 =>
    /\ proof.reported = [j \in Position |-> j]
    /\ Computed(proof.table, proof.table.blocks, start)
    /\ \A i \in 1..5 : Placed(msg, i, proof.table.blocks)

IInv ==
  /\ blocks \in [Position -> Block] /\ start \in Seq(Block)
  /\ proof \in Proofs /\ changes \in Nat
  /\ MsgOk /\ CopyOk /\ BuiltOk

LEMMA PadFields ==
  ASSUME NEW name \in MsgNames, NEW len \in Nat
  PROVE  /\ PadBlocks(len) \in Nat \ {0} /\ PadBlocks(len) = last_block(len) + 1
         /\ pad(name, len) \in Seq(Block) /\ Len(pad(name, len)) = PadBlocks(len)
<1>1. PadBlocks(len) \in Nat \ {0} /\ PadBlocks(len) = last_block(len) + 1
  BY DEF PadBlocks, last_block
<1>2. PICK n : n = PadBlocks(len)
  OBVIOUS
<1>3. PICK p : p = [k \in 1..n |-> [of |-> name, n |-> k - 1]]
  OBVIOUS
<1>4. p \in [1..n -> Block] /\ n \in Nat
  BY <1>1, <1>2, <1>3 DEF Block
<1>5. p \in Seq(Block) /\ Len(p) = n
  BY <1>4
<1>6. QED BY <1>1, <1>2, <1>3, <1>5, Zenon DEF pad

LEMMA NameFields ==
  /\ DOMAIN Names = 1..5 /\ Len(Names) = 5
  /\ \A i \in 1..5 : Names[i] \in MsgNames /\ Names[i] \in MsgKeys
  /\ \A i, j \in 1..5 : Names[i] = Names[j] => i = j
  /\ LayoutAssumption => \A i \in 1..5 : Names[i] \in DOMAIN Regions
  /\ LayoutAssumption => \A r \in DOMAIN Regions : \E i \in 1..5 : r = Names[i]
<1>1. DOMAIN Names = 1..5 /\ Len(Names) = 5
  BY DEF Names
<1>2. \A i \in 1..5 : Names[i] \in MsgNames /\ Names[i] \in MsgKeys
  BY DEF Names, MsgKeys, MsgNames
<1>3. \A i, j \in 1..5 : Names[i] = Names[j] => i = j
  BY DEF Names
<1>4. \A i \in 1..5 : Names[i] \in {"signed", "attribute", "ssc", "seed", "nym"}
  BY DEF Names
<1>5. \A r \in {"signed", "attribute", "ssc", "seed", "nym"} : \E i \in 1..5 : r = Names[i]
  BY DEF Names
<1>6. LayoutAssumption => DOMAIN Regions = {"signed", "attribute", "ssc", "seed", "nym"}
  BY DEF LayoutAssumption
<1>7. QED BY <1>1, <1>2, <1>3, <1>4, <1>5, <1>6, Zenon

\* What a part of the messages holds: blocks `from` to the end of a padded message.
PartIs(m, i, p) ==
  LET len == m[Names[i]]
      from == IF i = 1 THEN m.skipped ELSE 0
  IN  /\ Part(m, i) = [region |-> Names[i], padded |-> p]
      /\ Part(m, i).region = Names[i] /\ Part(m, i).padded = p
      /\ p \in Seq(Block) /\ Len(p) = PadBlocks(len) - from
      /\ \A k \in 1..Len(p) : p[k] = pad(Names[i], len)[from + k]

LEMMA PartFields ==
  ASSUME NEW m \in [MsgKeys -> Nat], m.skipped < PadBlocks(m.signed), NEW i \in 1..5
  PROVE  PartIs(m, i, Part(m, i).padded)
<1>1. PICK len : len = m[Names[i]]
  OBVIOUS
<1>2. PICK q : q = pad(Names[i], len)
  OBVIOUS
<1>3. PICK p : p = IF i = 1 THEN SubSeq(q, m.skipped + 1, Len(q)) ELSE q
  OBVIOUS
<1>4. i = 1 => Names[i] = "signed" /\ len = m.signed
  BY <1>1 DEF Names
<1>5. Part(m, i) = [region |-> Names[i], padded |-> p]
  BY <1>1, <1>2, <1>3, <1>4, Zenon DEF Part
<1>6. Part(m, i).region = Names[i] /\ Part(m, i).padded = p
  BY <1>5
<1>7. len \in Nat /\ Names[i] \in MsgNames /\ m.skipped \in Nat
  BY <1>1, NameFields DEF MsgKeys
<1>8. q \in Seq(Block) /\ Len(q) = PadBlocks(len) /\ PadBlocks(len) \in Nat
  BY <1>2, <1>7, PadFields
<1>9. CASE i = 1
  <2>1. PICK k : k = m.skipped
    OBVIOUS
  <2>2. k \in Nat /\ k < Len(q)
    BY <1>4, <1>7, <1>8, <1>9, <2>1
  <2>3. /\ k + 1 \in Int /\ Len(q) \in Int
        /\ \A j \in (k + 1)..Len(q) : q[j] \in Block
    BY <1>8, <2>2, ElementOfSeq
  <2>4. PICK r : r = SubSeq(q, k + 1, Len(q))
    OBVIOUS
  <2>5. /\ r \in Seq(Block)
        /\ Len(r) = IF k + 1 <= Len(q) THEN Len(q) - (k + 1) + 1 ELSE 0
        /\ \A j \in 1..(Len(q) - (k + 1) + 1) : r[j] = q[k + 1 + j - 1]
    BY <2>3, <2>4, SubSeqProperties
  <2>6. Len(r) = Len(q) - k
    BY <1>8, <2>2, <2>5
  <2>7. ASSUME NEW j \in 1..Len(r) PROVE r[j] = q[k + j]
    <3>1. j \in 1..(Len(q) - (k + 1) + 1) /\ k + 1 + j - 1 = k + j
      BY <1>8, <2>2, <2>6
    <3>2. r[j] = q[k + 1 + j - 1]
      BY <2>5, <3>1
    <3>3. QED BY <3>1, <3>2, Zenon
  <2>8. p = r
    BY <1>3, <1>9, <2>1, <2>4
  <2>9. k = IF i = 1 THEN m.skipped ELSE 0
    BY <1>9, <2>1
  <2>10. p \in Seq(Block) /\ Len(p) = PadBlocks(len) - k /\ \A j \in 1..Len(p) : p[j] = q[k + j]
    BY <1>8, <2>5, <2>6, <2>7, <2>8, Zenon
  <2>11. QED BY <1>1, <1>2, <1>5, <1>6, <2>9, <2>10, Zenon DEF PartIs
<1>10. CASE i # 1
  <2>1. p = q /\ Len(p) = PadBlocks(len) - 0 /\ \A k \in 1..Len(p) : p[k] = q[0 + k]
    BY <1>3, <1>8, <1>10
  <2>2. QED BY <1>1, <1>2, <1>5, <1>6, <1>8, <1>10, <2>1, Zenon DEF PartIs
<1>11. QED BY <1>9, <1>10

LEMMA NoProofTyped ==
  ASSUME LayoutAssumption
  PROVE  NoBlocks \in [Position -> Block] /\ NoProof \in Proofs
<1>1. NoBlocks \in [Position -> Block]
  <2>1. Zero \in Block
    BY DEF Zero, Block
  <2>2. QED BY <2>1 DEF NoBlocks
<1>2. [j \in Position |-> IV] \in [Position -> Seq(Block)] /\ IV \in Seq(Block)
  BY EmptySeq DEF IV
<1>3. [j \in Position |-> j] \in [Position -> Position]
  OBVIOUS
<1>4. QED BY <1>1, <1>2, <1>3 DEF NoProof, Proofs, Tables

LEMMA InitIInv ==
  ASSUME LayoutAssumption, Init
  PROVE  IInv
<1>1. pc = "idle" /\ blocks = NoBlocks /\ start = IV /\ changes = 0 /\ proof = NoProof
  BY DEF Init
<1>2. msg \in [MsgKeys -> Nat]
  BY DEF Init, MsgKeys, SeedLen, NymLen
<1>3. start \in Seq(Block)
  BY <1>1, EmptySeq DEF IV
<1>4. MsgOk /\ CopyOk /\ BuiltOk
  BY <1>1, <1>2 DEF MsgOk, CopyOk, BuiltOk
<1>5. QED BY <1>1, <1>3, <1>4, NoProofTyped DEF IInv

LEMMA BeginKeeps ==
  ASSUME LayoutAssumption, IInv, NEW s \in SignedLens, NEW a \in AttributeLens, NEW c \in SscLens,
         NEW offset \in {0, s \div 2, s - 1}, Begin(s, a, c, offset)
  PROVE  IInv'
<1>1. s \in Nat \ {0} /\ a \in Nat /\ c \in Nat
  BY DEF LayoutAssumption
<1>2. PICK k : k = blocks_before(offset)
  OBVIOUS
<1>3. k \in Nat /\ k < PadBlocks(s)
  <2>1. offset \in Nat /\ offset < s
    BY <1>1 DEF Begin
  <2>2. QED BY <1>1, <1>2, <2>1 DEF blocks_before, PadBlocks
<1>4. PICK m : m = [msg EXCEPT !.signed = s, !.attribute = a, !.ssc = c, !.skipped = k]
  OBVIOUS
<1>5. m \in [MsgKeys -> Nat] /\ m.signed = s /\ m.skipped = k
  BY <1>1, <1>3, <1>4 DEF IInv, MsgOk, MsgKeys
<1>6. PICK p : p = pad("signed", s)
  OBVIOUS
<1>7. /\ msg' = m /\ start' = SubSeq(p, 1, k) /\ pc' = "copy" /\ pc = "idle"
      /\ UNCHANGED <<blocks, proof, changes>>
      /\ todo' = [i \in DOMAIN Names |->
                    [region |-> Names[i],
                     padded |-> IF i = 1 THEN SubSeq(p, k + 1, Len(p)) ELSE pad(Names[i], m[Names[i]])]]
  BY <1>2, <1>4, <1>6, Zenon DEF Begin
<1>8. todo' = [i \in 1..5 |-> Part(m, i)]
  BY <1>5, <1>6, <1>7, NameFields, Zenon DEF Part
<1>9. [i \in 1..(5 - 0) |-> Part(m, 0 + i)] = [i \in 1..5 |-> Part(m, i)]
  OBVIOUS
<1>10. CopyOk'
  <2>1. 0 \in 0..5 /\ 1..0 = {}
    OBVIOUS
  <2>2. todo' = [i \in 1..(5 - 0) |-> Part(msg', 0 + i)]
    BY <1>7, <1>8, <1>9, Zenon
  <2>3. \A i \in 1..0 : Placed(msg', i, blocks')
    BY <2>1, Zenon
  <2>4. QED BY <2>1, <2>2, <2>3, Zenon DEF CopyOk
<1>11. p \in Seq(Block) /\ Len(p) = PadBlocks(s) /\ PadBlocks(s) \in Nat
  BY <1>1, <1>6, PadFields DEF MsgNames
<1>12. start' \in Seq(Block)
  <2>1. \A j \in 1..k : p[j] \in Block
    BY <1>3, <1>11, ElementOfSeq
  <2>2. SubSeq(p, 1, k) \in Seq(Block)
    BY <1>3, <2>1, SubSeqProperties
  <2>3. QED BY <1>7, <2>2, Zenon
<1>13. MsgOk'
  BY <1>3, <1>5, <1>6, <1>7, Zenon DEF MsgOk
<1>14. BuiltOk'
  BY <1>7 DEF BuiltOk
<1>15. QED BY <1>7, <1>10, <1>12, <1>13, <1>14, Zenon DEF IInv

LEMMA TodoFields ==
  ASSUME NEW m, NEW n \in 0..5, NEW t, t = [i \in 1..(5 - n) |-> Part(m, n + i)], t # <<>>
  PROVE  /\ n + 1 \in 1..5 /\ Head(t) = Part(m, n + 1)
         /\ Tail(t) = [i \in 1..(5 - (n + 1)) |-> Part(m, n + 1 + i)]
<1> DEFINE S == {Part(m, i) : i \in 1..5}
<1>1. n # 5
  <2>1. SUFFICES ASSUME n = 5 PROVE FALSE
    OBVIOUS
  <2>2. DOMAIN t = 1..(5 - 5) /\ 1..(5 - 5) = {}
    BY <2>1
  <2>3. t = [i \in {} |-> Part(m, n + i)]
    BY <2>1, <2>2
  <2>4. t \in Seq({}) /\ Len(t) = 0
    BY <2>3
  <2>5. QED BY <2>4, EmptySeq
<1>2. n \in 0..4 /\ n + 1 \in 1..5 /\ 5 - n \in Nat
  BY <1>1
<1>3. \A i \in 1..(5 - n) : t[i] = Part(m, n + i) /\ n + i \in 1..5
  BY <1>2
<1>4. t \in Seq(S) /\ Len(t) = 5 - n
  BY <1>2, <1>3
<1> HIDE DEF S
<1>5. /\ Tail(t) \in Seq(S) /\ Len(Tail(t)) = Len(t) - 1
      /\ \A i \in 1..Len(Tail(t)) : Tail(t)[i] = t[i + 1]
  BY <1>4, HeadTailProperties, Zenon
<1>6. Head(t) = Part(m, n + 1)
  BY <1>2, <1>3, <1>4
<1>7. PICK u : u = Tail(t)
  OBVIOUS
<1>8. DOMAIN u = 1..(5 - (n + 1)) /\ u = [i \in DOMAIN u |-> u[i]]
  <2>1. u \in Seq(S) /\ Len(u) = (5 - n) - 1
    BY <1>4, <1>5, <1>7, Zenon
  <2>2. u \in [1..Len(u) -> S]
    BY <2>1, LenProperties, Zenon
  <2>3. Len(u) = 5 - (n + 1)
    BY <1>2, <2>1
  <2>4. QED BY <2>2, <2>3
<1>9. ASSUME NEW i \in 1..(5 - (n + 1)) PROVE u[i] = Part(m, n + 1 + i)
  <2>1. i \in 1..Len(u) /\ i + 1 \in 1..(5 - n) /\ n + (i + 1) = n + 1 + i
    BY <1>2, <1>4, <1>5, <1>7
  <2>2. u[i] = t[i + 1]
    BY <1>5, <1>7, <2>1, Zenon
  <2>3. t[i + 1] = Part(m, n + (i + 1))
    BY <1>3, <2>1, Zenon
  <2>4. QED BY <2>1, <2>2, <2>3, Zenon
<1>10. u = [i \in 1..(5 - (n + 1)) |-> Part(m, n + 1 + i)]
  BY <1>8, <1>9, Zenon
<1>11. QED BY <1>2, <1>6, <1>7, <1>10, Zenon

\* A block of one region lies in the table and not among those of a disjoint one.
LEMMA Apart ==
  ASSUME NEW n \in Nat, NEW first \in Nat, NEW b \in Nat, NEW l \in Nat, l <= b, first + b <= n,
         NEW other \in Nat, NEW c \in Nat, other + c <= n,
         other + c <= first \/ first + b <= other, NEW m \in Nat, m <= c, NEW k \in 1..m
  PROVE  other + k - 1 \in 0..n - 1 /\ other + k - 1 \notin first..first + l - 1
OBVIOUS

LEMMA CopyKeeps ==
  ASSUME LayoutAssumption, IInv, Copy
  PROVE  IInv'
<1>1. PICK n \in 0..5 :
        /\ todo = [i \in 1..(5 - n) |-> Part(msg, n + i)]
        /\ \A i \in 1..n : Placed(msg, i, blocks)
  BY DEF IInv, CopyOk, Copy
<1>2. /\ n + 1 \in 1..5 /\ Head(todo) = Part(msg, n + 1)
      /\ Tail(todo) = [i \in 1..(5 - (n + 1)) |-> Part(msg, n + 1 + i)]
  <2>1. PICK t : t = todo
    OBVIOUS
  <2>2. t = [i \in 1..(5 - n) |-> Part(msg, n + i)] /\ t # <<>>
    BY <1>1, <2>1, Zenon DEF Copy
  <2>3. /\ n + 1 \in 1..5 /\ Head(t) = Part(msg, n + 1)
        /\ Tail(t) = [i \in 1..(5 - (n + 1)) |-> Part(msg, n + 1 + i)]
    BY <2>2, TodoFields
  <2>4. QED BY <2>1, <2>3, Zenon
<1>3. msg \in [MsgKeys -> Nat] /\ msg.skipped < PadBlocks(msg.signed)
  BY DEF IInv, MsgOk, Copy
<1>4. PICK p : PartIs(msg, n + 1, p) /\ p = Part(msg, n + 1).padded
  BY <1>2, <1>3, PartFields, Zenon
<1>5. PICK x : x = Names[n + 1]
  OBVIOUS
<1>6. PICK first : first = Regions[x].first
  OBVIOUS
<1>7. Head(todo).region = x /\ Head(todo).padded = p /\ p \in Seq(Block)
  BY <1>2, <1>4, <1>5, Zenon DEF PartIs
<1>8. x \in DOMAIN Regions
  BY <1>2, <1>5, NameFields, Zenon
<1>9. /\ first \in Nat /\ Regions[x].blocks \in Nat /\ first + Regions[x].blocks <= POSITIONS
      /\ POSITIONS \in Nat
  BY <1>6, <1>8 DEF LayoutAssumption
<1>10. Len(p) \in Nat /\ Len(p) <= Regions[x].blocks
  BY <1>7, LenProperties DEF Copy, Fits
<1>11. /\ blocks' = [j \in Position |->
                       IF j \in first..first + Len(p) - 1 THEN p[j - first + 1] ELSE blocks[j]]
       /\ todo' = Tail(todo) /\ UNCHANGED <<pc, msg, start, proof, changes>> /\ pc = "copy"
  BY <1>6, <1>7, Zenon DEF Copy
<1>12. blocks' \in [Position -> Block]
  <2> SUFFICES ASSUME NEW j \in Position, j \in first..first + Len(p) - 1
               PROVE  p[j - first + 1] \in Block
    BY <1>11 DEF IInv
  <2>1. j - first + 1 \in 1..Len(p)
    BY <1>9, <1>10
  <2>2. QED BY <1>7, <2>1, ElementOfSeq
<1>13. Placed(msg, n + 1, blocks')
  <2>1. ASSUME NEW k \in 1..Len(p) PROVE blocks'[first + k - 1] = p[k]
    <3>1. PICK j : j = first + k - 1
      OBVIOUS
    <3>2. j \in first..first + Len(p) - 1 /\ j - first + 1 = k /\ j \in Position
      BY <1>9, <1>10, <3>1 DEF Position
    <3>3. blocks'[j] = p[k]
      BY <1>11, <3>2
    <3>4. QED BY <3>1, <3>3
  <2>2. QED BY <1>4, <1>5, <1>6, <1>10, <2>1, Zenon DEF Placed
<1>14. ASSUME NEW i \in 1..n PROVE Placed(msg, i, blocks')
  <2>1. i \in 1..5 /\ i # n + 1
    BY <1>2
  <2>2. PICK y : y = Names[i]
    OBVIOUS
  <2>3. y \in DOMAIN Regions /\ y # x
    BY <1>2, <1>5, <2>1, <2>2, NameFields, Zenon
  <2>4. PICK other : other = Regions[y].first
    OBVIOUS
  <2>5. /\ other \in Nat /\ Regions[y].blocks \in Nat /\ other + Regions[y].blocks <= POSITIONS
        /\ \/ other + Regions[y].blocks <= first
           \/ first + Regions[x].blocks <= other
    BY <1>6, <1>8, <2>3, <2>4 DEF LayoutAssumption
  <2>6. PICK q : PartIs(msg, i, q) /\ q = Part(msg, i).padded
    BY <1>3, <2>1, PartFields, Zenon
  <2>7. Len(q) <= Regions[y].blocks /\ \A k \in 1..Len(q) : blocks[other + k - 1] = q[k]
    BY <1>1, <2>2, <2>4, <2>6, Zenon DEF Placed
  <2>8. Len(q) \in Nat
    BY <2>6, LenProperties DEF PartIs
  <2>9. ASSUME NEW k \in 1..Len(q) PROVE blocks'[other + k - 1] = q[k]
    <3>1. PICK j : j = other + k - 1
      OBVIOUS
    <3>2. j \in Position /\ j \notin first..first + Len(p) - 1
      <4>1. j \in 0..POSITIONS - 1 /\ j \notin first..first + Len(p) - 1
        BY <1>9, <1>10, <2>5, <2>7, <2>8, <3>1, Apart
      <4>2. QED BY <4>1, Zenon DEF Position
    <3>3. blocks'[j] = blocks[j]
      BY <1>11, <3>2
    <3>4. QED BY <2>7, <3>1, <3>3
  <2>10. QED BY <2>2, <2>4, <2>6, <2>7, <2>9, Zenon DEF Placed
<1>15. CopyOk'
  <2>1. n + 1 \in 0..5 /\ \A i \in 1..(n + 1) : i \in 1..n \/ i = n + 1
    BY <1>2
  <2>2. PICK k : k = n + 1
    OBVIOUS
  <2>3. /\ todo' = [i \in 1..(5 - k) |-> Part(msg', k + i)]
        /\ \A i \in 1..k : Placed(msg', i, blocks')
    BY <1>2, <1>11, <1>13, <1>14, <2>1, <2>2, Zenon
  <2>4. QED BY <2>1, <2>2, <2>3, Zenon DEF CopyOk
<1>16. MsgOk' /\ BuiltOk'
  BY <1>11 DEF IInv, MsgOk, BuiltOk
<1>17. QED BY <1>11, <1>12, <1>15, <1>16, Zenon DEF IInv

LEMMA RefuseKeeps ==
  ASSUME LayoutAssumption, IInv, Refuse
  PROVE  IInv'
<1>1. /\ pc = "copy" /\ pc' = "refused" /\ blocks' = NoBlocks
      /\ UNCHANGED <<msg, start, proof, changes>>
  BY DEF Refuse
<1>2. MsgOk' /\ CopyOk' /\ BuiltOk'
  BY <1>1 DEF IInv, MsgOk, CopyOk, BuiltOk
<1>3. QED BY <1>1, <1>2, NoProofTyped DEF IInv

LEMMA BuildKeeps ==
  ASSUME LayoutAssumption, IInv, Build
  PROVE  IInv'
<1>1. PICK t : t = from_blocks_in(blocks, start)
  OBVIOUS
<1>2. PICK own : own = [j \in Position |-> j]
  OBVIOUS
<1>3. /\ pc = "copy" /\ todo = <<>> /\ pc' = "built" /\ blocks' = NoBlocks
      /\ proof' = [table |-> t, reported |-> own] /\ UNCHANGED <<msg, todo, start, changes>>
  BY <1>1, <1>2, Zenon DEF Build
<1>4. Computed(t, blocks, start)
  BY <1>1, FromBlocks, Zenon DEF IInv
<1>5. t \in Tables
  BY <1>4 DEF Computed, Tables, IInv
<1>6. proof' \in Proofs /\ proof'.table = t /\ proof'.reported = own
  BY <1>2, <1>3, <1>5 DEF Proofs
<1>7. t.blocks = blocks /\ Computed(t, t.blocks, start)
  BY <1>4, Zenon DEF Computed
<1>8. \A i \in 1..5 : Placed(msg, i, blocks)
  <2>1. PICK n \in 0..5 :
          /\ todo = [i \in 1..(5 - n) |-> Part(msg, n + i)]
          /\ \A i \in 1..n : Placed(msg, i, blocks)
    BY <1>3 DEF IInv, CopyOk
  <2>2. n = 5
    <3>1. DOMAIN todo = 1..(5 - n) /\ DOMAIN todo = {}
      BY <1>3, <2>1
    <3>2. QED BY <3>1
  <2>3. QED BY <2>1, <2>2
<1>9. BuiltOk'
  BY <1>2, <1>3, <1>6, <1>7, <1>8, Zenon DEF BuiltOk
<1>10. MsgOk' /\ CopyOk'
  BY <1>3 DEF IInv, MsgOk, CopyOk
<1>11. QED BY <1>3, <1>6, <1>9, <1>10, NoProofTyped, Zenon DEF IInv

LEMMA ChangedTyped ==
  ASSUME LayoutAssumption, IInv, NEW p \in Changed
  PROVE  p \in Proofs
<1>1. PICK t : t = proof.table
  OBVIOUS
<1>2. PICK own : own = proof.reported
  OBVIOUS
<1>3. /\ t \in Tables /\ own \in [Position -> Position]
      /\ proof = [table |-> t, reported |-> own]
      /\ t.blocks \in [Position -> Block] /\ t.states \in [Position -> Seq(Block)]
      /\ t.start \in Seq(Block)
  BY <1>1, <1>2 DEF IInv, Proofs, Tables
<1>4. \A j \in Position : compress(IV, t.blocks[j]) \in Seq(Block)
  BY <1>3, EmptySeq, AppendProperties DEF compress, IV
<1>5. ASSUME NEW j \in Position, NEW k \in Position, p = [proof EXCEPT !.table.blocks[j] = t.blocks[k]]
      PROVE  p \in Proofs
  BY <1>3, <1>5 DEF Proofs, Tables
<1>6. ASSUME NEW j \in Position, NEW k \in Position,
             p = [proof EXCEPT !.table = from_blocks_in([t.blocks EXCEPT ![j] = t.blocks[k]], t.start)]
      PROVE  p \in Proofs
  <2>1. PICK b : b = [t.blocks EXCEPT ![j] = t.blocks[k]]
    OBVIOUS
  <2>2. PICK u : u = from_blocks_in(b, t.start)
    OBVIOUS
  <2>3. b \in [Position -> Block]
    BY <1>3, <2>1
  <2>4. Computed(u, b, t.start)
    BY <1>3, <2>2, <2>3, FromBlocks, Zenon
  <2>5. u \in Tables
    BY <1>3, <2>3, <2>4 DEF Computed, Tables
  <2>6. p = [proof EXCEPT !.table = u]
    BY <1>6, <2>1, <2>2, Zenon
  <2>7. QED BY <1>3, <2>5, <2>6 DEF Proofs
<1>7. ASSUME NEW j \in Position, NEW k \in Position, p = [proof EXCEPT !.table.states[j] = t.states[k]]
      PROVE  p \in Proofs
  BY <1>3, <1>7 DEF Proofs, Tables
<1>8. ASSUME NEW j \in Position, p = [proof EXCEPT !.table.states[j] = compress(IV, t.blocks[j])]
      PROVE  p \in Proofs
  <2>1. PICK y : y = compress(IV, t.blocks[j])
    OBVIOUS
  <2>2. y \in Seq(Block) /\ p = [proof EXCEPT !.table.states[j] = y]
    BY <1>4, <1>8, <2>1, Zenon
  <2>3. QED BY <1>3, <2>2 DEF Proofs, Tables
<1>9. ASSUME NEW j \in Position, p = [proof EXCEPT !.table.start = t.states[j]]
      PROVE  p \in Proofs
  BY <1>3, <1>9 DEF Proofs, Tables
<1>10. ASSUME NEW i \in Position, NEW j \in Position, p = [proof EXCEPT !.reported[i] = j]
       PROVE  p \in Proofs
  BY <1>3, <1>10 DEF Proofs, Tables
<1> DEFINE
     A == {[proof EXCEPT !.table.blocks[j] = proof.table.blocks[k]] :
             j, k \in Position}
     B == {[proof EXCEPT !.table = from_blocks_in([proof.table.blocks EXCEPT ![j] = proof.table.blocks[k]], proof.table.start)] :
             j, k \in Position}
     C == {[proof EXCEPT !.table.states[j] = proof.table.states[k]] :
             j, k \in Position}
     D == {[proof EXCEPT !.table.states[j] = compress(IV, proof.table.blocks[j])] :
             j \in Position}
     E == {[proof EXCEPT !.table.start = proof.table.states[j]] :
             j \in Position}
     F == {[proof EXCEPT !.reported[i] = j] :
             i, j \in Position}
<1>11. Changed = A \cup B \cup C \cup D \cup E \cup F
  BY SMT DEF Changed
<1>12. CASE p \in A
  <2>1. PICK j, k \in Position : p = [proof EXCEPT !.table.blocks[j] = proof.table.blocks[k]]
    BY <1>12
  <2>2. QED BY <1>1, <1>5, <2>1, Zenon
<1>13. CASE p \in B
  <2>1. PICK j, k \in Position : p = [proof EXCEPT !.table = from_blocks_in([proof.table.blocks EXCEPT ![j] = proof.table.blocks[k]], proof.table.start)]
    BY <1>13
  <2>2. QED BY <1>1, <1>6, <2>1, Zenon
<1>14. CASE p \in C
  <2>1. PICK j, k \in Position : p = [proof EXCEPT !.table.states[j] = proof.table.states[k]]
    BY <1>14
  <2>2. QED BY <1>1, <1>7, <2>1, Zenon
<1>15. CASE p \in D
  <2>1. PICK j \in Position : p = [proof EXCEPT !.table.states[j] = compress(IV, proof.table.blocks[j])]
    BY <1>15
  <2>2. QED BY <1>1, <1>8, <2>1, Zenon
<1>16. CASE p \in E
  <2>1. PICK j \in Position : p = [proof EXCEPT !.table.start = proof.table.states[j]]
    BY <1>16
  <2>2. QED BY <1>1, <1>9, <2>1, Zenon
<1>17. CASE p \in F
  <2>1. PICK i, j \in Position : p = [proof EXCEPT !.reported[i] = j]
    BY <1>17
  <2>2. QED BY <1>1, <1>10, <2>1, Zenon
<1> HIDE DEF A, B, C, D, E, F
<1>18. QED BY <1>11, <1>12, <1>13, <1>14, <1>15, <1>16, <1>17, Zenon

LEMMA ChangeKeeps ==
  ASSUME LayoutAssumption, IInv, NEW p \in Changed, Change(p)
  PROVE  IInv'
<1>1. /\ pc = "built" /\ changes' = changes + 1 /\ proof' = p
      /\ UNCHANGED <<pc, msg, todo, blocks, start>>
  BY DEF Change
<1>2. proof' \in Proofs
  BY <1>1, ChangedTyped, Zenon
<1>3. changes' \in Nat /\ changes' # 0
  BY <1>1 DEF IInv
<1>4. MsgOk' /\ CopyOk' /\ BuiltOk'
  BY <1>1, <1>3 DEF IInv, MsgOk, CopyOk, BuiltOk
<1>5. QED BY <1>1, <1>2, <1>3, <1>4, Zenon DEF IInv

LEMMA DropKeeps ==
  ASSUME LayoutAssumption, IInv, DropTable
  PROVE  IInv'
<1>1. /\ pc = "built" /\ pc' = "dropped" /\ proof' = NoProof
      /\ UNCHANGED <<msg, todo, blocks, start, changes>>
  BY DEF DropTable
<1>2. MsgOk' /\ CopyOk' /\ BuiltOk'
  BY <1>1 DEF IInv, MsgOk, CopyOk, BuiltOk
<1>3. QED BY <1>1, <1>2, NoProofTyped, Zenon DEF IInv

LEMMA StutterKeeps ==
  ASSUME IInv, UNCHANGED vars
  PROVE  IInv'
<1>1. UNCHANGED <<pc, msg, todo, blocks, start, proof, changes>>
  BY DEF vars
<1>2. MsgOk' /\ CopyOk' /\ BuiltOk'
  BY <1>1, Zenon DEF IInv, MsgOk, CopyOk, BuiltOk
<1>3. QED BY <1>1, <1>2, Zenon DEF IInv

LEMMA Invariance ==
  ASSUME LayoutAssumption
  PROVE  Spec => []IInv
<1>1. Init => IInv
  BY InitIInv
<1>2. ASSUME IInv, [Next]_vars PROVE IInv'
  <2>1. CASE UNCHANGED vars
    BY <1>2, <2>1, StutterKeeps
  <2>2. ASSUME NEW s \in SignedLens, NEW a \in AttributeLens, NEW c \in SscLens,
               NEW offset \in {0, s \div 2, s - 1}, Begin(s, a, c, offset)
        PROVE  IInv'
    BY <1>2, <2>2, BeginKeeps
  <2>3. CASE Copy
    BY <1>2, <2>3, CopyKeeps
  <2>4. CASE Refuse
    BY <1>2, <2>4, RefuseKeeps
  <2>5. CASE Build
    BY <1>2, <2>5, BuildKeeps
  <2>6. CASE DropTable
    BY <1>2, <2>6, DropKeeps
  <2>7. ASSUME NEW p \in IF changes < MaxChanges THEN Changed ELSE {}, Change(p) PROVE IInv'
    <3>1. p \in Changed
      BY <2>7
    <3>2. QED BY <1>2, <2>7, <3>1, ChangeKeeps
  <2>8. QED BY <1>2, <2>1, <2>2, <2>3, <2>4, <2>5, <2>6, <2>7, Zenon DEF Next
<1>3. QED BY <1>1, <1>2, PTL DEF Spec

-----------------------------------------------------------------------------
(* The properties.                                                         *)

LEMMA AcceptedStep ==
  ASSUME LayoutAssumption, IInv
  PROVE  AcceptedIsHashed
<1> SUFFICES ASSUME pc = "built", verified(proof),
                    NEW r \in DOMAIN Regions, NEW k \in 0..Regions[r].blocks - 1
             PROVE  LET first == Regions[r].first
                    IN open(proof.table, r, k) =
                         (IF r = "signed" THEN proof.table.start ELSE IV)
                           \o [i \in 1..k + 1 |-> proof.table.blocks[first + i - 1]]
  BY Zenon DEF AcceptedIsHashed
<1>1. PICK t : t = proof.table
  OBVIOUS
<1>2. t.blocks \in [Position -> Block] /\ t.start \in Seq(Block)
  BY <1>1 DEF IInv, Proofs, Tables
<1>3. \A j \in Position : compression(t, j)
  BY <1>1, Zenon DEF verified
<1>4. PICK first : first = Regions[r].first
  OBVIOUS
<1>5. PICK x : x = IF r = "signed" THEN t.start ELSE IV
  OBVIOUS
<1>6. open(t, r, k) = Chain(t.blocks, x, first, first + k)
  BY <1>2, <1>3, <1>4, <1>5, Hashed, Zenon
<1>7. (first + k) - first + 1 = k + 1
  BY <1>4 DEF LayoutAssumption
<1>8. Chain(t.blocks, x, first, first + k) = x \o [i \in 1..k + 1 |-> t.blocks[first + i - 1]]
  BY <1>7, Zenon DEF Chain
<1>9. QED BY <1>1, <1>4, <1>5, <1>6, <1>8, Zenon

\* Whatever blocks, states, start state and reported positions a prover puts into the table,
\* when every step circuit accepts its position and instance i reports position i, each state
\* the core can open is the hash of the blocks that are in its region up to there.
THEOREM AcceptedIsHashedAlways ==
  ASSUME LayoutAssumption
  PROVE  Spec => []AcceptedIsHashed
<1>1. IInv => AcceptedIsHashed
  BY AcceptedStep
<1>2. QED BY <1>1, Invariance, PTL

\* The message's last block is inside its region, and the state after it is the message's hash.
LEMMA DigestRead ==
  ASSUME LayoutAssumption, IInv, pc = "built", changes = 0, NEW r \in DOMAIN Regions
  PROVE  /\ Last(r) < Regions[r].blocks
         /\ open(proof.table, r, Last(r)) = sha256(r, msg[r])
<1>1. PICK t : t = proof.table
  OBVIOUS
<1>2. PICK i \in 1..5 : r = Names[i]
  BY NameFields, Zenon
<1>3. i = 1 <=> r = "signed"
  <2>1. Names[1] = "signed" /\ 1 \in 1..5
    BY DEF Names
  <2>2. QED BY <1>2, <2>1, NameFields, Zenon
<1>4. PICK from : from = IF i = 1 THEN msg.skipped ELSE 0
  OBVIOUS
<1>5. PICK len : len = msg[r]
  OBVIOUS
<1>6. PICK q : q = pad(r, len)
  OBVIOUS
<1>7. /\ msg \in [MsgKeys -> Nat] /\ msg.skipped < PadBlocks(msg.signed)
      /\ start = SubSeq(pad("signed", msg.signed), 1, msg.skipped)
  BY DEF IInv, MsgOk
<1>8. len \in Nat /\ r \in MsgNames /\ msg.skipped \in Nat
  BY <1>2, <1>5, <1>7, NameFields DEF MsgKeys
<1>9. q \in Seq(Block) /\ Len(q) = PadBlocks(len) /\ PadBlocks(len) = last_block(len) + 1
      /\ PadBlocks(len) \in Nat \ {0}
  BY <1>6, <1>8, PadFields
<1>10. last_block(len) \in Nat
  BY <1>8 DEF last_block
<1>11. PICK p : PartIs(msg, i, p) /\ p = Part(msg, i).padded
  BY <1>7, PartFields, Zenon
<1>12. p \in Seq(Block) /\ Len(p) = Len(q) - from /\ \A k \in 1..Len(p) : p[k] = q[from + k]
  BY <1>2, <1>4, <1>5, <1>6, <1>9, <1>11, Zenon DEF PartIs
<1>13. from \in Nat /\ from < Len(q)
  BY <1>3, <1>4, <1>5, <1>7, <1>8, <1>9
<1>14. PICK last : last = Last(r)
  OBVIOUS
<1>15. last = last_block(len) - from
  BY <1>3, <1>4, <1>5, <1>14, Zenon DEF Last
<1>16. last \in Nat /\ last + 1 = Len(p)
  BY <1>9, <1>10, <1>12, <1>13, <1>15
<1>17. PICK first : first = Regions[r].first
  OBVIOUS
<1>18. Len(p) <= Regions[r].blocks /\ \A k \in 1..Len(p) : t.blocks[first + k - 1] = p[k]
  BY <1>1, <1>2, <1>11, <1>17, Zenon DEF IInv, BuiltOk, Placed
<1>19. /\ POSITIONS \in Nat /\ first \in Nat /\ Regions[r].blocks \in Nat
       /\ first + Regions[r].blocks <= POSITIONS
  BY <1>17 DEF LayoutAssumption
<1>20. last < Regions[r].blocks /\ last \in 0..Regions[r].blocks - 1
  BY <1>16, <1>18, <1>19
<1>21. /\ t.blocks \in [Position -> Block] /\ t.start \in Seq(Block) /\ t.start = start
       /\ \A j \in Position : compression(t, j)
  BY <1>1 DEF IInv, Proofs, Tables, BuiltOk, Computed
<1>22. PICK x : x = IF r = "signed" THEN t.start ELSE IV
  OBVIOUS
<1>23. open(t, r, last) = Chain(t.blocks, x, first, first + last)
  BY <1>17, <1>20, <1>21, <1>22, Hashed, Zenon
<1>24. x \in Seq(Block) /\ Len(x) = from /\ \A m \in 1..from : x[m] = q[m]
  <2>1. CASE r = "signed"
    <3>1. len = msg.signed /\ from = msg.skipped /\ x = SubSeq(q, 1, from)
      BY <1>3, <1>4, <1>5, <1>6, <1>7, <1>21, <1>22, <2>1, Zenon
    <3>2. \A j \in 1..from : q[j] \in Block
      BY <1>9, <1>13, ElementOfSeq
    <3>3. /\ x \in Seq(Block)
          /\ Len(x) = IF 1 <= from THEN from - 1 + 1 ELSE 0
          /\ \A m \in 1..(from - 1 + 1) : x[m] = q[1 + m - 1]
      BY <1>9, <1>13, <3>1, <3>2, SubSeqProperties
    <3>4. Len(x) = from /\ from - 1 + 1 = from /\ \A m \in 1..from : 1 + m - 1 = m
      BY <1>13, <3>3
    <3>5. QED BY <3>3, <3>4
  <2>2. CASE r # "signed"
    <3>1. from = 0 /\ x = <<>>
      BY <1>3, <1>4, <1>22, <2>2 DEF IV
    <3>2. QED BY <3>1, EmptySeq
  <2>3. QED BY <2>1, <2>2
<1>25. PICK end : end = first + last
  OBVIOUS
<1>26. first \in Nat /\ end \in Nat /\ first <= end /\ first \in Position /\ end \in Position
  BY <1>16, <1>19, <1>20, <1>25 DEF Position
<1>27. PICK c : c = Chain(t.blocks, x, first, end)
  OBVIOUS
<1>28. /\ c \in Seq(Block) /\ Len(c) = Len(x) + end - first + 1
       /\ \A m \in 1..Len(x) + end - first + 1 :
            c[m] = IF m <= Len(x) THEN x[m] ELSE t.blocks[first + m - Len(x) - 1]
  <2>1. Holds(c, t.blocks, x, first, end)
    BY <1>19, <1>21, <1>24, <1>26, <1>27, ChainIsState, Zenon
  <2>2. QED BY <2>1, Zenon DEF Holds
<1>29. Len(c) = Len(q) /\ Len(x) + end - first + 1 = Len(q)
  <2>1. Len(q) \in Nat /\ last + 1 = Len(q) - from
    BY <1>9, <1>12, <1>16
  <2>2. end - first = last
    BY <1>16, <1>19, <1>25
  <2>3. Len(x) + end - first + 1 = Len(q)
    BY <1>13, <1>16, <1>24, <2>1, <2>2
  <2>4. QED BY <1>28, <2>3
<1>30. ASSUME NEW m \in 1..Len(q) PROVE c[m] = q[m]
  <2>1. c[m] = IF m <= from THEN x[m] ELSE t.blocks[first + m - from - 1]
    BY <1>24, <1>28, <1>29
  <2>2. CASE m <= from
    BY <1>13, <1>24, <2>1, <2>2
  <2>3. CASE ~(m <= from)
    <3>1. PICK k : k = m - from
      OBVIOUS
    <3>2. k \in 1..Len(p) /\ first + m - from - 1 = first + k - 1 /\ from + k = m
      BY <1>9, <1>12, <1>13, <1>19, <2>3, <3>1
    <3>3. t.blocks[first + k - 1] = p[k] /\ p[k] = q[from + k]
      BY <1>12, <1>18, <3>2
    <3>4. QED BY <2>1, <2>3, <3>2, <3>3
  <2>4. QED BY <2>2, <2>3
<1>31. c = q
  BY <1>9, <1>28, <1>29, <1>30, SeqEqual, Zenon
<1>32. QED BY <1>1, <1>5, <1>6, <1>14, <1>20, <1>23, <1>25, <1>27, <1>31, Zenon DEF sha256

\* The core reads true digests from an honest table: for messages of any length that
\* with_messages accepts, and any first value read, each digest Message::open selects is the
\* message's SHA-256 and every step circuit accepts its position.
THEOREM DigestsAreReadAlways ==
  ASSUME LayoutAssumption
  PROVE  Spec => []DigestsAreRead
<1>1. ASSUME IInv PROVE DigestsAreRead
  <2> SUFFICES ASSUME pc = "built", changes = 0
               PROVE  /\ \A r \in DOMAIN Regions :
                           /\ Last(r) < Regions[r].blocks
                           /\ open(proof.table, r, Last(r)) = sha256(r, msg[r])
                      /\ verified(proof)
    BY Zenon DEF DigestsAreRead
  <2>1. \A r \in DOMAIN Regions :
          /\ Last(r) < Regions[r].blocks
          /\ open(proof.table, r, Last(r)) = sha256(r, msg[r])
    BY <1>1, DigestRead
  <2>2. /\ proof.reported = [j \in Position |-> j]
        /\ \A j \in Position : compression(proof.table, j)
    BY <1>1, Zenon DEF IInv, BuiltOk, Computed
  <2>3. \A i \in Position : proof.reported[i] = i
    BY <2>2
  <2>4. verified(proof)
    BY <2>2, <2>3, Zenon DEF verified
  <2>5. QED BY <2>1, <2>4
<1>2. QED BY <1>1, Invariance, PTL
=============================================================================
