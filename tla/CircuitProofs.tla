---------------------------- MODULE CircuitProofs ---------------------------
(***************************************************************************)
(* What the circuits' small parts promise, for any bytes and any sizes:    *)
(* the dates of a statement (CalendarWalk), the digestID gadget            *)
(* (DigestId), the windows the core reads of the hash table (TableWindow), *)
(* the request patterns (RequestPattern), SHA-256 of a message of          *)
(* witnessed length (Sha256Walk), its folded form (FoldedHash) and the     *)
(* stored shapes (CircuitShapes).                                          *)
(***************************************************************************)
EXTENDS CircuitParts, SequenceTheorems, WellFoundedInduction, TLAPS

-----------------------------------------------------------------------------
(* A step of the circuits is a step of the part whose behaviour it is.     *)

LEMMA DatePart ==
  ASSUME [Next]_vars
  PROVE  part' = part /\ (part = "dates" => [Dates!NextDay]_Dates!vars)
  BY DEF Next, vars, OthersStay, dateVars, Dates!vars

LEMMA DigestPart ==
  ASSUME [Next]_vars
  PROVE  part' = part /\ (part = "digest_id" => [DigestId!Next]_DigestId!vars)
  BY DEF Next, vars, OthersStay, digestVars, DigestId!vars

LEMMA WindowPart ==
  ASSUME [Next]_vars
  PROVE  part' = part /\ (part = "window" => [Windows!Next]_Windows!vars)
  BY DEF Next, vars, OthersStay, windowVars, Windows!vars

LEMMA RequestPart ==
  ASSUME [Next]_vars
  PROVE  part' = part /\ (part = "request" => [Request!Next]_Request!vars)
  BY DEF Next, vars, OthersStay, requestVars, Request!vars

LEMMA ShapePart ==
  ASSUME [Next]_vars
  PROVE  part' = part /\ (part = "shape" => [Shapes!Next]_Shapes!vars)
  BY DEF Next, vars, OthersStay, shapeVars, Shapes!vars

LEMMA WalkPart ==
  ASSUME [Next]_vars
  PROVE  part' = part /\ (part = "walk" => [Walk!Next]_Walk!vars)
  BY DEF Next, vars, OthersStay, walkVars, Walk!vars

LEMMA FoldPart ==
  ASSUME [Next]_vars
  PROVE  part' = part /\ (part = "fold" => [Fold!Next]_Fold!vars)
  BY DEF Next, vars, OthersStay, foldVars, Fold!vars

-----------------------------------------------------------------------------
(* The calendar, for every year from 1 to 9999.                            *)

LEMMA LastYearType == Dates!LastYear \in Nat
  BY SMT DEF Dates!LastYear

\* The year part of `days`, without its era.
YearDays(y) == y * 365 + y \div 4 - y \div 100 + y \div 400

\* The month part of `days`: the days before month m in a year that begins in March.
MonthDays(m) == (153 * (IF m > 2 THEN m - 3 ELSE m + 9) + 2) \div 5

\* A year, a month and a day that `days` can count, up to the first of year 10000.
Countable(y, m, k) == y \in 1..Dates!LastYear + 1 /\ m \in 1..12 /\ k \in 1..31

\* The sum of the parts.
Count(y, m, k) == YearDays(IF m <= 2 THEN y - 1 ELSE y) + MonthDays(m) + k - 719469

\* `days` is the sum of its parts: splitting a year into an era and a year of it changes
\* nothing to the count.
LEMMA DaysParts ==
  ASSUME NEW y, NEW m, NEW k, Countable(y, m, k)
  PROVE  Dates!days([year |-> y, month |-> m, day |-> k]) = Count(y, m, k)
<1> DEFINE yy == IF m <= 2 THEN y - 1 ELSE y
           era == yy \div 400
           yoe == yy - era * 400
<1>1. yy \in Nat /\ m \in 1..12 /\ k \in 1..31 /\ y \in 1..Dates!LastYear + 1
  BY SMT DEF Countable
<1>2. era * 146097 + (yoe * 365 + yoe \div 4 - yoe \div 100) = YearDays(yy)
  <2> HIDE DEF yy
  <2>1. QED BY <1>1, SMT DEF YearDays
<1>3. Dates!days([year |-> y, month |-> m, day |-> k])
        = era * 146097 + (yoe * 365 + yoe \div 4 - yoe \div 100 + (MonthDays(m) + k - 1)) - 719468
  BY SMT DEF Dates!days, MonthDays
<1>4. /\ MonthDays(m) \in Int /\ YearDays(yy) \in Int /\ era \in Int /\ yoe \in Int
      /\ yoe \div 4 \in Int /\ yoe \div 100 \in Int
  BY <1>1, SMT DEF MonthDays, YearDays
<1> HIDE DEF yy, era, yoe
<1>5. QED
  BY <1>1, <1>2, <1>3, <1>4, SMT DEF yy, Count

\* A year is 365 days long, or 366 when days_in_month gives its February 29.
LEMMA YearStep ==
  ASSUME NEW y, Countable(y, 1, 1)
  PROVE  YearDays(y) - YearDays(y - 1) = Dates!days_in_month(y, 2) + 337
<1> USE DEF Countable
<1> DEFINE Multiple(k) == IF y % k = 0 THEN 1 ELSE 0
<1>1. y \div 4 - (y - 1) \div 4 = Multiple(4)
  BY SMT
<1>2. y \div 100 - (y - 1) \div 100 = Multiple(100)
  BY SMT
<1>3. y \div 400 - (y - 1) \div 400 = Multiple(400)
  BY SMT
<1>4. YearDays(y) - YearDays(y - 1) = 365 + Multiple(4) - Multiple(100) + Multiple(400)
  <2> HIDE DEF Multiple
  <2>1. QED BY <1>1, <1>2, <1>3, SMT DEF YearDays
<1>5. (y % 400 = 0 => y % 100 = 0) /\ (y % 100 = 0 => y % 4 = 0)
  <2>1. y \in Nat /\ y \div 400 \in Nat /\ y \div 100 \in Nat
    BY SMT
  <2>2. ASSUME y % 400 = 0 PROVE y % 100 = 0
    <3>1. y = 400 * (y \div 400)
      BY <2>2, SMT
    <3>2. PICK q \in Nat : y = 400 * q
      BY <2>1, <3>1, SMT
    <3>3. QED BY <3>2, SMT
  <2>3. ASSUME y % 100 = 0 PROVE y % 4 = 0
    <3>1. y = 100 * (y \div 100)
      BY <2>3, SMT
    <3>2. PICK q \in Nat : y = 100 * q
      BY <2>1, <3>1, SMT
    <3>3. QED BY <3>2, SMT
  <2>4. QED BY <2>2, <2>3, SMT
<1>6. Dates!days_in_month(y, 2) = 28 + Multiple(4) - Multiple(100) + Multiple(400)
  BY <1>5, SMT DEF Dates!days_in_month
<1>7. QED
  BY <1>4, <1>6, SMT

\* Within a year that begins in March, the month part grows by each month's length.
LEMMA MonthStep ==
  ASSUME NEW y, NEW m \in (1..12) \ {2, 12}
  PROVE  MonthDays(m + 1) - MonthDays(m) = Dates!days_in_month(y, m)
  BY SMT DEF MonthDays, Dates!days_in_month

LEMMA MonthLength ==
  ASSUME NEW y, NEW m
  PROVE  Dates!days_in_month(y, m) \in 28..31
  BY SMT DEF Dates!days_in_month

\* A date of the calendar.
IsDate(y, m, k) == y \in 1..Dates!LastYear /\ m \in 1..12 /\ k \in 1..Dates!days_in_month(y, m)

\* The counts of a date and of the day after it, in each of the three ways a page turns.
LEMMA CountStep ==
  ASSUME NEW y, NEW m, NEW k, IsDate(y, m, k)
  PROVE  /\ k < Dates!days_in_month(y, m) => Count(y, m, k + 1) = Count(y, m, k) + 1
         /\ k = Dates!days_in_month(y, m) /\ m < 12 => Count(y, m + 1, 1) = Count(y, m, k) + 1
         /\ k = Dates!days_in_month(y, m) /\ m = 12 => Count(y + 1, 1, 1) = Count(y, m, k) + 1
<1>1. /\ y \in 1..Dates!LastYear /\ y \in 1..Dates!LastYear + 1 /\ m \in 1..12
      /\ Dates!days_in_month(y, m) \in 28..31 /\ k \in 1..31 /\ k <= Dates!days_in_month(y, m)
  <2>1. PICK n : n = Dates!days_in_month(y, m)
    OBVIOUS
  <2>2. n \in 28..31
    BY <2>1, MonthLength
  <2>3. y \in 1..Dates!LastYear /\ m \in 1..12 /\ k \in 1..n
    BY <2>1 DEF IsDate
  <2>4. QED BY <2>1, <2>2, <2>3, LastYearType, SMT
<1>2. YearDays(y) \in Int /\ YearDays(y - 1) \in Int
  BY <1>1, SMT DEF YearDays
<1>3. \A i \in 1..12 : MonthDays(i) \in Int
  BY SMT DEF MonthDays
<1>4. ASSUME k < Dates!days_in_month(y, m) PROVE Count(y, m, k + 1) = Count(y, m, k) + 1
  BY <1>1, <1>2, <1>3, <1>4, SMT DEF Count
<1>5. ASSUME k = Dates!days_in_month(y, m), m < 12 PROVE Count(y, m + 1, 1) = Count(y, m, k) + 1
  <2>1. CASE m = 2
    <3>1. k = Dates!days_in_month(y, 2)
      BY <1>5, <2>1
    <3>2. Count(y, 3, 1) = YearDays(y) + 0 + 1 - 719469
      BY <1>1, SMT DEF Count, MonthDays
    <3>3. Count(y, 2, k) = YearDays(y - 1) + 337 + k - 719469
      BY <1>1, SMT DEF Count, MonthDays
    <3>4. YearDays(y) - YearDays(y - 1) = k + 337
      <4>1. Countable(y, 1, 1)
        BY <1>1, SMT DEF Countable
      <4>2. YearDays(y) - YearDays(y - 1) = Dates!days_in_month(y, 2) + 337
        BY <4>1, YearStep, Zenon
      <4>3. QED BY <3>1, <4>2
    <3>5. Count(y, 3, 1) = Count(y, 2, k) + 1
      BY <1>1, <1>2, <3>2, <3>3, <3>4, SMT
    <3>6. QED BY <2>1, <3>5, SMT
  <2>2. CASE m # 2
    <3>1. MonthDays(m + 1) - MonthDays(m) = k /\ m + 1 \in 1..12
      BY <1>1, <1>5, <2>2, MonthStep, SMT
    <3>2. MonthDays(m + 1) \in Int /\ MonthDays(m) \in Int
      BY <1>1, <1>3, <3>1, SMT
    <3>3. CASE m = 1
      BY <1>1, <1>2, <3>1, <3>2, <3>3, SMT DEF Count
    <3>4. CASE m > 2
      BY <1>1, <1>2, <3>1, <3>2, <3>4, SMT DEF Count
    <3>5. QED BY <1>1, <2>2, <3>3, <3>4, SMT
  <2>3. QED BY <2>1, <2>2
<1>6. ASSUME k = Dates!days_in_month(y, m), m = 12 PROVE Count(y + 1, 1, 1) = Count(y, m, k) + 1
  <2>1. k = 31
    BY <1>6, SMT DEF Dates!days_in_month
  <2>2. Count(y + 1, 1, 1) = YearDays(y) + 306 + 1 - 719469
    BY <1>1, SMT DEF Count, MonthDays
  <2>3. Count(y, 12, 31) = YearDays(y) + 275 + 31 - 719469
    BY <1>1, SMT DEF Count, MonthDays
  <2>4. Count(y + 1, 1, 1) = Count(y, 12, 31) + 1
    BY <1>2, <2>2, <2>3, SMT
  <2>5. QED BY <1>6, <2>1, <2>4, SMT
<1>7. QED
  BY <1>4, <1>5, <1>6

\* One page is one day, on every date from 0001-01-01 to 9999-12-31.
THEOREM DaysOfTomorrow ==
  ASSUME NEW y, NEW m, NEW k, IsDate(y, m, k)
  PROVE  Dates!days(Dates!Tomorrow([year |-> y, month |-> m, day |-> k]))
           = Dates!days([year |-> y, month |-> m, day |-> k]) + 1
<1>1. /\ Countable(y, m, k)
      /\ k < Dates!days_in_month(y, m) => Countable(y, m, k + 1)
      /\ m < 12 => Countable(y, m + 1, 1)
      /\ Countable(y + 1, 1, 1)
      /\ k \in Int /\ m \in Int /\ Dates!days_in_month(y, m) \in Int
      /\ m <= 12 /\ k <= Dates!days_in_month(y, m)
  <2>1. PICK n : n = Dates!days_in_month(y, m)
    OBVIOUS
  <2>2. n \in 28..31
    BY <2>1, MonthLength
  <2>3. y \in 1..Dates!LastYear /\ m \in 1..12 /\ k \in 1..n
    BY <2>1 DEF IsDate
  <2>4. /\ Countable(y, m, k) /\ Countable(y + 1, 1, 1)
        /\ k < n => Countable(y, m, k + 1)
        /\ m < 12 => Countable(y, m + 1, 1)
    BY <2>2, <2>3, LastYearType, SMT DEF Countable
  <2>5. k \in Int /\ m \in Int /\ n \in Int /\ m <= 12 /\ k <= n
    BY <2>2, <2>3, SMT
  <2>6. QED BY <2>1, <2>4, <2>5
<1>2. Dates!days([year |-> y, month |-> m, day |-> k]) = Count(y, m, k)
  <2>1. Countable(y, m, k)
    BY <1>1
  <2>2. QED BY <2>1, DaysParts
<1>3. CASE k < Dates!days_in_month(y, m)
  <2>1. Dates!Tomorrow([year |-> y, month |-> m, day |-> k]) = [year |-> y, month |-> m, day |-> k + 1]
    BY <1>3, SMT DEF Dates!Tomorrow
  <2>2. Dates!days([year |-> y, month |-> m, day |-> k + 1]) = Count(y, m, k + 1)
    <3>1. Countable(y, m, k + 1)
      BY <1>1, <1>3
    <3>2. QED BY <3>1, DaysParts
  <2>3. Count(y, m, k + 1) = Count(y, m, k) + 1
    BY <1>3, CountStep, SMT
  <2>4. QED
    BY <1>2, <2>1, <2>2, <2>3, Zenon
<1>4. CASE k = Dates!days_in_month(y, m) /\ m < 12
  <2>1. Dates!Tomorrow([year |-> y, month |-> m, day |-> k]) = [year |-> y, month |-> m + 1, day |-> 1]
    BY <1>1, <1>4, SMT DEF Dates!Tomorrow
  <2>2. Dates!days([year |-> y, month |-> m + 1, day |-> 1]) = Count(y, m + 1, 1)
    <3>1. Countable(y, m + 1, 1)
      BY <1>1, <1>4
    <3>2. QED BY <3>1, DaysParts
  <2>3. Count(y, m + 1, 1) = Count(y, m, k) + 1
    BY <1>4, CountStep, SMT
  <2>4. QED
    BY <1>2, <2>1, <2>2, <2>3, Zenon
<1>5. CASE k = Dates!days_in_month(y, m) /\ m = 12
  <2>1. Dates!Tomorrow([year |-> y, month |-> m, day |-> k]) = [year |-> y + 1, month |-> 1, day |-> 1]
    BY <1>1, <1>5, SMT DEF Dates!Tomorrow
  <2>2. Dates!days([year |-> y + 1, month |-> 1, day |-> 1]) = Count(y + 1, 1, 1)
    <3>1. Countable(y + 1, 1, 1)
      BY <1>1
    <3>2. QED BY <3>1, DaysParts
  <2>3. Count(y + 1, 1, 1) = Count(y, m, k) + 1
    BY <1>5, CountStep, SMT
  <2>4. QED
    BY <1>2, <2>1, <2>2, <2>3, Zenon
<1>6. QED
  BY <1>1, <1>3, <1>4, <1>5, SMT

\* The walk stays on the calendar, from a year it may start in.
OnCalendar ==
  /\ today = [year |-> today.year, month |-> today.month, day |-> today.day]
  /\ IsDate(today.year, today.month, today.day)
  /\ IsDate(first_year, 1, 1)
  /\ first_year \in Starts
  /\ passed \in Int

\* The years the calendar ends with.
InTime(y) == y <= Dates!LastYear

\* The year of the day after a date is a number.
LEMMA TomorrowYear ==
  ASSUME NEW y, NEW m, NEW k, IsDate(y, m, k)
  PROVE  Dates!Tomorrow([year |-> y, month |-> m, day |-> k]).year \in Int
  BY SMT DEF Dates!Tomorrow, IsDate

\* `days` is an integer on the calendar.
LEMMA DaysType ==
  ASSUME NEW y, NEW m, NEW k, IsDate(y, m, k)
  PROVE  Dates!days([year |-> y, month |-> m, day |-> k]) \in Int
  BY SMT DEF Dates!days, IsDate, Dates!days_in_month

\* A date of the calendar survives being written and parsed.
LEMMA WrittenDate ==
  ASSUME NEW y, NEW m, NEW k, IsDate(y, m, k)
  PROVE  LET d == [year |-> y, month |-> m, day |-> k]
         IN  Dates!ParsesAsDate(Dates!AsText(d)) /\ Dates!date(Dates!AsText(d)) = d /\ Dates!AsText(d) # Dates!NO_LOWER_BOUND
  BY SMT DEF IsDate, Dates!ParsesAsDate, Dates!AsText, Dates!Text, Dates!date, Dates!NO_LOWER_BOUND, Dates!NaN

\* The YYYYMMDD number of a year up to 9999.
EightDigits(n) == n \in Int /\ 0 <= n /\ n < 100000000

\* A later page has a larger YYYYMMDD number.
LEMMA DigitsStep ==
  ASSUME NEW y, NEW m, NEW k, IsDate(y, m, k)
  PROVE  LET d == [year |-> y, month |-> m, day |-> k]
         IN  /\ EightDigits(Dates!digits(d))
             /\ Dates!digits(Dates!Tomorrow(d)) \in Int
             /\ Dates!digits(d) < Dates!digits(Dates!Tomorrow(d))
<1> DEFINE d == [year |-> y, month |-> m, day |-> k]
<1>1. PICK n : n = Dates!days_in_month(y, m)
  OBVIOUS
<1>2. n \in 28..31
  BY <1>1, MonthLength
<1>3. y \in 1..Dates!LastYear /\ m \in 1..12 /\ k \in 1..n
  BY <1>1 DEF IsDate
<1>4. y \in Int /\ y <= 9999
  BY <1>3, SMT DEF Dates!LastYear
<1>5. d.year = y /\ d.month = m /\ d.day = k
  OBVIOUS
<1>6. Dates!digits(d) = y * 10000 + m * 100 + k
  BY <1>5 DEF Dates!digits
<1> HIDE DEF d
<1>7. EightDigits(Dates!digits(d))
  BY <1>2, <1>3, <1>4, <1>6, LastYearType, SMT DEF EightDigits
<1>8. /\ Dates!digits(Dates!Tomorrow(d)) \in Int
      /\ Dates!digits(d) < Dates!digits(Dates!Tomorrow(d))
  <2>1. CASE k < n
    <3>1. Dates!Tomorrow(d) = [year |-> y, month |-> m, day |-> k + 1]
      BY <1>1, <1>5, <2>1 DEF Dates!Tomorrow
    <3>2. Dates!digits(Dates!Tomorrow(d)) = y * 10000 + m * 100 + (k + 1)
      BY <3>1 DEF Dates!digits
    <3>3. QED BY <1>2, <1>3, <1>4, <1>6, <3>2, SMT
  <2>2. CASE ~(k < n) /\ m < 12
    <3>1. Dates!Tomorrow(d) = [year |-> y, month |-> m + 1, day |-> 1]
      BY <1>1, <1>5, <2>2 DEF Dates!Tomorrow
    <3>2. Dates!digits(Dates!Tomorrow(d)) = y * 10000 + (m + 1) * 100 + 1
      BY <3>1 DEF Dates!digits
    <3>3. QED BY <1>2, <1>3, <1>4, <1>6, <3>2, SMT
  <2>3. CASE ~(k < n) /\ ~(m < 12)
    <3>1. Dates!Tomorrow(d) = [year |-> y + 1, month |-> 1, day |-> 1]
      BY <1>1, <1>5, <2>3 DEF Dates!Tomorrow
    <3>2. Dates!digits(Dates!Tomorrow(d)) = (y + 1) * 10000 + 1 * 100 + 1
      BY <3>1 DEF Dates!digits
    <3>3. QED BY <1>2, <1>3, <1>4, <1>6, <3>2, SMT
  <2>4. QED BY <2>1, <2>2, <2>3
<1>9. QED
  BY <1>7, <1>8 DEF d

\* What the pages turned say of the digits of the first and the last one.
DigitsGrow ==
  /\ passed \in Nat
  /\ Dates!digits(Dates!Start) <= Dates!digits(today)
  /\ passed > 0 => Dates!digits(Dates!Start) < Dates!digits(today)

\* The first number that 27 bits do not hold.
Past27Bits == 134217728

\* The circuit's 27-bit range check, as bounds.
LEMMA RangeCheck27 ==
  ASSUME NEW x \in Int
  PROVE  Dates!range_check(x, 27) <=> 0 <= x /\ x < Past27Bits
<1>1. 2^27 = Past27Bits /\ Past27Bits \in Int
  BY SMT DEF Past27Bits
<1>2. Dates!range_check(x, 27) <=> x \in 0..Past27Bits - 1
  BY <1>1, Zenon DEF Dates!range_check
<1>3. QED BY <1>1, <1>2, SMT

\* born_in_range on the numbers it compares.
LEMMA BornInRange ==
  ASSUME NEW b, NEW e, NEW c, Dates!digits(b) \in Int, Dates!BornFrom(e) \in Int, Dates!digits(Dates!date(c)) \in Int
  PROVE  Dates!born_in_range(b, e, c)
           <=> /\ 0 <= Dates!digits(b) - Dates!BornFrom(e) /\ Dates!digits(b) - Dates!BornFrom(e) < Past27Bits
               /\ 0 <= Dates!digits(Dates!date(c)) - Dates!digits(b) /\ Dates!digits(Dates!date(c)) - Dates!digits(b) < Past27Bits
<1>1. Dates!digits(b) - Dates!BornFrom(e) \in Int /\ Dates!digits(Dates!date(c)) - Dates!digits(b) \in Int
  BY SMT
<1>2. QED BY <1>1, RangeCheck27, Zenon DEF Dates!born_in_range

\* The digits grow with every page the walk turns.
LEMMA DigitSteps ==
  ASSUME Dates!WalkAssumption
  PROVE  /\ Dates!Init => DigitsGrow
         /\ OnCalendar /\ DigitsGrow /\ [Dates!NextDay]_Dates!vars => DigitsGrow'
<1>1. Dates!Init => DigitsGrow
  <2> SUFFICES ASSUME Dates!Init PROVE DigitsGrow
    OBVIOUS
  <2>1. first_year \in 1..Dates!LastYear
    BY SMT DEF Dates!WalkAssumption, Dates!Init
  <2>2. IsDate(first_year, 1, 1)
    BY <2>1, SMT DEF IsDate, Dates!days_in_month
  <2>3. Dates!digits(Dates!Start) \in Int
    <3>1. EightDigits(Dates!digits(Dates!Start))
      BY <2>2, DigitsStep, Zenon DEF Dates!Start
    <3>2. QED BY <3>1 DEF EightDigits
  <2>4. QED
    BY <2>3, SMT DEF Dates!Init, DigitsGrow, Dates!Start
<1>2. OnCalendar /\ DigitsGrow /\ [Dates!NextDay]_Dates!vars => DigitsGrow'
  <2> SUFFICES ASSUME OnCalendar, DigitsGrow, [Dates!NextDay]_Dates!vars PROVE DigitsGrow'
    OBVIOUS
  <2>1. CASE Dates!NextDay
    <3>1. /\ EightDigits(Dates!digits(today))
          /\ Dates!digits(Dates!Tomorrow(today)) \in Int
          /\ Dates!digits(today) < Dates!digits(Dates!Tomorrow(today))
      BY DigitsStep, Zenon DEF OnCalendar
    <3>2. EightDigits(Dates!digits(Dates!Start))
      BY DigitsStep, Zenon DEF OnCalendar, Dates!Start
    <3>3. today' = Dates!Tomorrow(today) /\ Dates!Start' = Dates!Start /\ passed' = passed + 1
      BY <2>1 DEF Dates!NextDay, Dates!Start
    <3>4. QED
      BY <3>1, <3>2, <3>3, SMT DEF DigitsGrow, EightDigits
  <2>2. CASE UNCHANGED Dates!vars
    BY <2>2 DEF Dates!vars, DigitsGrow, Dates!Start
  <2>3. QED BY <2>1, <2>2
<1>3. QED BY <1>1, <1>2

\* The walk stays on the calendar and `days` counts its pages.
LEMMA DateSteps ==
  ASSUME Dates!WalkAssumption
  PROVE  /\ Dates!Init => OnCalendar /\ Dates!DaysCountsPages
         /\ OnCalendar /\ Dates!DaysCountsPages /\ [Dates!NextDay]_Dates!vars
              => OnCalendar' /\ Dates!DaysCountsPages'
<1>1. Dates!Init => OnCalendar /\ Dates!DaysCountsPages
  <2> SUFFICES ASSUME Dates!Init PROVE OnCalendar /\ Dates!DaysCountsPages
    OBVIOUS
  <2>1. first_year \in 1..Dates!LastYear /\ first_year \in Starts
    BY SMT DEF Dates!WalkAssumption, Dates!Init
  <2>2. IsDate(first_year, 1, 1)
    BY <2>1, SMT DEF IsDate, Dates!days_in_month
  <2>3. OnCalendar
    BY <2>1, <2>2, SMT DEF OnCalendar, Dates!Init
  <2>4. Dates!days(Dates!Start) \in Int
    BY <2>2, DaysType, Zenon DEF Dates!Start
  <2>5. QED
    BY <2>3, <2>4, SMT DEF Dates!DaysCountsPages, Dates!Init, Dates!Start
<1>2. OnCalendar /\ Dates!DaysCountsPages /\ [Dates!NextDay]_Dates!vars => OnCalendar' /\ Dates!DaysCountsPages'
  <2> SUFFICES ASSUME OnCalendar, Dates!DaysCountsPages, [Dates!NextDay]_Dates!vars
               PROVE  OnCalendar' /\ Dates!DaysCountsPages'
    OBVIOUS
  <2>1. CASE Dates!NextDay
    <3> DEFINE y == today.year
               m == today.month
               k == today.day
    <3>1. today = [year |-> y, month |-> m, day |-> k] /\ IsDate(y, m, k) /\ first_year \in Starts
      BY DEF OnCalendar
    <3>2. InTime(Dates!Tomorrow(today).year)
      <4>1. first_year \in Starts
        BY <3>1
      <4>2. first_year \in Int /\ Span \in Int
        BY <4>1, LastYearType, SMT DEF Dates!WalkAssumption
      <4>3. first_year + Span <= Dates!LastYear + 1
        <5>1. \A s \in Starts : s + Span <= Dates!LastYear + 1
          BY DEF Dates!WalkAssumption
        <5>2. QED BY <4>1, <5>1
      <4>4. Dates!Tomorrow(today).year \in Int
        BY <3>1, TomorrowYear, Zenon
      <4>5. Dates!Tomorrow(today).year < first_year + Span
        BY <2>1 DEF Dates!NextDay
      <4>6. PICK z : z = Dates!Tomorrow(today).year
        OBVIOUS
      <4>7. z \in Int /\ z < first_year + Span
        BY <4>4, <4>5, <4>6
      <4>8. InTime(z)
        BY <4>2, <4>3, <4>7, LastYearType, SMT DEF InTime
      <4>9. QED BY <4>6, <4>8
    <3>3. Dates!days(today') = Dates!days(today) + 1
      BY <2>1, <3>1, DaysOfTomorrow, Zenon DEF Dates!NextDay
    <3>4. /\ today' = [year |-> today'.year, month |-> today'.month, day |-> today'.day]
          /\ IsDate(today'.year, today'.month, today'.day)
      <4>1. today' = Dates!Tomorrow(today)
        BY <2>1 DEF Dates!NextDay
      <4> HIDE DEF y, m, k
      <4>2. today' = Dates!Tomorrow([year |-> y, month |-> m, day |-> k]) /\ InTime(today'.year)
        BY <3>1, <3>2, <4>1, Zenon
      <4>3. ASSUME NEW t, t = Dates!Tomorrow([year |-> y, month |-> m, day |-> k]), InTime(t.year)
            PROVE  /\ t = [year |-> t.year, month |-> t.month, day |-> t.day]
                   /\ IsDate(t.year, t.month, t.day)
        <5>1. /\ y \in 1..Dates!LastYear /\ m \in 1..12 /\ k \in 1..Dates!days_in_month(y, m)
              /\ Dates!days_in_month(y, m) \in 28..31
          BY <3>1, MonthLength, SMT DEF IsDate
        <5>2. CASE k < Dates!days_in_month(y, m)
          <6>1. t = [year |-> y, month |-> m, day |-> k + 1]
            BY <4>3, <5>2, SMT DEF Dates!Tomorrow
          <6>2. QED BY <5>1, <5>2, <6>1, SMT DEF IsDate
        <5>3. CASE ~(k < Dates!days_in_month(y, m)) /\ m < 12
          <6>1. t = [year |-> y, month |-> m + 1, day |-> 1]
            BY <4>3, <5>3, SMT DEF Dates!Tomorrow
          <6>2. Dates!days_in_month(y, m + 1) \in 28..31
            BY MonthLength
          <6>3. QED BY <5>1, <5>3, <6>1, <6>2, SMT DEF IsDate
        <5>4. CASE ~(k < Dates!days_in_month(y, m)) /\ ~(m < 12)
          <6>1. t = [year |-> y + 1, month |-> 1, day |-> 1]
            BY <4>3, <5>4, SMT DEF Dates!Tomorrow
          <6>2. Dates!days_in_month(y + 1, 1) \in 28..31
            BY MonthLength
          <6>3. QED BY <4>3, <5>1, <6>1, <6>2, SMT DEF IsDate, InTime
        <5>5. QED BY <5>2, <5>3, <5>4
      <4>4. QED BY <4>2, <4>3, SMT
    <3>5. OnCalendar'
      BY <2>1, <3>4, SMT DEF OnCalendar, Dates!NextDay
    <3>6. Dates!days(today) \in Int /\ Dates!days(Dates!Start) \in Int
      BY <3>1, DaysType, Zenon DEF OnCalendar, Dates!Start
    <3>7. Dates!DaysCountsPages'
      BY <2>1, <3>3, <3>6, SMT DEF Dates!DaysCountsPages, Dates!NextDay, OnCalendar, Dates!Start
    <3>8. QED BY <3>5, <3>7
  <2>2. CASE UNCHANGED Dates!vars
    BY <2>2 DEF Dates!vars, OnCalendar, Dates!DaysCountsPages, Dates!Start
  <2>3. QED BY <2>1, <2>2
<1>3. QED BY <1>1, <1>2

\* The walk stays on the calendar, `days` counts its pages and its digits grow.
DateInv == OnCalendar /\ Dates!DaysCountsPages /\ DigitsGrow

LEMMA DateInvariance == Spec => [](part = "dates" => DateInv)
<1>1. (Dates!Init => DateInv) /\ (DateInv /\ [Dates!NextDay]_Dates!vars => DateInv')
  <2>1. Dates!WalkAssumption
    BY PartsAssumption, Zenon
  <2>2. QED BY <2>1, DateSteps, DigitSteps, Zenon DEF DateInv
<1>2. Init => (part = "dates" => DateInv)
  BY <1>1, Zenon DEF Init
<1>3. (part = "dates" => DateInv) /\ [Next]_vars => (part = "dates" => DateInv)'
  BY <1>1, DatePart, Zenon
<1>4. QED BY <1>2, <1>3, PTL DEF Spec

\* The closed formula of `days` counts the pages of the calendar, from any first year and
\* over any span up to the year 9999.
THEOREM DaysCountPages == Spec => []DaysCountsPages
<1>1. (part = "dates" => DateInv) => DaysCountsPages
  BY Zenon DEF DateInv, DaysCountsPages
<1>2. QED BY <1>1, DateInvariance, PTL

\* check_range refuses every range in which a birth date is pinned down to fewer than 365
\* days and accepts every other, from any first day of a year to any date up to 9999-12-31.
THEOREM RangesAreWideEnough == Spec => []RangeIsWideEnough
<1>1. OnCalendar /\ Dates!DaysCountsPages => Dates!RangeIsWideEnough
  <2> SUFFICES ASSUME OnCalendar, Dates!DaysCountsPages PROVE Dates!RangeIsWideEnough
    OBVIOUS
  <2> DEFINE E == Dates!AsText(Dates!Start)
             C == Dates!AsText(today)
  <2>1. Dates!ParsesAsDate(C) /\ Dates!date(C) = today
    BY WrittenDate, Zenon DEF OnCalendar
  <2>2. Dates!ParsesAsDate(E) /\ Dates!date(E) = Dates!Start /\ E # Dates!NO_LOWER_BOUND
    BY WrittenDate, Zenon DEF OnCalendar, Dates!Start
  <2>3. Dates!days(today) \in Int /\ Dates!days(Dates!Start) \in Int /\ passed \in Int
    BY DaysType, Zenon DEF OnCalendar, Dates!Start
  <2>4. Dates!days(today) - Dates!days(Dates!Start) + 1 >= Dates!MIN_WINDOW_DAYS <=> passed + 1 >= Dates!MIN_WINDOW_DAYS
    BY <2>3, SMT DEF Dates!DaysCountsPages, Dates!MIN_WINDOW_DAYS
  <2> HIDE DEF E, C
  <2>5. Dates!check_range(E, C)
          <=> C = Dates!NO_UPPER_BOUND \/ Dates!days(today) - Dates!days(Dates!Start) + 1 >= Dates!MIN_WINDOW_DAYS
    BY <2>1, <2>2, Zenon DEF Dates!check_range
  <2>6. QED
    BY <2>4, <2>5, Zenon DEF Dates!RangeIsWideEnough, E, C
<1>2. (part = "dates" => DateInv) => RangeIsWideEnough
  BY <1>1, Zenon DEF DateInv, RangeIsWideEnough
<1>3. QED BY <1>2, DateInvariance, PTL

\* Every date of the calendar parses, and the day after a month's last does not.
THEOREM RealDatesParse == Spec => []OnlyRealDatesParse
<1>1. OnCalendar => Dates!OnlyRealDatesParse
  <2> SUFFICES ASSUME OnCalendar PROVE Dates!OnlyRealDatesParse
    OBVIOUS
  <2>1. Dates!ParsesAsDate(Dates!AsText(today))
    BY WrittenDate, Zenon DEF OnCalendar
  <2>2. ASSUME NEW y, NEW m, NEW k, IsDate(y, m, k),
               Dates!Tomorrow([year |-> y, month |-> m, day |-> k]).day = 1
        PROVE  ~Dates!ParsesAsDate(Dates!Text(y, m, k + 1))
    BY <2>2, SMT DEF IsDate, Dates!Tomorrow, Dates!ParsesAsDate, Dates!Text, Dates!days_in_month
  <2>3. QED
    BY <2>1, <2>2, Zenon DEF Dates!OnlyRealDatesParse, OnCalendar
<1>2. (part = "dates" => DateInv) => OnlyRealDatesParse
  BY <1>1, Zenon DEF DateInv, OnlyRealDatesParse
<1>3. QED BY <1>2, DateInvariance, PTL

\* The two comparisons of the age rules are comparisons of dates: neither difference wraps
\* around, a bound is inclusive, and a birth date a page past one is refused.  This is so of
\* every pair of dates the calendar has, from any first year.
THEOREM DigitsKeepOrderAlways == Spec => []DigitsKeepOrder
<1>1. OnCalendar /\ DigitsGrow => Dates!DigitsKeepOrder
  <2> SUFFICES ASSUME OnCalendar, DigitsGrow PROVE Dates!DigitsKeepOrder
    OBVIOUS
  <2> DEFINE E == Dates!AsText(Dates!Start)
             C == Dates!AsText(today)
  <2>1. Dates!date(C) = today /\ C # Dates!NO_LOWER_BOUND
    BY WrittenDate, Zenon DEF OnCalendar
  <2>2. Dates!date(E) = Dates!Start /\ E # Dates!NO_LOWER_BOUND
    BY WrittenDate, Zenon DEF OnCalendar, Dates!Start
  <2>3. /\ EightDigits(Dates!digits(today))
        /\ Dates!digits(Dates!Tomorrow(today)) \in Int
        /\ Dates!digits(today) < Dates!digits(Dates!Tomorrow(today))
    BY DigitsStep, Zenon DEF OnCalendar
  <2>4. EightDigits(Dates!digits(Dates!Start))
    BY DigitsStep, Zenon DEF OnCalendar, Dates!Start
  <2>5. Dates!BornFrom(E) = Dates!digits(Dates!Start) /\ Dates!BornFrom(C) = Dates!digits(today) /\ Dates!BornFrom(Dates!NO_LOWER_BOUND) = 0
    BY <2>1, <2>2, Zenon DEF Dates!BornFrom
  <2>6. /\ Dates!digits(Dates!Start) <= Dates!digits(today)
        /\ passed > 0 => Dates!digits(Dates!Start) < Dates!digits(today)
    BY Zenon DEF DigitsGrow
  <2>7. Dates!digits(Dates!date(Dates!NO_UPPER_BOUND)) \in Int
    BY SMT DEF Dates!digits, Dates!date, Dates!NO_UPPER_BOUND, Dates!Text
  <2>8. Dates!digits(today) \in Int /\ Dates!digits(Dates!Start) \in Int /\ 0 \in Int
    BY <2>3, <2>4, SMT DEF EightDigits
  <2> HIDE DEF E, C
  <2>9. Dates!born_in_range(today, E, C) /\ Dates!born_in_range(Dates!Start, E, C)
    <3>1. /\ 0 <= Dates!digits(today) - Dates!digits(Dates!Start) /\ Dates!digits(today) - Dates!digits(Dates!Start) < Past27Bits
          /\ 0 <= Dates!digits(Dates!Start) - Dates!digits(Dates!Start) /\ Dates!digits(Dates!Start) - Dates!digits(Dates!Start) < Past27Bits
          /\ 0 <= Dates!digits(today) - Dates!digits(today) /\ Dates!digits(today) - Dates!digits(today) < Past27Bits
      BY <2>3, <2>4, <2>6, SMT DEF Past27Bits, EightDigits
    <3>2. QED BY <2>1, <2>5, <2>8, <3>1, BornInRange, Zenon
  <2>10. passed > 0 => ~Dates!born_in_range(Dates!Start, C, Dates!NO_UPPER_BOUND)
    <3>1. passed > 0 => ~(0 <= Dates!digits(Dates!Start) - Dates!digits(today))
      BY <2>6, <2>8, SMT
    <3>2. QED BY <2>5, <2>7, <2>8, <3>1, BornInRange, Zenon
  <2>11. Dates!born_in_range(today, Dates!NO_LOWER_BOUND, C)
    <3>1. /\ 0 <= Dates!digits(today) - 0 /\ Dates!digits(today) - 0 < Past27Bits
          /\ 0 <= Dates!digits(today) - Dates!digits(today) /\ Dates!digits(today) - Dates!digits(today) < Past27Bits
      BY <2>3, SMT DEF Past27Bits, EightDigits
    <3>2. QED BY <2>1, <2>5, <2>8, <3>1, BornInRange, Zenon
  <2>12. ~Dates!born_in_range(Dates!Tomorrow(today), Dates!NO_LOWER_BOUND, C)
    <3>1. ~(0 <= Dates!digits(today) - Dates!digits(Dates!Tomorrow(today)))
      BY <2>3, <2>8, SMT
    <3>2. QED BY <2>1, <2>3, <2>5, <2>8, <3>1, BornInRange, Zenon
  <2>13. QED
    BY <2>9, <2>10, <2>11, <2>12 DEF Dates!DigitsKeepOrder, E, C
<1>2. (part = "dates" => DateInv) => DigitsKeepOrder
  BY <1>1, Zenon DEF DateInv, DigitsKeepOrder
<1>3. QED BY <1>2, DateInvariance, PTL

-----------------------------------------------------------------------------
(* The digestID gadget.                                                    *)

\* What a satisfied gadget exposes of an item: the digestID a decoder reads there.
Decoded(w, e) ==
  LET d == DigestId!decode_cbor_uint(w)
  IN  /\ d # DigestId!NoUint
      /\ e.value = d.value
      /\ e.value[0] <= DigestId!MaxDigestIdTop
      /\ e.encoded = [b \in 0..4 |-> IF b < d.width THEN w[b] ELSE 0]

LEMMA SatisfiedIsDecoded ==
  ASSUME NEW w \in DigestId!Window, NEW x \in DigestId!Witness, DigestId!Satisfied(w, x)
  PROVE  Decoded(w, [value |-> x.value, encoded |-> DigestId!encoded_bits(w, x)])
<1>1. PICK v : v = x.value
  OBVIOUS
<1>2. v \in [0..3 -> 0..255] /\ w \in [0..4 -> 0..255]
  BY <1>1 DEF DigestId!Witness, DigestId!U32, DigestId!Window
<1>3. PICK c \in 0..3 :
        /\ x.selector = {c}
        /\ \A b \in 0..(DigestId!class_byte_width(c) - 1) : w[b] = DigestId!ExpectedByte(c, v, b)
        /\ \A i \in 0..(3 - DigestId!ValueBytes(c)) : v[i] = 0
        /\ c = 0 => w[0] < DigestId!FirstMarker
        /\ c = 3 => w[1] <= DigestId!MaxDigestIdTop
  BY <1>1 DEF DigestId!Satisfied, DigestId!Classes
<1>4. DigestId!encoded_bits(w, x) = [b \in 0..4 |-> IF b < DigestId!class_byte_width(c) THEN w[b] ELSE 0]
  BY <1>3 DEF DigestId!encoded_bits
<1>5. /\ DigestId!MarkerClass(w[0]) = c
      /\ v[0] <= DigestId!MaxDigestIdTop
      /\ DigestId!class_byte_width(c) # 0
      /\ \A i \in 0..3 : v[i] = IF i < 4 - DigestId!ValueBytes(c) THEN 0
                                ELSE w[i - (4 - DigestId!ValueBytes(c)) + (IF c = 0 THEN 0 ELSE 1)]
  <2>1. CASE c = 0
    <3>1. DigestId!class_byte_width(c) = 1 /\ DigestId!ValueBytes(c) = 1
      BY <2>1 DEF DigestId!class_byte_width, DigestId!ValueBytes
    <3>2. w[0] = v[3] /\ v[0] = 0 /\ v[1] = 0 /\ v[2] = 0 /\ w[0] < 24
      BY <1>3, <2>1, <3>1 DEF DigestId!ExpectedByte, DigestId!value_byte_out_pos, DigestId!FirstMarker
    <3>3. QED BY <1>2, <2>1, <3>1, <3>2 DEF DigestId!MarkerClass, DigestId!FirstMarker, DigestId!MaxDigestIdTop
  <2>2. CASE c = 1
    <3>1. DigestId!class_byte_width(c) = 2 /\ DigestId!ValueBytes(c) = 1
      BY <2>2 DEF DigestId!class_byte_width, DigestId!ValueBytes
    <3>2. w[0] = 24 /\ w[1] = v[3] /\ v[0] = 0 /\ v[1] = 0 /\ v[2] = 0
      BY <1>3, <2>2, <3>1 DEF DigestId!ExpectedByte, DigestId!value_byte_out_pos, DigestId!FirstMarker, DigestId!Marker
    <3>3. QED BY <1>2, <2>2, <3>1, <3>2 DEF DigestId!MarkerClass, DigestId!FirstMarker, DigestId!MaxDigestIdTop
  <2>3. CASE c = 2
    <3>1. DigestId!class_byte_width(c) = 3 /\ DigestId!ValueBytes(c) = 2
      BY <2>3 DEF DigestId!class_byte_width, DigestId!ValueBytes
    <3>2. w[0] = 25 /\ w[1] = v[2] /\ w[2] = v[3] /\ v[0] = 0 /\ v[1] = 0
      BY <1>3, <2>3, <3>1 DEF DigestId!ExpectedByte, DigestId!value_byte_out_pos, DigestId!FirstMarker, DigestId!Marker
    <3>3. QED BY <1>2, <2>3, <3>1, <3>2 DEF DigestId!MarkerClass, DigestId!FirstMarker, DigestId!MaxDigestIdTop
  <2>4. CASE c = 3
    <3>1. DigestId!class_byte_width(c) = 5 /\ DigestId!ValueBytes(c) = 4
      BY <2>4 DEF DigestId!class_byte_width, DigestId!ValueBytes
    <3>2. /\ w[0] = 26 /\ w[1] = v[0] /\ w[2] = v[1] /\ w[3] = v[2] /\ w[4] = v[3]
          /\ w[1] <= 127
      BY <1>3, <2>4, <3>1
      DEF DigestId!ExpectedByte, DigestId!value_byte_out_pos, DigestId!FirstMarker, DigestId!Marker, DigestId!MaxDigestIdTop
    <3>3. QED BY <1>2, <2>4, <3>1, <3>2 DEF DigestId!MarkerClass, DigestId!FirstMarker, DigestId!MaxDigestIdTop
  <2>5. QED BY <2>1, <2>2, <2>3, <2>4
<1>6. PICK d : d = DigestId!decode_cbor_uint(w)
  OBVIOUS
<1>7. d = [width |-> DigestId!class_byte_width(c),
           value |-> [i \in 0..3 |->
             IF i < 4 - DigestId!ValueBytes(c) THEN 0
             ELSE w[i - (4 - DigestId!ValueBytes(c)) + (IF c = 0 THEN 0 ELSE 1)]]]
  BY <1>5, <1>6 DEF DigestId!decode_cbor_uint, DigestId!Classes
<1>8. d.width = DigestId!class_byte_width(c) /\ d.value = v
  BY <1>2, <1>5, <1>7
<1>9. d # DigestId!NoUint
  BY <1>5, <1>8 DEF DigestId!NoUint
<1>10. PICK e : e = [value |-> x.value, encoded |-> DigestId!encoded_bits(w, x)]
  OBVIOUS
<1>11. e.value = v /\ e.encoded = [b \in 0..4 |-> IF b < d.width THEN w[b] ELSE 0]
  BY <1>1, <1>4, <1>8, <1>10
<1>12. QED BY <1>5, <1>6, <1>8, <1>9, <1>10, <1>11, Zenon DEF Decoded

LEMMA EncodedIsSatisfied ==
  ASSUME NEW v \in DigestId!U32, v[0] <= DigestId!MaxDigestIdTop, NEW rest \in DigestId!Window
  PROVE  /\ DigestId!encode_cbor_uint(v, rest) \in DigestId!Window
         /\ DigestId!Satisfied(DigestId!encode_cbor_uint(v, rest), DigestId!AssignedWitness(v))
<1>1. PICK c : c = DigestId!length_class(v)
  OBVIOUS
<1>2. PICK w : w = DigestId!encode_cbor_uint(v, rest)
  OBVIOUS
<1>3. w = [b \in 0..4 |-> IF b < DigestId!class_byte_width(c) THEN DigestId!ExpectedByte(c, v, b) ELSE rest[b]]
  BY <1>1, <1>2 DEF DigestId!encode_cbor_uint
<1>4. /\ v \in [0..3 -> 0..255] /\ rest \in [0..4 -> 0..255] /\ v[0] <= 127
  BY DEF DigestId!U32, DigestId!Window, DigestId!MaxDigestIdTop
<1>5. /\ c \in 0..3
      /\ c = 0 => v[0] = 0 /\ v[1] = 0 /\ v[2] = 0 /\ v[3] < 24
      /\ c = 1 => v[0] = 0 /\ v[1] = 0 /\ v[2] = 0
      /\ c = 2 => v[0] = 0 /\ v[1] = 0
  BY <1>1 DEF DigestId!length_class, DigestId!FirstMarker
<1>6. PICK x : x = DigestId!AssignedWitness(v)
  OBVIOUS
<1>7. x.selector = {c} /\ x.value = v
  BY <1>1, <1>6 DEF DigestId!AssignedWitness
<1>8. /\ \A b \in 0..(DigestId!class_byte_width(c) - 1) :
           w[b] = DigestId!ExpectedByte(c, v, b) /\ DigestId!ExpectedByte(c, v, b) \in 0..255
      /\ \A i \in 0..(3 - DigestId!ValueBytes(c)) : v[i] = 0
      /\ c = 0 => w[0] < 24
      /\ c = 3 => w[1] <= 127
      /\ DigestId!class_byte_width(c) \in 1..5
  <2>1. CASE c = 0
    <3>1. DigestId!class_byte_width(c) = 1 /\ DigestId!ValueBytes(c) = 1
      BY <2>1 DEF DigestId!class_byte_width, DigestId!ValueBytes
    <3>2. DigestId!ExpectedByte(c, v, 0) = v[3]
      BY <2>1, <3>1 DEF DigestId!ExpectedByte, DigestId!value_byte_out_pos
    <3>3. QED BY <1>3, <1>4, <1>5, <2>1, <3>1, <3>2
  <2>2. CASE c = 1
    <3>1. DigestId!class_byte_width(c) = 2 /\ DigestId!ValueBytes(c) = 1
      BY <2>2 DEF DigestId!class_byte_width, DigestId!ValueBytes
    <3>2. DigestId!ExpectedByte(c, v, 0) = 24 /\ DigestId!ExpectedByte(c, v, 1) = v[3]
      BY <2>2, <3>1 DEF DigestId!ExpectedByte, DigestId!value_byte_out_pos, DigestId!Marker, DigestId!FirstMarker
    <3>3. QED BY <1>3, <1>4, <1>5, <2>2, <3>1, <3>2
  <2>3. CASE c = 2
    <3>1. DigestId!class_byte_width(c) = 3 /\ DigestId!ValueBytes(c) = 2
      BY <2>3 DEF DigestId!class_byte_width, DigestId!ValueBytes
    <3>2. /\ DigestId!ExpectedByte(c, v, 0) = 25 /\ DigestId!ExpectedByte(c, v, 1) = v[2]
          /\ DigestId!ExpectedByte(c, v, 2) = v[3]
      BY <2>3, <3>1 DEF DigestId!ExpectedByte, DigestId!value_byte_out_pos, DigestId!Marker, DigestId!FirstMarker
    <3>3. QED BY <1>3, <1>4, <1>5, <2>3, <3>1, <3>2
  <2>4. CASE c = 3
    <3>1. DigestId!class_byte_width(c) = 5 /\ DigestId!ValueBytes(c) = 4
      BY <2>4 DEF DigestId!class_byte_width, DigestId!ValueBytes
    <3>2. /\ DigestId!ExpectedByte(c, v, 0) = 26
          /\ \A b \in 1..4 : DigestId!ExpectedByte(c, v, b) = v[b - 1]
      BY <2>4, <3>1 DEF DigestId!ExpectedByte, DigestId!value_byte_out_pos, DigestId!Marker, DigestId!FirstMarker
    <3>3. QED BY <1>3, <1>4, <1>5, <2>4, <3>1, <3>2
  <2>5. QED BY <1>5, <2>1, <2>2, <2>3, <2>4
<1>9. w \in [0..4 -> 0..255]
  <2>1. ASSUME NEW b \in 0..4 PROVE w[b] \in 0..255
    <3>1. CASE b < DigestId!class_byte_width(c)
      BY <1>8, <3>1
    <3>2. CASE ~(b < DigestId!class_byte_width(c))
      BY <1>3, <1>4, <3>2
    <3>3. QED BY <3>1, <3>2
  <2>2. QED BY <1>3, <2>1
<1>10. DigestId!Satisfied(w, x)
  BY <1>5, <1>7, <1>8 DEF DigestId!Satisfied, DigestId!Classes, DigestId!FirstMarker, DigestId!MaxDigestIdTop
<1>11. QED BY <1>2, <1>6, <1>9, <1>10 DEF DigestId!Window

\* The item keeps its bytes, and its issuer's digestID satisfies the gadget.
IdInv ==
  /\ window \in DigestId!Window
  /\ DigestId!ExposedIsEmbedded /\ DigestId!CanonicalIsExtracted

LEMMA ExposeKeeps ==
  ASSUME IdInv, NEW x \in DigestId!Witness, DigestId!Expose(x)
  PROVE  IdInv'
<1>1. UNCHANGED <<window, issued>>
  BY DEF DigestId!Expose
<1>2. PICK e : e = [value |-> x.value, encoded |-> DigestId!encoded_bits(window, x)]
  OBVIOUS
<1>3. exposed' = exposed \cup {e} /\ DigestId!Satisfied(window, x)
  BY <1>2, Zenon DEF DigestId!Expose
<1>4. Decoded(window, e)
  BY <1>2, <1>3, SatisfiedIsDecoded, Zenon DEF IdInv
<1>5. \A f \in exposed' : Decoded(window, f)
  <2>1. \A f \in exposed : Decoded(window, f)
    BY Zenon DEF IdInv, DigestId!ExposedIsEmbedded, Decoded
  <2>2. QED BY <1>3, <1>4, <2>1, Zenon
<1>6. DigestId!ExposedIsEmbedded'
  BY <1>1, <1>5, Zenon DEF DigestId!ExposedIsEmbedded, Decoded
<1>7. DigestId!CanonicalIsExtracted'
  BY <1>1, Zenon DEF IdInv, DigestId!CanonicalIsExtracted
<1>8. QED BY <1>1, <1>6, <1>7, Zenon DEF IdInv

LEMMA IdSteps ==
  ASSUME DigestId!BytesAssumption
  PROVE  (DigestId!Init => IdInv) /\ (IdInv /\ [DigestId!Next]_DigestId!vars => IdInv')
<1>1. ASSUME DigestId!Init PROVE IdInv
  <2>1. exposed = {}
    BY <1>1 DEF DigestId!Init
  <2>2. PICK rest \in [0..4 -> IssuedBytes] :
          \/ window = rest /\ issued = {}
          \/ \E v \in DigestIds :
                /\ v[0] <= DigestId!MaxDigestIdTop
                /\ window = DigestId!encode_cbor_uint(v, rest)
                /\ issued = {v}
    BY <1>1, Zenon DEF DigestId!Init
  <2>3. rest \in DigestId!Window /\ \A v \in DigestIds : v \in DigestId!U32
    <3>1. \A B : IssuedBytes \subseteq B => rest \in [0..4 -> B]
      OBVIOUS
    <3>2. IssuedBytes \subseteq 0..255 /\ DigestIds \subseteq DigestId!U32
      BY DEF DigestId!BytesAssumption, DigestId!U32
    <3>3. rest \in DigestId!Window
      BY <3>1, <3>2 DEF DigestId!Window
    <3>4. QED BY <3>2, <3>3
  <2>4. window \in DigestId!Window /\ \A v \in issued : DigestId!Satisfied(window, DigestId!AssignedWitness(v))
    <3>1. CASE window = rest /\ issued = {}
      BY <2>3, <3>1
    <3>2. ASSUME NEW v \in DigestIds, v[0] <= DigestId!MaxDigestIdTop,
                 window = DigestId!encode_cbor_uint(v, rest), issued = {v}
          PROVE  window \in DigestId!Window /\ \A u \in issued : DigestId!Satisfied(window, DigestId!AssignedWitness(u))
      <4>1. window \in DigestId!Window /\ DigestId!Satisfied(window, DigestId!AssignedWitness(v))
        BY <2>3, <3>2, EncodedIsSatisfied, Zenon
      <4>2. QED BY <3>2, <4>1, Zenon
    <3>3. QED BY <2>2, <3>1, <3>2, Zenon
  <2>5. QED BY <2>1, <2>4, Zenon DEF IdInv, DigestId!ExposedIsEmbedded, DigestId!CanonicalIsExtracted
<1>2. ASSUME IdInv, [DigestId!Next]_DigestId!vars PROVE IdInv'
  <2>1. CASE UNCHANGED DigestId!vars
    BY <1>2, <2>1 DEF DigestId!vars, IdInv, DigestId!ExposedIsEmbedded, DigestId!CanonicalIsExtracted
  <2>2. ASSUME NEW v \in DigestIds, DigestId!Extract(v) PROVE IdInv'
    <3>1. v \in DigestId!U32
      BY DEF DigestId!BytesAssumption, DigestId!U32
    <3>2. DigestId!length_class(v) \in DigestId!Classes
      BY <3>1 DEF DigestId!length_class, DigestId!Classes
    <3>3. DigestId!AssignedWitness(v) \in DigestId!Witness
      BY <3>1, <3>2 DEF DigestId!AssignedWitness, DigestId!Witness
    <3>4. QED BY <1>2, <2>2, <3>3, ExposeKeeps DEF DigestId!Extract
  <2>3. ASSUME NEW s \in SUBSET DigestId!Classes, NEW v \in [0..3 -> WitnessBytes],
               DigestId!Assign([selector |-> s, value |-> v])
        PROVE  IdInv'
    <3>1. [selector |-> s, value |-> v] \in DigestId!Witness
      BY DEF DigestId!BytesAssumption, DigestId!Witness, DigestId!U32
    <3>2. QED BY <1>2, <2>3, <3>1, ExposeKeeps DEF DigestId!Assign
  <2>4. QED BY <1>2, <2>1, <2>2, <2>3, Zenon DEF DigestId!Next
<1>3. QED BY <1>1, <1>2

LEMMA IdInvariance == Spec => [](part = "digest_id" => IdInv)
<1>1. (DigestId!Init => IdInv) /\ (IdInv /\ [DigestId!Next]_DigestId!vars => IdInv')
  BY PartsAssumption, IdSteps, Zenon
<1>2. Init => (part = "digest_id" => IdInv)
  BY <1>1, Zenon DEF Init
<1>3. (part = "digest_id" => IdInv) /\ [Next]_vars => (part = "digest_id" => IdInv)'
  BY <1>1, DigestPart, Zenon
<1>4. QED BY <1>2, <1>3, PTL DEF Spec

\* For any item and any witness that satisfies extract_digest_id, the exposed value is the
\* digestID a CBOR decoder reads in the item, below 2^31, and the exposed encoding is its own.
THEOREM ExposedIsEmbeddedAlways == Spec => []ExposedIsEmbedded
<1>1. (part = "digest_id" => IdInv) => ExposedIsEmbedded
  BY DEF IdInv, ExposedIsEmbedded
<1>2. QED BY <1>1, IdInvariance, PTL

-----------------------------------------------------------------------------
(* Windows of the hash table.                                              *)

\* The byte at a place: itself in the table, nothing past its end.
At(x) == IF x < 64 * POSITIONS THEN x ELSE Windows!Outside

\* The first n bytes of w are those of the table after place p.
Runs(w, n, p) == \A t \in 1..n : w[t] = At(p + t)
RunOf(n, p) == [t \in 1..n |-> At(p + t)]

LEMMA SelectedRuns ==
  ASSUME POSITIONS \in Nat, NEW region, region.first \in Nat, NEW b \in Nat, NEW c \in Nat,
         NEW size \in Nat \ {0}, NEW p, p = 64 * (region.first + b) + 16 * c - 1
  PROVE  Runs(Windows!selected(region, b, c, size), size + 15, p)
<1>1. PICK w : w = Windows!selected(region, b, c, size)
  OBVIOUS
<1>2. PICK n : n = Windows!chunks(size)
  OBVIOUS
<1>3. n \in Nat /\ size + 15 <= 16 * n
  BY <1>2 DEF Windows!chunks, Windows!CeilDiv, Windows!CHUNK_BYTES
<1>4. ASSUME NEW t \in 1..size + 15 PROVE w[t] = At(p + t)
  <2>1. t \in 1..16 * n
    BY <1>3
  <2>2. PICK q : q = (t - 1) \div 16
    OBVIOUS
  <2>3. PICK m : m = (t - 1) % 16
    OBVIOUS
  <2>4. q \in Nat /\ m \in 0..15 /\ t - 1 = 16 * q + m
    BY <2>2, <2>3
  <2>5. w[t] = Windows!reached(region, b, c + q)[m + 1]
    BY <1>1, <1>2, <2>1, <2>2, <2>3 DEF Windows!selected, Windows!CHUNK_BYTES
  <2>6. PICK k : k = 4 * (region.first + b) + (c + q)
    OBVIOUS
  <2>7. k \in Nat /\ 16 * k + m = p + t
    BY <2>4, <2>6
  <2>8. w[t] = Windows!chunk(k)[m + 1]
    BY <2>5, <2>6 DEF Windows!reached, Windows!CHUNKS_PER_BLOCK
  <2>9. m + 1 \in 1..16 /\ 16 * k + (m + 1) - 1 = 16 * k + m
    BY <2>4, <2>7
  <2>10. Windows!chunk(k)[m + 1] = IF k < 4 * POSITIONS THEN 16 * k + m ELSE Windows!Outside
    BY <2>7, <2>9 DEF Windows!chunk, Windows!CHUNK_BYTES, Windows!CHUNKS_PER_BLOCK
  <2>11. k < 4 * POSITIONS <=> 16 * k + m < 64 * POSITIONS
    BY <2>4, <2>7
  <2>12. QED BY <2>7, <2>8, <2>10, <2>11 DEF At
<1>5. QED BY <1>1, <1>4 DEF Runs

LEMMA StageRuns ==
  ASSUME NEW w, NEW size \in Nat, NEW step \in Nat \ {0}, NEW shift \in Nat, NEW n \in Nat,
         NEW p \in Int, Runs(w, n, p), size + 2 * step - 1 <= n, NEW bit \in {0, 1},
         bit = (shift \div step) % 2
  PROVE  Runs(Windows!stage(w, step, shift, size), size + step - 1, p + step * bit)
<1>1. ASSUME NEW t \in 1..size + step - 1
      PROVE  Windows!stage(w, step, shift, size)[t] = At(p + step * bit + t)
  <2>1. Windows!stage(w, step, shift, size)[t] = IF bit = 1 THEN w[t + step] ELSE w[t]
    BY DEF Windows!stage
  <2>2. t \in 1..n /\ t + step \in 1..n
    BY DEF Runs
  <2>3. CASE bit = 1
    <3>1. w[t + step] = At(p + (t + step))
      BY <2>2 DEF Runs
    <3>2. p + (t + step) = p + step * bit + t
      BY <2>3
    <3>3. QED BY <2>1, <2>3, <3>1, <3>2
  <2>4. CASE bit = 0
    <3>1. w[t] = At(p + t)
      BY <2>2 DEF Runs
    <3>2. p + t = p + step * bit + t
      BY <2>4
    <3>3. QED BY <2>1, <2>4, <3>1, <3>2
  <2>5. QED BY <2>3, <2>4
<1>2. QED BY <1>1 DEF Runs

LEMMA ShiftedRuns ==
  ASSUME NEW w, NEW size \in Nat, NEW shift \in 0..15, NEW p \in Int, Runs(w, size + 15, p)
  PROVE  Windows!shifted(w, shift, size) = RunOf(size, p + shift)
<1>0. PICK a, b, c, d : /\ a = (shift \div 8) % 2 /\ b = (shift \div 4) % 2
                        /\ c = (shift \div 2) % 2 /\ d = (shift \div 1) % 2
  OBVIOUS
<1>1. /\ a \in {0, 1} /\ b \in {0, 1} /\ c \in {0, 1} /\ d \in {0, 1}
      /\ shift = 8 * a + 4 * b + 2 * c + 1 * d /\ shift \in Nat
  BY <1>0
<1>2. PICK w1 : w1 = Windows!stage(w, 8, shift, size)
  OBVIOUS
<1>3. PICK w2 : w2 = Windows!stage(w1, 4, shift, size)
  OBVIOUS
<1>4. PICK w3 : w3 = Windows!stage(w2, 2, shift, size)
  OBVIOUS
<1>5. PICK w4 : w4 = Windows!stage(w3, 1, shift, size)
  OBVIOUS
<1>6. Windows!shifted(w, shift, size) = w4
  BY <1>2, <1>3, <1>4, <1>5 DEF Windows!shifted
<1>7. Runs(w1, size + 7, p + 8 * a)
  <2>1. Runs(Windows!stage(w, 8, shift, size), size + 8 - 1, p + 8 * a)
    <3>1. 8 \in Nat \ {0} /\ size + 15 \in Nat /\ size + 2 * 8 - 1 <= size + 15
      OBVIOUS
    <3>2. QED BY <1>0, <1>1, <3>1, StageRuns, Zenon
  <2>2. QED BY <1>2, <2>1
<1>8. Runs(w2, size + 3, p + 8 * a + 4 * b)
  <2>1. PICK q : q = p + 8 * a
    OBVIOUS
  <2>2. q \in Int /\ Runs(w1, size + 7, q)
    BY <1>1, <1>7, <2>1
  <2>3. Runs(Windows!stage(w1, 4, shift, size), size + 4 - 1, q + 4 * b)
    <3>1. 4 \in Nat \ {0} /\ size + 7 \in Nat /\ size + 2 * 4 - 1 <= size + 7
      OBVIOUS
    <3>2. QED BY <1>0, <1>1, <2>2, <3>1, StageRuns, Zenon
  <2>4. QED BY <1>3, <2>1, <2>3
<1>9. Runs(w3, size + 1, p + 8 * a + 4 * b + 2 * c)
  <2>1. PICK q : q = p + 8 * a + 4 * b
    OBVIOUS
  <2>2. q \in Int /\ Runs(w2, size + 3, q)
    BY <1>1, <1>8, <2>1
  <2>3. Runs(Windows!stage(w2, 2, shift, size), size + 2 - 1, q + 2 * c)
    <3>1. 2 \in Nat \ {0} /\ size + 3 \in Nat /\ size + 2 * 2 - 1 <= size + 3
      OBVIOUS
    <3>2. QED BY <1>0, <1>1, <2>2, <3>1, StageRuns, Zenon
  <2>4. QED BY <1>4, <2>1, <2>3
<1>10. Runs(w4, size + 1 - 1, p + shift)
  <2>1. PICK q : q = p + 8 * a + 4 * b + 2 * c
    OBVIOUS
  <2>2. q \in Int /\ Runs(w3, size + 1, q)
    BY <1>1, <1>9, <2>1
  <2>3. Runs(Windows!stage(w3, 1, shift, size), size + 1 - 1, q + 1 * d)
    <3>1. 1 \in Nat \ {0} /\ size + 1 \in Nat /\ size + 2 * 1 - 1 <= size + 1
      OBVIOUS
    <3>2. QED BY <1>0, <1>1, <2>2, <3>1, StageRuns, Zenon
  <2>4. q + 1 * d = p + shift
    BY <1>1, <2>1
  <2>5. QED BY <1>5, <2>3, <2>4
<1>11. w4 = [t \in 1..size |-> w4[t]]
  BY <1>5 DEF Windows!stage
<1>12. \A t \in 1..size : w4[t] = At(p + shift + t)
  BY <1>10 DEF Runs
<1>13. QED BY <1>6, <1>11, <1>12 DEF RunOf

\* What a choice of the selectors is.
SelectorOk(s) ==
  /\ s.len \in Nat \ {0} /\ s.region.first \in Nat /\ s.region.blocks \in Nat
  /\ s.last \in 0..s.region.blocks - 1 /\ s.block \in 0..s.region.blocks - 1
  /\ s.chunk \in 0..3 /\ s.shift \in 0..15
  /\ s.region.first + s.region.blocks <= POSITIONS /\ POSITIONS \in Nat
  /\ s = [s EXCEPT !.block = s.block, !.chunk = s.chunk, !.shift = s.shift]

LEMMA SelectorFields ==
  ASSUME Windows!TableAssumption, NEW s \in Windows!Selectors
  PROVE  SelectorOk(s)
<1>1. PICK r \in Regions, n \in Lens : s \in Windows!Choices(r, n)
  BY DEF Windows!Selectors
<1>2. /\ r.first \in Nat /\ r.blocks \in Nat /\ n \in Nat \ {0} /\ POSITIONS \in Nat
      /\ r.first + r.blocks <= POSITIONS
  BY DEF Windows!TableAssumption
<1>3. s \in [region : {r}, len : {n}, last : 0..r.blocks - 1, block : 0..r.blocks - 1,
             chunk : 0..3, shift : 0..15]
  BY <1>1 DEF Windows!Choices, Windows!CHUNKS_PER_BLOCK, Windows!CHUNK_BYTES
<1>4. s = [s EXCEPT !.block = s.block, !.chunk = s.chunk, !.shift = s.shift]
  BY <1>3
<1>5. /\ s.region = r /\ s.len = n /\ s.last \in 0..r.blocks - 1 /\ s.block \in 0..r.blocks - 1
      /\ s.chunk \in 0..3 /\ s.shift \in 0..15
  BY <1>3
<1>6. QED BY <1>2, <1>4, <1>5, Zenon DEF SelectorOk

LEMMA OffsetFields ==
  ASSUME Windows!TableAssumption, NEW s \in Windows!Selectors, NEW at, at = Windows!offset(s)
  PROVE  /\ at \in Nat /\ at = 64 * s.block + 16 * s.chunk + s.shift
         /\ at \div 64 = s.block /\ (at % 64) \div 16 = s.chunk /\ at % 16 = s.shift
<1>1. PICK b, c, d : b = s.block /\ c = s.chunk /\ d = s.shift
  OBVIOUS
<1>2. b \in Nat /\ c \in 0..3 /\ d \in 0..15
  <2>1. SelectorOk(s)
    BY SelectorFields, Zenon
  <2>2. QED BY <1>1, <2>1 DEF SelectorOk
<1>3. at = 64 * b + 16 * c + d
  BY <1>1 DEF Windows!offset, Windows!CHUNK_BYTES
<1>4. at \in Nat /\ at \div 64 = b /\ (at % 64) \div 16 = c /\ at % 16 = d
  BY <1>2, <1>3
<1>5. QED BY <1>1, <1>3, <1>4

LEMMA ReadIsInTable ==
  ASSUME Windows!TableAssumption, NEW s \in Windows!Selectors,
         Windows!offset(s) + s.len <= 64 * (s.last + 1)
  PROVE  Windows!read(s) = [t \in 1..s.len |-> 64 * s.region.first + Windows!offset(s) + t - 1]
<1>1. PICK at : at = Windows!offset(s)
  OBVIOUS
<1>2. PICK first, b, c, d, size : /\ first = s.region.first /\ b = s.block /\ c = s.chunk
                                 /\ d = s.shift /\ size = s.len
  OBVIOUS
<1>3. /\ first \in Nat /\ b \in Nat /\ c \in 0..3 /\ d \in 0..15 /\ size \in Nat \ {0}
      /\ POSITIONS \in Nat /\ s.last \in Nat /\ first + s.last + 1 <= POSITIONS
  <2>1. SelectorOk(s)
    BY SelectorFields, Zenon
  <2>2. QED BY <1>2, <2>1 DEF SelectorOk
<1>4. at = 64 * b + 16 * c + d /\ at + size <= 64 * (s.last + 1)
  BY <1>1, <1>2, OffsetFields
<1>5. PICK w : w = Windows!selected(s.region, b, c, size)
  OBVIOUS
<1>6. PICK p : p = 64 * (first + b) + 16 * c - 1
  OBVIOUS
<1>7. Runs(w, size + 15, p)
  <2>1. c \in Nat
    BY <1>3
  <2>2. QED BY <1>2, <1>3, <1>5, <1>6, <2>1, SelectedRuns, Zenon
<1>8. p \in Int
  BY <1>3, <1>6
<1>9. Windows!shifted(w, d, size) = RunOf(size, p + d)
  <2>1. size \in Nat
    BY <1>3
  <2>2. d \in 0..15
    BY <1>3
  <2>3. QED BY <1>7, <1>8, <2>1, <2>2, ShiftedRuns, Zenon
<1>10. ASSUME NEW t \in 1..size PROVE At(p + d + t) = 64 * first + at + t - 1
  <2>1. p + d + t = 64 * first + at + t - 1
    BY <1>3, <1>4, <1>6
  <2>2. p + d + t < 64 * POSITIONS
    BY <1>3, <1>4, <2>1
  <2>3. QED BY <2>1, <2>2 DEF At
<1>11. Windows!read(s) = [t \in 1..size |-> 64 * first + at + t - 1]
  BY <1>2, <1>5, <1>9, <1>10 DEF Windows!read, RunOf
<1>12. QED BY <1>1, <1>2, <1>11

LEMMA InsideIsSigned ==
  ASSUME Windows!TableAssumption, NEW s \in Windows!Selectors
  PROVE  Windows!inside(s) <=> Windows!offset(s) + s.len <= 64 * (s.last + 1)
<1>1. PICK top : top = 2 ^ OFFSET_BITS
  OBVIOUS
<1>2. top \in Nat /\ 64 * POSITIONS <= top
  BY <1>1 DEF Windows!TableAssumption
<1>3. PICK at : at = Windows!offset(s)
  OBVIOUS
<1>4. PICK room : room = 64 * (s.last + 1) - at - s.len
  OBVIOUS
<1>5. /\ at \in Nat /\ s.len \in Nat \ {0} /\ s.last \in Nat
      /\ s.last + 1 <= POSITIONS /\ POSITIONS \in Nat
  <2>1. SelectorOk(s)
    BY SelectorFields, Zenon
  <2>2. at \in Nat
    BY <1>3, OffsetFields
  <2>3. QED BY <2>1, <2>2 DEF SelectorOk
<1>6. Windows!inside(s) <=> room \in 0..top - 1
  BY <1>1, <1>3, <1>4 DEF Windows!inside
<1>7. room \in 0..top - 1 <=> at + s.len <= 64 * (s.last + 1)
  BY <1>2, <1>4, <1>5
<1>8. QED BY <1>3, <1>6, <1>7

\* The prover's choice stays, and what is seen was read inside the blocks of the digest.
WinInv ==
  /\ sel \in Windows!Selectors
  /\ seen # <<>> => Windows!inside(sel) /\ seen = Windows!read(sel)

LEMMA WinInvariance == Spec => [](part = "window" => WinInv)
<1>1. Windows!Init => WinInv
  BY DEF Windows!Init, WinInv
<1>2. WinInv /\ [Windows!Next]_Windows!vars => WinInv'
  BY DEF WinInv, Windows!Next, Windows!Read, Windows!vars
<1>3. Init => (part = "window" => WinInv)
  BY <1>1, Zenon DEF Init
<1>4. (part = "window" => WinInv) /\ [Next]_vars => (part = "window" => WinInv)'
  BY <1>2, WindowPart, Zenon
<1>5. QED BY <1>3, <1>4, PTL DEF Spec

\* For any layout, length and selectors, what Message::read accepts is a run of bytes of the
\* message at the offset the selectors give, within the blocks its digest covers.
THEOREM WindowsReadSignedBytesAlways == Spec => []WindowsReadSignedBytes
<1> USE PartsAssumption
<1>1. ASSUME WinInv PROVE Windows!WindowsReadSignedBytes
  <2> SUFFICES ASSUME seen # <<>>
               PROVE  /\ seen = [t \in 1..sel.len |-> 64 * sel.region.first + Windows!offset(sel) + t - 1]
                      /\ Windows!offset(sel) + sel.len <= 64 * (sel.last + 1)
    BY DEF Windows!WindowsReadSignedBytes
  <2>1. Windows!offset(sel) + sel.len <= 64 * (sel.last + 1)
    BY <1>1, InsideIsSigned DEF WinInv
  <2>2. Windows!read(sel) = [t \in 1..sel.len |-> 64 * sel.region.first + Windows!offset(sel) + t - 1]
    BY <1>1, <2>1, ReadIsInTable DEF WinInv
  <2>3. QED BY <1>1, <2>1, <2>2 DEF WinInv
<1>2. (part = "window" => WinInv) => WindowsReadSignedBytes
  BY <1>1, Zenon DEF WindowsReadSignedBytes
<1>3. QED BY <1>2, WinInvariance, PTL

\* Every run of bytes inside a message can be read: the selectors of its offset are the ones
\* the witness generator assigns, they satisfy the rule, and read_values records those bytes.
LEMMA WindowsAreRead ==
  ASSUME Windows!TableAssumption, WinInv
  PROVE  Windows!HonestWindowsRead
<1>1. PICK at : at = Windows!offset(sel)
  OBVIOUS
<1> SUFFICES ASSUME at + sel.len <= 64 * (sel.last + 1)
             PROVE  /\ Windows!inside(sel)
                    /\ sel = [sel EXCEPT !.block = at \div 64, !.chunk = (at % 64) \div 16,
                                         !.shift = at % 16]
                    /\ Windows!read_values(sel.region, at, sel.len)
                         = [t \in 1..sel.len |-> 64 * sel.region.first + at + t - 1]
  BY <1>1 DEF Windows!HonestWindowsRead, Windows!CHUNK_BYTES
<1>2. Windows!inside(sel)
  BY <1>1, InsideIsSigned DEF WinInv
<1>3. at \div 64 = sel.block /\ (at % 64) \div 16 = sel.chunk /\ at % 16 = sel.shift
  BY <1>1, OffsetFields DEF WinInv
<1>4. sel.block < sel.region.blocks
      /\ sel = [sel EXCEPT !.block = sel.block, !.chunk = sel.chunk, !.shift = sel.shift]
  <2>1. SelectorOk(sel)
    BY SelectorFields, Zenon DEF WinInv
  <2>2. QED BY <2>1 DEF SelectorOk
<1>5. Windows!read_values(sel.region, at, sel.len) = Windows!read(sel)
  BY <1>3, <1>4 DEF Windows!read_values, Windows!read, Windows!CHUNK_BYTES
<1>6. Windows!read(sel) = [t \in 1..sel.len |-> 64 * sel.region.first + at + t - 1]
  BY <1>1, ReadIsInTable DEF WinInv
<1>7. QED BY <1>2, <1>3, <1>4, <1>5, <1>6

-----------------------------------------------------------------------------
(* Request patterns.                                                       *)

Bytes == Nat \cup Letters \cup {Key}

\* u is s followed by t.
Joined(u, s, t) ==
  /\ u \in Seq(Bytes) /\ Len(u) = Len(s) + Len(t)
  /\ \A i \in 1..Len(s) : u[i] = s[i]
  /\ \A i \in 1..Len(t) : u[Len(s) + i] = t[i]

LEMMA Join ==
  ASSUME NEW s \in Seq(Bytes), NEW t \in Seq(Bytes)
  PROVE  Joined(s \o t, s, t)
<1>1. PICK u : u = s \o t
  OBVIOUS
<1>2. /\ u \in Seq(Bytes) /\ Len(u) = Len(s) + Len(t)
      /\ \A i \in 1..Len(s) + Len(t) : u[i] = IF i <= Len(s) THEN s[i] ELSE t[i - Len(s)]
  BY <1>1, ConcatProperties, Zenon
<1>3. Len(s) \in Nat /\ Len(t) \in Nat
  BY LenProperties
<1>4. \A i \in 1..Len(s) : u[i] = s[i]
  BY <1>2, <1>3
<1>5. ASSUME NEW i \in 1..Len(t) PROVE u[Len(s) + i] = t[i]
  <2>1. Len(s) + i \in 1..Len(s) + Len(t) /\ ~(Len(s) + i <= Len(s)) /\ (Len(s) + i) - Len(s) = i
    BY <1>3
  <2>2. u[Len(s) + i] = t[(Len(s) + i) - Len(s)]
    BY <1>2, <2>1, Zenon
  <2>3. QED BY <2>1, <2>2, Zenon
<1>6. QED BY <1>1, <1>2, <1>4, <1>5, Zenon DEF Joined

\* A text, its head and its length.
TextOk(t) ==
  LET n == Len(t)
      h == Request!text_head(n)
  IN  /\ n \in 1..MaxText /\ t \in [1..n -> Letters] /\ t \in Seq(Bytes)
      /\ h \in Seq(Bytes) /\ Len(h) \in {1, 2}
      /\ \A i \in 1..Len(h) : h[i] # Key
      /\ n < ShortLimit => Len(h) = 1 /\ h[1] = n
      /\ ~(n < ShortLimit) => Len(h) = 2 /\ h[1] = LongHead /\ h[2] = n

LEMMA TextFields ==
  ASSUME Request!BytesAssumption, NEW t \in Request!Texts
  PROVE  TextOk(t)
<1>1. PICK n \in 1..MaxText : t \in [1..n -> Letters]
  BY DEF Request!Texts
<1>2. MaxText \in Nat /\ n \in Nat /\ n <= MaxText
  BY DEF Request!BytesAssumption
<1>3. t \in Seq(Bytes) /\ Len(t) = n
  BY <1>1, <1>2 DEF Bytes
<1>4. LongHead \in Nat /\ Key # LongHead /\ Key # n /\ n \in Bytes /\ LongHead \in Bytes
  BY <1>2 DEF Request!BytesAssumption, Bytes
<1>5. PICK h : h = Request!text_head(n)
  OBVIOUS
<1>6. CASE n < ShortLimit
  <2>1. h = <<n>>
    BY <1>5, <1>6 DEF Request!text_head
  <2>2. h \in Seq(Bytes) /\ Len(h) = 1 /\ h[1] = n
    BY <1>4, <2>1
  <2>3. QED BY <1>1, <1>2, <1>3, <1>4, <1>5, <1>6, <2>2 DEF TextOk
<1>7. CASE ~(n < ShortLimit)
  <2>1. h = <<LongHead, n>>
    BY <1>5, <1>7 DEF Request!text_head
  <2>2. h \in Seq(Bytes) /\ Len(h) = 2 /\ h[1] = LongHead /\ h[2] = n
    BY <1>4, <2>1
  <2>3. QED BY <1>1, <1>2, <1>3, <1>4, <1>5, <1>7, <2>2 DEF TextOk
<1>8. QED BY <1>6, <1>7

\* p is the key, a head and a text.
PatternIs(p, h, t) ==
  /\ p \in Seq(Bytes) /\ Len(p) = 1 + Len(h) + Len(t)
  /\ p[1] = Key
  /\ \A i \in 1..Len(h) : p[1 + i] = h[i]
  /\ \A i \in 1..Len(t) : p[1 + Len(h) + i] = t[i]

\* m has b bytes before the key, the head and the text, and a window's bytes after them.
MessageIs(m, b, h, t) ==
  /\ m \in Seq(Bytes) /\ Len(m) = b + 1 + Len(h) + Len(t) + WindowLen
  /\ \A i \in 1..b : m[i] = LongHead
  /\ m[b + 1] = Key
  /\ \A i \in 1..Len(h) : m[b + 1 + i] = h[i]
  /\ \A i \in 1..Len(t) : m[b + 1 + Len(h) + i] = t[i]
  /\ \A i \in 1..WindowLen : m[b + 1 + Len(h) + Len(t) + i] = 1

LEMMA PatternBytes ==
  ASSUME NEW h \in Seq(Bytes), NEW t \in Seq(Bytes)
  PROVE  PatternIs(<<Key>> \o h \o t, h, t)
<1>1. PICK k : k = <<Key>>
  OBVIOUS
<1>2. k \in Seq(Bytes) /\ Len(k) = 1 /\ k[1] = Key
  BY <1>1 DEF Bytes
<1>3. PICK u : u = k \o h
  OBVIOUS
<1>4. Joined(u, k, h)
  BY <1>2, <1>3, Join, Zenon
<1>5. PICK p : p = u \o t
  OBVIOUS
<1>6. Joined(p, u, t)
  BY <1>4, <1>5, Join, Zenon DEF Joined
<1>7. Len(h) \in Nat /\ Len(t) \in Nat
  BY LenProperties
<1>8. Len(u) = 1 + Len(h) /\ u[1] = Key /\ \A i \in 1..Len(h) : u[1 + i] = h[i]
  <2>1. Len(u) = 1 + Len(h) /\ \A i \in 1..Len(h) : u[1 + i] = h[i]
    BY <1>2, <1>4, Zenon DEF Joined
  <2>2. 1 \in 1..1
    OBVIOUS
  <2>3. u[1] = Key
    BY <1>2, <1>4, <2>2, Zenon DEF Joined
  <2>4. QED BY <2>1, <2>3
<1>9. Len(p) = 1 + Len(h) + Len(t) /\ p \in Seq(Bytes) /\ \A i \in 1..1 + Len(h) : p[i] = u[i]
  BY <1>6, <1>8 DEF Joined
<1>10. p[1] = Key /\ \A i \in 1..Len(h) : p[1 + i] = h[i]
  BY <1>7, <1>8, <1>9
<1>11. \A i \in 1..Len(t) : p[1 + Len(h) + i] = t[i]
  BY <1>6, <1>8 DEF Joined
<1>12. PatternIs(p, h, t)
  BY <1>9, <1>10, <1>11, Zenon DEF PatternIs
<1>13. QED BY <1>1, <1>3, <1>5, <1>12, Zenon

LEMMA MessageBytes ==
  ASSUME Request!BytesAssumption, NEW c \in [before : Before, text : Request!Texts]
  PROVE  MessageIs(Request!Message(c), c.before, Request!text_head(Len(c.text)), c.text)
<1>1. PICK b, t, h : b = c.before /\ t = c.text /\ h = Request!text_head(Len(c.text))
  OBVIOUS
<1>2. b \in Nat /\ WindowLen \in Nat /\ t \in Request!Texts /\ LongHead \in Bytes /\ 1 \in Bytes
  BY <1>1 DEF Request!BytesAssumption, Bytes
<1>3. h \in Seq(Bytes) /\ t \in Seq(Bytes)
  BY <1>1, <1>2, TextFields DEF TextOk
<1>4. PICK f : f = [i \in 1..b |-> LongHead]
  OBVIOUS
<1>5. f \in Seq(Bytes) /\ Len(f) = b /\ \A i \in 1..b : f[i] = LongHead
  BY <1>2, <1>4
<1>6. PICK e : e = [i \in 1..WindowLen |-> 1]
  OBVIOUS
<1>7. e \in Seq(Bytes) /\ Len(e) = WindowLen /\ \A i \in 1..WindowLen : e[i] = 1
  BY <1>2, <1>6
<1>8. PICK k : k = <<Key>>
  OBVIOUS
<1>9. k \in Seq(Bytes) /\ Len(k) = 1 /\ k[1] = Key
  BY <1>8 DEF Bytes
<1>10. PICK u : u = f \o k
  OBVIOUS
<1>11. Joined(u, f, k)
  BY <1>5, <1>9, <1>10, Join, Zenon
<1>12. PICK v : v = u \o h
  OBVIOUS
<1>13. Joined(v, u, h)
  BY <1>3, <1>11, <1>12, Join, Zenon DEF Joined
<1>14. PICK w : w = v \o t
  OBVIOUS
<1>15. Joined(w, v, t)
  BY <1>3, <1>13, <1>14, Join, Zenon DEF Joined
<1>16. PICK m : m = w \o e
  OBVIOUS
<1>17. Joined(m, w, e)
  BY <1>7, <1>15, <1>16, Join, Zenon DEF Joined
<1>18. Len(h) \in Nat /\ Len(t) \in Nat
  BY <1>3, LenProperties
<1>19. Len(u) = b + 1 /\ u[b + 1] = Key /\ \A i \in 1..b : u[i] = LongHead
  BY <1>2, <1>5, <1>9, <1>11 DEF Joined
<1>20. /\ Len(v) = b + 1 + Len(h) /\ v[b + 1] = Key /\ \A i \in 1..b : v[i] = LongHead
       /\ \A i \in 1..Len(h) : v[b + 1 + i] = h[i]
  BY <1>2, <1>13, <1>18, <1>19 DEF Joined
<1>21. /\ Len(w) = b + 1 + Len(h) + Len(t) /\ w[b + 1] = Key /\ \A i \in 1..b : w[i] = LongHead
       /\ \A i \in 1..Len(h) : w[b + 1 + i] = h[i]
       /\ \A i \in 1..Len(t) : w[b + 1 + Len(h) + i] = t[i]
  BY <1>2, <1>15, <1>18, <1>20 DEF Joined
<1>22. MessageIs(m, b, h, t)
  <2>1. PICK n : n = b + 1 + Len(h) + Len(t)
    OBVIOUS
  <2>2. n \in Nat /\ Len(w) = n
    BY <1>2, <1>18, <1>21, <2>1
  <2>3. /\ m \in Seq(Bytes) /\ Len(m) = n + WindowLen /\ \A i \in 1..n : m[i] = w[i]
        /\ \A i \in 1..WindowLen : m[n + i] = 1
    BY <1>7, <1>17, <2>2, Zenon DEF Joined
  <2>4. b + 1 \in 1..n /\ \A i \in 1..b : i \in 1..n
    BY <1>2, <1>18, <2>1
  <2>5. \A i \in 1..Len(h) : b + 1 + i \in 1..n
    BY <1>2, <1>18, <2>1
  <2>6. \A i \in 1..Len(t) : b + 1 + Len(h) + i \in 1..n
    BY <1>2, <1>18, <2>1
  <2>7. \A i \in 1..Len(h) : m[b + 1 + i] = h[i]
    BY <1>21, <2>3, <2>5, Zenon
  <2>8. \A i \in 1..Len(t) : m[b + 1 + Len(h) + i] = t[i]
    BY <1>21, <2>3, <2>6, Zenon
  <2>9. m[b + 1] = Key /\ \A i \in 1..b : m[i] = LongHead
    BY <1>21, <2>3, <2>4, Zenon
  <2>10. QED BY <2>1, <2>3, <2>7, <2>8, <2>9, Zenon DEF MessageIs
<1>23. Request!Message(c) = m
  BY <1>1, <1>4, <1>6, <1>8, <1>10, <1>12, <1>14, <1>16, Zenon DEF Request!Message
<1>24. QED BY <1>1, <1>22, <1>23, Zenon

\* check compares the last bytes of the window with the pattern, and no others.
LEMMA CheckCompares ==
  ASSUME Request!BytesAssumption, NEW p, NEW m \in Seq(Bytes), NEW at \in 0..Len(m) - WindowLen,
         NEW n \in Nat, Len(p.bytes) = n, n <= WindowLen
  PROVE  Request!check(Request!Window(m, at), p)
           <=> \A j \in 1..n : m[at + (WindowLen - n) + j] = p.bytes[j]
<1>1. WindowLen \in Nat /\ Len(m) \in Nat /\ at \in Nat /\ at + WindowLen <= Len(m)
  BY LenProperties DEF Request!BytesAssumption
<1>2. PICK w : w = Request!Window(m, at)
  OBVIOUS
<1>3. ASSUME NEW i \in 1..WindowLen PROVE w[i] = m[at + i]
  <2>1. w = SubSeq(m, at + 1, at + WindowLen)
    BY <1>2 DEF Request!Window
  <2>2. \A j \in at + 1..at + WindowLen : m[j] \in Bytes
    BY <1>1, ElementOfSeq
  <2>3. \A j \in 1..((at + WindowLen) - (at + 1) + 1) : w[j] = m[at + 1 + j - 1]
    BY <1>1, <2>1, <2>2, SubSeqProperties
  <2>4. i \in 1..((at + WindowLen) - (at + 1) + 1) /\ at + 1 + i - 1 = at + i
    BY <1>1
  <2>5. QED BY <2>3, <2>4
<1>4. PICK from : from = WindowLen - n
  OBVIOUS
<1>5. from \in Nat
  BY <1>1, <1>4
<1>6. ASSUME NEW i \in 1..WindowLen
      PROVE  /\ (\E k \in 0..Request!count(p) - 1 : Request!position(k) = i - 1) <=> i > from
             /\ Request!aligned(p)[i] = IF i > from THEN p.bytes[i - from] ELSE 0
  <2>1. (\E k \in 0..n - 1 : WindowLen - 1 - k = i - 1) <=> i > from
    <3>1. ASSUME i > from PROVE \E k \in 0..n - 1 : WindowLen - 1 - k = i - 1
      <4>1. WindowLen - i \in 0..n - 1 /\ WindowLen - 1 - (WindowLen - i) = i - 1
        BY <1>1, <1>4, <3>1
      <4>2. QED BY <4>1
    <3>2. ASSUME NEW k \in 0..n - 1, WindowLen - 1 - k = i - 1 PROVE i > from
      BY <1>1, <1>4, <3>2
    <3>3. QED BY <3>1, <3>2
  <2>2. Request!aligned(p)[i] = IF i > from THEN p.bytes[i - from] ELSE 0
    BY <1>4 DEF Request!aligned
  <2>3. QED BY <2>1, <2>2 DEF Request!count, Request!position
<1>7. Request!check(w, p) <=> \A i \in 1..WindowLen : i > from => m[at + i] = p.bytes[i - from]
  BY <1>3, <1>6, Zenon DEF Request!check
<1>8. (\A i \in 1..WindowLen : i > from => m[at + i] = p.bytes[i - from])
        <=> \A j \in 1..n : m[at + from + j] = p.bytes[j]
  <2>1. ASSUME \A i \in 1..WindowLen : i > from => m[at + i] = p.bytes[i - from], NEW j \in 1..n
        PROVE  m[at + from + j] = p.bytes[j]
    <3>1. PICK i : i = from + j
      OBVIOUS
    <3>2. i \in 1..WindowLen /\ i > from /\ at + i = at + from + j /\ i - from = j
      BY <1>1, <1>4, <1>5, <3>1
    <3>3. QED BY <2>1, <3>2
  <2>2. ASSUME \A j \in 1..n : m[at + from + j] = p.bytes[j], NEW i \in 1..WindowLen, i > from
        PROVE  m[at + i] = p.bytes[i - from]
    <3>1. PICK j : j = i - from
      OBVIOUS
    <3>2. j \in 1..n /\ at + from + j = at + i
      BY <1>1, <1>4, <1>5, <2>2, <3>1
    <3>3. m[at + from + j] = p.bytes[j]
      BY <2>2, <3>2
    <3>4. QED BY <3>1, <3>2, <3>3
  <2>3. QED BY <2>1, <2>2
<1>9. QED BY <1>2, <1>4, <1>7, <1>8

\* The key is where the issuer wrote it and nowhere else.
LEMMA KeyOnce ==
  ASSUME Request!BytesAssumption, NEW t, TextOk(t), NEW b \in Nat, NEW m,
         MessageIs(m, b, Request!text_head(Len(t)), t), NEW i \in 1..Len(m), m[i] = Key
  PROVE  i = b + 1
<1>1. PICK h : h = Request!text_head(Len(t))
  OBVIOUS
<1>2. PICK n : n = Len(t)
  OBVIOUS
<1>3. PICK k : k = Len(h)
  OBVIOUS
<1>4. /\ n \in Nat /\ k \in Nat /\ WindowLen \in Nat /\ n \in 1..MaxText
      /\ Key # LongHead /\ Key \notin Letters /\ Key # 1
      /\ \A j \in 1..k : h[j] # Key
      /\ \A j \in 1..n : t[j] # Key
  BY <1>1, <1>2, <1>3 DEF Request!BytesAssumption, TextOk
<1>5. /\ Len(m) = b + 1 + k + n + WindowLen
      /\ \A j \in 1..b : m[j] = LongHead
      /\ \A j \in 1..k : m[b + 1 + j] = h[j]
      /\ \A j \in 1..n : m[b + 1 + k + j] = t[j]
      /\ \A j \in 1..WindowLen : m[b + 1 + k + n + j] = 1
  BY <1>1, <1>2, <1>3, Zenon DEF MessageIs
<1>6. CASE i <= b
  BY <1>4, <1>5, <1>6
<1>7. CASE i > b + 1 /\ i <= b + 1 + k
  <2>1. PICK j : j = i - (b + 1)
    OBVIOUS
  <2>2. j \in 1..k /\ b + 1 + j = i
    BY <1>4, <1>7, <2>1
  <2>3. QED BY <1>4, <1>5, <2>2
<1>8. CASE i > b + 1 + k /\ i <= b + 1 + k + n
  <2>1. PICK j : j = i - (b + 1 + k)
    OBVIOUS
  <2>2. j \in 1..n /\ b + 1 + k + j = i
    BY <1>4, <1>8, <2>1
  <2>3. QED BY <1>4, <1>5, <2>2
<1>9. CASE i > b + 1 + k + n
  <2>1. PICK j : j = i - (b + 1 + k + n)
    OBVIOUS
  <2>2. j \in 1..WindowLen /\ b + 1 + k + n + j = i
    BY <1>4, <1>5, <1>9, <2>1
  <2>3. QED BY <1>4, <1>5, <2>2
<1>10. QED BY <1>4, <1>5, <1>6, <1>7, <1>8, <1>9

\* A pattern that fits the window is the key, the head and the text.
LEMMA PatternFields ==
  ASSUME NEW t, TextOk(t), Request!pattern(t).ok
  PROVE  /\ PatternIs(Request!pattern(t).bytes, Request!text_head(Len(t)), t)
         /\ ~(Len(Request!pattern(t).bytes) > WindowLen)
<1>1. PICK h : h = Request!text_head(Len(t))
  OBVIOUS
<1>2. PICK p : p = <<Key>> \o h \o t
  OBVIOUS
<1>3. h \in Seq(Bytes) /\ t \in Seq(Bytes)
  BY <1>1 DEF TextOk
<1>4. PatternIs(p, h, t)
  BY <1>2, <1>3, PatternBytes, Zenon
<1>5. Request!pattern(t) = Request!new(p)
  BY <1>1, <1>2, Zenon DEF Request!pattern
<1>6. ~(Len(p) > WindowLen) /\ Request!pattern(t).bytes = p
  <2>1. CASE Len(p) > WindowLen
    <3>1. Request!pattern(t) = [ok |-> FALSE]
      BY <1>5, <2>1 DEF Request!new, Request!Error
    <3>2. QED BY <3>1
  <2>2. CASE ~(Len(p) > WindowLen)
    <3>1. Request!pattern(t) = [ok |-> TRUE, bytes |-> p]
      BY <1>5, <2>2 DEF Request!new
    <3>2. QED BY <2>2, <3>1
  <2>3. QED BY <2>1, <2>2
<1>7. QED BY <1>1, <1>4, <1>6, Zenon

\* A message and a pattern that agree from some place on hold the same text.
LEMMA SameText ==
  ASSUME Request!BytesAssumption, NEW t, TextOk(t), NEW a, TextOk(a), NEW b \in Nat, NEW m, NEW p,
         MessageIs(m, b, Request!text_head(Len(t)), t), PatternIs(p, Request!text_head(Len(a)), a),
         NEW e \in Nat, e + Len(p) <= Len(m), \A j \in 1..Len(p) : m[e + j] = p[j]
  PROVE  t = a
<1>1. PICK h, g : h = Request!text_head(Len(t)) /\ g = Request!text_head(Len(a))
  OBVIOUS
<1>2. PICK n, k, l : n = Len(t) /\ k = Len(a) /\ l = Len(p)
  OBVIOUS
<1>3. /\ n \in 1..MaxText /\ k \in 1..MaxText /\ MaxText \in Nat
      /\ ShortLimit \in Nat /\ LongHead \in Nat /\ LongHead >= ShortLimit
      /\ Len(h) \in {1, 2} /\ Len(g) \in {1, 2}
  BY <1>1, <1>2 DEF Request!BytesAssumption, TextOk
<1>4. /\ l = 1 + Len(g) + k /\ p[1] = Key
      /\ \A i \in 1..Len(g) : p[1 + i] = g[i]
      /\ \A i \in 1..k : p[1 + Len(g) + i] = a[i]
  BY <1>1, <1>2, Zenon DEF PatternIs
<1>5. /\ Len(m) = b + 1 + Len(h) + n + WindowLen /\ m \in Seq(Bytes)
      /\ \A i \in 1..Len(h) : m[b + 1 + i] = h[i]
      /\ \A i \in 1..n : m[b + 1 + Len(h) + i] = t[i]
  BY <1>1, <1>2, Zenon DEF MessageIs
<1>6. e = b
  <2>1. 1 \in 1..l /\ l \in Nat /\ Len(m) \in Nat
    BY <1>3, <1>4, <1>5, LenProperties
  <2>2. e + 1 \in 1..Len(m) /\ m[e + 1] = Key
    BY <1>2, <1>4, <2>1
  <2>3. e + 1 = b + 1
    BY <2>2, KeyOnce, Zenon
  <2>4. QED BY <2>3
<1>7. \A j \in 1..l : m[b + j] = p[j]
  BY <1>2, <1>6, Zenon
<1>8. h[1] = g[1] /\ (Len(h) = 2 /\ Len(g) = 2 => h[2] = g[2])
  <2>0. PICK x, y : x = Len(h) /\ y = Len(g)
    OBVIOUS
  <2>1. 1 \in 1..Len(h) /\ 1 \in 1..Len(g) /\ 1 + 1 \in 1..l /\ b + (1 + 1) = b + 1 + 1
    <3>1. 1 \in 1..x /\ 1 \in 1..y
      BY <1>3, <2>0
    <3>2. 1 + 1 \in 1..l
      BY <1>3, <1>4, <2>0
    <3>3. b + (1 + 1) = b + 1 + 1
      OBVIOUS
    <3>4. QED BY <2>0, <3>1, <3>2, <3>3, Zenon
  <2>2. h[1] = g[1]
    BY <1>4, <1>5, <1>7, <2>1
  <2>3. ASSUME Len(h) = 2, Len(g) = 2 PROVE h[2] = g[2]
    <3>1. 2 \in 1..Len(h) /\ 2 \in 1..Len(g) /\ 1 + 2 \in 1..l /\ b + (1 + 2) = b + 1 + 2
      BY <1>3, <1>4, <2>3
    <3>2. QED BY <1>4, <1>5, <1>7, <3>1
  <2>4. QED BY <2>2, <2>3
<1>9. /\ n < ShortLimit => Len(h) = 1 /\ h[1] = n
      /\ ~(n < ShortLimit) => Len(h) = 2 /\ h[1] = LongHead /\ h[2] = n
      /\ k < ShortLimit => Len(g) = 1 /\ g[1] = k
      /\ ~(k < ShortLimit) => Len(g) = 2 /\ g[1] = LongHead /\ g[2] = k
  BY <1>1, <1>2, Zenon DEF TextOk
<1>10. n = k /\ Len(h) = Len(g)
  BY <1>3, <1>8, <1>9
<1>11. ASSUME NEW i \in 1..n PROVE t[i] = a[i]
  <2>1. PICK j : j = 1 + Len(g) + i
    OBVIOUS
  <2>2. j \in 1..l /\ b + j = b + 1 + Len(h) + i
    BY <1>3, <1>4, <1>10, <2>1
  <2>3. m[b + 1 + Len(h) + i] = t[i] /\ p[j] = a[i] /\ m[b + j] = p[j]
    BY <1>4, <1>5, <1>7, <1>10, <2>1, <2>2
  <2>4. QED BY <2>2, <2>3
<1>12. t \in [1..n -> Letters] /\ a \in [1..n -> Letters]
  BY <1>2, <1>10, Zenon DEF TextOk
<1>13. t = [i \in 1..n |-> t[i]] /\ a = [i \in 1..n |-> a[i]]
  BY <1>12, Zenon
<1>14. QED BY <1>11, <1>13

\* The credential and the request stay, and what is shown was accepted on the whole value.
ReqInv ==
  /\ cred \in [before : Before, text : Request!Texts] /\ asked \in Request!Texts
  /\ Request!MatchIsTheWholeValue

LEMMA ShowKeeps ==
  ASSUME Request!BytesAssumption, ReqInv, NEW at \in 0..Len(Request!Message(cred)) - WindowLen, Request!Show(at)
  PROVE  ReqInv'
<1>1. PICK m : m = Request!Message(cred)
  OBVIOUS
<1>2. PICK p : p = Request!pattern(asked)
  OBVIOUS
<1>3. UNCHANGED <<cred, asked>> /\ p.ok /\ Request!check(Request!Window(m, at), p)
  BY <1>1, <1>2, Zenon DEF Request!Show
<1>4. TextOk(cred.text) /\ TextOk(asked)
  <2>1. cred.text \in Request!Texts /\ asked \in Request!Texts
    BY DEF ReqInv
  <2>2. QED BY <2>1, TextFields, Zenon
<1>5. cred.before \in Nat
  BY DEF ReqInv, Request!BytesAssumption
<1>6. MessageIs(m, cred.before, Request!text_head(Len(cred.text)), cred.text)
  BY <1>1, MessageBytes, Zenon DEF ReqInv
<1>7. PatternIs(p.bytes, Request!text_head(Len(asked)), asked) /\ ~(Len(p.bytes) > WindowLen)
  BY <1>2, <1>3, <1>4, PatternFields, Zenon
<1>8. PICK n : n = Len(p.bytes)
  OBVIOUS
<1>9. m \in Seq(Bytes) /\ p.bytes \in Seq(Bytes)
  BY <1>6, <1>7, Zenon DEF MessageIs, PatternIs
<1>10. n \in Nat /\ WindowLen \in Nat /\ n <= WindowLen /\ Len(m) \in Nat
  BY <1>7, <1>8, <1>9, LenProperties DEF Request!BytesAssumption
<1>11. at \in 0..Len(m) - WindowLen
  BY <1>1, Zenon
<1>12. \A j \in 1..n : m[at + (WindowLen - n) + j] = p.bytes[j]
  BY <1>3, <1>8, <1>9, <1>10, <1>11, CheckCompares
<1>13. PICK e : e = at + (WindowLen - n)
  OBVIOUS
<1>14. e \in Nat /\ e + n <= Len(m)
  BY <1>10, <1>11, <1>13
<1>15. cred.text = asked
  BY <1>4, <1>5, <1>6, <1>7, <1>8, <1>12, <1>13, <1>14, SameText, Zenon
<1>16. QED BY <1>3, <1>15 DEF ReqInv, Request!MatchIsTheWholeValue

LEMMA ReqInvariance == Spec => [](part = "request" => ReqInv)
<1>1. Request!Init => ReqInv
  BY DEF Request!Init, ReqInv, Request!MatchIsTheWholeValue
<1>2. ASSUME ReqInv, [Request!Next]_Request!vars PROVE ReqInv'
  <2>1. CASE UNCHANGED Request!vars
    BY <1>2, <2>1 DEF Request!vars, ReqInv, Request!MatchIsTheWholeValue
  <2>2. ASSUME NEW at \in 0..Len(Request!Message(cred)) - WindowLen, Request!Show(at) PROVE ReqInv'
    BY <1>2, <2>2, ShowKeeps, PartsAssumption, Zenon
  <2>3. QED BY <1>2, <2>1, <2>2, Zenon DEF Request!Next
<1>3. Init => (part = "request" => ReqInv)
  BY <1>1, Zenon DEF Init
<1>4. (part = "request" => ReqInv) /\ [Next]_vars => (part = "request" => ReqInv)'
  BY <1>2, RequestPart, Zenon
<1>5. QED BY <1>3, <1>4, PTL DEF Spec

\* For texts and windows of any length, wherever the prover puts the window, check of request.rs
\* accepts it only on a credential that holds exactly the text asked for.
THEOREM MatchIsTheWholeValueAlways == Spec => []MatchIsTheWholeValue
<1>1. (part = "request" => ReqInv) => MatchIsTheWholeValue
  BY DEF ReqInv, MatchIsTheWholeValue
<1>2. QED BY <1>1, ReqInvariance, PTL

\* window_at ends where the text ends.
LEMMA WindowEnds ==
  ASSUME Request!BytesAssumption, NEW t, TextOk(t), NEW b \in Nat, NEW m,
         MessageIs(m, b, Request!text_head(Len(t)), t), Request!window_at(m).ok,
         NEW end, end = b + 1 + Len(Request!text_head(Len(t))) + Len(t)
  PROVE  WindowLen <= end /\ Request!window_at(m).at = end - WindowLen
<1>1. PICK h : h = Request!text_head(Len(t))
  OBVIOUS
<1>2. PICK n : n = Len(t)
  OBVIOUS
<1>3. /\ n \in 1..MaxText /\ MaxText \in Nat /\ WindowLen \in Nat
      /\ ShortLimit \in Nat /\ LongHead \in Nat /\ LongHead >= ShortLimit /\ Key # LongHead
      /\ Len(h) \in {1, 2}
  BY <1>1, <1>2 DEF Request!BytesAssumption, TextOk
<1>4. /\ Len(m) = b + 1 + Len(h) + n + WindowLen /\ m \in Seq(Bytes)
      /\ \A i \in 1..b : m[i] = LongHead
      /\ m[b + 1] = Key
      /\ \A i \in 1..Len(h) : m[b + 1 + i] = h[i]
  BY <1>1, <1>2, Zenon DEF MessageIs
<1>5. /\ n < ShortLimit => Len(h) = 1 /\ h[1] = n
      /\ ~(n < ShortLimit) => Len(h) = 2 /\ h[1] = LongHead /\ h[2] = n
  BY <1>1, <1>2, Zenon DEF TextOk
<1>6. PICK i : i = Request!find(m)
  OBVIOUS
<1>7. i = b + 1
  <2>1. DOMAIN m = 1..Len(m) /\ b + 1 \in 1..Len(m)
    BY <1>3, <1>4, LenProperties
  <2>2. b + 1 \in DOMAIN m /\ m[b + 1] = Key /\ \A j \in 1..(b + 1) - 1 : m[j] # Key
    BY <1>3, <1>4, <2>1
  <2>3. i \in DOMAIN m /\ m[i] = Key
    BY <1>6, <2>2 DEF Request!find
  <2>4. QED BY <2>1, <2>3, KeyOnce, Zenon
<1>8. PICK at : at = i + 1
  OBVIOUS
<1>9. at = b + 1 + 1 /\ at \in Nat
  BY <1>7, <1>8
<1>10. m[at] = h[1]
  BY <1>3, <1>4, <1>9
<1>11. PICK last : last = IF m[at] < ShortLimit THEN at + m[at] ELSE at + 1 + m[at + 1]
  OBVIOUS
<1>12. last = end
  <2>1. CASE n < ShortLimit
    BY <1>1, <1>2, <1>3, <1>5, <1>9, <1>10, <1>11, <2>1
  <2>2. CASE ~(n < ShortLimit)
    <3>1. m[b + 1 + 2] = h[2] /\ Len(h) = 2 /\ b + 1 + 2 = at + 1
      <4>1. Len(h) = 2 /\ b + 1 + 2 = at + 1 /\ 2 \in 1..2
        BY <1>5, <1>9, <2>2
      <4>2. m[b + 1 + 2] = h[2]
        BY <1>4, <4>1, Zenon
      <4>3. QED BY <4>1, <4>2, Zenon
    <3>2. last = at + 1 + n
      BY <1>3, <1>5, <1>10, <1>11, <2>2, <3>1
    <3>3. QED BY <1>1, <1>2, <1>3, <1>9, <3>1, <3>2
  <2>3. QED BY <2>1, <2>2
<1>13. Request!window_at(m) = IF last < WindowLen THEN Request!Error ELSE [ok |-> TRUE, at |-> last - WindowLen]
  BY <1>6, <1>8, <1>11, Zenon DEF Request!window_at
<1>14. ~(last < WindowLen)
  <2>1. last < WindowLen => Request!window_at(m) = [ok |-> FALSE]
    BY <1>13 DEF Request!Error
  <2>2. QED BY <2>1
<1>15. Request!window_at(m).at = last - WindowLen
  BY <1>13, <1>14
<1>16. end \in Nat
  BY <1>1, <1>2, <1>3
<1>17. QED BY <1>3, <1>12, <1>14, <1>15, <1>16

\* On a credential that holds the text asked for, the window that window_at of engine/mdoc.rs
\* chooses is accepted by check, whatever bytes come before the key and however long the text is.
LEMMA WindowsAreMatched ==
  ASSUME Request!BytesAssumption, ReqInv
  PROVE  Request!HonestWindowMatches
<1>1. PICK m : m = Request!Message(cred)
  OBVIOUS
<1>2. PICK p : p = Request!pattern(asked)
  OBVIOUS
<1>3. PICK w : w = Request!window_at(m)
  OBVIOUS
<1> SUFFICES ASSUME cred.text = asked, p.ok, w.ok
             PROVE  Request!check(Request!Window(m, w.at), p)
  BY <1>1, <1>2, <1>3, Zenon DEF Request!HonestWindowMatches
<1>4. asked \in Request!Texts /\ cred.before \in Nat
  BY DEF ReqInv, Request!BytesAssumption
<1>5. TextOk(asked)
  BY <1>4, TextFields, Zenon
<1>6. PICK b, h : b = cred.before /\ h = Request!text_head(Len(asked))
  OBVIOUS
<1>7. MessageIs(m, b, h, asked)
  BY <1>1, <1>6, MessageBytes, Zenon DEF ReqInv
<1>8. PatternIs(p.bytes, h, asked) /\ ~(Len(p.bytes) > WindowLen)
  BY <1>2, <1>5, <1>6, PatternFields, Zenon
<1>9. PICK k, l, n : k = Len(h) /\ l = Len(asked) /\ n = Len(p.bytes)
  OBVIOUS
<1>10. /\ k \in Nat /\ l \in Nat /\ WindowLen \in Nat /\ b \in Nat
       /\ n = 1 + k + l /\ n \in Nat /\ n <= WindowLen
  <2>1. k \in Nat /\ l \in Nat /\ WindowLen \in Nat /\ b \in Nat
    BY <1>4, <1>5, <1>6, <1>9 DEF TextOk, Request!BytesAssumption
  <2>2. n = 1 + k + l
    BY <1>8, <1>9, Zenon DEF PatternIs
  <2>3. QED BY <1>8, <1>9, <2>1, <2>2
<1>11. PICK end : end = b + 1 + k + l
  OBVIOUS
<1>12. WindowLen <= end /\ w.at = end - WindowLen
  <2>1. MessageIs(m, b, Request!text_head(Len(asked)), asked) /\ Request!window_at(m).ok /\ b \in Nat
    BY <1>3, <1>6, <1>7, <1>10, Zenon
  <2>2. end = b + 1 + Len(Request!text_head(Len(asked))) + Len(asked)
    BY <1>6, <1>9, <1>11, Zenon
  <2>3. WindowLen <= end /\ Request!window_at(m).at = end - WindowLen
    BY <1>5, <2>1, <2>2, WindowEnds, Zenon
  <2>4. QED BY <1>3, <2>3, Zenon
<1>13. m \in Seq(Bytes) /\ Len(m) = b + 1 + k + l + WindowLen
  BY <1>7, <1>9, Zenon DEF MessageIs
<1>14. PICK at : at = w.at
  OBVIOUS
<1>15. at \in 0..Len(m) - WindowLen /\ at + (WindowLen - n) = b
  BY <1>10, <1>11, <1>12, <1>13, <1>14
<1>16. ASSUME NEW j \in 1..n PROVE m[b + j] = p.bytes[j]
  <2>1. CASE j = 1
    <3>1. m[b + 1] = Key /\ p.bytes[1] = Key
      BY <1>7, <1>8, Zenon DEF MessageIs, PatternIs
    <3>2. QED BY <2>1, <3>1
  <2>2. CASE j > 1 /\ j <= 1 + k
    <3>1. PICK i : i = j - 1
      OBVIOUS
    <3>2. i \in 1..k /\ b + 1 + i = b + j /\ 1 + i = j
      BY <1>10, <2>2, <3>1
    <3>3. m[b + 1 + i] = h[i] /\ p.bytes[1 + i] = h[i]
      BY <1>7, <1>8, <1>9, <3>2, Zenon DEF MessageIs, PatternIs
    <3>4. QED BY <3>2, <3>3
  <2>3. CASE j > 1 + k
    <3>1. PICK i : i = j - (1 + k)
      OBVIOUS
    <3>2. i \in 1..l /\ b + 1 + k + i = b + j /\ 1 + k + i = j
      BY <1>10, <2>3, <3>1
    <3>3. m[b + 1 + k + i] = asked[i] /\ p.bytes[1 + k + i] = asked[i]
      BY <1>7, <1>8, <1>9, <3>2, Zenon DEF MessageIs, PatternIs
    <3>4. QED BY <3>2, <3>3
  <2>4. QED BY <1>10, <2>1, <2>2, <2>3
<1>17. \A j \in 1..n : m[at + (WindowLen - n) + j] = p.bytes[j]
  BY <1>15, <1>16, Zenon
<1>18. Request!check(Request!Window(m, at), p)
  BY <1>9, <1>10, <1>13, <1>15, <1>17, CheckCompares
<1>19. QED BY <1>14, <1>18, Zenon

-----------------------------------------------------------------------------
(* Induction over numbers: a set of them has a least element.              *)

LEMMA Least ==
  ASSUME NEW T \in SUBSET Nat, T # {}
  PROVE  \E m \in T : \A k \in T : m <= k
<1>1. PICK m \in T : \A i \in T : <<i, m>> \notin OpToRel(<, Nat)
  BY NatLessThanWellFounded, WFMin, Zenon
<1>2. ASSUME NEW i \in T, i < m PROVE FALSE
  <2>1. <<i, m>> \in OpToRel(<, Nat)
    BY <1>2 DEF OpToRel
  <2>2. QED BY <1>1, <2>1, Zenon
<1>3. QED BY <1>2

-----------------------------------------------------------------------------
(* SHA-256 of a message of any length.                                     *)

\* The states of n blocks, as a function that is defined by itself.
Chained(f, buffer, n) ==
  [k \in 0..n |-> IF k = 0 THEN Walk!IV ELSE Walk!Compress(f[k - 1], Walk!Block(buffer, k - 1))]

LEMMA ChainExists ==
  ASSUME NEW buffer, NEW n \in Nat
  PROVE  \E f : f = Chained(f, buffer, n)
<1> DEFINE T == {m \in Nat : ~\E f : f = Chained(f, buffer, m)}
<1> SUFFICES ASSUME T # {} PROVE FALSE
  OBVIOUS
<1>1. PICK m \in T : \A k \in T : m <= k
  BY Least
<1>2. m \in Nat /\ ~\E f : f = Chained(f, buffer, m)
  OBVIOUS
<1>3. CASE m = 0
  <2>1. PICK f : f = [k \in 0..m |-> Walk!IV]
    OBVIOUS
  <2>2. f = Chained(f, buffer, m)
    BY <1>3, <2>1 DEF Chained
  <2>3. QED BY <1>2, <2>2, Zenon
<1>4. CASE m # 0
  <2>1. m - 1 \in Nat /\ m - 1 \notin T
    BY <1>1, <1>2, <1>4
  <2>2. PICK f : f = Chained(f, buffer, m - 1)
    BY <2>1
  <2>3. PICK g : g = [k \in 0..m |-> IF k = m THEN Walk!Compress(f[m - 1], Walk!Block(buffer, m - 1)) ELSE f[k]]
    OBVIOUS
  <2>4. ASSUME NEW k \in 0..m PROVE g[k] = Chained(g, buffer, m)[k]
    <3>1. CASE k = m
      <4>1. m - 1 \in 0..m /\ m - 1 # m
        BY <1>2, <1>4
      <4>2. g[m - 1] = f[m - 1]
        BY <2>3, <4>1
      <4>3. g[m] = Walk!Compress(f[m - 1], Walk!Block(buffer, m - 1))
        BY <2>3, <3>1
      <4>4. Chained(g, buffer, m)[k] = Walk!Compress(g[m - 1], Walk!Block(buffer, m - 1))
        BY <1>4, <3>1, Zenon DEF Chained
      <4>5. QED BY <3>1, <4>2, <4>3, <4>4
    <3>2. CASE k # m
      <4>1. k \in 0..m - 1
        BY <1>2, <3>2
      <4>2. g[k] = f[k]
        BY <2>3, <3>2
      <4>3. f[k] = Chained(f, buffer, m - 1)[k]
        BY <2>2, Zenon
      <4>4. CASE k = 0
        <5>1. f[k] = Walk!IV /\ Chained(g, buffer, m)[k] = Walk!IV
          BY <4>1, <4>3, <4>4, Zenon DEF Chained
        <5>2. QED BY <4>2, <5>1, Zenon
      <4>5. CASE k # 0
        <5>1. k - 1 \in 0..m /\ k - 1 # m
          BY <4>1, <4>5
        <5>2. g[k - 1] = f[k - 1]
          BY <2>3, <5>1
        <5>3. f[k] = Walk!Compress(f[k - 1], Walk!Block(buffer, k - 1))
          BY <4>1, <4>3, <4>5, Zenon DEF Chained
        <5>4. Chained(g, buffer, m)[k] = Walk!Compress(g[k - 1], Walk!Block(buffer, k - 1))
          BY <4>5, Zenon DEF Chained
        <5>5. QED BY <4>2, <5>2, <5>3, <5>4, Zenon
      <4>6. QED BY <4>4, <4>5
    <3>3. QED BY <3>1, <3>2
  <2>5. PICK h : h = Chained(g, buffer, m)
    OBVIOUS
  <2>6. h = [k \in 0..m |-> h[k]] /\ g = [k \in 0..m |-> g[k]]
    <3>1. h = [k \in 0..m |-> h[k]]
      BY <2>5 DEF Chained
    <3>2. g = [k \in 0..m |-> g[k]]
      BY <2>3
    <3>3. QED BY <3>1, <3>2
  <2>7. g = h
    BY <2>4, <2>5, <2>6
  <2>8. QED BY <1>2, <2>5, <2>7, Zenon
<1>5. QED BY <1>3, <1>4

LEMMA Chain ==
  ASSUME NEW buffer, NEW n \in Nat, NEW s, s = Walk!BlockStates(buffer, n)
  PROVE  /\ s[0] = Walk!IV
         /\ \A k \in 1..n : s[k] = Walk!Compress(s[k - 1], Walk!Block(buffer, k - 1))
<1>1. s = CHOOSE f : f = Chained(f, buffer, n)
  BY Zenon DEF Walk!BlockStates, Chained
<1>2. s = Chained(s, buffer, n)
  BY <1>1, ChainExists, Zenon
<1>3. s[0] = Walk!IV
  <2>1. 0 \in 0..n
    OBVIOUS
  <2>2. Chained(s, buffer, n)[0] = Walk!IV
    BY <2>1, Zenon DEF Chained
  <2>3. QED BY <1>2, <2>2, Zenon
<1>4. ASSUME NEW k \in 1..n PROVE s[k] = Walk!Compress(s[k - 1], Walk!Block(buffer, k - 1))
  <2>1. k \in 0..n /\ k # 0
    OBVIOUS
  <2>2. Chained(s, buffer, n)[k] = Walk!Compress(s[k - 1], Walk!Block(buffer, k - 1))
    BY <2>1, Zenon DEF Chained
  <2>3. QED BY <1>2, <2>2, Zenon
<1>5. QED BY <1>3, <1>4

\* Buffers that agree in their first n blocks.
SameBlocks(a, b, n) == \A i \in 0..64 * n - 1 : a[i] = b[i]

\* Blocks with the same bytes are compressed to the same states.
LEMMA SameBytesSameState ==
  ASSUME NEW a, NEW b, NEW n \in Nat, NEW m \in Nat, n <= m, SameBlocks(a, b, n),
         NEW k \in 0..n
  PROVE  Walk!BlockStates(a, n)[k] = Walk!BlockStates(b, m)[k]
<1>1. PICK s, t : s = Walk!BlockStates(a, n) /\ t = Walk!BlockStates(b, m)
  OBVIOUS
<1>2. /\ s[0] = Walk!IV
      /\ \A j \in 1..n : s[j] = Walk!Compress(s[j - 1], Walk!Block(a, j - 1))
  BY <1>1, Chain, Zenon
<1>3. /\ t[0] = Walk!IV
      /\ \A j \in 1..m : t[j] = Walk!Compress(t[j - 1], Walk!Block(b, j - 1))
  BY <1>1, Chain, Zenon
<1> DEFINE T == {j \in 0..n : s[j] # t[j]}
<1>4. T = {}
  <2> SUFFICES ASSUME T # {} PROVE FALSE
    OBVIOUS
  <2>1. T \in SUBSET Nat
    OBVIOUS
  <2>2. PICK j \in T : \A i \in T : j <= i
    BY <2>1, Least
  <2>3. j \in 0..n /\ s[j] # t[j]
    OBVIOUS
  <2>4. j # 0
    BY <1>2, <1>3, <2>3
  <2>5. j - 1 \in 0..n /\ j - 1 \notin T /\ j \in 1..n /\ j \in 1..m
    BY <2>2, <2>3, <2>4
  <2>6. s[j - 1] = t[j - 1]
    BY <2>5
  <2>7. Walk!Block(a, j - 1) = Walk!Block(b, j - 1)
    <3>1. ASSUME NEW i \in 0..63 PROVE a[(j - 1) * 64 + i] = b[(j - 1) * 64 + i]
      <4>1. (j - 1) * 64 + i \in 0..64 * n - 1
        BY <2>3, <2>4
      <4>2. QED BY <4>1 DEF SameBlocks
    <3>2. \A i \in 0..64 - 1 : a[(j - 1) * 64 + i] = b[(j - 1) * 64 + i]
      BY <3>1
    <3>3. QED BY <3>2 DEF Walk!Block, Walk!BlockBytes
  <2>8. s[j] = Walk!Compress(s[j - 1], Walk!Block(a, j - 1))
    BY <1>2, <2>5, Zenon
  <2>9. t[j] = Walk!Compress(t[j - 1], Walk!Block(b, j - 1))
    BY <1>3, <2>5, Zenon
  <2>10. QED BY <2>3, <2>6, <2>7, <2>8, <2>9, Zenon
<1>5. QED BY <1>1, <1>4

\* The padding of RFC 6234 ends with the block terminal_block_for_len counts.
LEMMA PaddingEnds ==
  ASSUME NEW n \in Nat
  PROVE  /\ Walk!terminal_block_for_len(n) \in Nat \ {0}
         /\ Walk!ZeroBytes(n) \in 0..63
         /\ 64 * Walk!terminal_block_for_len(n) = n + Walk!ZeroBytes(n) + 9
<1>1. PICK q, r : q = (n + 8) \div 64 /\ r = (n + 8) % 64
  OBVIOUS
<1>2. q \in Nat /\ r \in 0..63 /\ n + 8 = 64 * q + r
  BY <1>1
<1>3. Walk!terminal_block_for_len(n) = q + 1
  <2>1. n * 8 + 1 + 64 + 511 = 512 * (q + 1) + 8 * r
    BY <1>2
  <2>2. 8 * r \in 0..511
    BY <1>2
  <2>3. QED BY <1>2, <2>1, <2>2 DEF Walk!terminal_block_for_len
<1>4. PICK z : z = 63 - r
  OBVIOUS
<1>5. z \in 0..64 - 1 /\ n + 1 + z = 64 * q + 56
  BY <1>2, <1>4
<1>6. (n + 1 + z) % 64 = 64 - 8
  BY <1>2, <1>5
<1>7. Walk!ZeroBytes(n) \in 0..64 - 1 /\ (n + 1 + Walk!ZeroBytes(n)) % 64 = 64 - 8
  BY <1>5, <1>6, Zenon DEF Walk!ZeroBytes, Walk!BlockBytes
<1>8. PICK y : y = Walk!ZeroBytes(n)
  OBVIOUS
<1>9. PICK p : p = (n + 1 + y) \div 64
  OBVIOUS
<1>10. p \in Nat /\ n + 1 + y = 64 * p + 56 /\ y \in 0..63
  BY <1>7, <1>8, <1>9
<1>11. p = q
  BY <1>2, <1>10
<1>12. QED BY <1>2, <1>3, <1>8, <1>10, <1>11

\* The circuit's buffer holds the message padded as RFC 6234 pads it.
LEMMA BuffersAgree ==
  ASSUME NEW n \in Nat, NEW m \in Nat, Walk!terminal_block_for_len(n) <= m, NEW a, NEW b,
         \A i \in 0..n - 1 : a[i] = b[i],
         NEW i \in 0..64 * Walk!terminal_block_for_len(n) - 1
  PROVE  Walk!RfcBuffer(b, n)[i] = Walk!padded_buffer(a, n, m)[i]
<1>1. PICK t, z : t = Walk!terminal_block_for_len(n) /\ z = Walk!ZeroBytes(n)
  OBVIOUS
<1>2. t \in Nat \ {0} /\ z \in 0..63 /\ 64 * t = n + z + 9
  BY <1>1, PaddingEnds
<1>3. i \in 0..64 * t - 1 /\ t <= m
  BY <1>1
<1>4. i \in 0..(n + 1 + z + 7) /\ i \in 0..(m * 64 - 1)
  BY <1>2, <1>3
<1>5. Walk!RfcBuffer(b, n)[i] =
        IF i < n THEN b[i] ELSE IF i = n THEN Walk!MarkerByte
        ELSE IF i <= n + z THEN 0 ELSE Walk!len_byte(n, i - (n + 1 + z))
  BY <1>1, <1>4, Zenon DEF Walk!RfcBuffer
<1>6. Walk!padded_buffer(a, n, m)[i] = IF i < n THEN a[i] ELSE Walk!injected_byte(i, n)
  BY <1>4, Zenon DEF Walk!padded_buffer, Walk!BlockBytes
<1>7. PICK s : s = t * 64 - 8
  OBVIOUS
<1>8. Walk!injected_byte(i, n) =
        IF i = n THEN Walk!MarkerByte
        ELSE IF i \in s..(s + 7) THEN Walk!len_byte(n, i - s) ELSE 0
  BY <1>1, <1>7, Zenon DEF Walk!injected_byte, Walk!BlockBytes
<1>9. s = n + 1 + z
  BY <1>2, <1>7
<1>10. i > n + z <=> i \in s..(s + 7)
  BY <1>2, <1>4, <1>9
<1>11. i < n => a[i] = b[i]
  BY <1>3
<1>12. PICK l : l = Walk!len_byte(n, i - s)
  OBVIOUS
<1>13. l = Walk!len_byte(n, i - (n + 1 + z))
  BY <1>9, <1>12
<1>14. Walk!RfcBuffer(b, n)[i] =
        IF i < n THEN b[i] ELSE IF i = n THEN Walk!MarkerByte
        ELSE IF i <= n + z THEN 0 ELSE l
  BY <1>5, <1>13, Zenon
<1>15. Walk!injected_byte(i, n) =
        IF i = n THEN Walk!MarkerByte ELSE IF i \in s..(s + 7) THEN l ELSE 0
  BY <1>8, <1>12, Zenon
<1>16. i <= n + z <=> ~(i > n + z)
  BY <1>2, <1>4
<1>17. QED BY <1>6, <1>10, <1>11, <1>14, <1>15, <1>16, Zenon

\* Whatever follows the message in the buffer and however many blocks are compressed, the
\* state after the terminal block is the digest of RFC 6234.
LEMMA TerminalState ==
  ASSUME NEW n \in Nat, NEW m \in Nat, Walk!terminal_block_for_len(n) <= m, NEW a, NEW b,
         \A i \in 0..n - 1 : a[i] = b[i]
  PROVE  Walk!BlockStates(Walk!padded_buffer(a, n, m), m)[Walk!terminal_block_for_len(n)] = Walk!Rfc6234(b, n)
<1>1. PICK t : t = Walk!terminal_block_for_len(n)
  OBVIOUS
<1>2. t \in Nat \ {0} /\ Walk!ZeroBytes(n) \in 0..63 /\ 64 * t = n + Walk!ZeroBytes(n) + 9 /\ t <= m
  BY <1>1, PaddingEnds
<1>3. (n + 1 + Walk!ZeroBytes(n) + 8) \div 64 = t
  <2>1. n + 1 + Walk!ZeroBytes(n) + 8 = 64 * t
    BY <1>2
  <2>2. QED BY <1>2, <2>1
<1>4. Walk!Rfc6234(b, n) = Walk!BlockStates(Walk!RfcBuffer(b, n), t)[t]
  <2>1. (n + 1 + Walk!ZeroBytes(n) + 8) \div Walk!BlockBytes = t
    BY <1>3 DEF Walk!BlockBytes
  <2>2. QED BY <2>1, Zenon DEF Walk!Rfc6234
<1>5. \A i \in 0..64 * t - 1 : Walk!RfcBuffer(b, n)[i] = Walk!padded_buffer(a, n, m)[i]
  <2>1. \A i \in 0..64 * Walk!terminal_block_for_len(n) - 1 :
          Walk!RfcBuffer(b, n)[i] = Walk!padded_buffer(a, n, m)[i]
    BY BuffersAgree, SMT
  <2>2. QED BY <1>1, <2>1, SMT
<1>6. t \in 0..t /\ t \in Nat /\ t <= m
  BY <1>2
<1>7. PICK c, d : c = Walk!RfcBuffer(b, n) /\ d = Walk!padded_buffer(a, n, m)
  OBVIOUS
<1>8. SameBlocks(c, d, t)
  BY <1>5, <1>7, Zenon DEF SameBlocks
<1>9. Walk!BlockStates(c, t)[t] = Walk!BlockStates(d, m)[t]
  <2>1. \A k \in 0..t : Walk!BlockStates(c, t)[k] = Walk!BlockStates(d, m)[k]
    BY <1>6, <1>8, SameBytesSameState
  <2>2. QED BY <1>6, <2>1, Zenon
<1>10. QED BY <1>1, <1>4, <1>7, <1>9, Zenon

\* A message within the budget has its terminal block among the compressed ones.
LEMMA TerminalFits ==
  ASSUME NEW n \in Nat, NEW m \in Nat, n + 9 <= m * 64
  PROVE  Walk!terminal_block_for_len(n) <= m
BY PaddingEnds

\* sha256_var of a message of any length within the budget, compressed in any number of blocks
\* that hold it and whatever bytes the caller left behind it, is the digest of RFC 6234.
THEOREM DigestIsRfc6234Always == Spec => []DigestIsRfc6234
<1> DEFINE Inv == part = "walk" => len \in 0..MAX_VAR_MESSAGE_BYTES
<1>1. MAX_VAR_MESSAGE_BYTES \in Nat /\ NUM_BLOCKS \in Nat /\ MAX_VAR_MESSAGE_BYTES + 9 <= NUM_BLOCKS * 64
  BY PartsAssumption DEF Walk!BudgetAssumption, Walk!BlockBytes
<1>2. Init => Inv
  BY <1>1 DEF Init, Walk!Init
<1>3. Inv /\ [Next]_vars => Inv'
  <2>1. ASSUME len \in 0..MAX_VAR_MESSAGE_BYTES, [Walk!Next]_Walk!vars
        PROVE  len' \in 0..MAX_VAR_MESSAGE_BYTES
    BY <1>1, <2>1 DEF Walk!Next, Walk!Append, Walk!vars
  <2>2. QED BY <2>1, WalkPart, Zenon
<1>4. ASSUME Inv, part = "walk" PROVE Walk!DigestIsRfc6234
  <2>1. len \in Nat /\ len + 9 <= NUM_BLOCKS * 64
    BY <1>1, <1>4
  <2>2. Walk!terminal_block_for_len(len) <= NUM_BLOCKS
    BY <1>1, <2>1, TerminalFits
  <2>3. QED BY <1>1, <2>1, <2>2, TerminalState, Zenon DEF Walk!DigestIsRfc6234, Walk!sha256_var_sized
<1>5. Inv => DigestIsRfc6234
  BY <1>4, Zenon DEF DigestIsRfc6234
<1>6. QED BY <1>2, <1>3, <1>5, PTL DEF Spec

-----------------------------------------------------------------------------
(* Sums, and the places of the folded messages among the shared blocks.    *)

\* The sums of the first k numbers of w, as a function that is defined by itself.
Summed(f, w, n) == [k \in 0..n |-> IF k = 0 THEN 0 ELSE f[k - 1] + w[k]]

LEMMA SumsExist ==
  ASSUME NEW n \in Nat, NEW w
  PROVE  \E f : f = Summed(f, w, n)
<1> DEFINE T == {m \in Nat : ~\E f : f = Summed(f, w, m)}
<1> SUFFICES ASSUME T # {} PROVE FALSE
  OBVIOUS
<1>1. PICK m \in T : \A k \in T : m <= k
  BY Least
<1>2. m \in Nat /\ ~\E f : f = Summed(f, w, m)
  OBVIOUS
<1>3. CASE m = 0
  <2>1. PICK f : f = [k \in 0..m |-> 0]
    OBVIOUS
  <2>2. f = Summed(f, w, m)
    BY <1>3, <2>1 DEF Summed
  <2>3. QED BY <1>2, <2>2, Zenon
<1>4. CASE m # 0
  <2>1. m - 1 \in Nat /\ m - 1 \notin T
    BY <1>1, <1>2, <1>4
  <2>2. PICK f : f = Summed(f, w, m - 1)
    BY <2>1
  <2>3. PICK g : g = [k \in 0..m |-> IF k = m THEN f[m - 1] + w[m] ELSE f[k]]
    OBVIOUS
  <2>4. ASSUME NEW k \in 0..m PROVE g[k] = IF k = 0 THEN 0 ELSE g[k - 1] + w[k]
    <3>1. CASE k = m
      BY <1>2, <1>4, <2>3, <3>1
    <3>2. CASE k # m
      <4>1. k \in 0..m - 1 /\ g[k] = f[k] /\ (k # 0 => g[k - 1] = f[k - 1])
        BY <1>2, <2>3, <3>2
      <4>2. f[k] = IF k = 0 THEN 0 ELSE f[k - 1] + w[k]
        BY <2>2, <4>1 DEF Summed
      <4>3. QED BY <4>1, <4>2
    <3>3. QED BY <3>1, <3>2
  <2>5. g = Summed(g, w, m)
    BY <2>3, <2>4 DEF Summed
  <2>6. QED BY <1>2, <2>5, Zenon
<1>5. QED BY <1>3, <1>4

\* What the sums satisfy.
SumsOf(s, w, n) ==
  /\ s \in [0..n -> Nat] /\ s[0] = 0
  /\ \A k \in 1..n : s[k] = s[k - 1] + w[k]

LEMMA Sums ==
  ASSUME NEW n \in Nat, NEW w, \A k \in 1..n : w[k] \in Nat,
         NEW s, s = Summed(s, w, n)
  PROVE  SumsOf(s, w, n)
<1>2. s = [k \in 0..n |-> IF k = 0 THEN 0 ELSE s[k - 1] + w[k]]
  BY Zenon DEF Summed
<1>3. s[0] = 0 /\ \A k \in 1..n : s[k] = s[k - 1] + w[k]
  <2>1. \A k \in 0..n : s[k] = IF k = 0 THEN 0 ELSE s[k - 1] + w[k]
    BY <1>2, Zenon
  <2>2. QED BY <2>1
<1> DEFINE T == {k \in 0..n : s[k] \notin Nat}
<1>4. T = {}
  <2> SUFFICES ASSUME T # {} PROVE FALSE
    OBVIOUS
  <2>1. T \in SUBSET Nat
    OBVIOUS
  <2>2. PICK j \in T : \A i \in T : j <= i
    BY <2>1, Least
  <2>3. j \in 0..n /\ s[j] \notin Nat
    OBVIOUS
  <2>4. j # 0
    BY <1>3, <2>3
  <2>5. j - 1 \in 0..n /\ j - 1 \notin T /\ j \in 1..n
    BY <2>2, <2>3, <2>4
  <2>6. s[j - 1] \in Nat /\ s[j] = s[j - 1] + w[j]
    BY <1>3, <2>5
  <2>7. QED BY <2>3, <2>5, <2>6
<1>5. s \in [0..n -> Nat]
  BY <1>2, <1>4
<1>6. QED BY <1>3, <1>5 DEF SumsOf

LEMMA SumsGrow ==
  ASSUME NEW n \in Nat, NEW w, \A k \in 1..n : w[k] \in Nat, NEW s, SumsOf(s, w, n),
         NEW i \in 0..n, NEW j \in 0..n, i <= j
  PROVE  s[i] <= s[j]
<1>1. s \in [0..n -> Nat] /\ \A k \in 1..n : s[k] = s[k - 1] + w[k]
  BY DEF SumsOf
<1> DEFINE T == {k \in i..n : s[k] < s[i]}
<1>2. T = {}
  <2> SUFFICES ASSUME T # {} PROVE FALSE
    OBVIOUS
  <2>1. T \in SUBSET Nat
    OBVIOUS
  <2>2. PICK k \in T : \A l \in T : k <= l
    BY <2>1, Least
  <2>3. k \in i..n /\ s[k] < s[i] /\ s[i] \in Nat /\ s[k] \in Nat
    BY <1>1
  <2>4. k # i
    BY <2>3
  <2>5. k - 1 \in i..n /\ k - 1 \notin T /\ k \in 1..n /\ k - 1 \in 0..n
    BY <2>2, <2>3, <2>4
  <2>6. s[k] = s[k - 1] + w[k] /\ w[k] \in Nat /\ s[k - 1] \in Nat /\ ~(s[k - 1] < s[i])
    BY <1>1, <2>5
  <2>7. QED BY <2>3, <2>6
<1>3. j \in i..n
  OBVIOUS
<1>4. ~(s[j] < s[i])
  BY <1>2, <1>3
<1>5. QED BY <1>1, <1>4

LEMMA MessageStarts ==
  ASSUME Fold!LayoutAssumption
  PROVE  /\ Len(MessageBlocks) \in Nat /\ DOMAIN MessageBlocks = 1..Len(MessageBlocks)
         /\ \A m \in 1..Len(MessageBlocks) : MessageBlocks[m] \in Nat \ {0}
         /\ SumsOf(Fold!BlocksOfFirst, MessageBlocks, Len(MessageBlocks))
<1>1. MessageBlocks \in Seq(Nat \ {0})
  BY DEF Fold!LayoutAssumption
<1>2. /\ Len(MessageBlocks) \in Nat /\ DOMAIN MessageBlocks = 1..Len(MessageBlocks)
      /\ \A m \in 1..Len(MessageBlocks) : MessageBlocks[m] \in Nat \ {0}
  BY <1>1
<1>3. PICK n, w : n = Len(MessageBlocks) /\ w = MessageBlocks
  OBVIOUS
<1>4. Fold!BlocksOfFirst = Summed(Fold!BlocksOfFirst, w, n)
  <2>1. Fold!BlocksOfFirst = CHOOSE f : f = Summed(f, w, n)
    BY <1>3, Zenon DEF Fold!BlocksOfFirst, Summed
  <2>2. QED BY <1>2, <1>3, <2>1, SumsExist, Zenon
<1>5. n \in Nat /\ \A k \in 1..n : w[k] \in Nat
  BY <1>2, <1>3
<1>6. SumsOf(Fold!BlocksOfFirst, w, n)
  BY <1>4, <1>5, Sums, Zenon
<1>7. QED BY <1>2, <1>3, <1>6, Zenon

\* Block k of message m is at index j of the shared witness.
Placed(m, k, j) ==
  /\ m \in 1..Len(MessageBlocks) /\ k \in 0..MessageBlocks[m] - 1
  /\ j = Fold!message_start(m) + k

LEMMA PlaceIsUnique ==
  ASSUME Fold!LayoutAssumption, NEW j, NEW m, NEW k, Placed(m, k, j), NEW o, NEW l, Placed(o, l, j)
  PROVE  m = o
<1>1. PICK n, s, w : n = Len(MessageBlocks) /\ s = Fold!BlocksOfFirst /\ w = MessageBlocks
  OBVIOUS
<1>2. n \in Nat /\ SumsOf(s, w, n) /\ \A i \in 1..n : w[i] \in Nat
  BY <1>1, MessageStarts
<1>3. s \in [0..n -> Nat] /\ \A i \in 1..n : s[i] = s[i - 1] + w[i]
  BY <1>2 DEF SumsOf
<1>4. /\ m \in 1..n /\ k \in 0..w[m] - 1 /\ j = s[m - 1] + k
      /\ o \in 1..n /\ l \in 0..w[o] - 1 /\ j = s[o - 1] + l
  BY <1>1, Zenon DEF Placed, Fold!message_start
<1>5. ASSUME NEW a \in 1..n, NEW c \in 1..n, a < c,
             NEW u \in 0..w[a] - 1, NEW v \in 0..w[c] - 1, s[a - 1] + u = s[c - 1] + v
      PROVE  FALSE
  <2>1. a \in 0..n /\ c - 1 \in 0..n /\ a <= c - 1 /\ a - 1 \in 0..n
    BY <1>2, <1>5
  <2>2. s[a] <= s[c - 1]
    BY <1>2, <2>1, SumsGrow, Zenon
  <2>3. s[a] = s[a - 1] + w[a] /\ w[a] \in Nat /\ s[a - 1] \in Nat /\ s[c - 1] \in Nat
    BY <1>2, <1>3, <2>1
  <2>4. QED BY <1>5, <2>2, <2>3
<1>6. ~(m < o) /\ ~(o < m)
  <2>1. s[m - 1] + k = s[o - 1] + l /\ s[o - 1] + l = s[m - 1] + k
    BY <1>4, Zenon
  <2>2. QED BY <1>4, <1>5, <2>1, Zenon
<1>7. QED BY <1>2, <1>4, <1>6

\* Where a message's blocks are: among the indices, its own and nobody else's, and the
\* chaining value is reset before the first of them only.
LEMMA Places ==
  ASSUME Fold!LayoutAssumption, NEW j, NEW m, NEW k, Placed(m, k, j)
  PROVE  /\ j \in Fold!Indices /\ j \in Nat
         /\ Fold!MessageOf(j) = m
         /\ Fold!is_first_of_message(j) <=> k = 0
<1>1. PICK n, s, w : n = Len(MessageBlocks) /\ s = Fold!BlocksOfFirst /\ w = MessageBlocks
  OBVIOUS
<1>2. /\ n \in Nat /\ SumsOf(s, w, n) /\ DOMAIN w = 1..n
      /\ \A i \in 1..n : w[i] \in Nat /\ w[i] \in Nat \ {0}
  BY <1>1, MessageStarts
<1>3. s \in [0..n -> Nat] /\ \A i \in 1..n : s[i] = s[i - 1] + w[i]
  BY <1>2 DEF SumsOf
<1>4. m \in 1..n /\ k \in 0..w[m] - 1 /\ j = s[m - 1] + k
  BY <1>1, Zenon DEF Placed, Fold!message_start
<1>5. j \in Nat /\ j \in 0..s[n] - 1
  <2>1. m \in 0..n /\ n \in 0..n /\ m <= n /\ m - 1 \in 0..n
    BY <1>2, <1>4
  <2>2. s[m] <= s[n]
    BY <1>2, <2>1, SumsGrow, Zenon
  <2>3. s[m] = s[m - 1] + w[m] /\ w[m] \in Nat /\ s[m - 1] \in Nat /\ s[n] \in Nat
    BY <1>2, <1>3, <1>4, <2>1
  <2>4. QED BY <1>4, <2>2, <2>3
<1>6. j \in Fold!Indices
  BY <1>1, <1>5, Zenon DEF Fold!Indices, Fold!total_blocks
<1>7. ASSUME NEW o \in Fold!Messages,
             j \in Fold!message_start(o)..(Fold!message_start(o) + MessageBlocks[o] - 1)
      PROVE  o = m
  <2>1. o \in 1..n /\ j \in s[o - 1]..(s[o - 1] + w[o] - 1)
    BY <1>1, <1>2, <1>7, Zenon DEF Fold!Messages, Fold!message_start
  <2>2. PICK l : l = j - s[o - 1]
    OBVIOUS
  <2>3. o - 1 \in 0..n /\ s[o - 1] \in Nat /\ w[o] \in Nat
    BY <1>2, <1>3, <2>1
  <2>4. l \in 0..w[o] - 1 /\ j = s[o - 1] + l
    BY <1>5, <2>1, <2>2, <2>3
  <2>5. Placed(o, l, j)
    BY <1>1, <2>1, <2>4, Zenon DEF Placed, Fold!message_start
  <2>6. QED BY <2>5, PlaceIsUnique, Zenon
<1>8. m \in Fold!Messages /\ j \in Fold!message_start(m)..(Fold!message_start(m) + MessageBlocks[m] - 1)
  <2>1. m - 1 \in 0..n /\ s[m - 1] \in Nat /\ w[m] \in Nat
    BY <1>2, <1>3, <1>4
  <2>2. j \in s[m - 1]..(s[m - 1] + w[m] - 1)
    BY <1>4, <1>5, <2>1
  <2>3. QED BY <1>1, <1>2, <1>4, <2>2, Zenon DEF Fold!Messages, Fold!message_start
<1>9. Fold!MessageOf(j) = m
  BY <1>7, <1>8, Zenon DEF Fold!MessageOf
<1>10. Fold!is_first_of_message(j) <=> k = 0
  <2>1. ASSUME k = 0 PROVE Fold!is_first_of_message(j)
    <3>1. m - 1 \in 0..n /\ s[m - 1] \in Nat
      BY <1>2, <1>3, <1>4
    <3>2. j = s[m - 1]
      BY <1>4, <2>1, <3>1
    <3>3. QED BY <1>1, <1>8, <3>2, Zenon DEF Fold!is_first_of_message, Fold!message_start
  <2>2. ASSUME Fold!is_first_of_message(j) PROVE k = 0
    <3>1. PICK o \in Fold!Messages : j = s[o - 1]
      BY <1>1, <2>2, Zenon DEF Fold!is_first_of_message, Fold!message_start
    <3>2. o \in 1..n
      BY <1>1, <1>2, Zenon DEF Fold!Messages
    <3>3. 0 \in 0..w[o] - 1 /\ j = s[o - 1] + 0
      BY <1>2, <1>5, <3>1, <3>2
    <3>4. Placed(o, 0, j)
      BY <1>1, <3>2, <3>3, Zenon DEF Placed, Fold!message_start
    <3>5. o = m
      BY <3>4, PlaceIsUnique, Zenon
    <3>6. m - 1 \in 0..n /\ s[m - 1] \in Nat
      BY <1>2, <1>3, <1>4
    <3>7. QED BY <1>4, <3>1, <3>5, <3>6
  <2>3. QED BY <2>1, <2>2
<1>11. QED BY <1>5, <1>6, <1>9, <1>10

LEMMA EveryIndexIsPlaced ==
  ASSUME Fold!LayoutAssumption, NEW j \in Fold!Indices
  PROVE  \E m, k : Placed(m, k, j)
<1>1. PICK n, s, w : n = Len(MessageBlocks) /\ s = Fold!BlocksOfFirst /\ w = MessageBlocks
  OBVIOUS
<1>2. n \in Nat /\ SumsOf(s, w, n) /\ \A i \in 1..n : w[i] \in Nat
  BY <1>1, MessageStarts
<1>3. s \in [0..n -> Nat] /\ s[0] = 0 /\ \A i \in 1..n : s[i] = s[i - 1] + w[i]
  BY <1>2 DEF SumsOf
<1>4. j \in 0..s[n] - 1
  BY <1>1, Zenon DEF Fold!Indices, Fold!total_blocks
<1>5. j \in Nat /\ s[n] > j
  BY <1>2, <1>3, <1>4
<1> DEFINE T == {i \in 0..n : s[i] > j}
<1>6. T \in SUBSET Nat /\ T # {}
  BY <1>2, <1>5
<1>7. PICK m \in T : \A i \in T : m <= i
  BY <1>6, Least
<1>8. m \in 0..n /\ s[m] > j
  OBVIOUS
<1>9. m # 0
  BY <1>3, <1>5, <1>8
<1>10. m - 1 \in 0..n /\ m - 1 \notin T /\ m \in 1..n
  BY <1>2, <1>7, <1>8, <1>9
<1>11. ~(s[m - 1] > j) /\ s[m - 1] \in Nat /\ s[m] = s[m - 1] + w[m] /\ w[m] \in Nat
  BY <1>2, <1>3, <1>10
<1>12. PICK k : k = j - s[m - 1]
  OBVIOUS
<1>13. k \in 0..w[m] - 1 /\ j = s[m - 1] + k
  BY <1>5, <1>8, <1>11, <1>12
<1>14. Placed(m, k, j)
  BY <1>1, <1>10, <1>13, Zenon DEF Placed, Fold!message_start
<1>15. QED BY <1>14, Zenon

\* Both modules hash alike.
LEMMA OneSha ==
  /\ \A a, n : Fold!BlockStates(a, n) = Walk!BlockStates(a, n)
  /\ \A a, b : Fold!Block(a, b) = Walk!Block(a, b)
  /\ \A h, b : Fold!Compress(h, b) = Walk!Compress(h, b)
  /\ Fold!IV = Walk!IV
  /\ \A a, n, m : Fold!padded_buffer(a, n, m) = Walk!padded_buffer(a, n, m)
  /\ \A n : Fold!terminal_block_for_len(n) = Walk!terminal_block_for_len(n)
  /\ \A a, n : Fold!Rfc6234(a, n) = Walk!Rfc6234(a, n)
<1>1. \A a, b : Fold!Block(a, b) = Walk!Block(a, b)
  BY Zenon DEF Fold!Block, Walk!Block, Fold!BlockBytes, Walk!BlockBytes
<1>2. \A h, b : Fold!Compress(h, b) = Walk!Compress(h, b)
  BY Zenon DEF Fold!Compress, Walk!Compress
<1>3. Fold!IV = Walk!IV
  BY DEF Fold!IV, Walk!IV
<1>4. \A a, n : Fold!BlockStates(a, n) = Walk!BlockStates(a, n)
  BY Zenon DEF Fold!BlockStates, Walk!BlockStates, Fold!Block, Walk!Block, Fold!BlockBytes, Walk!BlockBytes,
               Fold!Compress, Walk!Compress, Fold!IV, Walk!IV
<1>5. \A n : Fold!terminal_block_for_len(n) = Walk!terminal_block_for_len(n)
  BY Zenon DEF Fold!terminal_block_for_len, Walk!terminal_block_for_len
<1>6. \A a, n, m : Fold!padded_buffer(a, n, m) = Walk!padded_buffer(a, n, m)
  BY SMT DEF Fold!padded_buffer, Walk!padded_buffer, Fold!injected_byte, Walk!injected_byte,
               Fold!len_byte, Walk!len_byte, Fold!BlockBytes, Walk!BlockBytes, Fold!MarkerByte,
               Walk!MarkerByte, Fold!terminal_block_for_len, Walk!terminal_block_for_len
<1>7. \A n : Fold!ZeroBytes(n) = Walk!ZeroBytes(n)
  BY Zenon DEF Fold!ZeroBytes, Walk!ZeroBytes, Fold!BlockBytes, Walk!BlockBytes
<1>8. \A a, n : Fold!RfcBuffer(a, n) = Walk!RfcBuffer(a, n)
  BY Zenon DEF Fold!RfcBuffer, Walk!RfcBuffer, Fold!ZeroBytes, Walk!ZeroBytes, Fold!len_byte, Walk!len_byte,
               Fold!MarkerByte, Walk!MarkerByte, Fold!BlockBytes, Walk!BlockBytes
<1>9. \A a, n : Fold!Rfc6234(a, n) = Walk!Rfc6234(a, n)
  <2> SUFFICES ASSUME NEW a, NEW n PROVE Fold!Rfc6234(a, n) = Walk!Rfc6234(a, n)
    OBVIOUS
  <2>1. PICK z, b : z = Walk!ZeroBytes(n) /\ b = (n + 1 + z + 8) \div 64
    OBVIOUS
  <2>2. Walk!Rfc6234(a, n) = Walk!BlockStates(Walk!RfcBuffer(a, n), b)[b]
    BY <2>1, Zenon DEF Walk!Rfc6234, Walk!BlockBytes
  <2>3. Fold!Rfc6234(a, n) = Fold!BlockStates(Fold!RfcBuffer(a, n), b)[b]
    BY <1>7, <2>1, Zenon DEF Fold!Rfc6234, Fold!BlockBytes
  <2>4. QED BY <1>4, <1>8, <2>2, <2>3, Zenon
<1>10. QED BY <1>1, <1>2, <1>3, <1>4, <1>5, <1>6, <1>9, Zenon

\* The bytes of message m when it has n of them.
Text(m, n) == [i \in 0..(n - 1) |-> Fold!MessageByte(m, i)]

\* A presentation with a length for every message, within its budget.
LensOk(p) ==
  \A m \in 1..Len(MessageBlocks) :
     p.lens[m] \in Nat /\ p.lens[m] + 9 <= MessageBlocks[m] * 64

\* A digest for every message: the one of RFC 6234.
Real(p) ==
  \A m \in Fold!Messages :
     Fold!select_digest(p.hash, m, p.lens[m]) = Fold!Rfc6234(Text(m, p.lens[m]), p.lens[m])

\* When every compression of the shared witness was checked and its blocks are the padded
\* message, the digest at the terminal block is the message's.
LEMMA CheckedIsReal ==
  ASSUME Fold!LayoutAssumption, NEW p, LensOk(p),
         \A j \in Fold!Indices : Fold!StepSatisfied(p.hash, j), Fold!CoreSatisfied(p.hash, p.lens)
  PROVE  Real(p)
<1> SUFFICES ASSUME NEW m \in Fold!Messages
             PROVE  Fold!select_digest(p.hash, m, p.lens[m]) = Fold!Rfc6234(Text(m, p.lens[m]), p.lens[m])
  BY Zenon DEF Real
<1>1. PICK w, n, d : w = MessageBlocks[m] /\ n = p.lens[m] /\ d = p.hash.digests
  OBVIOUS
<1>2. m \in 1..Len(MessageBlocks) /\ w \in Nat \ {0} /\ n \in Nat /\ n + 9 <= w * 64
  <2>1. m \in 1..Len(MessageBlocks)
    BY MessageStarts, Zenon DEF Fold!Messages
  <2>2. QED BY <1>1, <2>1, MessageStarts, Zenon DEF LensOk
<1>3. PICK b : b = Walk!padded_buffer(Text(m, n), n, w)
  OBVIOUS
<1>4. Fold!native_buffer(m, n) = b
  BY <1>1, <1>3, OneSha, Zenon DEF Fold!native_buffer, Text
<1>5. PICK s, f : s = Walk!BlockStates(b, w) /\ f = Fold!message_start(m)
  OBVIOUS
<1>6. s[0] = Walk!IV /\ \A k \in 1..w : s[k] = Walk!Compress(s[k - 1], Walk!Block(b, k - 1))
  <2>1. w \in Nat
    BY <1>2
  <2>2. QED BY <1>5, <2>1, Chain, Zenon
<1>0. f \in Nat
  <2>1. PICK e, q : e = Fold!BlocksOfFirst /\ q = Len(MessageBlocks)
    OBVIOUS
  <2>2. e \in [0..q -> Nat] /\ m - 1 \in 0..q
    BY <1>2, <2>1, MessageStarts DEF SumsOf
  <2>3. QED BY <1>5, <2>1, <2>2, Zenon DEF Fold!message_start
<1>7. ASSUME NEW k \in 1..w
      PROVE  d[f + (k - 1)] = Walk!Compress(IF k = 1 THEN Walk!IV ELSE d[f + (k - 1 - 1)], Walk!Block(b, k - 1))
  <2>1. PICK j, l : l = k - 1 /\ j = f + l
    OBVIOUS
  <2>2. l \in 0..w - 1 /\ (l = 0 <=> k = 1)
    BY <1>2, <2>1
  <2>3. Placed(m, l, j)
    BY <1>1, <1>2, <1>5, <2>1, <2>2, Zenon DEF Placed
  <2>4. j \in Fold!Indices /\ (Fold!is_first_of_message(j) <=> l = 0)
    BY <2>3, Places
  <2>5. d[j] = Walk!Compress(IF l = 0 THEN Walk!IV ELSE d[j - 1], p.hash.blocks[j])
    BY <1>1, <2>4, OneSha, Zenon DEF Fold!StepSatisfied
  <2>6. p.hash.blocks[j] = Walk!Block(b, l)
    <3>1. Fold!bind_message_to_shared(p.hash, m, n)
      BY <1>1, Zenon DEF Fold!CoreSatisfied
    <3>2. QED BY <1>1, <1>4, <1>5, <2>1, <2>2, <3>1, OneSha, Zenon DEF Fold!bind_message_to_shared
  <2>7. d[j] = Walk!Compress(IF k = 1 THEN Walk!IV ELSE d[j - 1], Walk!Block(b, l))
    BY <2>2, <2>5, <2>6, Zenon
  <2>8. j - 1 = f + (k - 1 - 1)
    BY <1>0, <2>1, <2>2
  <2>9. d[j] = Walk!Compress(IF k = 1 THEN Walk!IV ELSE d[f + (k - 1 - 1)], Walk!Block(b, l))
    BY <2>7, <2>8, Zenon
  <2>10. QED BY <2>1, <2>9, Zenon
<1> DEFINE T == {k \in 1..w : d[f + (k - 1)] # s[k]}
<1>8. T = {}
  <2> SUFFICES ASSUME T # {} PROVE FALSE
    OBVIOUS
  <2>1. T \in SUBSET Nat
    OBVIOUS
  <2>2. PICK k \in T : \A i \in T : k <= i
    BY <2>1, Least
  <2>3. k \in 1..w /\ d[f + (k - 1)] # s[k]
    OBVIOUS
  <2>4. s[k] = Walk!Compress(s[k - 1], Walk!Block(b, k - 1))
    BY <1>6, <2>3, Zenon
  <2>5. d[f + (k - 1)] = Walk!Compress(IF k = 1 THEN Walk!IV ELSE d[f + (k - 1 - 1)], Walk!Block(b, k - 1))
    BY <1>7, <2>3, Zenon
  <2>6. CASE k = 1
    <3>1. s[k - 1] = Walk!IV
      BY <1>6, <2>6
    <3>2. QED BY <2>3, <2>4, <2>5, <2>6, <3>1, Zenon
  <2>7. CASE k # 1
    <3>1. k - 1 \in 1..w /\ ~(k <= k - 1)
      BY <1>2, <2>3, <2>7
    <3>2. d[f + (k - 1 - 1)] = s[k - 1]
      BY <2>2, <3>1, Zenon
    <3>3. QED BY <2>3, <2>4, <2>5, <2>7, <3>2, Zenon
  <2>8. QED BY <2>6, <2>7
<1>9. PICK t : t = Walk!terminal_block_for_len(n)
  OBVIOUS
<1>10. t \in 1..w
  <2>1. t \in Nat \ {0} /\ w \in Nat
    BY <1>2, <1>9, PaddingEnds
  <2>2. t <= w
    BY <1>2, <1>9, <2>1, TerminalFits, Zenon
  <2>3. QED BY <2>1, <2>2
<1>11. d[f + (t - 1)] = s[t]
  BY <1>8, <1>10
<1>12. s[t] = Walk!Rfc6234(Text(m, n), n)
  <2>1. t <= w /\ w \in Nat
    BY <1>2, <1>10
  <2>2. QED BY <1>2, <1>3, <1>5, <1>9, <2>1, TerminalState, Zenon
<1>13. Fold!select_digest(p.hash, m, n) = d[f + t - 1]
  BY <1>1, <1>5, <1>9, OneSha, Zenon DEF Fold!select_digest
<1>14. QED BY <1>1, <1>11, <1>12, <1>13, OneSha, Zenon

\* What build makes of the messages, checked as verify_age checks it.
BuiltSteps == [i \in 1..Fold!total_blocks |-> i - 1]

LEMMA TotalBlocks ==
  ASSUME Fold!LayoutAssumption
  PROVE  Fold!total_blocks \in Nat
<1>1. PICK s, n : s = Fold!BlocksOfFirst /\ n = Len(MessageBlocks)
  OBVIOUS
<1>2. n \in Nat /\ s \in [0..n -> Nat]
  BY <1>1, MessageStarts DEF SumsOf
<1>3. s[n] \in Nat
  BY <1>2
<1>4. QED BY <1>1, <1>3, Zenon DEF Fold!total_blocks

LEMMA BuiltVerifies ==
  ASSUME Fold!LayoutAssumption, NEW p, p.hash = Fold!from_witness(p.lens), p.steps = BuiltSteps
  PROVE  Fold!verify_age(p)
<1>1. PICK d, c : d = p.hash.digests /\ c = p.hash.blocks
  OBVIOUS
<1>2. /\ c = [j \in Fold!Indices |->
                Fold!Block(Fold!native_buffer(Fold!MessageOf(j), p.lens[Fold!MessageOf(j)]),
                           j - Fold!message_start(Fold!MessageOf(j)))]
      /\ d = [j \in Fold!Indices |->
                Fold!BlockStates(Fold!native_buffer(Fold!MessageOf(j), p.lens[Fold!MessageOf(j)]),
                                 MessageBlocks[Fold!MessageOf(j)])[j - Fold!message_start(Fold!MessageOf(j)) + 1]]
  BY <1>1 DEF Fold!from_witness
<1>3. ASSUME NEW m, NEW k, NEW j, Placed(m, k, j)
      PROVE  /\ j \in Fold!Indices /\ k \in Nat /\ j \in Nat
             /\ c[j] = Walk!Block(Fold!native_buffer(m, p.lens[m]), k)
             /\ d[j] = Walk!BlockStates(Fold!native_buffer(m, p.lens[m]), MessageBlocks[m])[k + 1]
  <2>1. j \in Fold!Indices /\ j \in Nat /\ Fold!MessageOf(j) = m
    BY <1>3, Places, Zenon
  <2>2. k \in Nat /\ j - Fold!message_start(m) = k /\ j - Fold!message_start(m) + 1 = k + 1
    <3>1. PICK s, n, w, f : s = Fold!BlocksOfFirst /\ n = Len(MessageBlocks) /\ w = MessageBlocks /\ f = s[m - 1]
      OBVIOUS
    <3>2. m \in 1..n /\ k \in 0..w[m] - 1 /\ j = f + k
      BY <1>3, <3>1, Zenon DEF Placed, Fold!message_start
    <3>3. n \in Nat /\ s \in [0..n -> Nat] /\ \A i \in 1..n : w[i] \in Nat
      BY <3>1, MessageStarts DEF SumsOf
    <3>4. f \in Nat /\ w[m] \in Nat
      BY <3>1, <3>2, <3>3
    <3>5. k \in Nat /\ j - f = k /\ j - f + 1 = k + 1
      BY <3>2, <3>4
    <3>6. QED BY <3>1, <3>5, Zenon DEF Fold!message_start
  <2>3. c[j] = Fold!Block(Fold!native_buffer(m, p.lens[m]), k)
    BY <1>2, <2>1, <2>2, Zenon
  <2>4. d[j] = Fold!BlockStates(Fold!native_buffer(m, p.lens[m]), MessageBlocks[m])[k + 1]
    BY <1>2, <2>1, <2>2, Zenon
  <2>5. QED BY <2>1, <2>2, <2>3, <2>4, OneSha, Zenon
<1>4. Fold!check(p.hash)
  <2>1. DOMAIN c = Fold!Indices /\ DOMAIN d = Fold!Indices
    BY <1>2, Zenon
  <2>2. QED BY <1>1, <2>1, Zenon DEF Fold!check
<1>5. ASSUME NEW j \in Fold!Indices PROVE Fold!StepSatisfied(p.hash, j)
  <2>1. PICK m, k : Placed(m, k, j)
    BY EveryIndexIsPlaced
  <2>2. PICK b, w, s : b = Fold!native_buffer(m, p.lens[m]) /\ w = MessageBlocks[m] /\ s = Walk!BlockStates(b, w)
    OBVIOUS
  <2>3. k \in Nat /\ j \in Nat /\ c[j] = Walk!Block(b, k) /\ d[j] = s[k + 1]
    BY <1>3, <2>1, <2>2, Zenon
  <2>4. m \in 1..Len(MessageBlocks) /\ k \in 0..w - 1 /\ w \in Nat /\ j = Fold!message_start(m) + k
    BY <2>1, <2>2, MessageStarts DEF Placed
  <2>5. k + 1 \in 1..w /\ k + 1 - 1 = k
    BY <2>3, <2>4
  <2>6. s[0] = Walk!IV /\ s[k + 1] = Walk!Compress(s[k], Walk!Block(b, k))
    <3>1. s[0] = Walk!IV /\ \A i \in 1..w : s[i] = Walk!Compress(s[i - 1], Walk!Block(b, i - 1))
      BY <2>2, <2>4, Chain, Zenon
    <3>2. PICK i : i = k + 1
      OBVIOUS
    <3>3. i \in 1..w /\ i - 1 = k
      BY <2>5, <2>3, <3>2
    <3>4. s[i] = Walk!Compress(s[k], Walk!Block(b, k))
      BY <3>1, <3>3, Zenon
    <3>5. QED BY <3>1, <3>2, <3>4, Zenon
  <2>7. Fold!is_first_of_message(j) <=> k = 0
    BY <2>1, Places
  <2>8. CASE k = 0
    <3>1. d[j] = Walk!Compress(Walk!IV, c[j])
      BY <2>3, <2>6, <2>8, Zenon
    <3>2. QED BY <1>1, <2>7, <2>8, <3>1, OneSha, Zenon DEF Fold!StepSatisfied
  <2>9. CASE k # 0
    <3>0. PICK f : f = Fold!message_start(m)
      OBVIOUS
    <3>1. PICK i, l : i = j - 1 /\ l = k - 1
      OBVIOUS
    <3>2. f \in Nat
      <4>1. PICK e, q : e = Fold!BlocksOfFirst /\ q = Len(MessageBlocks)
        OBVIOUS
      <4>2. e \in [0..q -> Nat] /\ m - 1 \in 0..q
        BY <2>4, <4>1, MessageStarts DEF SumsOf
      <4>3. QED BY <3>0, <4>1, <4>2, Zenon DEF Fold!message_start
    <3>3. l \in 0..w - 1 /\ i = f + l /\ l + 1 = k
      BY <2>3, <2>4, <2>9, <3>0, <3>1, <3>2
    <3>4. Placed(m, l, i)
      BY <2>2, <2>4, <3>0, <3>3, Zenon DEF Placed
    <3>5. d[i] = s[k]
      BY <1>3, <2>2, <3>3, <3>4, Zenon
    <3>6. d[j] = Walk!Compress(d[j - 1], c[j])
      BY <2>3, <2>6, <3>1, <3>5, Zenon
    <3>7. QED BY <1>1, <2>7, <2>9, <3>6, OneSha, Zenon DEF Fold!StepSatisfied
  <2>10. QED BY <2>8, <2>9
<1>6. Fold!CoreSatisfied(p.hash, p.lens)
  <2> SUFFICES ASSUME NEW m \in Fold!Messages, NEW k \in 0..(MessageBlocks[m] - 1)
               PROVE  c[Fold!message_start(m) + k] = Fold!Block(Fold!native_buffer(m, p.lens[m]), k)
    BY <1>1, Zenon DEF Fold!CoreSatisfied, Fold!bind_message_to_shared
  <2>1. Placed(m, k, Fold!message_start(m) + k)
    BY MessageStarts, Zenon DEF Placed, Fold!Messages
  <2>2. QED BY <1>3, <2>1, OneSha, Zenon
<1>7. DOMAIN p.steps = 1..Fold!total_blocks /\ Len(p.steps) = Fold!total_blocks
      /\ \A i \in DOMAIN p.steps : p.steps[i] = i - 1 /\ p.steps[i] \in Fold!Indices
  <2>1. PICK n, s : n = Fold!total_blocks /\ s = p.steps
    OBVIOUS
  <2>2. s = [i \in 1..n |-> i - 1] /\ n \in Nat
    BY <2>1, TotalBlocks, Zenon DEF BuiltSteps
  <2>3. DOMAIN s = 1..n /\ Len(s) = n
    BY <2>2
  <2>4. \A i \in DOMAIN s : s[i] = i - 1 /\ s[i] \in 0..n - 1
    BY <2>2, <2>3
  <2>5. QED BY <2>1, <2>3, <2>4, Zenon DEF Fold!Indices
<1>8. \A i \in DOMAIN p.steps : Fold!StepSatisfied(p.hash, p.steps[i])
  BY <1>5, <1>7, Zenon
<1>9. QED BY <1>4, <1>6, <1>7, <1>8, Zenon DEF Fold!verify_age, Fold!ProofVerifies

\* A presentation that left build: its lengths are within budget, it has a step instance for
\* every block.
Presented(p) ==
  /\ p = [lens |-> p.lens, hash |-> p.hash, steps |-> p.steps]
  /\ LensOk(p) /\ p.steps \in [1..Fold!total_blocks -> Fold!Indices]

LEMMA AcceptedIsReal ==
  ASSUME Fold!LayoutAssumption, NEW p, Presented(p), Fold!verify_age(p)
  PROVE  Real(p)
<1>1. \A j \in Fold!Indices : Fold!StepSatisfied(p.hash, j)
  <2> SUFFICES ASSUME NEW j \in Fold!Indices PROVE Fold!StepSatisfied(p.hash, j)
    OBVIOUS
  <2>1. PICK n, i : n = Fold!total_blocks /\ i = j + 1
    OBVIOUS
  <2>2. j \in 0..n - 1 /\ n \in Nat
    BY <2>1, TotalBlocks, Zenon DEF Fold!Indices
  <2>3. i \in 1..n /\ i - 1 = j
    BY <2>1, <2>2
  <2>4. i \in DOMAIN p.steps
    BY <2>1, <2>3, Zenon DEF Presented
  <2>5. p.steps[i] = j
    BY <2>3, <2>4, Zenon DEF Fold!verify_age
  <2>6. QED BY <2>4, <2>5, Zenon DEF Fold!verify_age, Fold!ProofVerifies
<1>2. QED BY <1>1, CheckedIsReal, Zenon DEF Fold!verify_age, Fold!ProofVerifies, Presented

\* Before it is built a presentation has its lengths; afterwards it is well-formed, real when
\* accepted, and rejected only when it was altered.
FoldInv ==
  /\ phase \in {"building", "refused"} =>
       proof \in [lens : [Fold!Messages -> Lengths], hash : {Fold!NoHash}, steps : {<<>>}]
  /\ phase \in {"building", "refused", "built", "accepted", "rejected"}
  /\ phase \in {"built", "accepted", "rejected"} => Presented(proof)
  /\ phase = "built" /\ ~altered => Fold!verify_age(proof)
  /\ phase = "accepted" => Real(proof)
  /\ phase = "rejected" => altered = TRUE
  /\ altered \in BOOLEAN

\* A field of the presentation is changed: its lengths stay, and its steps are indices.
LEMMA ChangeKeeps ==
  ASSUME FoldInv, phase = "built", phase' = "built", altered' = TRUE, Presented(proof')
  PROVE  FoldInv'
BY Zenon DEF FoldInv

LEMMA BuildKeeps ==
  ASSUME Fold!LayoutAssumption, FoldInv, Fold!Build
  PROVE  FoldInv'
<1>1. PICK q, h, n : q = proof.lens /\ h = Fold!from_witness(proof.lens) /\ n = Fold!total_blocks
  OBVIOUS
<1>2. phase = "building" /\ phase' = "built" /\ altered' = altered
  BY DEF Fold!Build
<1>3. proof \in [lens : [Fold!Messages -> Lengths], hash : {Fold!NoHash}, steps : {<<>>}]
  BY <1>2 DEF FoldInv
<1>4. q \in [Fold!Messages -> Lengths]
  BY <1>1, <1>3
<1>5. proof' = [lens |-> q, hash |-> h, steps |-> BuiltSteps]
  BY <1>1, <1>3 DEF Fold!Build, BuiltSteps
<1>6. proof'.lens = q /\ proof'.hash = h /\ proof'.steps = BuiltSteps
  BY <1>5
<1>7. LensOk(proof')
  <2> SUFFICES ASSUME NEW m \in 1..Len(MessageBlocks)
               PROVE  q[m] \in Nat /\ q[m] + 9 <= MessageBlocks[m] * 64
    BY <1>6, Zenon DEF LensOk
  <2>1. m \in Fold!Messages /\ MessageBlocks[m] \in Nat
    BY MessageStarts DEF Fold!Messages
  <2>2. q[m] \in Nat
    BY <1>4, <2>1 DEF Fold!LayoutAssumption
  <2>3. Fold!Fits(q[m], MaxBytes[m], MessageBlocks[m])
    BY <1>1, <2>1, Zenon DEF Fold!Build
  <2>4. MaxBytes[m] \in Nat
    BY <2>1 DEF Fold!LayoutAssumption, Fold!Messages
  <2>5. QED BY <2>1, <2>2, <2>3, <2>4 DEF Fold!Fits, Fold!BlockBytes
<1>8. BuiltSteps \in [1..n -> Fold!Indices]
  <2>1. n \in Nat
    BY <1>1, TotalBlocks
  <2>2. [i \in 1..n |-> i - 1] \in [1..n -> 0..n - 1]
    BY <2>1
  <2>3. QED BY <1>1, <2>2, Zenon DEF BuiltSteps, Fold!Indices
<1>9. Presented(proof')
  BY <1>1, <1>5, <1>6, <1>7, <1>8, Zenon DEF Presented
<1>10. Fold!verify_age(proof')
  <2>1. PICK p : p = proof'
    OBVIOUS
  <2>2. p.hash = Fold!from_witness(p.lens) /\ p.steps = BuiltSteps
    BY <1>1, <1>6, <2>1, Zenon
  <2>3. QED BY <2>1, <2>2, BuiltVerifies, Zenon
<1>11. QED BY <1>2, <1>9, <1>10 DEF FoldInv

LEMMA FoldSteps ==
  ASSUME Fold!LayoutAssumption
  PROVE  (Fold!Init => FoldInv) /\ (FoldInv /\ [Fold!Next]_Fold!vars => FoldInv')
<1>1. Fold!Init => FoldInv
  BY DEF Fold!Init, FoldInv
<1>2. ASSUME FoldInv, [Fold!Next]_Fold!vars PROVE FoldInv'
  <2>1. CASE UNCHANGED Fold!vars
    <3>1. phase' = phase /\ proof' = proof /\ altered' = altered
      BY <2>1 DEF Fold!vars
    <3>2. QED BY <1>2, <3>1, Zenon DEF FoldInv
  <2>2. CASE Fold!Build
    BY <1>2, <2>2, BuildKeeps
  <2>3. CASE Fold!Refuse
    <3>1. phase = "building" /\ phase' = "refused" /\ proof' = proof /\ altered' = altered
      BY <2>3 DEF Fold!Refuse
    <3>2. QED BY <1>2, <3>1 DEF FoldInv
  <2>4. CASE Fold!Truncate
    <3>1. phase = "built" /\ phase' = "built" /\ altered' = TRUE
      BY <2>4 DEF Fold!Truncate
    <3>2. Presented(proof)
      BY <1>2, <3>1 DEF FoldInv
    <3>3. PICK e : e = [j \in Fold!Indices \ {Fold!total_blocks - 1} |-> proof.hash.digests[j]]
      OBVIOUS
    <3>4. proof' = [proof EXCEPT !.hash.digests = e]
      BY <2>4, <3>3, Zenon DEF Fold!Truncate
    <3>5. Presented(proof')
      BY <3>2, <3>4 DEF Presented, LensOk
    <3>6. QED BY <1>2, <3>1, <3>5, ChangeKeeps
  <2>5. CASE Fold!Verify
    <3>1. phase = "built" /\ proof' = proof /\ altered' = altered
          /\ phase' = IF Fold!verify_age(proof) THEN "accepted" ELSE "rejected"
      BY <2>5 DEF Fold!Verify
    <3>2. Presented(proof)
      BY <1>2, <3>1 DEF FoldInv
    <3>3. Fold!verify_age(proof) => Real(proof)
      BY <3>2, AcceptedIsReal, Zenon
    <3>4. ~Fold!verify_age(proof) => altered = TRUE
      BY <1>2, <3>1 DEF FoldInv
    <3>5. CASE Fold!verify_age(proof)
      <4>1. phase' = "accepted" /\ Real(proof') /\ Presented(proof') /\ altered' \in BOOLEAN
        BY <1>2, <3>1, <3>2, <3>3, <3>5 DEF FoldInv
      <4>2. QED BY <4>1 DEF FoldInv
    <3>6. CASE ~Fold!verify_age(proof)
      <4>1. phase' = "rejected" /\ altered' = TRUE /\ Presented(proof')
        BY <3>1, <3>2, <3>4, <3>6
      <4>2. QED BY <4>1 DEF FoldInv
    <3>7. QED BY <3>5, <3>6
  <2>6. ASSUME NEW j \in Fold!Indices, NEW d, Fold!SetDigest(j, d) PROVE FoldInv'
    <3>1. phase = "built" /\ phase' = "built" /\ altered' = TRUE /\ proof' = [proof EXCEPT !.hash.digests[j] = d]
      BY <2>6 DEF Fold!SetDigest
    <3>2. Presented(proof)
      BY <1>2, <3>1 DEF FoldInv
    <3>3. Presented(proof')
      BY <3>1, <3>2 DEF Presented, LensOk
    <3>4. QED BY <1>2, <3>1, <3>3, ChangeKeeps
  <2>7. ASSUME NEW j \in Fold!Indices, NEW k \in Fold!Indices, Fold!SetBlock(j, k) PROVE FoldInv'
    <3>1. phase = "built" /\ phase' = "built" /\ altered' = TRUE
          /\ proof' = [proof EXCEPT !.hash.blocks[j] = proof.hash.blocks[k]]
      BY <2>7 DEF Fold!SetBlock
    <3>2. Presented(proof)
      BY <1>2, <3>1 DEF FoldInv
    <3>3. Presented(proof')
      BY <3>1, <3>2 DEF Presented, LensOk
    <3>4. QED BY <1>2, <3>1, <3>3, ChangeKeeps
  <2>8. ASSUME NEW i \in 1..Fold!total_blocks, NEW j \in Fold!Indices, Fold!SetStep(i, j) PROVE FoldInv'
    <3>1. phase = "built" /\ phase' = "built" /\ altered' = TRUE /\ proof' = [proof EXCEPT !.steps[i] = j]
      BY <2>8 DEF Fold!SetStep
    <3>2. Presented(proof)
      BY <1>2, <3>1 DEF FoldInv
    <3>3. Presented(proof')
      BY <3>1, <3>2 DEF Presented, LensOk
    <3>4. QED BY <1>2, <3>1, <3>3, ChangeKeeps
  <2>9. QED BY <1>2, <2>1, <2>2, <2>3, <2>4, <2>5, <2>6, <2>7, <2>8, Zenon DEF Fold!Next
<1>3. QED BY <1>1, <1>2

LEMMA FoldInvariance == Spec => [](part = "fold" => FoldInv)
<1>1. (Fold!Init => FoldInv) /\ (FoldInv /\ [Fold!Next]_Fold!vars => FoldInv')
  BY PartsAssumption, FoldSteps, Zenon
<1>2. Init => (part = "fold" => FoldInv)
  BY <1>1, Zenon DEF Init
<1>3. (part = "fold" => FoldInv) /\ [Next]_vars => (part = "fold" => FoldInv)'
  BY <1>1, FoldPart, Zenon
<1>4. QED BY <1>2, <1>3, PTL DEF Spec

\* Messages of any number and any lengths: whatever was done to the shared witness and to the
\* step instances, what verify_age accepts selects the digest of RFC 6234 for every message.
THEOREM SelectedDigestIsRealAlways == Spec => []SelectedDigestIsReal
<1>1. FoldInv => Fold!SelectedDigestIsReal
  BY Zenon DEF FoldInv, Fold!SelectedDigestIsReal, Real, Text
<1>2. (part = "fold" => FoldInv) => SelectedDigestIsReal
  BY <1>1, Zenon DEF SelectedDigestIsReal
<1>3. QED BY <1>2, FoldInvariance, PTL

-----------------------------------------------------------------------------
(* Stored shapes.                                                          *)

LEMMA Pads ==
  ASSUME Shapes!WidthAssumption, NEW n \in Nat
  PROVE  Shapes!Padded(n) \in Nat /\ n <= Shapes!Padded(n)
<1>1. PICK w, q : w = Width /\ q = (n + Width - 1) \div Width
  OBVIOUS
<1>2. w \in Nat \ {0}
  BY <1>1 DEF Shapes!WidthAssumption
<1>3. PICK x : x = n + w - 1
  OBVIOUS
<1>4. x \in Nat /\ q = x \div w
  BY <1>1, <1>2, <1>3
<1>5. q \in Nat /\ x = w * q + (x % w) /\ x % w \in 0..w - 1
  BY <1>2, <1>4
<1>6. PICK p, m : p = w * q /\ m = x % w
  OBVIOUS
<1>7. p \in Nat
  BY <1>2, <1>5, <1>6
<1>8. n <= p
  BY <1>2, <1>3, <1>5, <1>6, <1>7
<1>9. Shapes!Padded(n) = p
  BY <1>1, <1>6, Zenon DEF Shapes!Padded
<1>10. QED BY <1>7, <1>8, <1>9

\* The states of a concatenation, as a function that is defined by itself.
Flattened(f, rows, n) == [i \in 1..n |-> IF i = 1 THEN rows[i] ELSE f[i - 1] \o rows[i]]

LEMMA FlattenExists ==
  ASSUME NEW n \in Nat, NEW rows
  PROVE  \E f : f = Flattened(f, rows, n)
<1> DEFINE T == {m \in Nat : ~\E f : f = Flattened(f, rows, m)}
<1> SUFFICES ASSUME T # {} PROVE FALSE
  OBVIOUS
<1>1. PICK m \in T : \A k \in T : m <= k
  BY Least
<1>2. m \in Nat /\ ~\E f : f = Flattened(f, rows, m)
  OBVIOUS
<1>3. CASE m = 0
  <2>1. PICK f : f = [k \in 1..m |-> 0]
    OBVIOUS
  <2>2. 1..m = {}
    BY <1>3
  <2>3. f = Flattened(f, rows, m)
    BY <2>1, <2>2 DEF Flattened
  <2>4. QED BY <1>2, <2>3, Zenon
<1>4. CASE m # 0
  <2>1. m - 1 \in Nat /\ m - 1 \notin T
    BY <1>1, <1>2, <1>4
  <2>2. PICK f : f = Flattened(f, rows, m - 1)
    BY <2>1
  <2>3. PICK g : g = [k \in 1..m |-> IF k # m THEN f[k] ELSE IF m = 1 THEN rows[m] ELSE f[m - 1] \o rows[m]]
    OBVIOUS
  <2>4. ASSUME NEW k \in 1..m PROVE g[k] = IF k = 1 THEN rows[k] ELSE g[k - 1] \o rows[k]
    <3>1. CASE k = m
      <4>1. g[k] = IF m = 1 THEN rows[m] ELSE f[m - 1] \o rows[m]
        BY <2>3, <3>1
      <4>2. m # 1 => g[m - 1] = f[m - 1]
        BY <1>2, <1>4, <2>3
      <4>3. QED BY <3>1, <4>1, <4>2
    <3>2. CASE k # m
      <4>1. k \in 1..m - 1 /\ g[k] = f[k] /\ (k # 1 => g[k - 1] = f[k - 1])
        BY <1>2, <2>3, <3>2
      <4>2. f[k] = IF k = 1 THEN rows[k] ELSE f[k - 1] \o rows[k]
        BY <2>2, <4>1 DEF Flattened
      <4>3. QED BY <4>1, <4>2
    <3>3. QED BY <3>1, <3>2
  <2>5. g = Flattened(g, rows, m)
    BY <2>3, <2>4 DEF Flattened
  <2>6. QED BY <1>2, <2>5, Zenon
<1>5. QED BY <1>3, <1>4

\* The first i rows lie in u one after the other, the r-th behind e[r - 1] entries.
LaidOut(u, rows, e, i) ==
  \A r \in 1..i : \A k \in 1..Len(rows[r]) : u[e[r - 1] + k] = rows[r][k]

\* Row r ends at entry e[r].
EndsOf(e, rows, n) ==
  /\ e \in [0..n -> Nat] /\ e[0] = 0
  /\ \A r \in 1..n : e[r] = e[r - 1] + Len(rows[r])
  /\ \A r, q \in 0..n : r <= q => e[r] <= e[q]

LEMMA Behind ==
  ASSUME NEW a \in Nat, NEW l \in Nat, NEW k \in 1..l
  PROVE  a + k \in 1..a + l /\ ~(a + k <= a) /\ (a + k) - a = k
OBVIOUS

LEMMA Ahead ==
  ASSUME NEW a \in Nat, NEW l \in Nat, NEW k \in 1..l, NEW x \in Nat, NEW y \in Nat, a + l <= x
  PROVE  a + k \in 1..x + y /\ a + k <= x
OBVIOUS

\* v is u followed by t.
Appended(S, v, u, t) ==
  /\ v \in Seq(S) /\ Len(v) = Len(u) + Len(t)
  /\ \A k \in 1..Len(u) + Len(t) : v[k] = IF k <= Len(u) THEN u[k] ELSE t[k - Len(u)]

LEMMA Laid ==
  ASSUME NEW S, NEW u \in Seq(S), NEW t \in Seq(S)
  PROVE  Appended(S, u \o t, u, t)
BY ConcatProperties, Zenon DEF Appended

LEMMA LayOneMore ==
  ASSUME NEW S, NEW n \in Nat, NEW rows \in [1..n -> Seq(S)], NEW e \in [0..n -> Nat],
         \A r \in 1..n : e[r] = e[r - 1] + Len(rows[r]),
         \A r, q \in 0..n : r <= q => e[r] <= e[q],
         NEW i \in 1..n, NEW u \in Seq(S), Len(u) = e[i - 1], LaidOut(u, rows, e, i - 1)
  PROVE  /\ u \o rows[i] \in Seq(S) /\ Len(u \o rows[i]) = e[i]
         /\ LaidOut(u \o rows[i], rows, e, i)
<1>1. PICK v, t : v = u \o rows[i] /\ t = rows[i]
  OBVIOUS
<1>2. t \in Seq(S) /\ Len(t) \in Nat /\ Len(u) \in Nat
  BY <1>1
<1>3. /\ v \in Seq(S) /\ Len(v) = Len(u) + Len(t)
      /\ \A k \in 1..Len(u) + Len(t) : v[k] = IF k <= Len(u) THEN u[k] ELSE t[k - Len(u)]
  <2>1. Appended(S, u \o t, u, t)
    BY <1>2, Laid
  <2>2. QED BY <1>1, <2>1 DEF Appended
<1>4. Len(v) = e[i]
  BY <1>1, <1>3
<1>5. ASSUME NEW r \in 1..i, NEW k \in 1..Len(rows[r]) PROVE v[e[r - 1] + k] = rows[r][k]
  <2>1. PICK j : j = e[r - 1] + k
    OBVIOUS
  <2>2. r \in 1..n /\ r - 1 \in 0..n /\ r \in 0..n /\ i - 1 \in 0..n /\ rows[r] \in Seq(S)
    OBVIOUS
  <2>3. Len(rows[r]) \in Nat /\ e[r - 1] \in Nat /\ e[r] \in Nat /\ e[r] = e[r - 1] + Len(rows[r])
    BY <2>2
  <2>4. k \in 1..Len(rows[r])
    OBVIOUS
  <2>5. CASE r = i
    <3>0. e[r - 1] = Len(u) /\ rows[r] = t
      BY <1>1, <2>5
    <3>1. j \in 1..Len(u) + Len(t) /\ ~(j <= Len(u)) /\ j - Len(u) = k
      <4>1. PICK a, l : a = Len(u) /\ l = Len(t)
        OBVIOUS
      <4>2. a \in Nat /\ l \in Nat /\ k \in 1..l /\ j = a + k
        BY <1>2, <2>1, <2>4, <3>0, <4>1, Zenon
      <4>3. j \in 1..a + l /\ ~(j <= a) /\ j - a = k
        BY <4>2, Behind, Zenon
      <4>4. QED BY <4>1, <4>3, Zenon
    <3>2. v[j] = t[k]
      BY <1>3, <3>1, Zenon
    <3>3. QED BY <1>1, <2>1, <2>5, <3>2
  <2>6. CASE r # i
    <3>1. r \in 1..i - 1 /\ r <= i - 1
      BY <2>6
    <3>2. e[r] <= Len(u)
      BY <2>2, <3>1, Zenon
    <3>3. j \in 1..Len(u) + Len(t) /\ j <= Len(u)
      <4>1. PICK a, l, x, y : a = e[r - 1] /\ l = Len(rows[r]) /\ x = Len(u) /\ y = Len(t)
        OBVIOUS
      <4>2. a \in Nat /\ l \in Nat /\ x \in Nat /\ y \in Nat /\ k \in 1..l /\ j = a + k /\ a + l <= x
        BY <1>2, <2>1, <2>3, <2>4, <3>2, <4>1, Zenon
      <4>3. j \in 1..x + y /\ j <= x
        BY <4>2, Ahead, Zenon
      <4>4. QED BY <4>1, <4>3, Zenon
    <3>4. v[j] = u[j]
      BY <1>3, <3>3, Zenon
    <3>5. u[j] = rows[r][k]
      BY <2>1, <3>1, Zenon DEF LaidOut
    <3>6. QED BY <2>1, <3>4, <3>5, Zenon
  <2>7. QED BY <2>5, <2>6
<1>6. LaidOut(v, rows, e, i)
  BY <1>5, Zenon DEF LaidOut
<1>7. QED BY <1>1, <1>3, <1>4, <1>6, Zenon

LEMMA Flatten ==
  ASSUME NEW S, NEW n \in Nat, NEW rows \in [1..n -> Seq(S)], NEW e, EndsOf(e, rows, n),
         NEW u, u = Shapes!FlattenSeq(rows)
  PROVE  u \in Seq(S) /\ Len(u) = e[n] /\ LaidOut(u, rows, e, n)
<1>0. /\ e \in [0..n -> Nat] /\ e[0] = 0
      /\ \A r \in 1..n : e[r] = e[r - 1] + Len(rows[r])
      /\ \A r, q \in 0..n : r <= q => e[r] <= e[q]
  BY DEF EndsOf
<1>1. Len(rows) = n
  OBVIOUS
<1>2. CASE n = 0
  <2>1. u = rows
    BY <1>1, <1>2 DEF Shapes!FlattenSeq
  <2>2. rows = <<>>
    BY <1>2
  <2>3. u \in Seq(S) /\ Len(u) = 0
    BY <2>1, <2>2
  <2>4. LaidOut(u, rows, e, n)
    <3>1. 1..n = {}
      BY <1>2
    <3>2. QED BY <3>1, Zenon DEF LaidOut
  <2>5. QED BY <1>0, <1>2, <2>3, <2>4
<1>3. CASE n # 0
  <2>1. PICK f : f = CHOOSE g : g = Flattened(g, rows, n)
    OBVIOUS
  <2>2. u = f[n]
    BY <1>1, <1>3, <2>1, Zenon DEF Shapes!FlattenSeq, Flattened
  <2>3. f = Flattened(f, rows, n)
    BY <2>1, FlattenExists, Zenon
  <2>4. \A i \in 1..n : f[i] = IF i = 1 THEN rows[i] ELSE f[i - 1] \o rows[i]
    <3>1. f = [i \in 1..n |-> IF i = 1 THEN rows[i] ELSE f[i - 1] \o rows[i]]
      BY <2>3, Zenon DEF Flattened
    <3>2. QED BY <3>1, Zenon
  <2> DEFINE Good(i) == f[i] \in Seq(S) /\ Len(f[i]) = e[i] /\ LaidOut(f[i], rows, e, i)
             T == {i \in 1..n : ~Good(i)}
  <2>5. T = {}
    <3> SUFFICES ASSUME T # {} PROVE FALSE
      OBVIOUS
    <3>1. T \in SUBSET Nat
      OBVIOUS
    <3>2. PICK i \in T : \A j \in T : i <= j
      BY <3>1, Least
    <3>3. i \in 1..n /\ ~Good(i)
      OBVIOUS
    <3>4. CASE i = 1
      <4>1. f[1] = rows[1] /\ 1 \in 1..n
        BY <2>4, <3>3, <3>4
      <4>2. rows[1] \in Seq(S) /\ Len(rows[1]) \in Nat /\ e[1] = Len(rows[1]) /\ e[1 - 1] = 0
        <5>1. e[1] = e[1 - 1] + Len(rows[1]) /\ 1 - 1 = 0
          BY <1>0, <4>1
        <5>2. rows[1] \in Seq(S) /\ Len(rows[1]) \in Nat
          BY <4>1
        <5>3. QED BY <1>0, <5>1, <5>2
      <4>3. LaidOut(f[1], rows, e, 1)
        <5>1. ASSUME NEW r \in 1..1, NEW k \in 1..Len(rows[r]) PROVE f[1][e[r - 1] + k] = rows[r][k]
          <6>1. r = 1
            OBVIOUS
          <6>2. k \in Nat /\ e[r - 1] + k = k
            BY <4>2, <6>1
          <6>3. QED BY <4>1, <6>1, <6>2, Zenon
        <5>2. QED BY <5>1, Zenon DEF LaidOut
      <4>4. QED BY <3>3, <3>4, <4>1, <4>2, <4>3
    <3>5. CASE i # 1
      <4>1. i - 1 \in 1..n /\ ~(i <= i - 1)
        BY <3>3, <3>5
      <4>2. Good(i - 1)
        BY <3>2, <4>1
      <4>3. PICK v : v = f[i - 1]
        OBVIOUS
      <4>4. v \in Seq(S) /\ Len(v) = e[i - 1] /\ LaidOut(v, rows, e, i - 1)
        BY <4>2, <4>3, Zenon
      <4>5. /\ v \o rows[i] \in Seq(S) /\ Len(v \o rows[i]) = e[i]
            /\ LaidOut(v \o rows[i], rows, e, i)
        BY <1>0, <3>3, <4>4, LayOneMore, Zenon
      <4>6. f[i] = v \o rows[i]
        BY <2>4, <3>3, <3>5, <4>3, Zenon
      <4>7. QED BY <3>3, <4>5, <4>6, Zenon
    <3>6. QED BY <3>4, <3>5
  <2>6. n \in 1..n
    BY <1>3
  <2>7. Good(n)
    BY <2>5, <2>6
  <2>8. QED BY <2>2, <2>7, Zenon
<1>4. QED BY <1>2, <1>3

\* The sizes of a stored shape are the circuit's, padded and not.
SizesOf(s, c) ==
  /\ s.num_cons = Shapes!Padded(Len(c.rows)) /\ s.num_cons_unpadded = Len(c.rows)
  /\ s.num_shared = Shapes!Padded(c.shared) /\ s.num_shared_unpadded = c.shared
  /\ s.num_precommitted = Shapes!Padded(c.precommitted) /\ s.num_precommitted_unpadded = c.precommitted
  /\ s.num_rest = Shapes!Padded(c.rest) /\ s.num_rest_unpadded = c.rest
  /\ s.num_public = c.public /\ s.num_challenges = 0
  /\ s.cols = Shapes!Values(s) + 1 + c.public

\* A circuit as CircuitAssumption has them.
IsCircuit(c) ==
  /\ c = [shared |-> c.shared, precommitted |-> c.precommitted, rest |-> c.rest,
          public |-> c.public, rows |-> c.rows]
  /\ c.shared \in Nat /\ c.precommitted \in Nat /\ c.rest \in Nat /\ c.public \in Nat
  /\ c.rows \in Seq(Seq(Shapes!Variables(c)))

\* A variable's padded column is among the columns, and is read back as the variable.
LEMMA ColumnIsRead ==
  ASSUME Shapes!WidthAssumption, NEW c, IsCircuit(c), NEW s, SizesOf(s, c), NEW v \in Shapes!Variables(c)
  PROVE  Shapes!Column(c, v) \in 0..s.cols - 1 /\ Shapes!variable(s, Shapes!Column(c, v)) = v
<1>1. PICK a, b, d, p : a = c.shared /\ b = c.precommitted /\ d = c.rest /\ p = c.public
  OBVIOUS
<1>2. PICK x, y, z : x = Shapes!Padded(c.shared) /\ y = Shapes!Padded(c.precommitted) /\ z = Shapes!Padded(c.rest)
  OBVIOUS
<1>3. a \in Nat /\ b \in Nat /\ d \in Nat /\ p \in Nat
  BY <1>1 DEF IsCircuit
<1>4. x \in Nat /\ y \in Nat /\ z \in Nat /\ a <= x /\ b <= y /\ d <= z
  BY <1>1, <1>2, <1>3, Pads
<1>5. /\ s.num_shared = x /\ s.num_precommitted = y /\ s.num_rest = z
      /\ s.num_shared_unpadded = a /\ s.num_precommitted_unpadded = b
      /\ Shapes!Values(s) = x + y + z /\ s.cols = x + y + z + 1 + p
  <2>1. /\ s.num_shared = x /\ s.num_precommitted = y /\ s.num_rest = z
        /\ s.num_shared_unpadded = a /\ s.num_precommitted_unpadded = b
        /\ s.cols = Shapes!Values(s) + 1 + p
    BY <1>1, <1>2, Zenon DEF SizesOf
  <2>2. Shapes!Values(s) = x + y + z
    BY <2>1, Zenon DEF Shapes!Values
  <2>3. QED BY <2>1, <2>2, Zenon
<1>6. ASSUME NEW i \in Nat,
             \/ v = <<"aux", i>> /\ i < a + b + d
             \/ v = <<"input", i>> /\ i <= p
      PROVE  Shapes!Column(c, v) \in 0..s.cols - 1 /\ Shapes!variable(s, Shapes!Column(c, v)) = v
  <2>1. PICK k : k = Shapes!Column(c, v)
    OBVIOUS
  <2> SUFFICES k \in 0..s.cols - 1 /\ Shapes!variable(s, k) = v
    BY <2>1, Zenon
  <2>2. Shapes!variable(s, k) =
          IF k < x THEN <<"aux", k>>
          ELSE IF k < x + y THEN <<"aux", a + k - x>>
          ELSE IF k < x + y + z THEN <<"aux", a + b + k - (x + y)>>
          ELSE <<"input", k - (x + y + z)>>
    BY <1>5 DEF Shapes!variable, Shapes!Aux, Shapes!Input
  <2>3. k = IF v[1] = "input" THEN x + y + z + v[2]
            ELSE IF v[2] < a THEN v[2]
            ELSE IF v[2] < a + b THEN x + v[2] - a
            ELSE x + y + v[2] - a - b
    BY <1>1, <1>2, <2>1 DEF Shapes!Column
  <2>4. CASE v = <<"aux", i>> /\ i < a + b + d
    <3>1. v[1] = "aux" /\ v[2] = i
      BY <2>4
    <3>2. k = IF i < a THEN i ELSE IF i < a + b THEN x + i - a ELSE x + y + i - a - b
      BY <2>3, <3>1
    <3>3. k \in 0..s.cols - 1
      BY <1>3, <1>4, <1>5, <2>4, <3>2
    <3>4. CASE i < a
      <4>1. k < x /\ k = i
        BY <1>3, <1>4, <3>2, <3>4
      <4>2. QED BY <2>2, <2>4, <3>3, <4>1, Zenon
    <3>5. CASE ~(i < a) /\ i < a + b
      <4>1. ~(k < x) /\ k < x + y /\ a + k - x = i
        BY <1>3, <1>4, <3>2, <3>5
      <4>2. QED BY <2>2, <2>4, <3>3, <4>1, Zenon
    <3>6. CASE ~(i < a) /\ ~(i < a + b)
      <4>1. ~(k < x) /\ ~(k < x + y) /\ k < x + y + z /\ a + b + k - (x + y) = i
        BY <1>3, <1>4, <2>4, <3>2, <3>6
      <4>2. QED BY <2>2, <2>4, <3>3, <4>1, Zenon
    <3>7. QED BY <3>4, <3>5, <3>6
  <2>5. CASE v = <<"input", i>> /\ i <= p
    <3>1. v[1] = "input" /\ v[2] = i
      BY <2>5
    <3>2. k = x + y + z + i
      BY <2>3, <3>1
    <3>3. k \in 0..s.cols - 1
      BY <1>3, <1>4, <1>5, <2>5, <3>2
    <3>4. ~(k < x) /\ ~(k < x + y) /\ ~(k < x + y + z) /\ k - (x + y + z) = i
      BY <1>3, <1>4, <3>2
    <3>5. QED BY <2>2, <2>5, <3>3, <3>4, Zenon
  <2>6. QED BY <1>6, <2>4, <2>5
<1>7. \E i \in Nat : \/ v = <<"aux", i>> /\ i < a + b + d
                     \/ v = <<"input", i>> /\ i <= p
  <2>1. CASE v \in {Shapes!Aux(i) : i \in 0..c.shared + c.precommitted + c.rest - 1}
    <3>1. PICK i \in 0..c.shared + c.precommitted + c.rest - 1 : v = <<"aux", i>>
      BY <2>1 DEF Shapes!Aux
    <3>2. i \in Nat /\ i < a + b + d
      BY <1>1, <1>3, <3>1
    <3>3. QED BY <3>1, <3>2
  <2>2. CASE v \in {Shapes!Input(i) : i \in 0..c.public}
    <3>1. PICK i \in 0..c.public : v = <<"input", i>>
      BY <2>2 DEF Shapes!Input
    <3>2. i \in Nat /\ i <= p
      BY <1>1, <1>3, <3>1
    <3>3. QED BY <3>1, <3>2
  <2>3. QED BY <2>1, <2>2, Zenon DEF Shapes!Variables
<1>8. QED BY <1>6, <1>7, Zenon

PointersOf(e, n) == [r \in 1..n + 1 |-> e[r - 1]]

\* The entries of a stored shape: its rows one after the other, their ends in the pointers.
EntriesOf(s, c, e) ==
  /\ EndsOf(e, Shapes!Columns(c), s.num_cons)
  /\ s.indptr = PointersOf(e, s.num_cons)
  /\ s.entries = e[s.num_cons] /\ Len(s.indices) = s.entries
  /\ s.indices \in Seq(0..s.cols - 1)
  /\ LaidOut(s.indices, Shapes!Columns(c), e, s.num_cons)

LEMMA StoredSizes ==
  ASSUME NEW c, NEW s, s = Shapes!Stored(c), NEW rows, rows = Shapes!Columns(c),
         NEW n, n = Shapes!Padded(Len(c.rows)), Len(rows) = n
  PROVE  /\ SizesOf(s, c)
         /\ s.indices = Shapes!FlattenSeq(rows)
         /\ s.entries = Shapes!RowEnds(rows)[n]
         /\ s.indptr = PointersOf(Shapes!RowEnds(rows), n)
<1>1. PICK e : e = Shapes!RowEnds(rows)
  OBVIOUS
<1>2. PICK x, y, z, p, u : x = Shapes!Padded(c.shared) /\ y = Shapes!Padded(c.precommitted)
          /\ z = Shapes!Padded(c.rest) /\ p = PointersOf(e, Len(rows))
          /\ u = Shapes!FlattenSeq(rows)
  OBVIOUS
<1>3. /\ s.num_cons = Len(rows) /\ s.num_cons_unpadded = Len(c.rows)
      /\ s.num_shared = x /\ s.num_shared_unpadded = c.shared
      /\ s.num_precommitted = y /\ s.num_precommitted_unpadded = c.precommitted
      /\ s.num_rest = z /\ s.num_rest_unpadded = c.rest
      /\ s.num_public = c.public /\ s.num_challenges = 0 /\ s.cols = x + y + z + 1 + c.public
      /\ s.entries = e[Len(rows)] /\ s.indices = u /\ s.indptr = p
  BY <1>1, <1>2 DEF Shapes!Stored, PointersOf
<1>4. Shapes!Values(s) = x + y + z
  BY <1>3, Zenon DEF Shapes!Values
<1>5. SizesOf(s, c)
  BY <1>2, <1>3, <1>4, Zenon DEF SizesOf
<1>6. p = PointersOf(e, n)
  BY <1>2, Zenon
<1>7. s.entries = e[n] /\ s.indices = Shapes!FlattenSeq(rows) /\ s.indptr = PointersOf(e, n)
  BY <1>2, <1>3, <1>6, Zenon
<1>8. QED BY <1>1, <1>5, <1>7, Zenon

LEMMA StoredEntries ==
  ASSUME Shapes!WidthAssumption, NEW c, IsCircuit(c), NEW s, s = Shapes!Stored(c)
  PROVE  SizesOf(s, c) /\ \E e : EntriesOf(s, c, e)
<1>1. PICK n, rows, l : n = Shapes!Padded(Len(c.rows)) /\ rows = Shapes!Columns(c) /\ l = Len(c.rows)
  OBVIOUS
<1>2. l \in Nat /\ \A r \in 1..l : c.rows[r] \in Seq(Shapes!Variables(c))
  BY <1>1 DEF IsCircuit
<1>3. n \in Nat /\ l <= n
  BY <1>1, <1>2, Pads
<1>4. rows = [r \in 1..n |-> IF r <= l THEN [k \in DOMAIN c.rows[r] |-> Shapes!Column(c, c.rows[r][k])] ELSE <<>>]
  BY <1>1, Zenon DEF Shapes!Columns
<1>5. Len(rows) = n
  BY <1>3, <1>4
<1>6. PICK e : e = Shapes!RowEnds(rows)
  OBVIOUS
<1>7. /\ SizesOf(s, c) /\ s.indices = Shapes!FlattenSeq(rows) /\ s.num_cons = n
      /\ s.entries = e[n] /\ s.indptr = PointersOf(e, n)
  <2>1. /\ SizesOf(s, c) /\ s.indices = Shapes!FlattenSeq(rows)
        /\ s.entries = e[n] /\ s.indptr = PointersOf(e, n)
    BY <1>1, <1>5, <1>6, StoredSizes
  <2>2. s.num_cons = n
    BY <1>1, <2>1, Zenon DEF SizesOf
  <2>3. QED BY <2>1, <2>2, Zenon
<1>8. PICK S : S = 0..s.cols - 1
  OBVIOUS
<1>9. ASSUME NEW r \in 1..n PROVE rows[r] \in Seq(S)
  <2>1. CASE r <= l
    <3>1. PICK t : t = c.rows[r]
      OBVIOUS
    <3>2. t \in Seq(Shapes!Variables(c)) /\ Len(t) \in Nat /\ DOMAIN t = 1..Len(t)
      BY <1>2, <2>1, <3>1
    <3>3. \A k \in 1..Len(t) : t[k] \in Shapes!Variables(c)
      BY <3>2
    <3>4. \A k \in 1..Len(t) : Shapes!Column(c, t[k]) \in S
      BY <1>7, <1>8, <3>3, ColumnIsRead, Zenon
    <3>5. rows[r] = [k \in 1..Len(t) |-> Shapes!Column(c, t[k])]
      BY <1>4, <2>1, <3>1, <3>2
    <3>6. QED BY <3>2, <3>4, <3>5
  <2>2. CASE ~(r <= l)
    <3>1. rows[r] = <<>>
      BY <1>4, <2>2
    <3>2. QED BY <3>1
  <2>3. QED BY <2>1, <2>2
<1>10. rows \in [1..n -> Seq(S)]
  BY <1>4, <1>9
<1>11. PICK w : w = [r \in 1..n |-> Len(rows[r])]
  OBVIOUS
<1>12. \A r \in 1..n : w[r] = Len(rows[r]) /\ w[r] \in Nat
  BY <1>10, <1>11
<1>13. e = Summed(e, w, n)
  <2>1. ASSUME NEW f
        PROVE  [r \in 0..n |-> IF r = 0 THEN 0 ELSE f[r - 1] + Len(rows[r])] = Summed(f, w, n)
    <3>1. ASSUME NEW r \in 0..n
          PROVE  (IF r = 0 THEN 0 ELSE f[r - 1] + Len(rows[r])) = IF r = 0 THEN 0 ELSE f[r - 1] + w[r]
      <4>1. r # 0 => r \in 1..n
        BY <1>3
      <4>2. QED BY <1>12, <4>1
    <3>2. QED BY <3>1 DEF Summed
  <2>2. PICK f : f = Summed(f, w, n)
    BY <1>3, SumsExist, Zenon
  <2>3. f = [r \in 0..n |-> IF r = 0 THEN 0 ELSE f[r - 1] + Len(rows[r])]
    BY <2>1, <2>2, Zenon
  <2>4. e = [r \in 0..n |-> IF r = 0 THEN 0 ELSE e[r - 1] + Len(rows[r])]
    BY <1>5, <1>6, <2>3, Zenon DEF Shapes!RowEnds
  <2>5. QED BY <2>1, <2>4, Zenon
<1>14. SumsOf(e, w, n)
  BY <1>3, <1>12, <1>13, Sums, Zenon
<1>15. e \in [0..n -> Nat] /\ e[0] = 0 /\ \A r \in 1..n : e[r] = e[r - 1] + Len(rows[r])
  BY <1>12, <1>14, Zenon DEF SumsOf
<1>16. \A r, q \in 0..n : r <= q => e[r] <= e[q]
  BY <1>3, <1>12, <1>14, SumsGrow, Zenon
<1>17. PICK u : u = s.indices
  OBVIOUS
<1>18. u \in Seq(S) /\ Len(u) = e[n] /\ LaidOut(u, rows, e, n)
  <2>1. u = Shapes!FlattenSeq(rows)
    BY <1>7, <1>17, Zenon
  <2>2. EndsOf(e, rows, n)
    BY <1>15, <1>16, Zenon DEF EndsOf
  <2>3. QED BY <1>3, <1>10, <2>1, <2>2, Flatten
<1>19. EntriesOf(s, c, e)
  BY <1>1, <1>7, <1>8, <1>15, <1>16, <1>17, <1>18, Zenon DEF EntriesOf, EndsOf
<1>20. QED BY <1>7, <1>19, Zenon

\* A row of the stored shape, read through its pointers, is the row of the circuit.
LEMMA RowIsRead ==
  ASSUME Shapes!WidthAssumption, NEW c, IsCircuit(c), NEW s, SizesOf(s, c),
         NEW e, EntriesOf(s, c, e), NEW r \in 1..Len(c.rows)
  PROVE  Shapes!row(s, r) = c.rows[r]
<1>1. PICK n, rows, l, t : n = s.num_cons /\ rows = Shapes!Columns(c) /\ l = Len(c.rows) /\ t = c.rows[r]
  OBVIOUS
<1>2. l \in Nat /\ t \in Seq(Shapes!Variables(c)) /\ r \in 1..l
  BY <1>1 DEF IsCircuit
<1>3. n \in Nat /\ l <= n /\ n = Shapes!Padded(l)
  <2>1. n = Shapes!Padded(l)
    BY <1>1, Zenon DEF SizesOf
  <2>2. QED BY <1>2, <2>1, Pads
<1>4. PICK m : m = Len(t)
  OBVIOUS
<1>5. m \in Nat /\ DOMAIN t = 1..m /\ t = [k \in 1..m |-> t[k]] /\ \A k \in 1..m : t[k] \in Shapes!Variables(c)
  BY <1>2, <1>4
<1>6. r \in 1..n /\ r <= l /\ r \in 1..n + 1 /\ r + 1 \in 1..n + 1 /\ (r + 1) - 1 = r /\ r - 1 \in 0..n /\ r \in 0..n
  BY <1>2, <1>3
<1>7. rows[r] = [k \in 1..m |-> Shapes!Column(c, t[k])]
  <2>1. rows = [q \in 1..n |-> IF q <= l THEN [k \in DOMAIN c.rows[q] |-> Shapes!Column(c, c.rows[q][k])] ELSE <<>>]
    BY <1>1, <1>3, Zenon DEF Shapes!Columns
  <2>2. rows[r] = [k \in DOMAIN t |-> Shapes!Column(c, t[k])]
    BY <1>1, <1>6, <2>1, Zenon
  <2>3. QED BY <1>5, <2>2, Zenon
<1>8. Len(rows[r]) = m
  BY <1>5, <1>7
<1>9. e \in [0..n -> Nat] /\ e[r] = e[r - 1] + m
  BY <1>1, <1>6, <1>8, Zenon DEF EntriesOf, EndsOf
<1>10. s.indptr[r] = e[r - 1] /\ s.indptr[r + 1] = e[r]
  <2>1. s.indptr = PointersOf(e, n)
    BY <1>1, Zenon DEF EntriesOf
  <2>2. PointersOf(e, n)[r] = e[r - 1] /\ PointersOf(e, n)[r + 1] = e[(r + 1) - 1]
    BY <1>6, Zenon DEF PointersOf
  <2>3. QED BY <1>6, <2>1, <2>2, Zenon
<1>11. s.indptr[r + 1] - s.indptr[r] = m
  <2>1. PICK a, b : a = e[r - 1] /\ b = e[r]
    OBVIOUS
  <2>2. a \in Nat /\ b = a + m
    BY <1>6, <1>9, <2>1
  <2>3. b - a = m
    BY <1>5, <2>2
  <2>4. QED BY <1>10, <2>1, <2>3, Zenon
<1>12. ASSUME NEW k \in 1..m PROVE Shapes!variable(s, s.indices[s.indptr[r] + k]) = t[k]
  <2>1. s.indices[e[r - 1] + k] = rows[r][k]
    BY <1>1, <1>6, <1>8, Zenon DEF EntriesOf, LaidOut
  <2>2. rows[r][k] = Shapes!Column(c, t[k])
    BY <1>7, Zenon
  <2>3. Shapes!variable(s, Shapes!Column(c, t[k])) = t[k]
    BY <1>5, ColumnIsRead, Zenon
  <2>4. QED BY <1>10, <2>1, <2>2, <2>3, Zenon
<1>13. Shapes!row(s, r) = [k \in 1..m |-> Shapes!variable(s, s.indices[s.indptr[r] + k])]
  BY <1>11, Zenon DEF Shapes!row
<1>14. QED BY <1>1, <1>5, <1>12, <1>13

\* What setup synthesizes from the stored shape of a circuit is the circuit.
LEMMA ReplayIsTheCircuit ==
  ASSUME Shapes!WidthAssumption, NEW c, IsCircuit(c)
  PROVE  Shapes!ShapeReplay(Shapes!Stored(c)) = c
<1>1. PICK s : s = Shapes!Stored(c)
  OBVIOUS
<1>2. SizesOf(s, c) /\ \E e : EntriesOf(s, c, e)
  BY <1>1, StoredEntries
<1>3. PICK e : EntriesOf(s, c, e)
  BY <1>2
<1>4. \A r \in 1..Len(c.rows) : Shapes!row(s, r) = c.rows[r]
  BY <1>2, <1>3, RowIsRead, Zenon
<1>5. c.rows = [r \in 1..Len(c.rows) |-> c.rows[r]]
  BY DEF IsCircuit
<1>6. PICK q : q = [r \in 1..s.num_cons_unpadded |-> Shapes!row(s, r)]
  OBVIOUS
<1>7. q = c.rows
  <2>1. s.num_cons_unpadded = Len(c.rows)
    BY <1>2, Zenon DEF SizesOf
  <2>2. q = [r \in 1..Len(c.rows) |-> Shapes!row(s, r)]
    BY <1>6, <2>1, Zenon
  <2>3. QED BY <1>4, <1>5, <2>2
<1>8. s.num_challenges + s.num_public = c.public
  BY <1>2 DEF SizesOf, IsCircuit
<1>9. Shapes!ShapeReplay(s) =
        [shared |-> c.shared, precommitted |-> c.precommitted, rest |-> c.rest,
         public |-> c.public, rows |-> c.rows]
  <2>1. s.num_shared_unpadded = c.shared /\ s.num_precommitted_unpadded = c.precommitted
        /\ s.num_rest_unpadded = c.rest
    BY <1>2, Zenon DEF SizesOf
  <2>2. QED BY <1>6, <1>7, <1>8, <2>1, Zenon DEF Shapes!ShapeReplay
<1>10. QED BY <1>1, <1>9, Zenon DEF IsCircuit

LEMMA StoredValidates ==
  ASSUME Shapes!WidthAssumption, NEW c, IsCircuit(c)
  PROVE  Shapes!validate(Shapes!Stored(c))
<1>1. PICK s : s = Shapes!Stored(c)
  OBVIOUS
<1>2. SizesOf(s, c) /\ \E e : EntriesOf(s, c, e)
  BY <1>1, StoredEntries
<1>3. PICK e : EntriesOf(s, c, e)
  BY <1>2
<1>4. Len(c.rows) \in Nat /\ c.shared \in Nat /\ c.precommitted \in Nat /\ c.rest \in Nat /\ c.public \in Nat
  BY DEF IsCircuit
<1>5. /\ s.num_cons_unpadded <= s.num_cons /\ s.num_shared_unpadded <= s.num_shared
      /\ s.num_precommitted_unpadded <= s.num_precommitted /\ s.num_rest_unpadded <= s.num_rest
      /\ s.num_cons \in Nat /\ s.num_shared \in Nat /\ s.num_precommitted \in Nat /\ s.num_rest \in Nat
  BY <1>2, <1>4, Pads DEF SizesOf
<1>6. PICK n, v, q : n = s.num_cons /\ v = Shapes!Values(s) + 1 + s.num_challenges + s.num_public /\ q = s.cols
  OBVIOUS
<1>7. q = v /\ q \in Nat
  <2>1. PICK y : y = Shapes!Values(s)
    OBVIOUS
  <2>2. y \in Nat
    BY <1>5, <2>1 DEF Shapes!Values
  <2>3. q = y + 1 + c.public /\ s.num_challenges = 0 /\ s.num_public = c.public
    BY <1>2, <1>6, <2>1, Zenon DEF SizesOf
  <2>4. v = y + 1 + 0 + c.public
    BY <1>6, <2>1, <2>3, Zenon
  <2>5. QED BY <1>4, <2>2, <2>3, <2>4
<1>8. PICK p : p = s.indptr
  OBVIOUS
<1>9. n \in Nat /\ p = [r \in 1..n + 1 |-> e[r - 1]]
  BY <1>3, <1>5, <1>6, <1>8, Zenon DEF EntriesOf, PointersOf
<1>10. Len(p) = n + 1 /\ 1 \in 1..n + 1 /\ n + 1 \in 1..n + 1
  BY <1>9
<1>11. e[0] = 0 /\ s.entries = e[n] /\ \A r, i \in 0..n : r <= i => e[r] <= e[i]
  BY <1>3, <1>6, Zenon DEF EntriesOf, EndsOf
<1>12. p[1] = 0 /\ p[Len(p)] = s.entries
  BY <1>9, <1>10, <1>11
<1>13. ASSUME NEW r \in 1..Len(p) - 1 PROVE p[r] <= p[r + 1]
  <2>1. r \in 1..n + 1 /\ r + 1 \in 1..n + 1 /\ r - 1 \in 0..n /\ r \in 0..n /\ r - 1 <= r /\ (r + 1) - 1 = r
    BY <1>9, <1>10
  <2>2. p[r] = e[r - 1] /\ p[r + 1] = e[(r + 1) - 1]
    BY <1>9, <2>1, Zenon
  <2>3. QED BY <1>11, <2>1, <2>2, Zenon
<1>14. PICK u : u = s.indices
  OBVIOUS
<1>15. u \in Seq(0..q - 1) /\ Len(u) = s.entries
  BY <1>3, <1>6, <1>14, Zenon DEF EntriesOf
<1>16. \A k \in DOMAIN u : u[k] < q
  BY <1>7, <1>15
<1>17. Shapes!validate_matrix(s, v)
  <2>1. \A r \in 1..Len(s.indptr) - 1 : s.indptr[r] <= s.indptr[r + 1]
    BY <1>8, <1>13, Zenon
  <2>2. \A k \in DOMAIN s.indices : s.indices[k] < v
    BY <1>7, <1>14, <1>16, Zenon
  <2>3. s.indptr[1] = 0 /\ s.indptr[Len(s.indptr)] = s.entries /\ Len(s.indptr) = s.num_cons + 1
    BY <1>6, <1>8, <1>10, <1>12, Zenon
  <2>4. s.cols = v /\ Len(s.indices) = s.entries
    BY <1>6, <1>7, <1>14, <1>15, Zenon
  <2>5. QED BY <2>1, <2>2, <2>3, <2>4, Zenon DEF Shapes!validate_matrix
<1>18. QED BY <1>1, <1>5, <1>6, <1>17, Zenon DEF Shapes!validate

\* An artifact, as written or damaged: numbers in every field.
Artifact ==
  [num_cons : Nat, num_cons_unpadded : Nat, num_shared : Nat, num_shared_unpadded : Nat,
   num_precommitted : Nat, num_precommitted_unpadded : Nat, num_rest : Nat, num_rest_unpadded : Nat,
   num_public : Nat, num_challenges : Nat, cols : Nat, entries : Nat,
   indices : Seq(Nat), indptr : Seq(Nat)]

LEMMA StoredIsArtifact ==
  ASSUME Shapes!WidthAssumption, NEW c, IsCircuit(c)
  PROVE  Shapes!Stored(c) \in Artifact
<1>1. PICK s : s = Shapes!Stored(c)
  OBVIOUS
<1>2. SizesOf(s, c) /\ \E e : EntriesOf(s, c, e)
  BY <1>1, StoredEntries
<1>3. PICK e : EntriesOf(s, c, e)
  BY <1>2
<1>4. Len(c.rows) \in Nat /\ c.shared \in Nat /\ c.precommitted \in Nat /\ c.rest \in Nat /\ c.public \in Nat
  BY DEF IsCircuit
<1>5. /\ s.num_cons \in Nat /\ s.num_cons_unpadded \in Nat
      /\ s.num_shared \in Nat /\ s.num_shared_unpadded \in Nat
      /\ s.num_precommitted \in Nat /\ s.num_precommitted_unpadded \in Nat
      /\ s.num_rest \in Nat /\ s.num_rest_unpadded \in Nat
      /\ s.num_public \in Nat /\ s.num_challenges \in Nat
  <2>1. /\ Shapes!Padded(Len(c.rows)) \in Nat /\ Shapes!Padded(c.shared) \in Nat
        /\ Shapes!Padded(c.precommitted) \in Nat /\ Shapes!Padded(c.rest) \in Nat /\ 0 \in Nat
    BY <1>4, Pads
  <2>2. QED BY <1>2, <1>4, <2>1, Zenon DEF SizesOf
<1>6. s.cols \in Nat
  <2>1. Shapes!Values(s) \in Nat
    BY <1>5 DEF Shapes!Values
  <2>2. QED BY <1>2, <1>4, <2>1 DEF SizesOf
<1>7. PICK n, p : n = s.num_cons /\ p = s.indptr
  OBVIOUS
<1>8. n \in Nat /\ e \in [0..n -> Nat] /\ p = [r \in 1..n + 1 |-> e[r - 1]] /\ s.entries = e[n]
  BY <1>3, <1>5, <1>7, Zenon DEF EntriesOf, EndsOf, PointersOf
<1>9. p \in Seq(Nat) /\ s.entries \in Nat
  <2>1. \A r \in 1..n + 1 : e[r - 1] \in Nat
    BY <1>8
  <2>2. QED BY <1>8, <2>1
<1>10. s.indices \in Seq(Nat)
  <2>1. PICK u, q : u = s.indices /\ q = s.cols
    OBVIOUS
  <2>2. u \in Seq(0..q - 1)
    BY <1>3, <2>1, Zenon DEF EntriesOf
  <2>3. Len(u) \in Nat /\ u = [k \in 1..Len(u) |-> u[k]] /\ \A k \in 1..Len(u) : u[k] \in Nat
    BY <1>6, <2>1, <2>2
  <2>4. QED BY <2>1, <2>3
<1>11. s = [num_cons |-> s.num_cons, num_cons_unpadded |-> s.num_cons_unpadded,
            num_shared |-> s.num_shared, num_shared_unpadded |-> s.num_shared_unpadded,
            num_precommitted |-> s.num_precommitted, num_precommitted_unpadded |-> s.num_precommitted_unpadded,
            num_rest |-> s.num_rest, num_rest_unpadded |-> s.num_rest_unpadded,
            num_public |-> s.num_public, num_challenges |-> s.num_challenges,
            cols |-> s.cols, entries |-> s.entries, indices |-> s.indices, indptr |-> s.indptr]
  BY <1>1 DEF Shapes!Stored
<1>12. QED BY <1>1, <1>5, <1>6, <1>7, <1>9, <1>10, <1>11 DEF Artifact

\* Pointers that never decrease stay below the last of them.
LEMMA LastIsGreatest ==
  ASSUME NEW p \in Seq(Nat), \A r \in 1..Len(p) - 1 : p[r] <= p[r + 1], NEW r \in 1..Len(p)
  PROVE  p[r] <= p[Len(p)]
<1>1. PICK n : n = Len(p)
  OBVIOUS
<1>2. n \in Nat /\ p \in [1..n -> Nat] /\ r \in 1..n /\ \A k \in 1..n - 1 : p[k] <= p[k + 1]
  BY <1>1
<1> DEFINE T == {k \in r..n : p[k] < p[r]}
<1>3. T = {}
  <2> SUFFICES ASSUME T # {} PROVE FALSE
    OBVIOUS
  <2>1. T \in SUBSET Nat
    BY <1>2
  <2>2. PICK k \in T : \A l \in T : k <= l
    BY <2>1, Least
  <2>3. k \in r..n /\ p[k] < p[r]
    OBVIOUS
  <2>4. k # r
    BY <1>2, <2>3
  <2>5. k - 1 \in r..n /\ ~(k <= k - 1) /\ k - 1 \in 1..n - 1 /\ (k - 1) + 1 = k /\ k \in 1..n /\ k - 1 \in 1..n
    BY <1>2, <2>3, <2>4
  <2>6. ~(p[k - 1] < p[r])
    BY <2>2, <2>5
  <2>7. p[k - 1] <= p[k]
    BY <1>2, <2>5
  <2>8. p[k - 1] \in Nat /\ p[k] \in Nat /\ p[r] \in Nat
    BY <1>2, <2>5
  <2>9. QED BY <2>3, <2>6, <2>7, <2>8
<1>4. n \in r..n /\ n \in 1..n
  BY <1>2
<1>5. ~(p[n] < p[r])
  BY <1>3, <1>4
<1>6. p[n] \in Nat /\ p[r] \in Nat
  BY <1>2, <1>4
<1>7. QED BY <1>1, <1>5, <1>6

LEMMA ValidatedIsRead ==
  ASSUME bytes \in Artifact
  PROVE  Shapes!ValidatedIsReadable
<1>1. PICK s, p, u, n : s = bytes /\ p = bytes.indptr /\ u = bytes.indices /\ n = bytes.num_cons
  OBVIOUS
<1> SUFFICES ASSUME Shapes!validate(s), NEW r \in 1..s.num_cons_unpadded
             PROVE  /\ r + 1 \in DOMAIN p
                    /\ \A k \in p[r] + 1 .. p[r + 1] : k \in DOMAIN u /\ u[k] < s.cols
  BY <1>1, Zenon DEF Shapes!ValidatedIsReadable, Shapes!RowEntries
<1>2. p \in Seq(Nat) /\ u \in Seq(Nat) /\ n \in Nat /\ s.num_cons_unpadded \in Nat
  BY <1>1 DEF Artifact
<1>3. PICK v : v = Shapes!Values(s) + 1 + s.num_challenges + s.num_public
  OBVIOUS
<1>4. /\ s.num_cons_unpadded <= n
      /\ s.cols = v /\ Len(u) = s.entries /\ Len(p) = n + 1 /\ p[Len(p)] = s.entries
      /\ \A i \in 1..Len(p) - 1 : p[i] <= p[i + 1]
      /\ \A k \in DOMAIN u : u[k] < v
  BY <1>1, <1>3, Zenon DEF Shapes!validate, Shapes!validate_matrix
<1>5. r \in 1..Len(p) /\ r + 1 \in 1..Len(p)
  BY <1>2, <1>4
<1>6. p[r + 1] <= Len(u) /\ p[r] \in Nat /\ p[r + 1] \in Nat /\ Len(u) \in Nat /\ DOMAIN u = 1..Len(u)
      /\ DOMAIN p = 1..Len(p)
  <2>1. p[r + 1] <= p[Len(p)]
    BY <1>2, <1>4, <1>5, LastIsGreatest, Zenon
  <2>2. p[r + 1] <= Len(u)
    BY <1>4, <2>1, Zenon
  <2>3. DOMAIN u = 1..Len(u) /\ DOMAIN p = 1..Len(p) /\ Len(u) \in Nat
    BY <1>2, LenProperties, Zenon
  <2>4. p[r] \in Nat /\ p[r + 1] \in Nat
    BY <1>2, <1>5, ElementOfSeq
  <2>5. QED BY <2>2, <2>3, <2>4
<1>7. ASSUME NEW k \in p[r] + 1 .. p[r + 1] PROVE k \in DOMAIN u /\ u[k] < s.cols
  <2>1. PICK a, b, l : a = p[r] /\ b = p[r + 1] /\ l = Len(u)
    OBVIOUS
  <2>2. a \in Nat /\ b \in Nat /\ l \in Nat /\ b <= l /\ k \in a + 1 .. b
    BY <1>6, <2>1, Zenon
  <2>3. k \in 1..l
    BY <2>2
  <2>4. k \in DOMAIN u
    BY <1>6, <2>1, <2>3, Zenon
  <2>5. QED BY <1>4, <2>4, Zenon
<1>8. QED BY <1>5, <1>6, <1>7, Zenon

\* The circuit stays and the artifact is written from it; nothing loads but the artifact as written.
ShapeInv ==
  /\ circuit \in Circuits /\ Shapes!shapes(circuit)
  /\ bytes \in Artifact /\ faults \in Nat
  /\ faults = 0 => bytes = Shapes!Stored(circuit)
  /\ \/ loaded = [code |-> "none"]
     \/ loaded = [code |-> "UnknownCircuit"] /\ faults # 0
     \/ loaded = [code |-> "OK", circuit |-> circuit] /\ bytes = Shapes!Stored(circuit)

LEMMA DamagedIsArtifact ==
  ASSUME MaxSize \in Nat, bytes \in Artifact, NEW b \in Shapes!Damaged
  PROVE  b \in Artifact
<1>1. \A n \in 0..MaxSize : n \in Nat
  OBVIOUS
<1>2. ASSUME NEW f \in {"num_cons", "num_cons_unpadded", "num_shared", "num_shared_unpadded",
                        "num_rest", "num_public", "num_challenges", "cols", "entries"},
             NEW n \in 0..MaxSize
      PROVE  [bytes EXCEPT ![f] = n] \in Artifact
  <2>1. n \in Nat
    OBVIOUS
  <2>2. CASE f = "num_cons" BY <2>1, <2>2 DEF Artifact
  <2>3. CASE f = "num_cons_unpadded" BY <2>1, <2>3 DEF Artifact
  <2>4. CASE f = "num_shared" BY <2>1, <2>4 DEF Artifact
  <2>5. CASE f = "num_shared_unpadded" BY <2>1, <2>5 DEF Artifact
  <2>6. CASE f = "num_rest" BY <2>1, <2>6 DEF Artifact
  <2>7. CASE f = "num_public" BY <2>1, <2>7 DEF Artifact
  <2>8. CASE f = "num_challenges" BY <2>1, <2>8 DEF Artifact
  <2>9. CASE f = "cols" BY <2>1, <2>9 DEF Artifact
  <2>10. CASE f = "entries" BY <2>1, <2>10 DEF Artifact
  <2>11. QED BY <2>2, <2>3, <2>4, <2>5, <2>6, <2>7, <2>8, <2>9, <2>10
<1>3. PICK p, u : p = bytes.indptr /\ u = bytes.indices
  OBVIOUS
<1>4. p \in Seq(Nat) /\ u \in Seq(Nat)
  BY <1>3 DEF Artifact
<1>5. \A q \in Seq(Nat) : [bytes EXCEPT !.indptr = q] \in Artifact /\ [bytes EXCEPT !.indices = q] \in Artifact
  BY DEF Artifact
<1>6. ASSUME NEW r \in DOMAIN p, NEW n \in 0..MaxSize PROVE [p EXCEPT ![r] = n] \in Seq(Nat)
  BY <1>1, <1>4, <1>6
<1>7. ASSUME NEW k \in DOMAIN u, NEW n \in 0..MaxSize PROVE [u EXCEPT ![k] = n] \in Seq(Nat)
  BY <1>1, <1>4, <1>7
<1>8. ASSUME NEW r \in DOMAIN bytes.indptr, NEW n \in 0..MaxSize
      PROVE  [bytes EXCEPT !.indptr[r] = n] \in Artifact
  <2>1. PICK q : q = [p EXCEPT ![r] = n]
    OBVIOUS
  <2>2. q \in Seq(Nat)
    BY <1>3, <1>6, <2>1, Zenon
  <2>3. [bytes EXCEPT !.indptr[r] = n] = [bytes EXCEPT !.indptr = q]
    BY <1>3, <2>1
  <2>4. QED BY <1>5, <2>2, <2>3
<1>9. ASSUME NEW k \in DOMAIN bytes.indices, NEW n \in 0..MaxSize
      PROVE  [bytes EXCEPT !.indices[k] = n] \in Artifact
  <2>1. PICK q : q = [u EXCEPT ![k] = n]
    OBVIOUS
  <2>2. q \in Seq(Nat)
    BY <1>3, <1>7, <2>1, Zenon
  <2>3. [bytes EXCEPT !.indices[k] = n] = [bytes EXCEPT !.indices = q]
    BY <1>3, <2>1
  <2>4. QED BY <1>5, <2>2, <2>3
<1>10. bytes.indices # <<>> => [bytes EXCEPT !.indices = Tail(@)] \in Artifact
  <2> SUFFICES ASSUME u # <<>> PROVE [bytes EXCEPT !.indices = Tail(u)] \in Artifact
    BY <1>3
  <2>1. Tail(u) \in Seq(Nat)
    BY <1>4
  <2>2. QED BY <1>5, <2>1
<1>11. bytes.indptr # <<>> => [bytes EXCEPT !.indptr = Tail(@)] \in Artifact
  <2> SUFFICES ASSUME p # <<>> PROVE [bytes EXCEPT !.indptr = Tail(p)] \in Artifact
    BY <1>3
  <2>1. Tail(p) \in Seq(Nat)
    BY <1>4
  <2>2. QED BY <1>5, <2>1
<1>12. QED BY <1>2, <1>8, <1>9, <1>10, <1>11 DEF Shapes!Damaged

LEMMA ShapeSteps ==
  ASSUME Shapes!WidthAssumption
  PROVE  (Shapes!Init => ShapeInv) /\ (ShapeInv /\ [Shapes!Next]_Shapes!vars => ShapeInv')
<1>1. \A c \in Circuits : IsCircuit(c)
  BY Zenon DEF Shapes!WidthAssumption, Shapes!CircuitAssumption, IsCircuit
<1>2. MaxSize \in Nat
  BY DEF Shapes!WidthAssumption
<1>3. Shapes!Init => ShapeInv
  <2> SUFFICES ASSUME Shapes!Init PROVE ShapeInv
    OBVIOUS
  <2>1. /\ circuit \in Circuits /\ Shapes!shapes(circuit)
        /\ bytes = Shapes!Stored(circuit) /\ faults = 0 /\ loaded = [code |-> "none"]
    BY DEF Shapes!Init
  <2>2. bytes \in Artifact
    BY <1>1, <2>1, StoredIsArtifact, Zenon
  <2>3. faults \in Nat
    BY <2>1
  <2>4. QED BY <2>1, <2>2, <2>3, Zenon DEF ShapeInv
<1>4. ASSUME ShapeInv, [Shapes!Next]_Shapes!vars PROVE ShapeInv'
  <2>1. CASE UNCHANGED Shapes!vars
    <3>1. circuit' = circuit /\ bytes' = bytes /\ faults' = faults /\ loaded' = loaded
      BY <2>1 DEF Shapes!vars
    <3>2. QED BY <1>4, <3>1, Zenon DEF ShapeInv
  <2>2. ASSUME NEW b \in Shapes!Damaged, Shapes!Damage(b) PROVE ShapeInv'
    <3>1. loaded.code = "none" /\ bytes' = b /\ faults' = faults + 1 /\ circuit' = circuit /\ loaded' = loaded
      BY <2>2 DEF Shapes!Damage
    <3>2. b \in Artifact
      BY <1>2, <1>4, DamagedIsArtifact, Zenon DEF ShapeInv
    <3>3. faults' \in Nat /\ faults' # 0
      BY <1>4, <3>1 DEF ShapeInv
    <3>4. loaded = [code |-> "none"]
      <4>1. [code |-> "UnknownCircuit"].code # "none" /\ [code |-> "OK", circuit |-> circuit].code # "none"
        OBVIOUS
      <4>2. QED BY <1>4, <3>1, <4>1, Zenon DEF ShapeInv
    <3>5. QED BY <1>4, <3>1, <3>2, <3>3, <3>4, Zenon DEF ShapeInv
  <2>3. CASE Shapes!Load
    <3>1. PICK a : a = Shapes!Stored(circuit)
      OBVIOUS
    <3>2. loaded' = Shapes!from_shapes(bytes, a) /\ circuit' = circuit /\ bytes' = bytes /\ faults' = faults
      BY <2>3, <3>1 DEF Shapes!Load
    <3>3. CASE bytes # a
      <4>1. loaded' = [code |-> "UnknownCircuit"]
        BY <3>2, <3>3, Zenon DEF Shapes!from_shapes
      <4>2. faults # 0
        BY <1>4, <3>1, <3>3, Zenon DEF ShapeInv
      <4>3. QED BY <1>4, <3>2, <4>1, <4>2, Zenon DEF ShapeInv
    <3>4. CASE bytes = a
      <4>1. IsCircuit(circuit)
        BY <1>1, <1>4, Zenon DEF ShapeInv
      <4>2. Shapes!validate(bytes) /\ Shapes!ShapeReplay(bytes) = circuit
        BY <3>1, <3>4, <4>1, StoredValidates, ReplayIsTheCircuit, Zenon
      <4>3. Shapes!within_budget(bytes.num_cons, Shapes!Values(bytes))
        BY <1>4, <3>1, <3>4, Zenon DEF ShapeInv, Shapes!shapes
      <4>4. loaded' = [code |-> "OK", circuit |-> circuit]
        BY <3>2, <3>4, <4>2, <4>3, Zenon DEF Shapes!from_shapes
      <4>5. QED BY <1>4, <3>1, <3>2, <3>4, <4>4, Zenon DEF ShapeInv
    <3>5. QED BY <3>3, <3>4
  <2>4. QED BY <1>4, <2>1, <2>2, <2>3, Zenon DEF Shapes!Next
<1>5. QED BY <1>3, <1>4

LEMMA ShapeInvariance == Spec => [](part = "shape" => ShapeInv)
<1>1. (Shapes!Init => ShapeInv) /\ (ShapeInv /\ [Shapes!Next]_Shapes!vars => ShapeInv')
  BY PartsAssumption, ShapeSteps, Zenon
<1>2. Init => (part = "shape" => ShapeInv)
  BY <1>1, Zenon DEF Init
<1>3. (part = "shape" => ShapeInv) /\ [Next]_vars => (part = "shape" => ShapeInv)'
  BY <1>1, ShapePart, Zenon
<1>4. QED BY <1>2, <1>3, PTL DEF Spec

\* For any circuit, padding width and damage to the artifact: what Keys::from_shapes loads is the
\* circuit of the code, row by row; the artifact as written is never refused; and whatever
\* StoredShape::validate accepts is read within its bounds.
THEOREM ShapesAreReadAsWrittenAlways == Spec => []ShapesAreReadAsWritten
<1>1. ASSUME ShapeInv PROVE Shapes!KeysAreTheCircuits
  <2>1. CASE loaded = [code |-> "none"]
    BY <2>1 DEF Shapes!KeysAreTheCircuits
  <2>2. CASE loaded = [code |-> "UnknownCircuit"] /\ faults # 0
    BY <2>2 DEF Shapes!KeysAreTheCircuits
  <2>3. CASE loaded = [code |-> "OK", circuit |-> circuit] /\ bytes = Shapes!Stored(circuit)
    <3>1. loaded.code = "OK" /\ loaded.circuit = circuit
      BY <2>3
    <3>2. QED BY <2>3, <3>1, Zenon DEF Shapes!KeysAreTheCircuits
  <2>4. QED BY <1>1, <2>1, <2>2, <2>3, Zenon DEF ShapeInv
<1>2. ASSUME ShapeInv PROVE Shapes!ValidatedIsReadable
  BY <1>2, ValidatedIsRead DEF ShapeInv
<1>3. (part = "shape" => ShapeInv) => ShapesAreReadAsWritten
  BY <1>1, <1>2, Zenon DEF ShapesAreReadAsWritten
<1>4. QED BY <1>3, ShapeInvariance, PTL

-----------------------------------------------------------------------------
(* Completeness.                                                           *)

\* Whatever an honest prover builds is accepted, for any layout, item, text, message lengths
\* and digestID: its windows are read, its texts matched, its digestIDs extracted and its
\* folded hashes verified.
THEOREM HonestWitnessesAreAcceptedAlways == Spec => []HonestWitnessesAreAccepted
<1>1. WinInv => Windows!HonestWindowsRead
  BY PartsAssumption, WindowsAreRead, Zenon
<1>2. ReqInv => Request!HonestWindowMatches
  BY PartsAssumption, WindowsAreMatched, Zenon
<1>3. IdInv => DigestId!CanonicalIsExtracted
  BY DEF IdInv
<1>4. FoldInv => Fold!HonestFoldIsAccepted
  BY DEF FoldInv, Fold!HonestFoldIsAccepted
<1>5. (part = "window" => WinInv) /\ (part = "request" => ReqInv) /\ (part = "digest_id" => IdInv)
        /\ (part = "fold" => FoldInv) => HonestWitnessesAreAccepted
  BY <1>1, <1>2, <1>3, <1>4, Zenon DEF HonestWitnessesAreAccepted
<1>6. QED BY <1>5, WinInvariance, ReqInvariance, IdInvariance, FoldInvariance, PTL
=============================================================================
