----------------------------- MODULE Calendar -----------------------------
(***************************************************************************)
(* The calendar arithmetic of a nym_auth statement                         *)
(* (nymauth_vega/engine/statement.rs and presentation.rs): which texts are *)
(* dates and times, the number of days between two dates, the rulebook's   *)
(* smallest age window, and the YYYYMMDD numbers the circuit compares.     *)
(*                                                                         *)
(* A text YYYY-MM-DD is what its parser sees of it: whether its length,    *)
(* alphabet and separators are right, and its three fields as numbers,     *)
(* NaN for a field that is not all digits.                                 *)
(***************************************************************************)
EXTENDS Integers

MIN_WINDOW_DAYS == 365

NaN == -1
Text(y, m, d) == [framed |-> TRUE, year |-> y, month |-> m, day |-> d]
NO_LOWER_BOUND == Text(0, 0, 0)
NO_UPPER_BOUND == Text(9999, 12, 31)

days_in_month(year, month) ==
  IF month \in {1, 3, 5, 7, 8, 10, 12} THEN 31
  ELSE IF month \in {4, 6, 9, 11} THEN 30
  ELSE IF year % 4 = 0 /\ (year % 100 # 0 \/ year % 400 = 0) THEN 29
  ELSE 28

\* Mutant: every month has 31 days.
ParsesAsDate_AnyDay(t) ==
  /\ t.framed
  /\ t.year # NaN /\ t.month # NaN /\ t.day # NaN
  /\ t.year >= 1
  /\ t.month \in 1..12
  /\ t.day \in 1..31

\* Whether `date` accepts a text, and the date it then returns.  A field of two or four
\* digits is at most 99 or 9999, so the year needs only its lower bound.
ParsesAsDate(t) ==
  /\ t.framed
  /\ t.year # NaN /\ t.month # NaN /\ t.day # NaN
  /\ t.year >= 1
  /\ t.month \in 1..12
  /\ t.day \in 1..days_in_month(t.year, t.month)

date(t) == [year |-> t.year, month |-> t.month, day |-> t.day]

\* Mutant: a century is a leap year.
days_Julian(d) ==
  LET y   == IF d.month <= 2 THEN d.year - 1 ELSE d.year
      era == y \div 400
      yoe == y - era * 400
      doy == (153 * (IF d.month > 2 THEN d.month - 3 ELSE d.month + 9) + 2) \div 5 + d.day - 1
  IN  era * 146097 + yoe * 365 + yoe \div 4 + doy - 719468

\* Days since 1970-01-01, counted in years that begin in March.
days(d) ==
  LET y   == IF d.month <= 2 THEN d.year - 1 ELSE d.year
      era == y \div 400
      yoe == y - era * 400
      doy == (153 * (IF d.month > 2 THEN d.month - 3 ELSE d.month + 9) + 2) \div 5 + d.day - 1
      doe == yoe * 365 + yoe \div 4 - yoe \div 100 + doy
  IN  era * 146097 + doe - 719468

\* Mutant: the window's last day is not counted.
check_range_OffByOne(earliest, cutoff) ==
  LET e == earliest # NO_LOWER_BOUND
      c == cutoff # NO_UPPER_BOUND
  IN  /\ e => ParsesAsDate(earliest)
      /\ ParsesAsDate(cutoff)
      /\ e /\ c => days(date(cutoff)) - days(date(earliest)) >= MIN_WINDOW_DAYS

\* The age range [E, C] is one the rulebook lets a verifier ask for.
check_range(earliest, cutoff) ==
  LET e == earliest # NO_LOWER_BOUND
      c == cutoff # NO_UPPER_BOUND
  IN  /\ e => ParsesAsDate(earliest)
      /\ ParsesAsDate(cutoff)
      /\ e /\ c => days(date(cutoff)) - days(date(earliest)) + 1 >= MIN_WINDOW_DAYS

\* Date::digits, the number YYYYMMDD.
digits(d) == d.year * 10000 + d.month * 100 + d.day

\* The public value born_from: 0 without a maximum age.
BornFrom(earliest) == IF earliest = NO_LOWER_BOUND THEN 0 ELSE digits(date(earliest))

\* Times: a calendar date and a second of its day.
ParsesAsTime(t) ==
  /\ t.framed /\ ParsesAsDate(t.date)
  /\ t.hour \in 0..23 /\ t.minute \in 0..59 /\ t.second \in 0..59

\* hhmmss, the low six digits of Time::digits; the high ones are its date's.
clock_digits(t) == t.hour * 10000 + t.minute * 100 + t.second

\* The circuit's comparison `a - b in 0..2^bits - 1`: the difference of two field elements
\* lies in the range only when it does not wrap around.
range_check(x, bits) == x \in 0..2^bits - 1

\* Mutant: the cutoff is exclusive.
born_in_range_Exclusive(birth, earliest, cutoff) ==
  /\ range_check(digits(birth) - BornFrom(earliest), 27)
  /\ range_check(digits(date(cutoff)) - digits(birth) - 1, 27)

\* The circuit's age rules over YYYYMMDD numbers.
born_in_range(birth, earliest, cutoff) ==
  /\ range_check(digits(birth) - BornFrom(earliest), 27)
  /\ range_check(digits(date(cutoff)) - digits(birth), 27)
===========================================================================
