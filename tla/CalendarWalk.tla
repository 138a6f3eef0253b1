--------------------------- MODULE CalendarWalk ---------------------------
(***************************************************************************)
(* Calendar.tla checked against the calendar itself: a walk that starts on *)
(* 1 January of a year and turns one page a day, by the length of each     *)
(* month and nothing else.                                                 *)
(***************************************************************************)
EXTENDS Calendar

\* A year has four digits.
LastYear == 9999

CONSTANTS
  Starts,    \* years the walk may start in
  Span       \* years it walks

WalkAssumption ==
  /\ Starts \subseteq 1..LastYear
  /\ Span \in Nat
  /\ \A s \in Starts : s + Span <= LastYear + 1

VARIABLES
  first_year,  \* the year the walk started in
  today,       \* the date it has reached
  passed       \* the days it has walked

vars == <<first_year, today, passed>>

Init ==
  /\ first_year \in Starts
  /\ today = [year |-> first_year, month |-> 1, day |-> 1]
  /\ passed = 0

Tomorrow(d) ==
  IF d.day < days_in_month(d.year, d.month) THEN [year |-> d.year, month |-> d.month, day |-> d.day + 1]
  ELSE IF d.month < 12 THEN [year |-> d.year, month |-> d.month + 1, day |-> 1]
  ELSE [year |-> d.year + 1, month |-> 1, day |-> 1]

NextDay ==
  /\ Tomorrow(today).year < first_year + Span
  /\ today' = Tomorrow(today)
  /\ passed' = passed + 1
  /\ UNCHANGED first_year

Spec == Init /\ [][NextDay]_vars

Start == [year |-> first_year, month |-> 1, day |-> 1]
AsText(d) == Text(d.year, d.month, d.day)

\* The closed formula of `days` counts exactly the pages turned: over leap years,
\* centuries, the 400-year era and the years that begin in March.
DaysCountsPages == days(today) - days(Start) = passed

\* Every date of the calendar parses, and the day after the last of a month does not.
OnlyRealDatesParse ==
  /\ ParsesAsDate(AsText(today))
  /\ Tomorrow(today).day = 1 =>
       ~ParsesAsDate(Text(today.year, today.month, today.day + 1))

\* check_range accepts the range from the start of the walk to today exactly when a
\* birth date is not pinned down to fewer than 365 days.  The last day of 9999 names no
\* upper bound and is accepted whatever the lower one.
RangeIsWideEnough ==
  check_range(AsText(Start), AsText(today))
    <=> passed + 1 >= MIN_WINDOW_DAYS \/ AsText(today) = NO_UPPER_BOUND

\* The circuit compares YYYYMMDD numbers: a date is in [Start, today] by its digits
\* exactly when the walk has passed it, and no difference leaves the 27 bits checked.
DigitsKeepOrder ==
  /\ born_in_range(today, AsText(Start), AsText(today))
  /\ born_in_range(Start, AsText(Start), AsText(today))
  /\ passed > 0 => ~born_in_range(Start, AsText(today), NO_UPPER_BOUND)
  /\ born_in_range(today, NO_LOWER_BOUND, AsText(today))
  /\ ~born_in_range(Tomorrow(today), NO_LOWER_BOUND, AsText(today))
===========================================================================
