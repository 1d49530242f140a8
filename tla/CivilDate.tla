----------------------------- MODULE CivilDate -----------------------------
(***************************************************************************)
(* The calendar arithmetic behind month windows and timestamps             *)
(* (crates/core/src/timefmt.rs, month_key of gateway/src/unitledger.rs and *)
(* of cloud/src/store.rs, parse_rfc3339_millis of gateway/src/             *)
(* focusexport.rs), checked against a calendar that is counted one day at  *)
(* a time.  An instant is <<days since 1970-01-01, milliseconds of the     *)
(* day>>: the code's single i64 does not fit the checker's integers.       *)
(***************************************************************************)
EXTENDS Integers, Sequences

CONSTANTS
  FirstDay,    \* the first day counted, as days since 1970-01-01
  FirstDate,   \* and as <<year, month, day>>
  LastDay,     \* the last day counted
  Millis       \* the milliseconds of a day that are looked at

(* What an instance must satisfy.                                          *)
CivilDateConstants == FirstDay \in Int /\ LastDay \in Int /\ Millis \subseteq 0..86399999

VARIABLES
  day,         \* days since 1970-01-01
  date         \* the same, on the calendar

vars == <<day, date>>

-----------------------------------------------------------------------------
(* [day of the year that starts in March, the year it is counted from]     *)
YearOfEra(doe) == (doe - doe \div 1460 + doe \div 36524 - doe \div 146096) \div 365
DayOfYear(doe) == LET yoe == YearOfEra(doe) IN doe - (365 * yoe + yoe \div 4 - yoe \div 100)
Month(mp) == IF mp < 10 THEN mp + 3 ELSE mp - 9
January(y, m) == IF m <= 2 THEN y + 1 ELSE y

CivilFromDays(n) ==
  LET z == n + 719468
      doe == z % 146097
      mp == (5 * DayOfYear(doe) + 2) \div 153
      m == Month(mp)
  IN <<January(YearOfEra(doe) + (z \div 146097) * 400, m), m, DayOfYear(doe) - (153 * mp + 2) \div 5 + 1>>

DaysFromCivil(y, m, d) ==
  LET yy == IF m <= 2 THEN y - 1 ELSE y
      yoe == yy % 400
      doy == (153 * ((m + 9) % 12) + 2) \div 5 + d - 1
      doe == yoe * 365 + yoe \div 4 - yoe \div 100 + doy
  IN (yy \div 400) * 146097 + doe - 719468

\* Mutant of MonthKey: months are counted from March without their year.
MonthKeyMarch(n) ==
  LET z == n + 719468
      doe == z - (z \div 146097) * 146097
      mp == (5 * DayOfYear(doe) + 2) \div 153
  IN <<YearOfEra(doe) + (z \div 146097) * 400, mp>>

(* month_key: the window of a unit's budget.  Its quotient, of a number    *)
(* lowered by 146096 when negative, is the floor.                          *)
MonthKey(n) ==
  LET z == n + 719468
      era == z \div 146097
      doe == z - era * 146097
      mp == (5 * DayOfYear(doe) + 2) \div 153
      m == Month(mp)
  IN <<January(YearOfEra(doe) + era * 400, m), m>>

(* ts_millis_to_rfc3339: the fields of the text, to the second             *)
Rfc3339(n, ms) ==
  LET secs == ms \div 1000 IN [civil |-> CivilFromDays(n), hh |-> secs \div 3600, mm |-> (secs % 3600) \div 60, ss |-> secs % 60]

(* ts_millis_to_rfc3339_millis *)
Rfc3339Millis(n, ms) ==
  LET secs == ms \div 1000
  IN [civil |-> CivilFromDays(n), hh |-> secs \div 3600, mm |-> (secs % 3600) \div 60, ss |-> secs % 60, frac |-> ms % 1000]

(* parse_rfc3339_millis: no value for fields out of range; the fraction    *)
(* of a second is dropped.                                                 *)
ParseRfc3339(t) ==
  IF t.civil[2] \in 1..12 /\ t.civil[3] \in 1..31 /\ t.hh \in 0..23 /\ t.mm \in 0..59 /\ t.ss \in 0..59
  THEN {<<DaysFromCivil(t.civil[1], t.civil[2], t.civil[3]), t.hh * 3600000 + t.mm * 60000 + t.ss * 1000>>} ELSE {}

-----------------------------------------------------------------------------
(* The Gregorian calendar, as it is defined.                               *)
Leap(y) == y % 4 = 0 /\ (y % 100 # 0 \/ y % 400 = 0)
Length(y, m) == IF m = 2 THEN (IF Leap(y) THEN 29 ELSE 28) ELSE IF m \in {4, 6, 9, 11} THEN 30 ELSE 31
Tomorrow(d) ==
  IF d[3] < Length(d[1], d[2]) THEN <<d[1], d[2], d[3] + 1>>
  ELSE IF d[2] < 12 THEN <<d[1], d[2] + 1, 1>> ELSE <<d[1] + 1, 1, 1>>

Init == day = FirstDay /\ date = FirstDate

Midnight == day < LastDay /\ day' = day + 1 /\ date' = Tomorrow(date)

Spec == Init /\ [][Midnight]_vars

-----------------------------------------------------------------------------
(* civil_from_days names the day the calendar names, through month ends,   *)
(* leap years and the centuries that are none; days_from_civil undoes it.  *)
CalendarAgrees ==
  /\ CivilFromDays(day) = date
  /\ DaysFromCivil(date[1], date[2], date[3]) = day

(* month_key: the window a day is in is its calendar month, so that a new  *)
(* one opens on the first of a month and on no other day.                  *)
WindowsAreMonths == MonthKey(day) = <<date[1], date[2]>>

(* A timestamp that an export printed and that is given back as --from or  *)
(* --to means the second it was printed for, with or without its fraction. *)
PrintedTimesParse ==
  \A ms \in Millis : ParseRfc3339(Rfc3339(day, ms)) = {<<day, (ms \div 1000) * 1000>>}
                     /\ ParseRfc3339(Rfc3339Millis(day, ms)) = {<<day, (ms \div 1000) * 1000>>}
=============================================================================
