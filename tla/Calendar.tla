------------------------------ MODULE Calendar ------------------------------
(***************************************************************************)
(* The arithmetic of dates, times and intervals in                         *)
(* src/core/adbc_backend.zig, and the Gregorian calendar to compare the    *)
(* dates with.  @divFloor and @mod are \div and % of Integers.             *)
(***************************************************************************)
EXTENDS Integers

CONSTANTS UnitsPerSecond,  \* unit -> how many of it a second has
          MaxI64           \* the largest i64: bounds what a count is multiplied to

Unit == {"s", "m", "u", "n"}

(* The factors only ever divide, so an instance may take small ones.       *)
ASSUME UnitsAssumption ==
  /\ UnitsPerSecond \in [Unit -> Nat \ {0}]
  /\ UnitsPerSecond["s"] = 1
  /\ UnitsPerSecond["n"] % UnitsPerSecond["u"] = 0
  /\ MaxI64 \in Nat

seconds_per_day == 86400

\* What @intCast of a negative count to u64, or an overflowing product, comes to.
Panic == <<"panic">>

\* Mutated form of CivilFromDays: March counts as the last month of the year before.
CivilFromDaysYearInApril(days_since_epoch) ==
  LET shifted == days_since_epoch + 719468
      era == (IF shifted >= 0 THEN shifted ELSE shifted - 146096) \div 146097
      day_of_era == shifted - era * 146097
      year_of_era == (day_of_era - day_of_era \div 1460 + day_of_era \div 36524
                        - day_of_era \div 146096) \div 365
      day_of_year == day_of_era
                       - (365 * year_of_era + year_of_era \div 4 - year_of_era \div 100)
      month_prime == (5 * day_of_year + 2) \div 153
      month == month_prime + (IF month_prime < 10 THEN 3 ELSE -9)
  IN [year |-> year_of_era + era * 400 + (IF month <= 3 THEN 1 ELSE 0),
      month |-> month,
      day |-> day_of_year - (153 * month_prime + 2) \div 5 + 1]

\* The date a count of days since 1970-01-01 stands for.  Years begin in March here, so
\* that a leap day is the last of its year, and an era has 400 of them.
CivilFromDays(days_since_epoch) ==
  LET shifted == days_since_epoch + 719468
      era == (IF shifted >= 0 THEN shifted ELSE shifted - 146096) \div 146097
      day_of_era == shifted - era * 146097
      year_of_era == (day_of_era - day_of_era \div 1460 + day_of_era \div 36524
                        - day_of_era \div 146096) \div 365
      day_of_year == day_of_era
                       - (365 * year_of_era + year_of_era \div 4 - year_of_era \div 100)
      month_prime == (5 * day_of_year + 2) \div 153
      month == month_prime + (IF month_prime < 10 THEN 3 ELSE -9)
  IN [year |-> year_of_era + era * 400 + (IF month <= 2 THEN 1 ELSE 0),
      month |-> month,
      day |-> day_of_year - (153 * month_prime + 2) \div 5 + 1]

FormatTimeOfDay(value, unit) ==
  LET total_seconds == value \div UnitsPerSecond[unit]
      hours == total_seconds \div 3600
  IN IF hours < 0 THEN Panic
     ELSE <<hours, (total_seconds \div 60) % 60, total_seconds % 60,
            value % UnitsPerSecond[unit]>>

FormatTimestampValue(value, unit) ==
  LET units_per_day == UnitsPerSecond[unit] * seconds_per_day
  IN <<CivilFromDays(value \div units_per_day), FormatTimeOfDay(value % units_per_day, unit)>>

\* formatDayTimeIntervalComponents and formatMonthDayNanoIntervalComponents: the months
\* and days are printed as they are, the rest as a time of day.
FormatInterval(months, days, rest, unit) ==
  LET time == FormatTimeOfDay(rest, unit)
  IN IF time = Panic THEN Panic ELSE <<months, days, time>>

\* Durations in microseconds are made nanoseconds first.
FormatArrowDuration(value, unit) ==
  LET factor == UnitsPerSecond["n"] \div UnitsPerSecond["u"]
  IN CASE unit = "s" -> <<value>>
       [] unit = "m" -> FormatInterval(0, 0, value, "m")
       [] unit = "u" -> IF value * factor \in -MaxI64 - 1..MaxI64
                          THEN FormatInterval(0, 0, value * factor, "n")
                          ELSE Panic
       [] unit = "n" -> FormatInterval(0, 0, value, "n")

-----------------------------------------------------------------------------
(* The Gregorian calendar, for reference: when a year is a leap year, and  *)
(* how long the months are.                                                *)

IsLeap(year) == year % 4 = 0 /\ (year % 100 # 0 \/ year % 400 = 0)

DaysInMonth(year, month) ==
  CASE month = 2 -> IF IsLeap(year) THEN 29 ELSE 28
    [] month \in {4, 6, 9, 11} -> 30
    [] OTHER -> 31

IsDate(date) == date.month \in 1..12 /\ date.day \in 1..DaysInMonth(date.year, date.month)

\* Days from 0000-01-01 to the first of a year, and in a year before a month.
DaysBeforeYear(year) ==
  365 * year + (year + 3) \div 4 - (year + 99) \div 100 + (year + 399) \div 400

DaysBeforeMonth(year, month) ==
  <<0, 31, 59, 90, 120, 151, 181, 212, 243, 273, 304, 334>>[month]
    + (IF month > 2 /\ IsLeap(year) THEN 1 ELSE 0)

\* The days from 1970-01-01 to a date.
DayNumber(date) ==
  DaysBeforeYear(date.year) - DaysBeforeYear(1970) + DaysBeforeMonth(date.year, date.month)
    + date.day - 1

\* The days whose era is found: those from 0000-02-29 on, where an era of 400 years ends,
\* and the last of each era before.  On the others the division rounds down twice.
EraIsFound(days) == days >= -719469 \/ (days + 719469) % 146097 = 0
=============================================================================
