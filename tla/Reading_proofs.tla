--------------------------- MODULE Reading_proofs ---------------------------
(***************************************************************************)
(* What a program reads of a row, for any set of schemas, values and rows  *)
(* of get_tables.                                                          *)
(*                                                                         *)
(* Names: a call that asks for the name of a table takes its ten reads one *)
(* by one.  NameInv says what of the row it holds after each of them, so   *)
(* that what is handed over at the end is the row that was built or        *)
(* nothing; that three parts joined, split and joined again are what they  *)
(* were is a matter of the selections of at most three parts.              *)
(*                                                                         *)
(* Values: the row stays as it was built, ValueInv, so that each property  *)
(* is one of the functions from an array to a text and from a text to a    *)
(* value.  The lemmas follow these functions: which formats have which     *)
(* type, which text each of them prints, and what the bindings make of it. *)
(*                                                                         *)
(* Types: the type of a column and the text of its cells come from two     *)
(* tables.  FitsOrMisfits compares them for one schema and one text: bytes *)
(* the backend decodes, dates and times, scalars, and nested columns, of   *)
(* which the last part of the module treats each by itself.                *)
(*                                                                         *)
(* Dates: which days civilFromDays gets right.  It is every day from       *)
(* 0000-02-29 on, for which the date it gives exists and is as many days   *)
(* after 1970-01-01 as it was asked for, and before that day only the last *)
(* of every era.  The proof follows the algorithm: eras, years of an era,  *)
(* months of a year.  A quotient is a number between bounds that are       *)
(* linear in it, and each step is a fact about such numbers.               *)
(***************************************************************************)
EXTENDS Reading, TLAPS

-----------------------------------------------------------------------------
(* Dates *)


\* A quotient, and the bounds that say which number it is.
Quotient(x, k) == x \div k \in Int /\ k * (x \div k) <= x /\ x < k * (x \div k) + k

\* The divisions of civilFromDays.
LEMMA Quotients ==
  ASSUME NEW x \in Int
  PROVE  /\ Quotient(x, 4) /\ Quotient(x, 5) /\ Quotient(x, 100) /\ Quotient(x, 153)
         /\ Quotient(x, 365) /\ Quotient(x, 400) /\ Quotient(x, 1460) /\ Quotient(x, 36524)
         /\ Quotient(x, 146096) /\ Quotient(x, 146097)
  BY DEF Quotient

\* A year of an era that begins in March has 365 days, or 366 if it ends with a leap day.
LEMMA YearOfEra ==
  ASSUME NEW d \in Int, NEW a \in Int, NEW b \in Int, NEW e \in Int,
         NEW y \in Int, NEW q \in Int, NEW c \in Int,
         0 <= d, d <= 146096,
         1460 * a <= d, d < 1460 * a + 1460,
         36524 * b <= d, d < 36524 * b + 36524,
         146096 * e <= d, d < 146096 * e + 146096,
         365 * y <= d - a + b - e, d - a + b - e < 365 * y + 365,
         4 * q <= y, y < 4 * q + 4,
         100 * c <= y, y < 100 * c + 100
  PROVE  0 <= y /\ y <= 399 /\ 0 <= d - (365 * y + q - c) /\ d - (365 * y + q - c) <= 365
  OBVIOUS

\* Only a year that ends with a leap day has a day 365.
LEMMA LastDayOfYear ==
  ASSUME NEW d \in Int, NEW a \in Int, NEW b \in Int, NEW e \in Int,
         NEW y \in Int, NEW q \in Int, NEW c \in Int,
         0 <= d, d <= 146096,
         1460 * a <= d, d < 1460 * a + 1460,
         36524 * b <= d, d < 36524 * b + 36524,
         146096 * e <= d, d < 146096 * e + 146096,
         365 * y <= d - a + b - e, d - a + b - e < 365 * y + 365,
         4 * q <= y, y < 4 * q + 4,
         100 * c <= y, y < 100 * c + 100,
         d - (365 * y + q - c) = 365
  PROVE  y = 4 * q + 3 /\ (y = 100 * c + 99 => y = 399)
<1>1. y = 4 * q + 3
  OBVIOUS
<1>2. y = 100 * c + 99 => y = 399
  OBVIOUS
<1> QED
  BY <1>1, <1>2

\* The months of a year that begins in March: m months, of s days, are before its day n.
LEMMA MonthOfYear ==
  ASSUME NEW n \in Int, NEW m \in Int, NEW s \in Int,
         0 <= n, n <= 365,
         153 * m <= 5 * n + 2, 5 * n + 2 < 153 * m + 153,
         5 * s <= 153 * m + 2, 153 * m + 2 < 5 * s + 5
  PROVE  /\ m \in 0..11
         /\ m = 0 => s = 0 /\ n - s \in 0..30
         /\ m = 1 => s = 31 /\ n - s \in 0..29
         /\ m = 2 => s = 61 /\ n - s \in 0..30
         /\ m = 3 => s = 92 /\ n - s \in 0..29
         /\ m = 4 => s = 122 /\ n - s \in 0..30
         /\ m = 5 => s = 153 /\ n - s \in 0..30
         /\ m = 6 => s = 184 /\ n - s \in 0..29
         /\ m = 7 => s = 214 /\ n - s \in 0..30
         /\ m = 8 => s = 245 /\ n - s \in 0..29
         /\ m = 9 => s = 275 /\ n - s \in 0..30
         /\ m = 10 => s = 306 /\ n - s \in 0..30
         /\ m = 11 => s = 337 /\ n - s \in 0..28 /\ (n - s = 28 => n = 365)
  OBVIOUS

\* The days before the March of a year, with its own leap day.
LEMMA DaysToMarch ==
  ASSUME NEW Y \in Int
  PROVE  DaysBeforeYear(Y) = 365 * Y + (Y \div 4 - Y \div 100 + Y \div 400) + 1
                               - (IF IsLeap(Y) THEN 1 ELSE 0)
  BY DEF DaysBeforeYear, IsLeap

\* The days before the January after it.
LEMMA DaysToJanuary ==
  ASSUME NEW Y \in Int
  PROVE  DaysBeforeYear(Y + 1) = 365 * Y + Y \div 4 - Y \div 100 + Y \div 400 + 366
  BY DEF DaysBeforeYear

\* In a year Y = 400 * era + y the quotients are those of the era and of y.
LEMMA QuotientsOfYear ==
  ASSUME NEW era \in Int, NEW y \in Int, NEW q \in Int, NEW c \in Int, NEW Y \in Int,
         Y = 400 * era + y,
         0 <= y, y <= 399, 4 * q <= y, y < 4 * q + 4, 100 * c <= y, y < 100 * c + 100
  PROVE  Y \div 4 = 100 * era + q /\ Y \div 100 = 4 * era + c /\ Y \div 400 = era
  BY Quotients DEF Quotient

\* The year y of an era one too early has 400 to 799 for its number.
LEMMA YearOfWrongEra ==
  ASSUME NEW d \in Int, NEW a \in Int, NEW b \in Int, NEW e \in Int,
         NEW y \in Int, NEW q \in Int, NEW c \in Int,
         146097 <= d, d <= 292192,
         1460 * a <= d, d < 1460 * a + 1460,
         36524 * b <= d, d < 36524 * b + 36524,
         146096 * e <= d, d < 146096 * e + 146096,
         365 * y <= d - a + b - e, d - a + b - e < 365 * y + 365,
         4 * q <= y, y < 4 * q + 4,
         100 * c <= y, y < 100 * c + 100
  PROVE  400 <= y /\ y <= 799 /\ 0 <= d - (365 * y + q - c) /\ d - (365 * y + q - c) <= 366
  OBVIOUS

\* The date civilFromDays gives to day n of the year Y that begins in March, m months and
\* s days of which are before its month.
MarchDate(Y, n, m, s) ==
  [year |-> Y + (IF m + (IF m < 10 THEN 3 ELSE -9) <= 2 THEN 1 ELSE 0),
   month |-> m + (IF m < 10 THEN 3 ELSE -9),
   day |-> n - s + 1]

\* Its number.
MarchNumber(Y, n) == 365 * Y + Y \div 4 - Y \div 100 + Y \div 400 + n - 719468

\* What the month and its first day are of the day n of a year.
MonthBounds(n, m, s) ==
  /\ 0 <= n /\ n <= 365
  /\ 153 * m <= 5 * n + 2 /\ 5 * n + 2 < 153 * m + 153
  /\ 5 * s <= 153 * m + 2 /\ 153 * m + 2 < 5 * s + 5

\* It has this number, and is a day unless it is the 366th of a year without one.
LEMMA DayOfYear ==
  ASSUME NEW Y \in Int, NEW n \in Int, NEW m \in Int, NEW s \in Int,
         MonthBounds(n, m, s)
  PROVE  /\ DayNumber(MarchDate(Y, n, m, s)) = MarchNumber(Y, n)
         /\ IsDate(MarchDate(Y, n, m, s)) <=> (n = 365 => IsLeap(Y + 1))
<1> DEFINE date == MarchDate(Y, n, m, s)
           Q == Y \div 4 - Y \div 100 + Y \div 400
<1> HIDE DEF date, Q
<1> SUFFICES /\ DayNumber(date) = 365 * Y + Q + n - 719468
             /\ IsDate(date) <=> (n = 365 => IsLeap(Y + 1))
  <2>1. MarchNumber(Y, n) = 365 * Y + Q + n - 719468
    BY DEF MarchNumber, Q
  <2> QED
    BY <2>1 DEF date
<1>1. /\ m \in 0..11
      /\ m = 0 => s = 0 /\ n - s \in 0..30
      /\ m = 1 => s = 31 /\ n - s \in 0..29
      /\ m = 2 => s = 61 /\ n - s \in 0..30
      /\ m = 3 => s = 92 /\ n - s \in 0..29
      /\ m = 4 => s = 122 /\ n - s \in 0..30
      /\ m = 5 => s = 153 /\ n - s \in 0..30
      /\ m = 6 => s = 184 /\ n - s \in 0..29
      /\ m = 7 => s = 214 /\ n - s \in 0..30
      /\ m = 8 => s = 245 /\ n - s \in 0..29
      /\ m = 9 => s = 275 /\ n - s \in 0..30
      /\ m = 10 => s = 306 /\ n - s \in 0..30
      /\ m = 11 => s = 337 /\ n - s \in 0..28 /\ (n - s = 28 => n = 365)
  BY MonthOfYear DEF MonthBounds
<1>2. DaysBeforeYear(1970) = 719528
  BY DEF DaysBeforeYear
<1>3. Q \in Int
  BY DEF Q
<1>4. CASE m < 10
  <2>1. date.year = Y /\ date.month = m + 3 /\ date.day = n - s + 1
    BY <1>1, <1>4 DEF date, MarchDate
  <2> DEFINE leap == IF IsLeap(Y) THEN 1 ELSE 0
  <2>2. leap \in {0, 1}
    OBVIOUS
  <2>3. DaysBeforeYear(Y) = 365 * Y + Q + 1 - leap
    BY DaysToMarch DEF Q, leap
  <2>4. DaysBeforeMonth(Y, m + 3) = 59 + s + leap
    BY <1>1, <1>4 DEF DaysBeforeMonth
  <2> HIDE DEF leap
  <2>5. DayNumber(date) = 365 * Y + Q + n - 719468
    BY <1>2, <1>3, <2>1, <2>2, <2>3, <2>4 DEF DayNumber
  <2>6. n # 365
    BY <1>1, <1>4
  <2>7. IsDate(date)
    <3>1. /\ m \in 0..9 /\ n - s \in 0..30
          /\ m + 3 \in {4, 6, 9, 11} => n - s \in 0..29
      BY <1>1, <1>4
    <3>2. DaysInMonth(Y, m + 3) \in {30, 31}
          /\ (m + 3 \notin {4, 6, 9, 11} => DaysInMonth(Y, m + 3) = 31)
      BY <3>1 DEF DaysInMonth
    <3> QED
      BY <2>1, <3>1, <3>2 DEF IsDate
  <2> QED
    BY <2>5, <2>6, <2>7
<1>5. CASE m >= 10
  <2>1. date.year = Y + 1 /\ date.month = m - 9 /\ date.day = n - s + 1
    BY <1>1, <1>5 DEF date, MarchDate
  <2>2. DaysBeforeYear(Y + 1) = 365 * Y + Q + 366
    BY DaysToJanuary DEF Q
  <2>3. DaysBeforeMonth(Y + 1, m - 9) = s - 306
    BY <1>1, <1>5 DEF DaysBeforeMonth
  <2>4. DayNumber(date) = 365 * Y + Q + n - 719468
    BY <1>2, <1>3, <2>1, <2>2, <2>3 DEF DayNumber
  <2>5. IsDate(date) <=> (n = 365 => IsLeap(Y + 1))
    BY <1>1, <1>5, <2>1 DEF IsDate, DaysInMonth
  <2> QED
    BY <2>4, <2>5
<1> QED
  BY <1>1, <1>4, <1>5

\* How far a day is into its era, in one that is found and in one that is not.
LEMMA DayOfFoundEra ==
  ASSUME NEW shifted \in Int, shifted >= -1 \/ (shifted + 1) % 146097 = 0
  PROVE  LET era == (IF shifted >= 0 THEN shifted ELSE shifted - 146096) \div 146097
         IN  era \in Int /\ 0 <= shifted - era * 146097 /\ shifted - era * 146097 <= 146096
<1>1. CASE shifted >= 0
  BY <1>1
<1>2. CASE shifted < 0
  <2>1. (shifted + 1) % 146097 = 0
    BY <1>2
  <2> DEFINE era == (shifted - 146096) \div 146097
  <2>2. era \in Int /\ shifted - 146096 = 146097 * era
    BY <2>1
  <2> QED
    BY <1>2, <2>2
<1> QED
  BY <1>1, <1>2

\* Before the first era civilFromDays takes an era too early, and the day within it is
\* behind the last that an era has.
LEMMA DayOfWrongEra ==
  ASSUME NEW shifted \in Int, shifted < -1, (shifted + 1) % 146097 # 0
  PROVE  LET era == (IF shifted >= 0 THEN shifted ELSE shifted - 146096) \div 146097
         IN  era \in Int /\ 146097 <= shifted - era * 146097 /\ shifted - era * 146097 <= 292192
<1> DEFINE era == (shifted - 146096) \div 146097
<1>1. /\ era \in Int
      /\ 146097 * era < shifted - 146096
      /\ shifted - 146096 < 146097 * era + 146097
  OBVIOUS
<1> QED
  BY <1>1

\* What DatesAreRight says of one day, for every day: a date exists and is the right one
\* exactly when its era is found.
THEOREM CivilFromDaysIsRight ==
  ASSUME NEW days \in Int
  PROVE  EraIsFound(days)
           <=> IsDate(CivilFromDays(days)) /\ DayNumber(CivilFromDays(days)) = days
<1> DEFINE shifted == days + 719468
           era == (IF shifted >= 0 THEN shifted ELSE shifted - 146096) \div 146097
           d == shifted - era * 146097
           a == d \div 1460
           b == d \div 36524
           e == d \div 146096
           y == (d - a + b - e) \div 365
           q == y \div 4
           c == y \div 100
           n == d - (365 * y + q - c)
           m == (5 * n + 2) \div 153
           s == (153 * m + 2) \div 5
           Y == y + era * 400
           date == CivilFromDays(days)
<1> HIDE DEF shifted, era, d, a, b, e, y, q, c, n, m, s, Y, date
<1>1. shifted \in Int /\ shifted = days + 719468
  BY DEF shifted
<1>2. era \in Int
  BY <1>1, DayOfFoundEra, DayOfWrongEra DEF era
<1>3. d \in Int /\ shifted = 146097 * era + d
  BY <1>1, <1>2 DEF d
<1>4. a \in Int /\ b \in Int /\ e \in Int
      /\ 1460 * a <= d /\ d < 1460 * a + 1460
      /\ 36524 * b <= d /\ d < 36524 * b + 36524
      /\ 146096 * e <= d /\ d < 146096 * e + 146096
  BY <1>3, Quotients DEF Quotient, a, b, e
<1>5. y \in Int /\ 365 * y <= d - a + b - e /\ d - a + b - e < 365 * y + 365
  <2>1. d - a + b - e \in Int
    BY <1>3, <1>4
  <2> QED
    BY <2>1, Quotients DEF Quotient, y
<1>6. q \in Int /\ c \in Int /\ 4 * q <= y /\ y < 4 * q + 4 /\ 100 * c <= y /\ y < 100 * c + 100
  BY <1>5, Quotients DEF Quotient, q, c
<1>7. n = d - (365 * y + q - c) /\ n \in Int
  BY <1>3, <1>5, <1>6 DEF n
<1>8. m \in Int /\ 153 * m <= 5 * n + 2 /\ 5 * n + 2 < 153 * m + 153
  <2>1. 5 * n + 2 \in Int
    BY <1>7
  <2> QED
    BY <2>1, Quotients DEF Quotient, m
<1>9. s \in Int /\ 5 * s <= 153 * m + 2 /\ 153 * m + 2 < 5 * s + 5
  <2>1. 153 * m + 2 \in Int
    BY <1>8
  <2> QED
    BY <2>1, Quotients DEF Quotient, s
<1>10. date = MarchDate(Y, n, m, s)
  BY SMT DEF MarchDate, CivilFromDays, shifted, era, d, a, b, e, y, q, c, n, m, s, Y, date
<1>11. Y \in Int /\ Y = 400 * era + y
  BY <1>2, <1>5 DEF Y
<1>12. CASE EraIsFound(days)
  <2>1. 0 <= d /\ d <= 146096
    <3>1. shifted >= -1 \/ (shifted + 1) % 146097 = 0
      BY <1>1, <1>12 DEF EraIsFound
    <3> QED
      BY <1>1, <3>1, DayOfFoundEra DEF era, d
  <2>2. 0 <= y /\ y <= 399 /\ 0 <= n /\ n <= 365
    BY <1>3, <1>4, <1>5, <1>6, <1>7, <2>1, YearOfEra
  <2>3. Y \div 4 = 100 * era + q /\ Y \div 100 = 4 * era + c /\ Y \div 400 = era
    BY <1>2, <1>5, <1>6, <1>11, <2>2, QuotientsOfYear
  <2>4. ASSUME n = 365
        PROVE  IsLeap(Y + 1)
    <3>1. y = 4 * q + 3 /\ (y = 100 * c + 99 => y = 399)
      BY <1>3, <1>4, <1>5, <1>6, <1>7, <2>1, <2>4, LastDayOfYear
    <3>2. (Y + 1) % 4 = 0
      BY <1>2, <1>5, <1>6, <1>11, <3>1
    <3>3. (Y + 1) % 100 # 0 \/ (Y + 1) % 400 = 0
      BY <1>2, <1>5, <1>6, <1>11, <3>1
    <3> QED
      BY <3>2, <3>3 DEF IsLeap
  <2>5. /\ DayNumber(date) = 365 * Y + Y \div 4 - Y \div 100 + Y \div 400 + n - 719468
        /\ IsDate(date) <=> (n = 365 => IsLeap(Y + 1))
    <3>1. /\ DayNumber(MarchDate(Y, n, m, s)) = MarchNumber(Y, n)
          /\ IsDate(MarchDate(Y, n, m, s)) <=> (n = 365 => IsLeap(Y + 1))
      <4>1. n \in Int /\ m \in Int /\ s \in Int /\ MonthBounds(n, m, s)
        BY <1>7, <1>8, <1>9, <2>2 DEF MonthBounds
      <4> QED
        BY <1>11, <4>1, DayOfYear
    <3> QED
      BY <1>10, <3>1 DEF MarchNumber
  <2>6. DayNumber(date) = days
    BY <1>1, <1>2, <1>3, <1>5, <1>6, <1>7, <1>11, <2>3, <2>5
  <2> QED
    BY <1>12, <2>4, <2>5, <2>6 DEF date
<1>13. CASE ~EraIsFound(days)
  <2>1. 146097 <= d /\ d <= 292192
    <3>1. shifted < -1 /\ (shifted + 1) % 146097 # 0
      BY <1>1, <1>13 DEF EraIsFound
    <3> QED
      BY <1>1, <3>1, DayOfWrongEra DEF era, d
  <2>2. 400 <= y /\ y <= 799 /\ 0 <= n /\ n <= 366
    BY <1>3, <1>4, <1>5, <1>6, <1>7, <2>1, YearOfWrongEra
  <2>3. CASE n = 366
    <3>1. m = 11 /\ s = 337
      BY <1>7, <1>8, <1>9, <2>3
    <3>2. date.month = 2 /\ date.day = 30
      BY <1>10, <2>3, <3>1 DEF MarchDate
    <3>3. ~IsDate(date)
      BY <3>2 DEF IsDate, DaysInMonth
    <3> QED
      BY <1>13, <3>3 DEF date
  <2>4. CASE n # 366
    <3>1. Y \div 4 = 100 * era + q /\ Y \div 100 = 4 * era + c /\ Y \div 400 = era + 1
      <4> DEFINE era1 == era + 1
                 y1 == y - 400
                 q1 == q - 100
                 c1 == c - 4
      <4>1. era1 \in Int /\ y1 \in Int /\ q1 \in Int /\ c1 \in Int /\ Y = 400 * era1 + y1
        BY <1>2, <1>5, <1>6, <1>11
      <4>2. /\ 0 <= y1 /\ y1 <= 399
            /\ 4 * q1 <= y1 /\ y1 < 4 * q1 + 4
            /\ 100 * c1 <= y1 /\ y1 < 100 * c1 + 100
        BY <1>5, <1>6, <2>2
      <4> HIDE DEF era1, y1, q1, c1
      <4>3. Y \div 4 = 100 * era1 + q1 /\ Y \div 100 = 4 * era1 + c1 /\ Y \div 400 = era1
        BY <1>11, <4>1, <4>2, QuotientsOfYear
      <4> QED
        BY <1>2, <1>6, <4>3 DEF era1, q1, c1
    <3>2. DayNumber(date) = 365 * Y + Y \div 4 - Y \div 100 + Y \div 400 + n - 719468
      <4>1. DayNumber(MarchDate(Y, n, m, s)) = MarchNumber(Y, n)
        <5>1. n \in Int /\ m \in Int /\ s \in Int /\ MonthBounds(n, m, s)
          BY <1>7, <1>8, <1>9, <2>2, <2>4 DEF MonthBounds
        <5> QED
          BY <1>11, <5>1, DayOfYear
      <4> QED
        BY <1>10, <4>1 DEF MarchNumber
    <3>3. DayNumber(date) = days + 1
      BY <1>1, <1>2, <1>3, <1>5, <1>6, <1>7, <1>11, <3>1, <3>2
    <3> QED
      BY <1>13, <3>3 DEF date
  <2> QED
    BY <2>3, <2>4
<1> QED
  BY <1>12, <1>13

-----------------------------------------------------------------------------
(* Parts joined *)

\* Sequences of one part joined to those of two and three.
LEMMA JoinPair ==
  ASSUME NEW a, NEW b
  PROVE  <<a>> \o <<b>> = <<a, b>>
<1> DEFINE joined == <<a>> \o <<b>>
<1>1. joined \in Seq({a, b}) /\ Len(joined) = 2 /\ joined[1] = a /\ joined[2] = b
  <2>1. <<a>> \in Seq({a, b}) /\ <<b>> \in Seq({a, b}) /\ Len(<<a>>) = 1 /\ Len(<<b>>) = 1
    OBVIOUS
  <2> QED
    BY <2>1
<1> HIDE DEF joined
<1>2. joined = <<a, b>>
  BY <1>1
<1> QED
  BY <1>2 DEF joined

\* A third part after two.
LEMMA JoinTriple ==
  ASSUME NEW a, NEW b, NEW c
  PROVE  <<a, b>> \o <<c>> = <<a, b, c>>
<1> DEFINE joined == <<a, b>> \o <<c>>
<1>1. /\ joined \in Seq({a, b, c}) /\ Len(joined) = 3
      /\ joined[1] = a /\ joined[2] = b /\ joined[3] = c
  <2>1. /\ <<a, b>> \in Seq({a, b, c}) /\ <<c>> \in Seq({a, b, c})
        /\ Len(<<a, b>>) = 2 /\ Len(<<c>>) = 1
    OBVIOUS
  <2> QED
    BY <2>1
<1> HIDE DEF joined
<1>2. joined = <<a, b, c>>
  BY <1>1
<1> QED
  BY <1>2 DEF joined

\* Parts that are left out leave nothing.
LEMMA JoinEmpty ==
  ASSUME NEW a, NEW b
  PROVE  /\ <<>> \o <<>> = <<>> /\ <<>> \o <<a>> = <<a>> /\ <<a>> \o <<>> = <<a>>
         /\ <<a, b>> \o <<>> = <<a, b>>
  OBVIOUS

\* The eight selections of three parts.
LEMMA Selection ==
  ASSUME NEW p, NEW places
  PROVE  /\ 1 \in places /\ 2 \in places /\ 3 \in places => Selected(p, places) = <<p[1], p[2], p[3]>>
         /\ 1 \in places /\ 2 \in places /\ 3 \notin places => Selected(p, places) = <<p[1], p[2]>>
         /\ 1 \in places /\ 2 \notin places /\ 3 \in places => Selected(p, places) = <<p[1], p[3]>>
         /\ 1 \notin places /\ 2 \in places /\ 3 \in places => Selected(p, places) = <<p[2], p[3]>>
         /\ 1 \in places /\ 2 \notin places /\ 3 \notin places => Selected(p, places) = <<p[1]>>
         /\ 1 \notin places /\ 2 \in places /\ 3 \notin places => Selected(p, places) = <<p[2]>>
         /\ 1 \notin places /\ 2 \notin places /\ 3 \in places => Selected(p, places) = <<p[3]>>
         /\ 1 \notin places /\ 2 \notin places /\ 3 \notin places => Selected(p, places) = <<>>
<1>1. CASE 1 \in places /\ 2 \in places /\ 3 \in places
  <2>1. Selected(p, places) = <<p[1]>> \o <<p[2]>> \o <<p[3]>>
    BY <1>1 DEF Selected
  <2>2. <<p[1]>> \o <<p[2]>> = <<p[1], p[2]>>
    BY JoinPair
  <2>3. <<p[1], p[2]>> \o <<p[3]>> = <<p[1], p[2], p[3]>>
    BY JoinTriple
  <2> QED
    BY <1>1, <2>1, <2>2, <2>3
<1>2. CASE 1 \in places /\ 2 \in places /\ 3 \notin places
  BY <1>2, JoinPair, JoinTriple, JoinEmpty DEF Selected
<1>3. CASE 1 \in places /\ 2 \notin places /\ 3 \in places
  BY <1>3, JoinPair, JoinTriple, JoinEmpty DEF Selected
<1>4. CASE 1 \notin places /\ 2 \in places /\ 3 \in places
  BY <1>4, JoinPair, JoinTriple, JoinEmpty DEF Selected
<1>5. CASE 1 \in places /\ 2 \notin places /\ 3 \notin places
  BY <1>5, JoinPair, JoinTriple, JoinEmpty DEF Selected
<1>6. CASE 1 \notin places /\ 2 \in places /\ 3 \notin places
  BY <1>6, JoinPair, JoinTriple, JoinEmpty DEF Selected
<1>7. CASE 1 \notin places /\ 2 \notin places /\ 3 \in places
  BY <1>7, JoinPair, JoinTriple, JoinEmpty DEF Selected
<1>8. CASE 1 \notin places /\ 2 \notin places /\ 3 \notin places
  BY <1>8, JoinPair, JoinTriple, JoinEmpty DEF Selected
<1> QED
  BY <1>1, <1>2, <1>3, <1>4, <1>5, <1>6, <1>7, <1>8

\* Which part of p each part of a selection is.
LEMMA Choice ==
  ASSUME NEW places \in SUBSET (1..3)
  PROVE  \E n \in 0..3 : \E at \in [1..n -> places] :
           /\ \A p : Selected(p, places) = [i \in 1..n |-> p[at[i]]]
           /\ \A k \in places : \E i \in 1..n : at[i] = k
           /\ \A i, j \in 1..n : at[i] = at[j] => i = j
<1>1. CASE 1 \in places /\ 2 \in places /\ 3 \in places
  <2> DEFINE at == <<1, 2, 3>>
  <2>1. \A p : Selected(p, places) = [i \in 1..3 |-> p[at[i]]]
    BY <1>1, Selection
  <2>2. at \in [1..3 -> places] /\ 3 \in 0..3
    BY <1>1
  <2>3. /\ \A k \in places : \E i \in 1..3 : at[i] = k
        /\ \A i, j \in 1..3 : at[i] = at[j] => i = j
    BY <1>1
  <2> QED
    BY <2>1, <2>2, <2>3
<1>2. CASE 1 \in places /\ 2 \in places /\ 3 \notin places
  <2> DEFINE at == <<1, 2>>
  <2>1. \A p : Selected(p, places) = [i \in 1..2 |-> p[at[i]]]
    BY <1>2, Selection
  <2>2. at \in [1..2 -> places] /\ 2 \in 0..3
    BY <1>2
  <2>3. /\ \A k \in places : \E i \in 1..2 : at[i] = k
        /\ \A i, j \in 1..2 : at[i] = at[j] => i = j
    BY <1>2
  <2> QED
    BY <2>1, <2>2, <2>3
<1>3. CASE 1 \in places /\ 2 \notin places /\ 3 \in places
  <2> DEFINE at == <<1, 3>>
  <2>1. \A p : Selected(p, places) = [i \in 1..2 |-> p[at[i]]]
    BY <1>3, Selection
  <2>2. at \in [1..2 -> places] /\ 2 \in 0..3
    BY <1>3
  <2>3. /\ \A k \in places : \E i \in 1..2 : at[i] = k
        /\ \A i, j \in 1..2 : at[i] = at[j] => i = j
    BY <1>3
  <2> QED
    BY <2>1, <2>2, <2>3
<1>4. CASE 1 \notin places /\ 2 \in places /\ 3 \in places
  <2> DEFINE at == <<2, 3>>
  <2>1. \A p : Selected(p, places) = [i \in 1..2 |-> p[at[i]]]
    BY <1>4, Selection
  <2>2. at \in [1..2 -> places] /\ 2 \in 0..3
    BY <1>4
  <2>3. /\ \A k \in places : \E i \in 1..2 : at[i] = k
        /\ \A i, j \in 1..2 : at[i] = at[j] => i = j
    BY <1>4
  <2> QED
    BY <2>1, <2>2, <2>3
<1>5. CASE 1 \in places /\ 2 \notin places /\ 3 \notin places
  <2> DEFINE at == <<1>>
  <2>1. \A p : Selected(p, places) = [i \in 1..1 |-> p[at[i]]]
    BY <1>5, Selection
  <2>2. at \in [1..1 -> places] /\ 1 \in 0..3
    BY <1>5
  <2>3. /\ \A k \in places : \E i \in 1..1 : at[i] = k
        /\ \A i, j \in 1..1 : at[i] = at[j] => i = j
    BY <1>5
  <2> QED
    BY <2>1, <2>2, <2>3
<1>6. CASE 1 \notin places /\ 2 \in places /\ 3 \notin places
  <2> DEFINE at == <<2>>
  <2>1. \A p : Selected(p, places) = [i \in 1..1 |-> p[at[i]]]
    BY <1>6, Selection
  <2>2. at \in [1..1 -> places] /\ 1 \in 0..3
    BY <1>6
  <2>3. /\ \A k \in places : \E i \in 1..1 : at[i] = k
        /\ \A i, j \in 1..1 : at[i] = at[j] => i = j
    BY <1>6
  <2> QED
    BY <2>1, <2>2, <2>3
<1>7. CASE 1 \notin places /\ 2 \notin places /\ 3 \in places
  <2> DEFINE at == <<3>>
  <2>1. \A p : Selected(p, places) = [i \in 1..1 |-> p[at[i]]]
    BY <1>7, Selection
  <2>2. at \in [1..1 -> places] /\ 1 \in 0..3
    BY <1>7
  <2>3. /\ \A k \in places : \E i \in 1..1 : at[i] = k
        /\ \A i, j \in 1..1 : at[i] = at[j] => i = j
    BY <1>7
  <2> QED
    BY <2>1, <2>2, <2>3
<1>8. CASE 1 \notin places /\ 2 \notin places /\ 3 \notin places
  <2> DEFINE at == <<>>
  <2>1. \A p : Selected(p, places) = [i \in 1..0 |-> p[at[i]]]
    BY <1>8, Selection
  <2>2. at \in [1..0 -> places] /\ 0 \in 0..3
    BY <1>8
  <2>3. /\ \A k \in places : \E i \in 1..0 : at[i] = k
        /\ \A i, j \in 1..0 : at[i] = at[j] => i = j
    BY <1>8
  <2> QED
    BY <2>1, <2>2, <2>3
<1> QED
  BY <1>1, <1>2, <1>3, <1>4, <1>5, <1>6, <1>7, <1>8

\* Selecting every part changes nothing, and selecting one gives it alone.
LEMMA SelectAll ==
  ASSUME NEW n \in 0..3, NEW p, p = [i \in 1..n |-> p[i]],
         NEW places, \A i \in 1..3 : i \in places <=> i <= n
  PROVE  Selected(p, places) = p
<1>1. CASE n = 0
  BY <1>1, Selection
<1>2. CASE n = 1
  BY <1>2, Selection
<1>3. CASE n = 2
  BY <1>3, Selection
<1>4. CASE n = 3
  BY <1>4, Selection
<1> QED
  BY <1>1, <1>2, <1>3, <1>4

\* A selection of one place has one part.
LEMMA SelectOne ==
  ASSUME NEW p, NEW i \in 1..3, NEW places, \A j \in 1..3 : j \in places <=> j = i
  PROVE  Selected(p, places) = <<p[i]>>
BY Selection

\* A selection of no place is empty.
LEMMA SelectNone ==
  ASSUME NEW p, NEW places, \A j \in 1..3 : j \notin places
  PROVE  Selected(p, places) = <<>>
BY Selection

\* The numbers of the roles, and that Rust reads them back.
LEMMA Roles ==
  /\ RoleCode("catalog") = 0 /\ RoleCode("database") = 1 /\ RoleCode("schema") = 2
  /\ RoleCode("dataset") = 3 /\ RoleCode("namespace") = 4 /\ RoleCode("object") = 5
  /\ \A role \in {"catalog", "database", "schema", "dataset", "namespace", "object"} :
       RoleFromRaw(RoleCode(role)) = <<role>>
<1>1. /\ RoleCode("catalog") = 0 /\ RoleCode("database") = 1 /\ RoleCode("schema") = 2
      /\ RoleCode("dataset") = 3 /\ RoleCode("namespace") = 4 /\ RoleCode("object") = 5
  BY DEF RoleCode
<1> QED
  BY <1>1 DEF RoleFromRaw

NamespaceRoles == {"schema", "dataset", "database"}

Filled(cells) == {i \in 1..3 : IsFilled(cells[i])}

\* The parts of a name in the C ABI, and in the backend and the bindings.
RawParts(role, cells) ==
  PartsOf(cells, <<RoleCode("catalog"), RoleCode(role), RoleCode("object")>>)
Parts(role, cells) == PartsOf(cells, <<"catalog", role, "object">>)

\* A name keeps the filled cells in order, and each its role: part i is of cell at[i].
FilledAt(n, at, cells, role) ==
  /\ n \in 0..3 /\ at \in [1..n -> Filled(cells)]
  /\ Selected(cells, Filled(cells)) = [i \in 1..n |-> cells[at[i]]]
  /\ RawParts(role, cells) =
       [i \in 1..n |-> [role |-> RoleCode(<<"catalog", role, "object">>[at[i]]),
                        text |-> cells[at[i]].text]]
  /\ Parts(role, cells) =
       [i \in 1..n |-> [role |-> <<"catalog", role, "object">>[at[i]],
                        text |-> cells[at[i]].text]]
  /\ \A k \in Filled(cells) : \E i \in 1..n : at[i] = k
  /\ \A i, j \in 1..n : at[i] = at[j] => i = j

\* The parts of a name are the filled cells, each once, with the roles of their places.
LEMMA PartsAreFilled ==
  ASSUME NEW cells, NEW role \in NamespaceRoles
  PROVE  \E n, at : FilledAt(n, at, cells, role)
<1>1. Filled(cells) \in SUBSET (1..3)
  BY DEF Filled
<1>2. PICK n, at :
        /\ n \in 0..3 /\ at \in [1..n -> Filled(cells)]
        /\ \A p : Selected(p, Filled(cells)) = [i \in 1..n |-> p[at[i]]]
        /\ \A k \in Filled(cells) : \E i \in 1..n : at[i] = k
        /\ \A i, j \in 1..n : at[i] = at[j] => i = j
  BY <1>1, Choice, ZenonT(40)
<1> DEFINE roles == <<"catalog", role, "object">>
           codes == <<RoleCode("catalog"), RoleCode(role), RoleCode("object")>>
           Both(r) == [i \in 1..3 |-> [role |-> r[i], text |-> cells[i].text]]
<1>3. \A r : PartsOf(cells, r) = Selected(Both(r), Filled(cells))
  BY DEF PartsOf, Filled
<1>4. \A i \in 1..n : at[i] \in 1..3
  BY <1>1, <1>2
<1> HIDE DEF Both, roles, codes
<1>5. \A r : PartsOf(cells, r) = [i \in 1..n |-> [role |-> r[at[i]], text |-> cells[at[i]].text]]
  <2> TAKE r
  <2>1. PartsOf(cells, r) = [i \in 1..n |-> Both(r)[at[i]]]
    BY <1>2, <1>3
  <2>2. \A i \in 1..n : Both(r)[at[i]] = [role |-> r[at[i]], text |-> cells[at[i]].text]
    BY <1>4 DEF Both
  <2> QED
    BY <2>1, <2>2
<1>6. \A i \in 1..3 : codes[i] = RoleCode(roles[i])
  BY DEF codes, roles
<1>7. RawParts(role, cells) =
        [i \in 1..n |-> [role |-> RoleCode(roles[at[i]]), text |-> cells[at[i]].text]]
  <2>1. RawParts(role, cells) = [i \in 1..n |-> [role |-> codes[at[i]], text |-> cells[at[i]].text]]
    BY <1>5 DEF RawParts, codes
  <2>2. \A i \in 1..n : codes[at[i]] = RoleCode(roles[at[i]])
    BY <1>4, <1>6
  <2> QED
    BY <2>1, <2>2
<1>8. Parts(role, cells) = [i \in 1..n |-> [role |-> roles[at[i]], text |-> cells[at[i]].text]]
  BY <1>5 DEF Parts, roles
<1>9. Selected(cells, Filled(cells)) = [i \in 1..n |-> cells[at[i]]]
  BY <1>2
<1>10. FilledAt(n, at, cells, role)
  BY <1>2, <1>7, <1>8, <1>9 DEF roles, FilledAt
<1> QED
  BY <1>10

\* The backend's text of a name has the texts of its parts.
LEMMA FormatOfParts ==
  ASSUME NEW cells, NEW role \in NamespaceRoles
  PROVE  /\ Format(Parts(role, cells)) = Texts(Parts(role, cells))
         /\ Format(Parts(role, cells)) = Texts(Selected(cells, Filled(cells)))
<1>1. PICK n, at : FilledAt(n, at, cells, role)
  BY PartsAreFilled
<1> DEFINE parts == Parts(role, cells)
           places == {i \in DOMAIN parts : parts[i].text # EmptyText}
<1>2. DOMAIN parts = 1..n /\ parts = [i \in 1..n |-> parts[i]]
  BY <1>1 DEF FilledAt
<1>3. \A i \in 1..n : parts[i].text = cells[at[i]].text /\ parts[i].text # EmptyText
  BY <1>1 DEF FilledAt, Filled, IsFilled
<1>4. \A i \in 1..3 : i \in places <=> i <= n
  BY <1>1, <1>2, <1>3 DEF FilledAt
<1> HIDE DEF parts, places
<1>5. Selected(parts, places) = parts
  BY <1>1, <1>2, <1>4, SelectAll DEF FilledAt
<1>6. Format(parts) = Texts(parts)
  BY <1>5 DEF Format, places
<1>7. Texts(parts) = [i \in 1..n |-> cells[at[i]].text]
  BY <1>2, <1>3 DEF Texts
<1>8. Texts(Selected(cells, Filled(cells))) = [i \in 1..n |-> cells[at[i]].text]
  BY <1>1 DEF FilledAt, Texts
<1> QED
  BY <1>6, <1>7, <1>8 DEF parts

\* Rust makes of the parts and the text it gets what the backend has.
LEMMA NameIsReadBack ==
  ASSUME NEW cells, NEW role \in NamespaceRoles
  PROVE  QualifiedNameFromRaw([parts |-> RawParts(role, cells),
                               formatted |-> Format(Parts(role, cells))])
           = [parts |-> Parts(role, cells), formatted |-> Format(Parts(role, cells))]
<1>1. PICK n, at : FilledAt(n, at, cells, role)
  BY PartsAreFilled
<1> DEFINE raw == RawParts(role, cells)
           parts == Parts(role, cells)
           roles == <<"catalog", role, "object">>
           places == {i \in DOMAIN raw : RoleFromRaw(raw[i].role) # <<>>}
<1>2. n \in 0..3 /\ \A i \in 1..n : at[i] \in 1..3
  BY <1>1 DEF FilledAt, Filled
<1>3. \A k \in 1..3 : RoleFromRaw(RoleCode(roles[k])) = <<roles[k]>>
  BY Roles DEF NamespaceRoles
<1>4. /\ DOMAIN raw = 1..n /\ raw = [i \in 1..n |-> raw[i]]
      /\ \A i \in 1..n : raw[i] = [role |-> RoleCode(roles[at[i]]), text |-> cells[at[i]].text]
      /\ parts = [i \in 1..n |-> [role |-> roles[at[i]], text |-> cells[at[i]].text]]
  BY <1>1 DEF FilledAt
<1> HIDE DEF raw, parts, roles
<1>5. \A i \in 1..n : RoleFromRaw(raw[i].role) = <<roles[at[i]]>>
  BY <1>2, <1>3, <1>4
<1>6. \A i \in 1..3 : i \in places <=> i <= n
  <2>1. \A i \in 1..n : RoleFromRaw(raw[i].role) # <<>>
    <3>1. \A r : <<r>> # <<>>
      OBVIOUS
    <3> QED
      BY <1>5, <3>1
  <2> QED
    BY <1>2, <1>4, <2>1
<1> HIDE DEF places
<1>7. Selected(raw, places) = raw
  BY <1>2, <1>4, <1>6, SelectAll
<1>8. [i \in DOMAIN raw |-> [raw[i] EXCEPT !.role = RoleFromRaw(@)[1]]] = parts
  <2>1. ASSUME NEW i \in 1..n
        PROVE  [raw[i] EXCEPT !.role = RoleFromRaw(@)[1]]
                 = [role |-> roles[at[i]], text |-> cells[at[i]].text]
    <3>1. raw[i] = [role |-> RoleCode(roles[at[i]]), text |-> cells[at[i]].text]
      BY <1>4
    <3>2. RoleFromRaw(raw[i].role)[1] = roles[at[i]]
      BY <1>5
    <3> QED
      BY <3>1, <3>2
  <2> QED
    BY <1>4, <2>1
<1> DEFINE known == Selected(raw, places)
<1>9. QualifiedNameFromRaw([parts |-> raw, formatted |-> Format(parts)])
        = [parts |-> parts, formatted |-> IF Format(parts) # <<>> THEN Format(parts)
                                          ELSE Format(parts)]
  <2>1. [i \in DOMAIN known |-> [known[i] EXCEPT !.role = RoleFromRaw(@)[1]]] = parts
    BY <1>7, <1>8
  <2> QED
    BY <2>1 DEF QualifiedNameFromRaw, places
<1> QED
  BY <1>9 DEF raw, parts

\* And finds the namespace by its role.
LEMMA NamespaceIsFound ==
  ASSUME NEW cells, NEW role \in NamespaceRoles
  PROVE  LET parts == Parts(role, cells)
         IN  Texts(Selected(parts, {i \in DOMAIN parts : parts[i].role = role}))
               = IF IsFilled(cells[2]) THEN <<cells[2].text>> ELSE <<>>
<1>1. PICK n, at : FilledAt(n, at, cells, role)
  BY PartsAreFilled
<1> DEFINE parts == Parts(role, cells)
           places == {i \in DOMAIN parts : parts[i].role = role}
<1>2. n \in 0..3 /\ \A i \in 1..n : at[i] \in 1..3
  BY <1>1 DEF FilledAt, Filled
<1>3. /\ DOMAIN parts = 1..n
      /\ \A i \in 1..n : /\ parts[i].role = role <=> at[i] = 2
                         /\ parts[i].text = cells[at[i]].text
  BY <1>1, <1>2 DEF FilledAt, NamespaceRoles
<1> HIDE DEF parts
<1>4. \A i \in 1..3 : i \in places <=> i <= n /\ at[i] = 2
  BY <1>2, <1>3
<1> HIDE DEF places
<1>5. CASE IsFilled(cells[2])
  <2>1. PICK i \in 1..n : at[i] = 2
    BY <1>1, <1>5 DEF FilledAt, Filled
  <2>2. i \in 1..3 /\ \A j \in 1..3 : j \in places <=> j = i
    BY <1>1, <1>2, <1>4, <2>1 DEF FilledAt
  <2>3. Selected(parts, places) = <<parts[i]>>
    BY <2>2, SelectOne
  <2> QED
    BY <1>3, <1>5, <2>1, <2>3 DEF Texts, parts, places
<1>6. CASE ~IsFilled(cells[2])
  <2>1. \A i \in 1..n : at[i] # 2
    BY <1>1, <1>6 DEF FilledAt, Filled
  <2>2. Selected(parts, places) = <<>>
    BY <1>2, <1>4, <2>1, SelectNone
  <2>3. Texts(<<>>) = <<>>
    BY DEF Texts
  <2> QED
    BY <1>6, <2>2, <2>3 DEF parts, places
<1> QED
  BY <1>5, <1>6

-----------------------------------------------------------------------------
(* Names *)

\* The row of tables as the backend builds it.
RoleCell(t) == [is_null |-> FALSE, text |-> TableNamespaceRole(t.vendor)]
NameCell(t) == [is_null |-> FALSE, text |-> FormatTableQualifiedName(t.vendor, t.cells)]
TableRow(t) == <<t.cells[1], t.cells[2], t.cells[3], RoleCell(t), NameCell(t)>>

\* The reader has copied the first n cells.
HasCopied(n) ==
  /\ copied \in Seq({row[i] : i \in 1..5})
  /\ Len(copied) = n
  /\ \A i \in 1..n : copied[i] = row[i]

Calls == {"none", "columns", "cells", "fill", "returned"}

\* A reader of names copies the cells of the row in order, and hands nothing over before it
\* has them all.
NameInv ==
  /\ table # Absent => table \in Tables /\ column = Absent
  /\ stage \in {"driver", "built", "closed"}
  /\ stage = "driver" => reader = Idle
  /\ reader \in [call : Calls, step : 0..4, index : {0, 1}]
  /\ table # Absent =>
       /\ stage # "driver" => row = TableRow(table)
       /\ reader.call \in {"none", "columns"} => copied = <<>>
       /\ reader.call = "cells" => HasCopied(reader.step)
       /\ reader.call = "fill" => HasCopied(5)
       /\ reader.call # "returned" => name = Cleared
  /\ NamesAreWhole

\* Five cells are three and two.
LEMMA JoinFive ==
  ASSUME NEW a, NEW b, NEW c, NEW d, NEW e
  PROVE  <<a, b, c>> \o <<d, e>> = <<a, b, c, d, e>>
<1> DEFINE joined == <<a, b, c>> \o <<d, e>>
           S == {a, b, c, d, e}
<1>1. /\ joined \in Seq(S) /\ Len(joined) = 5
      /\ joined[1] = a /\ joined[2] = b /\ joined[3] = c /\ joined[4] = d /\ joined[5] = e
  <2>1. <<a, b, c>> \in Seq(S) /\ <<d, e>> \in Seq(S) /\ Len(<<a, b, c>>) = 3 /\ Len(<<d, e>>) = 2
    OBVIOUS
  <2> QED
    BY <2>1
<1> HIDE DEF joined
<1>2. joined = <<a, b, c, d, e>>
  BY <1>1
<1> QED
  BY <1>2 DEF joined

\* PartsOf looks at three cells.
LEMMA SameParts ==
  ASSUME NEW cells, NEW others, \A i \in 1..3 : cells[i] = others[i], NEW roles
  PROVE  PartsOf(cells, roles) = PartsOf(others, roles)
<1>1. {i \in 1..3 : IsFilled(cells[i])} = {i \in 1..3 : IsFilled(others[i])}
  OBVIOUS
<1>2. [i \in 1..3 |-> [role |-> roles[i], text |-> cells[i].text]]
        = [i \in 1..3 |-> [role |-> roles[i], text |-> others[i].text]]
  OBVIOUS
<1> QED
  BY <1>1, <1>2 DEF PartsOf

\* A namespace of get_tables has one of the three roles of a namespace.
LEMMA RoleOfTables ==
  \A vendor : TableNamespaceRole(vendor) \in NamespaceRoles
BY DEF TableNamespaceRole, NamespaceRoles

\* Copying one more cell.
LEMMA CopyOne ==
  ASSUME NEW t, row = TableRow(t), NEW n \in 0..4, HasCopied(n),
         copied' = Append(copied, row[n + 1]), row' = row
  PROVE  HasCopied(n + 1)'
<1> DEFINE S == {row[i] : i \in 1..5}
<1>1. row[n + 1] \in S
  OBVIOUS
<1>2. copied \in Seq(S) /\ Len(copied) = n /\ \A i \in 1..n : copied[i] = row[i]
  BY DEF HasCopied
<1> HIDE DEF S
<1>3. copied' \in Seq(S) /\ Len(copied') = n + 1
      /\ \A i \in 1..n + 1 : copied'[i] = row[i]
  BY <1>1, <1>2
<1> QED
  BY <1>3 DEF HasCopied, S

\* What BuildTable builds.
LEMMA TableRows ==
  ASSUME NEW t \in Tables
  PROVE  t.cells \o <<RoleCell(t), NameCell(t)>> = TableRow(t)
<1>1. t.cells = <<t.cells[1], t.cells[2], t.cells[3]>>
  BY TablesAssumption
<1>2. <<t.cells[1], t.cells[2], t.cells[3]>> \o <<RoleCell(t), NameCell(t)>> = TableRow(t)
  BY JoinFive DEF TableRow
<1> QED
  BY <1>1, <1>2

\* A call that has not begun holds nothing.
LEMMA NameInit == Init => NameInv
<1> SUFFICES ASSUME Init
             PROVE  NameInv
  OBVIOUS
<1>1. reader = Idle /\ copied = <<>> /\ name = Cleared /\ stage = "driver"
  BY DEF Init
<1>2. table # Absent => table \in Tables /\ column = Absent
  BY DEF Init
<1> QED
  BY <1>1, <1>2 DEF NameInv, NamesAreWhole, Idle, Calls

\* NameInv is inductive: each read adds the next cell, and only fill hands over.
LEMMA NameStep == NameInv /\ [Next]_vars => NameInv'
<1> SUFFICES ASSUME NameInv, [Next]_vars
             PROVE  NameInv'
  OBVIOUS
<1> USE DEF NameInv
<1>1. CASE BuildValue
  BY <1>1 DEF BuildValue, NamesAreWhole
<1>2. CASE BuildTable
  <2>1. table \in Tables /\ stage = "driver" /\ reader = Idle
    BY <1>2 DEF BuildTable
  <2>2. PICK t \in Tables : t = table
    BY <2>1
  <2>3. t.cells \o <<RoleCell(t), NameCell(t)>> = TableRow(t)
    BY TableRows
  <2>4. row' = TableRow(table)
    BY <1>2, <2>2, <2>3 DEF BuildTable, RoleCell, NameCell
  <2> QED
    BY <1>2, <2>1, <2>4 DEF BuildTable, NamesAreWhole, Idle, TableRow, RoleCell, NameCell
<1>3. CASE CloseResultSet
  BY <1>3 DEF CloseResultSet, NamesAreWhole, HasCopied
<1>4. CASE ReadValue
  BY <1>4 DEF ReadValue, NamesAreWhole, Return, Idle, Calls
<1>5. CASE StartName
  BY <1>5 DEF StartName, NamesAreWhole, Idle, Calls
<1>6. CASE FindColumn
  <2>1. reader.call = "columns" /\ UNCHANGED <<column, table, stage, row, copied, name>>
    BY <1>6 DEF FindColumn
  <2>2. CASE /\ stage = "built" /\ table # Absent
             /\ reader' = IF reader.step < 4 THEN [reader EXCEPT !.step = @ + 1]
                          ELSE [reader EXCEPT !.call = "cells", !.step = 0]
             /\ UNCHANGED answer
    <3>1. /\ reader' \in [call : {"columns", "cells"}, step : 0..4, index : {0, 1}]
          /\ reader'.call = "cells" => reader'.step = 0
      <4>1. CASE reader.step < 4
        <5>1. reader' = [reader EXCEPT !.step = @ + 1]
          BY <2>2, <4>1
        <5> QED
          BY <2>1, <4>1, <5>1
      <4>2. CASE reader.step >= 4
        <5>1. reader' = [reader EXCEPT !.call = "cells", !.step = 0]
          BY <2>2, <4>2
        <5>2. reader' = [call |-> "cells", step |-> 0, index |-> reader.index]
          BY <5>1
        <5> QED
          BY <5>2
      <4> QED
        BY <4>1, <4>2
    <3>2. HasCopied(0)'
      BY <2>1, <2>2 DEF HasCopied
    <3> QED
      BY <2>1, <2>2, <3>1, <3>2 DEF NamesAreWhole, Calls
  <2>3. CASE (stage = "closed" \/ column # Absent) /\ Return("invalid_argument", Null)
    BY <2>1, <2>3 DEF NamesAreWhole, Return, Idle, Calls
  <2> QED
    BY <1>6, <2>2, <2>3 DEF FindColumn
<1>7. CASE ReadCell
  <2>1. reader.call = "cells" /\ UNCHANGED <<column, table, stage, row, name>>
    BY <1>7 DEF ReadCell
  <2>2. CASE /\ stage = "built" /\ reader.index = 0
             /\ copied' = Append(copied, row[reader.step + 1])
             /\ reader' = IF reader.step < 4 THEN [reader EXCEPT !.step = @ + 1]
                          ELSE [reader EXCEPT !.call = "fill"]
             /\ UNCHANGED answer
    <3>1. PICK n \in 0..4 : n = reader.step
      OBVIOUS
    <3>2. \/ n < 4 /\ reader' = [reader EXCEPT !.step = n + 1]
          \/ n = 4 /\ reader' = [reader EXCEPT !.call = "fill"]
      BY <2>2, <3>1
    <3>3. ASSUME table # Absent
          PROVE  HasCopied(n + 1)'
      <4>1. PICK t : t = table
        OBVIOUS
      <4>2. row = TableRow(t) /\ HasCopied(n)
        BY <2>1, <2>2, <3>1, <3>3, <4>1
      <4> QED
        BY <2>1, <2>2, <3>1, <4>2, CopyOne
    <3>4. CASE n < 4
      <4>1. reader' = [reader EXCEPT !.step = n + 1]
        BY <3>2, <3>4
      <4>2. /\ reader' \in [call : {"cells"}, step : 0..4, index : {0, 1}]
            /\ reader'.step = n + 1
        BY <2>1, <3>4, <4>1
      <4> QED
        BY <2>1, <2>2, <3>3, <4>2 DEF NamesAreWhole, Calls
    <3>5. CASE n = 4
      <4>1. reader' = [reader EXCEPT !.call = "fill"]
        BY <3>2, <3>5
      <4>2. reader' \in [call : {"fill"}, step : 0..4, index : {0, 1}]
        BY <4>1
      <4> QED
        BY <2>1, <2>2, <3>3, <3>5, <4>2 DEF NamesAreWhole, Calls
    <3> QED
      BY <3>4, <3>5
  <2>3. CASE /\ \/ stage = "closed" /\ Return("result_set_not_found", Null)
                \/ stage = "built" /\ reader.index > 0
                     /\ Return("row_index_out_of_bounds", Null)
             /\ UNCHANGED copied
    BY <2>1, <2>3 DEF NamesAreWhole, Return, Idle, Calls
  <2> QED
    BY <1>7, <2>2, <2>3 DEF ReadCell
<1>8. CASE Fill
  <2>1. reader.call = "fill" /\ UNCHANGED <<column, table, stage, row, copied>>
    BY <1>8 DEF Fill
  <2>2. CASE /\ stage = "built"
             /\ name' = [parts |-> PartsOf(copied, <<RoleCode("catalog"), RoleCode(copied[4].text),
                                                     RoleCode("object")>>),
                         formatted |-> copied[5].text]
             /\ Return("ok", Null)
    <3>1. ASSUME table # Absent
          PROVE  /\ copied[4].text = TableNamespaceRole(table.vendor)
                 /\ copied[5].text = FormatTableQualifiedName(table.vendor, table.cells)
                 /\ \A i \in 1..3 : copied[i] = table.cells[i]
      BY <2>1, <2>2, <3>1 DEF HasCopied, TableRow, RoleCell, NameCell
    <3>2. ASSUME table # Absent
          PROVE  \A roles : PartsOf(copied, roles) = PartsOf(table.cells, roles)
      <4>1. PICK cells, others : cells = copied /\ others = table.cells
        OBVIOUS
      <4> QED
        BY <3>1, <3>2, <4>1, SameParts
    <3> QED
      BY <2>1, <2>2, <3>1, <3>2 DEF NamesAreWhole, Return, Idle, Calls
  <2>3. CASE stage = "closed" /\ Return("ok", Null)
    BY <2>1, <2>3 DEF NamesAreWhole, Return, Idle, Calls
  <2>4. CASE stage = "closed" /\ Return("invalid_argument", Null) /\ UNCHANGED name
    BY <2>1, <2>4 DEF NamesAreWhole, Return, Idle, Calls
  <2> QED
    BY <1>8, <2>2, <2>3, <2>4 DEF Fill
<1>9. CASE UNCHANGED vars
  BY <1>9 DEF vars, NamesAreWhole, HasCopied
<1> QED
  BY <1>1, <1>2, <1>3, <1>4, <1>5, <1>6, <1>7, <1>8, <1>9 DEF Next

\* What a call for the name of a table holds after each of its ten reads
\* (aq_result_set_table_qualified_name), whoever closes the result set meanwhile.
THEOREM NameInvariant == Spec => []NameInv
BY NameInit, NameStep, PTL DEF Spec

\* The name of a table is handed over whole or not at all
\* (aq_result_set_table_qualified_name), unless the result set is closed behind it.
THEOREM NamesAreHandedOverWhole == Spec => []NamesAreWhole
<1>1. NameInv => NamesAreWhole
  BY DEF NameInv
<1> QED
  BY <1>1, NameInvariant, PTL

\* formatTableQualifiedName, the parts of the C ABI and table_qualified_name of Rust show
\* the same name, for every vendor and every pattern of null and empty cells.
THEOREM NamesAgreeEverywhere == Spec => []NamesAgree
<1>1. NameInv => NamesAgree
  <2> SUFFICES ASSUME NameInv, reader.call = "returned", answer.status = "ok",
                      table # Absent, stage = "built"
               PROVE  NamesAgree
    BY DEF NamesAgree
  <2>1. PICK cells, vendor : cells = table.cells /\ vendor = table.vendor
    OBVIOUS
  <2>2. PICK role \in NamespaceRoles : role = TableNamespaceRole(vendor)
    BY RoleOfTables
  <2>3. name = [parts |-> RawParts(role, cells), formatted |-> Format(Parts(role, cells))]
    BY <2>1, <2>2 DEF NameInv, NamesAreWhole, RawParts, Parts, FormatTableQualifiedName
  <2>4. QualifiedNameFromRaw(name)
          = [parts |-> Parts(role, cells), formatted |-> Format(Parts(role, cells))]
    BY <2>3, NameIsReadBack
  <2>5. /\ Format(Parts(role, cells)) = Texts(Parts(role, cells))
        /\ Format(Parts(role, cells)) = Texts(Selected(cells, Filled(cells)))
    BY FormatOfParts
  <2>6. Texts(Selected(Parts(role, cells),
                       {i \in DOMAIN Parts(role, cells) : Parts(role, cells)[i].role = role}))
          = IF IsFilled(cells[2]) THEN <<cells[2].text>> ELSE <<>>
    BY NamespaceIsFound
  <2>7. TableNamespaceRole(vendor) = MetadataNamespaceRole(vendor)
          <=> vendor \notin {"duckdb", "mssql", "trino", "databricks"}
    BY DEF TableNamespaceRole, MetadataNamespaceRole, SchemaVendors
  <2> DEFINE read == QualifiedNameFromRaw(name)
             namespaces == {i \in DOMAIN read.parts :
                              read.parts[i].role = TableNamespaceRole(table.vendor)}
  <2>8. read.parts = Parts(role, cells) /\ read.formatted = Format(Parts(role, cells))
    BY <2>4
  <2>9. read.formatted = Texts(read.parts)
    BY <2>5, <2>8
  <2>10. read.formatted
           = Texts(Selected(table.cells, {i \in 1..3 : IsFilled(table.cells[i])}))
    BY <2>1, <2>5, <2>8 DEF Filled
  <2>11. Texts(Selected(read.parts, namespaces))
           = IF IsFilled(table.cells[2]) THEN <<table.cells[2].text>> ELSE <<>>
    BY <2>1, <2>2, <2>6, <2>8
  <2> QED
    BY <2>1, <2>7, <2>9, <2>10, <2>11 DEF NamesAgree
<1> QED
  BY <1>1, NameInvariant, PTL

-----------------------------------------------------------------------------
(* Types and texts *)

IntegerFormats == {"c", "C", "s", "S", "i", "I", "l", "L"}
TimestampFormats == {"tss", "tsm", "tsu", "tsn"}

Types == {"int8", "uint8", "int16", "uint16", "int32", "uint32", "int64", "uint64",
          "float16", "float32", "float64", "boolean", "text", "binary", "decimal",
          "timestamp", "json", "date", "time", "interval", "duration", "uuid", "array",
          "map", "struct", "unknown"}

\* The types with a width.
LEMMA IntegerTypesAre ==
  IntegerTypes = {"int8", "uint8", "int16", "uint16", "int32", "uint32", "int64", "uint64"}
BY DEF IntegerTypes, Width

\* The formats of bytes.
LEMMA ByteFormatsAre ==
  /\ ByteFormats = TextFormats \cup BinaryFormats
  /\ BinaryFormats = {"z", "Z", "vz", "w"}
  /\ TextFormats \cap BinaryFormats = {}
BY DEF ByteFormats, TextFormats, BinaryFormats

\* Which formats have which types.
LEMMA FormatTypes ==
  ASSUME NEW f
  PROVE  /\ FormatType(f) \in Types
         /\ FormatType(f) \in IntegerTypes <=> f \in IntegerFormats
         /\ FormatType(f) = "boolean" <=> f = "b"
         /\ FormatType(f) = "float16" <=> f = "e"
         /\ FormatType(f) = "float32" <=> f = "f"
         /\ FormatType(f) = "float64" <=> f = "g"
         /\ FormatType(f) = "text" <=> f \in {"u", "U", "vu"}
         /\ FormatType(f) = "binary" <=> f \in {"z", "Z", "vz", "w"}
         /\ FormatType(f) = "date" <=> f \in {"tdD", "tdm"}
         /\ FormatType(f) = "timestamp" <=> f \in TimestampFormats \cup {"T"}
         /\ FormatType(f) = "interval" <=> f \in {"tiM", "tiD", "tin"}
         /\ FormatType(f) = "duration" <=> f \in {"tDs", "tDm", "tDu", "tDn"}
         /\ f = "n" => FormatType(f) = "unknown"
BY IntegerTypesAre, ZenonT(40)
DEF FormatType, Types, IntegerFormats, TimestampFormats, ListFormats

\* What becomes of a type on its way through the C ABI.
LEMMA TypeCodes ==
  \A type \in Types : ColumnTypeFromRaw(ColumnTypeCode(type)) = type
<1> DEFINE types == <<"boolean", "int64", "float64", "text", "binary", "decimal", "timestamp",
                      "json", "date", "time", "interval", "uuid", "array", "map", "struct",
                      "int8", "uint8", "int16", "uint16", "int32", "uint32", "uint64",
                      "float16", "float32", "duration">>
<1>1. ASSUME NEW type \in Types \ {"unknown"}
      PROVE  \E code \in 1..25 : types[code] = type
  BY DEF Types
<1>2. \A code \in 1..25 : ColumnTypeFromRaw(code) = types[code]
  BY DEF ColumnTypeFromRaw
<1>3. ASSUME NEW type \in Types \ {"unknown"}
      PROVE  ColumnTypeCode(type) = CHOOSE code \in 1..25 : types[code] = type
  BY DEF ColumnTypeCode
<1> HIDE DEF types
<1>4. ASSUME NEW type \in Types \ {"unknown"}
      PROVE  ColumnTypeCode(type) \in 1..25 /\ types[ColumnTypeCode(type)] = type
  BY <1>1, <1>3
<1>5. ColumnTypeFromRaw(ColumnTypeCode("unknown")) = "unknown"
  BY DEF ColumnTypeFromRaw, ColumnTypeCode
<1> QED
  BY <1>2, <1>4, <1>5

\* A column is a number, a Boolean, text or bytes only if its format says so.
LEMMA PlainTypes ==
  ASSUME NEW s
  PROVE  /\ PlainType(s) \in Types
         /\ PlainType(s) \in IntegerTypes \cup FloatTypes \cup {"boolean", "text", "binary"} =>
              /\ PlainType(s) = FormatType(s.format)
              /\ s.extension \notin {"arrow.json", "arrow.uuid"}
              /\ s.typname \notin {"date", "interval", "uuid", "time", "timetz", "json",
                                   "jsonb", "_int4"} \cup UnsupportedTypnames
<1>1. FormatType(s.format) \in Types
  BY FormatTypes
<1> QED
  BY <1>1, IntegerTypesAre DEF PlainType, Types, FloatTypes, UnsupportedTypnames

\* The texts of the formats that are neither temporal nor nested.
LEMMA ScalarTexts ==
  ASSUME NEW s, NEW value
  PROVE  /\ s.format \in IntegerFormats => ScalarText(s, value) = Text("int", value)
         /\ s.format = "b" => ScalarText(s, value) = Text("bool", value)
         /\ s.format \in {"f", "g"} => ScalarText(s, value) = Text("float", value)
         /\ s.format \in {"e", "n"} => ScalarText(s, value) = EmptyText
         /\ s.format \in {"z", "Z", "vz", "w"} =>
              ScalarText(s, value) = IF value = <<"">> THEN EmptyText ELSE Text("hex", value)
         /\ s.format \in {"u", "U", "vu"} =>
              ScalarText(s, value) = IF value = <<"">> THEN EmptyText ELSE Text("chars", value)
         /\ s.format = "T" => ScalarText(s, value) = Text("int", value)
         /\ s.format = "d256" => ScalarText(s, value) = Text("hex", value)
         /\ s.format = "d" => ScalarText(s, value) = Text("decimal", value)
         /\ ScalarText(s, value) \in {EmptyText, Text("bool", value), Text("int", value),
                                      Text("float", value), Text("chars", value),
                                      Text("hex", value), Text("decimal", value)}
<1> DEFINE f == s.format
           integer == FormatType(f) \in IntegerTypes
           bytes == IF value = <<"">> THEN EmptyText
                    ELSE Text(IF f \in {"u", "U", "vu"} THEN "chars" ELSE "hex", value)
<1>1. integer <=> f \in IntegerFormats
  BY FormatTypes
<1>2. ScalarText(s, value) =
        CASE f = "b" -> Text("bool", value)
          [] integer \/ f = "T" -> Text("int", value)
          [] f \in {"f", "g"} -> Text("float", value)
          [] f \in ByteFormats -> bytes
          [] f = "d256" -> Text("hex", value)
          [] f = "d" -> Text("decimal", value)
          [] OTHER -> EmptyText
  BY DEF ScalarText
<1> HIDE DEF f, integer, bytes
<1>3. f = "b" => ScalarText(s, value) = Text("bool", value)
  BY <1>1, <1>2 DEF IntegerFormats, ByteFormats
<1>4. f \in IntegerFormats \cup {"T"} => ScalarText(s, value) = Text("int", value)
  BY <1>1, <1>2 DEF IntegerFormats, ByteFormats
<1>5. f \in {"f", "g"} => ScalarText(s, value) = Text("float", value)
  BY <1>1, <1>2 DEF IntegerFormats, ByteFormats
<1>6. f \in ByteFormats => ScalarText(s, value) = bytes
  BY <1>1, <1>2 DEF IntegerFormats, ByteFormats
<1>7. /\ f = "d256" => ScalarText(s, value) = Text("hex", value)
      /\ f = "d" => ScalarText(s, value) = Text("decimal", value)
  BY <1>1, <1>2 DEF IntegerFormats, ByteFormats
<1>8. f \notin IntegerFormats \cup ByteFormats \cup {"T", "b", "f", "g", "d", "d256"} =>
        ScalarText(s, value) = EmptyText
  BY <1>1, <1>2 DEF IntegerFormats, ByteFormats
<1>9. f \in {"e", "n"} => ScalarText(s, value) = EmptyText
  BY <1>8 DEF IntegerFormats, ByteFormats
<1>10. f \in {"z", "Z", "vz", "w"} =>
         ScalarText(s, value) = IF value = <<"">> THEN EmptyText ELSE Text("hex", value)
  BY <1>6 DEF ByteFormats, bytes
<1>11. bytes \in {EmptyText, Text("chars", value), Text("hex", value)}
  BY DEF bytes
<1>12. ScalarText(s, value) \in {EmptyText, Text("bool", value), Text("int", value),
                                 Text("float", value), Text("chars", value),
                                 Text("hex", value), Text("decimal", value)}
  BY <1>3, <1>4, <1>5, <1>6, <1>7, <1>8, <1>11
<1>13. f \in {"u", "U", "vu"} =>
         ScalarText(s, value) = IF value = <<"">> THEN EmptyText ELSE Text("chars", value)
  BY <1>6 DEF ByteFormats, bytes
<1> QED
  BY <1>3, <1>4, <1>5, <1>7, <1>9, <1>10, <1>12, <1>13 DEF f

\* What is printed of the numbers, Booleans and bytes, and what is not printed so.
LEMMA PlainTexts ==
  ASSUME NEW s, NEW value
  PROVE  /\ PlainType(s) \in IntegerTypes => PlainText(s, value) = Text("int", value)
         /\ PlainType(s) = "boolean" => PlainText(s, value) = Text("bool", value)
         /\ PlainType(s) \in {"float32", "float64"} => PlainText(s, value) = Text("float", value)
         /\ PlainType(s) = "float16" => PlainText(s, value) = EmptyText
         /\ PlainType(s) = "binary" /\ s.typname \notin OidLikeTypnames =>
              PlainText(s, value) = IF value = <<"">> THEN EmptyText ELSE Text("hex", value)
<1>1. CASE PlainType(s) \in IntegerTypes \cup FloatTypes \cup {"boolean"}
  <2>1. s.format \in IntegerFormats \cup {"b", "e", "f", "g"}
    BY <1>1, PlainTypes, FormatTypes DEF FloatTypes
  <2>2. ~IsOpaque(s) /\ ~IsTemporal(s)
    BY <1>1, <2>1, PlainTypes, IntegerTypesAre
    DEF IsOpaque, ByteFormats, IntegerFormats, IsTemporal, TemporalTypes, FloatTypes
  <2>3. PlainText(s, value) = ScalarText(s, value)
    BY <2>2 DEF PlainText
  <2>4. FormatType(s.format) = PlainType(s)
    BY <1>1, PlainTypes
  <2> QED
    <3> DEFINE f == s.format
               scalar == ScalarText(s, value)
    <3>a. /\ f \in IntegerFormats => scalar = Text("int", value)
          /\ f = "b" => scalar = Text("bool", value)
          /\ f \in {"f", "g"} => scalar = Text("float", value)
          /\ f = "e" => scalar = EmptyText
      BY ScalarTexts
    <3>b. /\ FormatType(f) \in IntegerTypes <=> f \in IntegerFormats
          /\ FormatType(f) = "boolean" <=> f = "b"
          /\ FormatType(f) = "float16" <=> f = "e"
          /\ FormatType(f) = "float32" <=> f = "f"
          /\ FormatType(f) = "float64" <=> f = "g"
      BY FormatTypes
    <3>c. PlainText(s, value) = scalar /\ FormatType(f) = PlainType(s)
      BY <2>3, <2>4
    <3> HIDE DEF f, scalar
    <3>1. PlainType(s) \in IntegerTypes => PlainText(s, value) = Text("int", value)
      BY <3>a, <3>b, <3>c
    <3>2. PlainType(s) = "boolean" => PlainText(s, value) = Text("bool", value)
      BY <3>a, <3>b, <3>c
    <3>3. PlainType(s) \in {"float32", "float64"} => PlainText(s, value) = Text("float", value)
      BY <3>a, <3>b, <3>c
    <3>4. PlainType(s) = "float16" => PlainText(s, value) = EmptyText
      BY <3>a, <3>b, <3>c
    <3>5. PlainType(s) # "binary"
      BY <1>1, IntegerTypesAre DEF FloatTypes
    <3> QED
      BY <3>1, <3>2, <3>3, <3>4, <3>5
<1>2. CASE PlainType(s) = "binary"
  <2>1. s.format \in {"z", "Z", "vz", "w"}
    BY <1>2, PlainTypes, FormatTypes
  <2>2. s.typname \notin {"uuid"} \cup UnsupportedTypnames /\ FormatType(s.format) = "binary"
    BY <1>2, PlainTypes
  <2>3. s.typname \notin OidLikeTypnames => ~IsOpaque(s)
    BY <2>2 DEF IsOpaque
  <2>4. ~IsTemporal(s)
    BY <2>2 DEF IsTemporal, TemporalTypes
  <2>5. ScalarText(s, value) = IF value = <<"">> THEN EmptyText ELSE Text("hex", value)
    BY <2>1, ScalarTexts
  <2> QED
    BY <1>2, <2>3, <2>4, <2>5, IntegerTypesAre DEF PlainText, FloatTypes
<1> QED
  BY <1>1, <1>2 DEF FloatTypes

\* Where the text of a cell comes from.
LEMMA CellTexts ==
  ASSUME NEW schema \in Schemas, NEW value
  PROVE  /\ ColumnType(schema) = PlainType(Printed(schema))
         /\ \/ CellText(schema, value) = PlainText(Printed(schema), value)
            \/ /\ schema.dictionary = <<>> /\ schema.child # <<>>
               /\ Printed(schema) = schema
               /\ schema.format \in ListFormats \cup {"+s", "+m"}
               /\ CellText(schema, value) = NestedText(schema, value)
<1>1. schema.child # <<>> <=> schema.format \in NestedFormats
  BY SchemasAssumption
<1> QED
  BY <1>1 DEF ColumnType, Printed, CellText, NestedFormats

\* A column with elements is none of the types that are read as numbers, Booleans or bytes.
LEMMA NestedTypes ==
  ASSUME NEW s, s.format \in ListFormats \cup {"+s", "+m"}
  PROVE  PlainType(s) \notin IntegerTypes \cup FloatTypes \cup {"boolean", "text", "binary"}
<1>1. FormatType(s.format) \in {"array", "struct", "map"}
  BY DEF FormatType, ListFormats
<1> QED
  BY <1>1, PlainTypes, IntegerTypesAre DEF FloatTypes

-----------------------------------------------------------------------------
(* Values *)

\* A column of Init.
IsColumn(col) ==
  \E schema \in Schemas, offset, root_offset \in {0, 1} :
    \E value \in ValuesOf(schema), null \in BOOLEAN :
      /\ schema.format = "n" => null
      /\ col = Column(schema, [null |-> null, value |-> value], offset, root_offset)

Code(col) == ColumnTypeCode(ColumnType(col.schema))

\* The row holds the cell of the column, and what a program got came from there.
ValueInv ==
  column # Absent =>
    /\ table = Absent
    /\ IsColumn(column)
    /\ stage \in {"driver", "built", "closed"}
    /\ stage = "driver" => reader = Idle
    /\ stage # "driver" => row = <<CellFromArrow(column)>>
    /\ reader.call \in {"none", "columns", "returned"}
    /\ answer.status = "ok" =>
         stage # "driver" /\ answer.value = RustValue(CellFromArrow(column), Code(column))

\* A row that has not been built holds nothing.
LEMMA ValueInit == Init => ValueInv
<1> SUFFICES ASSUME Init, column # Absent
             PROVE  ValueInv
  BY DEF ValueInv
<1>1. IsColumn(column) /\ table = Absent
  BY DEF Init, IsColumn
<1>2. stage = "driver" /\ reader = Idle /\ answer = NoAnswer
  BY DEF Init
<1> QED
  BY <1>1, <1>2 DEF ValueInv, Idle, NoAnswer

\* ValueInv is inductive: no step changes a row that has been built.
LEMMA ValueStep == ValueInv /\ [Next]_vars => ValueInv'
<1> SUFFICES ASSUME ValueInv, [Next]_vars, column' # Absent
             PROVE  ValueInv'
  BY DEF ValueInv
<1>0. column' = column
  BY DEF Next, vars, BuildValue, BuildTable, CloseResultSet, ReadValue, StartName, FindColumn,
         ReadCell, Fill
<1> USE <1>0 DEF ValueInv
<1>1. CASE BuildValue
  BY <1>1 DEF BuildValue, Idle
<1>2. CASE BuildTable
  BY <1>2 DEF BuildTable
<1>3. CASE CloseResultSet
  BY <1>3 DEF CloseResultSet
<1>4. CASE ReadValue
  BY <1>4 DEF ReadValue, Return, Idle, Code
<1>5. CASE StartName
  BY <1>5 DEF StartName
<1>6. CASE FindColumn
  BY <1>6 DEF FindColumn, Return, Idle
<1>7. CASE ReadCell
  BY <1>7 DEF ReadCell
<1>8. CASE Fill
  BY <1>8 DEF Fill
<1>9. CASE UNCHANGED vars
  BY <1>9 DEF vars
<1> QED
  BY <1>1, <1>2, <1>3, <1>4, <1>5, <1>6, <1>7, <1>8, <1>9 DEF Next

\* A row is what cellFromArrow made of the array, and Rust's answer is what its value
\* reads of that row.
THEOREM ValueInvariant == Spec => []ValueInv
BY ValueInit, ValueStep, PTL DEF Spec

\* What there is to know of a column.
LEMMA Columns ==
  ASSUME NEW col, IsColumn(col)
  PROVE  /\ col.schema \in Schemas
         /\ col.offset \in {0, 1} /\ col.root_offset \in {0, 1}
         /\ SlotOf(col) \in 1..3
         /\ \A i \in 1..3 : col.slots[i].value \in ValuesOf(col.schema)
         /\ col.schema.format = "n" => Item(col).null
<1>1. PICK schema \in Schemas, offset, root_offset \in {0, 1} :
        \E value \in ValuesOf(schema), null \in BOOLEAN :
          /\ schema.format = "n" => null
          /\ col = Column(schema, [null |-> null, value |-> value], offset, root_offset)
  BY DEF IsColumn
<1>2. PICK value \in ValuesOf(schema), null \in BOOLEAN :
        /\ schema.format = "n" => null
        /\ col = Column(schema, [null |-> null, value |-> value], offset, root_offset)
  BY <1>1
<1>3. (CHOOSE v \in ValuesOf(schema) : TRUE) \in ValuesOf(schema)
  BY <1>2
<1>4. /\ col.schema = schema /\ col.offset = offset /\ col.root_offset = root_offset
      /\ \A i \in 1..3 :
           col.slots[i] = IF i = 1 + offset + root_offset THEN [null |-> null, value |-> value]
                          ELSE [null |-> ~null, value |-> CHOOSE v \in ValuesOf(schema) : TRUE]
  BY <1>2 DEF Column
<1>5. \A i \in 1..3 : col.slots[i].value \in ValuesOf(schema)
  BY <1>3, <1>4
<1>6. SlotOf(col) \in 1..3
  BY <1>4 DEF SlotOf
<1>7. Item(col) = [null |-> null, value |-> value]
  BY <1>4 DEF Item
<1> QED
  BY <1>2, <1>4, <1>5, <1>6, <1>7

\* What Rust makes of a cell.
LEMMA RustReads ==
  ASSUME NEW cell, NEW type \in Types
  PROVE  RustValue(cell, ColumnTypeCode(type)) =
           IF cell.is_null \/ cell.text = EmptyText THEN Null ELSE DecodeText(cell.text, type)
<1>1. ColumnTypeFromRaw(ColumnTypeCode(type)) = type
  BY TypeCodes
<1>2. \A text : <<text>> # <<>> /\ <<text>>[1] = text
  OBVIOUS
<1> QED
  BY <1>1, <1>2 DEF RustValue, BytesToString

\* A text is decoded to a value that is not null.
LEMMA Decoded ==
  ASSUME NEW text, NEW type
  PROVE  /\ DecodeText(text, type) # Null
         /\ type \notin IntegerTypes \cup FloatTypes \cup {"boolean", "binary"} =>
              DecodeText(text, type) = AsText(text)
<1>1. \A kind, of : kind # "null" => Value(kind, of) # Null
  BY DEF Value, Null
<1>2. AsText(text) # Null
  BY <1>1 DEF AsText
<1>3. CASE type = "boolean"
  BY <1>1, <1>2, <1>3, IntegerTypesAre DEF DecodeText, Boolean
<1>4. CASE type \in IntegerTypes
  <2>1. DecodeText(text, type) = ParseInteger(text, type)
    BY <1>4, IntegerTypesAre DEF DecodeText
  <2> QED
    BY <1>1, <1>2, <1>4, <2>1, IntegerTypesAre DEF ParseInteger
<1>5. CASE type \in FloatTypes
  BY <1>1, <1>2, <1>5, IntegerTypesAre DEF DecodeText, FloatTypes
<1>6. CASE type = "binary"
  BY <1>1, <1>2, <1>6, IntegerTypesAre DEF DecodeText, DecodeHex
<1>7. CASE type \notin IntegerTypes \cup FloatTypes \cup {"boolean", "binary"}
  BY <1>2, <1>7 DEF DecodeText, FloatTypes
<1> QED
  BY <1>3, <1>4, <1>5, <1>6, <1>7

\* The dates and timestamps among the texts.
LEMMA DateTexts ==
  ASSUME NEW s, NEW value, PlainText(s, value).form \in {"date", "timestamp"}
  PROVE  /\ IsTemporal(s)
         /\ PlainText(s, value).of[1] =
              CivilFromDays(CASE s.format = "tdD" -> value[1]
                              [] s.format = "tdm" ->
                                   value[1] \div (UnitsPerSecond["m"] * seconds_per_day)
                              [] OTHER -> value[1] \div
                                   (UnitsPerSecond[UnitOf(s.format)] * seconds_per_day))
<1>1. ~IsOpaque(s)
  BY DEF PlainText, OpaqueText, EmptyText, Text
<1>2. ScalarText(s, value).form \notin {"date", "timestamp"}
  <2>1. \A form, of : Text(form, of).form = form
    BY DEF Text
  <2>2. EmptyText.form = "empty"
    BY DEF EmptyText, Text
  <2>3. ScalarText(s, value) \in {EmptyText, Text("bool", value), Text("int", value),
                                  Text("float", value), Text("chars", value),
                                  Text("hex", value), Text("decimal", value)}
    BY ScalarTexts
  <2> QED
    BY <2>1, <2>2, <2>3
<1>3. IsTemporal(s) /\ PlainText(s, value) = TemporalText(s.format, value)
  BY <1>1, <1>2 DEF PlainText
<1> DEFINE f == s.format
           type == FormatType(f)
<1>4. type \in TemporalTypes /\ f # "T"
  BY <1>3 DEF IsTemporal
<1>5. \A form, of : Text(form, of).form = form /\ Text(form, of).of = of
  BY DEF Text
<1>6. CASE f = "tdD"
  <2>1. TemporalText(f, value) = Text("date", <<CivilFromDays(value[1])>>)
    <3>1. type = "date"
      BY <1>6, FormatTypes
    <3> QED
      BY <1>6, <3>1 DEF TemporalText
  <2> QED
    BY <1>3, <1>5, <1>6, <2>1
<1>7. CASE f = "tdm"
  <2>1. TemporalText(f, value) =
          Text("date", <<CivilFromDays(value[1] \div (UnitsPerSecond["m"] * seconds_per_day))>>)
    <3>1. type = "date"
      BY <1>7, FormatTypes
    <3> QED
      BY <1>7, <3>1 DEF TemporalText
  <2> QED
    BY <1>3, <1>5, <1>7, <2>1
<1>8. CASE type = "timestamp"
  <2>1. f \notin {"tdD", "tdm", "tiM", "tiD", "tin"}
    BY <1>8, FormatTypes DEF TimestampFormats
  <2> QED
    BY <1>3, <1>8, <2>1 DEF TemporalText, Text, FormatTimestampValue
<1>9. ASSUME type \in {"time", "duration", "interval"}
      PROVE  FALSE
  <2> DEFINE text == TemporalText(f, value)
             Unit1 == UnitOf(f)
             Printed1(form, v) == IF v = Panic THEN Text("panic", <<>>) ELSE Text(form, v)
  <2>1. \A v : /\ Printed1("time", v).form \in {"panic", "time"}
               /\ Printed1("interval", v).form \in {"panic", "interval"}
    BY <1>5
  <2> HIDE DEF Printed1
  <2>2. type = "time" => text = Printed1("time", FormatTimeOfDay(value[1], Unit1))
    <3>1. ASSUME type = "time"
          PROVE  f \notin {"tdD", "tdm", "tiM", "tiD", "tin"}
      BY <3>1, FormatTypes
    <3> QED
      BY <3>1 DEF TemporalText, Printed1
  <2>3. type = "duration" =>
          text = IF f = "tDs" THEN Text("seconds", value)
                 ELSE Printed1("interval", FormatArrowDuration(value[1], Unit1))
    <3>1. ASSUME type = "duration"
          PROVE  f \notin {"tdD", "tdm", "tiM", "tiD", "tin"}
      BY <3>1, FormatTypes
    <3> QED
      BY <3>1 DEF TemporalText, Printed1
  <2>4. ASSUME type = "interval"
        PROVE  \E v : text = Printed1("interval", v)
    <3>1. f \in {"tiM", "tiD", "tin"}
      BY <2>4, FormatTypes
    <3> QED
      BY <2>4, <3>1 DEF TemporalText, Printed1
  <2>5. text.form \in {"panic", "time", "interval", "seconds"}
    BY <1>5, <1>9, <2>1, <2>2, <2>3, <2>4
  <2> QED
    BY <1>3, <2>5
<1> QED
  BY <1>3, <1>4, <1>6, <1>7, <1>8, <1>9, FormatTypes DEF TemporalTypes

\* Dates and timestamps are right for exactly the days civilFromDays finds, whatever the
\* unit, the dictionary or the offset of the column.
THEOREM DatesAreRightAlways == Spec => []DatesAreRight
<1>1. ValueInv => DatesAreRight
  <2> SUFFICES ASSUME ValueInv, column # Absent, stage # "driver", ~row[1].is_null,
                      row[1].text.form \in {"date", "timestamp"}
               PROVE  DatesAreRight
    BY DEF DatesAreRight
  <2>1. PICK col : col = column
    OBVIOUS
  <2>2. IsColumn(col) /\ row[1] = CellFromArrow(col)
    BY <2>1 DEF ValueInv
  <2>3. PICK value : value = col.slots[SlotOf(col)].value
    OBVIOUS
  <2>4. PICK schema \in Schemas : schema = col.schema
    BY <2>2, Columns
  <2>5. value \in ValuesOf(schema)
    BY <2>2, <2>3, <2>4, Columns
  <2>6. row[1].text = CellText(schema, value)
    BY <2>2, <2>3, <2>4 DEF CellFromArrow
  <2>7. CellText(schema, value) = PlainText(Printed(schema), value)
    <3>1. \/ CellText(schema, value) = PlainText(Printed(schema), value)
          \/ CellText(schema, value) = NestedText(schema, value)
      BY CellTexts
    <3>2. NestedText(schema, value).form \in {"json", "broken"}
      BY DEF NestedText, Text
    <3> QED
      BY <2>6, <3>1, <3>2
  <2> DEFINE printed == Printed(schema)
             divisor == CASE printed.format = "tdD" -> 1
                          [] printed.format = "tdm" -> UnitsPerSecond["m"] * seconds_per_day
                          [] OTHER -> UnitsPerSecond[UnitOf(printed.format)] * seconds_per_day
  <2>8. PlainText(printed, value).form \in {"date", "timestamp"}
    BY <2>6, <2>7
  <2>9. value[1] \in Int
    <3>1. IsTemporal(printed)
      BY <2>8, DateTexts
    <3> QED
      BY <2>5, <3>1, ValuesAssumption
  <2>10. divisor \in Nat \ {0}
    BY UnitsAssumption DEF UnitOf, Unit, seconds_per_day
  <2>11. PICK days \in Int : days = value[1] \div divisor
    <3> HIDE DEF divisor
    <3> QED
      BY <2>9, <2>10
  <2>12. row[1].text.of[1] = CivilFromDays(days)
    <3>1. printed.format = "tdD" => value[1] \div 1 = value[1]
      BY <2>9
    <3>2. PlainText(printed, value).of[1] = CivilFromDays(value[1] \div divisor)
      BY <2>8, <3>1, DateTexts
    <3> QED
      BY <2>6, <2>7, <2>11, <3>2
  <2>13. EraIsFound(days)
           <=> IsDate(CivilFromDays(days)) /\ DayNumber(CivilFromDays(days)) = days
    BY CivilFromDaysIsRight
  <2>14. DatesAreRight <=>
           (EraIsFound(value[1] \div divisor)
              <=> IsDate(row[1].text.of[1]) /\ DayNumber(row[1].text.of[1]) = value[1] \div divisor)
    BY <2>1, <2>3, <2>4 DEF DatesAreRight
  <2> QED
    BY <2>11, <2>12, <2>13, <2>14
<1> QED
  BY <1>1, ValueInvariant, PTL

\* The type of a column and the text of its first row, by what is printed.
LEMMA ReadTexts ==
  ASSUME NEW schema \in Schemas, NEW value \in ValuesOf(schema),
         NEW type, type = ColumnType(schema), NEW text, text = CellText(schema, value)
  PROVE  /\ type \in Types
         /\ type \in IntegerTypes => text = Text("int", value) /\ Fits(value, type)
         /\ type = "boolean" => text = Text("bool", value)
         /\ type \in {"float32", "float64"} => text = Text("float", value)
         /\ type = "float16" => text = EmptyText
         /\ type = "binary" /\ Printed(schema).typname \notin OidLikeTypnames =>
              text = IF value = <<"">> THEN EmptyText ELSE Text("hex", value)
<1> DEFINE s == Printed(schema)
<1>1. type = PlainType(s) /\ type \in Types
  BY CellTexts, PlainTypes
<1>2. ASSUME type \in IntegerTypes \cup FloatTypes \cup {"boolean", "binary"}
      PROVE  text = PlainText(s, value) /\ type = FormatType(s.format)
  <2>1. \/ text = PlainText(s, value)
        \/ s = schema /\ schema.format \in ListFormats \cup {"+s", "+m"}
    BY CellTexts
  <2>2. s.format \notin ListFormats \cup {"+s", "+m"}
    BY <1>1, <1>2, NestedTypes
  <2>3. type = FormatType(s.format)
    BY <1>1, <1>2, PlainTypes
  <2> QED
    BY <2>1, <2>2, <2>3
<1>3. type \in IntegerTypes => text = Text("int", value)
  BY <1>1, <1>2, PlainTexts
<1>4. type \in IntegerTypes => Fits(value, type)
  BY <1>2, ValuesAssumption
<1>5. type = "boolean" => text = Text("bool", value)
  BY <1>1, <1>2, PlainTexts
<1>6. /\ type \in {"float32", "float64"} => text = Text("float", value)
      /\ type = "float16" => text = EmptyText
  BY <1>1, <1>2, PlainTexts DEF FloatTypes
<1>7. type = "binary" /\ s.typname \notin OidLikeTypnames =>
        text = IF value = <<"">> THEN EmptyText ELSE Text("hex", value)
  BY <1>1, <1>2, PlainTexts
<1> QED
  BY <1>1, <1>3, <1>4, <1>5, <1>6, <1>7

\* Rust gives back the value a text was made from.
LEMMA RustKeeps ==
  ASSUME NEW schema \in Schemas, NEW value \in ValuesOf(schema),
         NEW type, type = ColumnType(schema), NEW text, text = CellText(schema, value),
         text # EmptyText, ~Misfits(Printed(schema), value)
  PROVE  /\ type \in IntegerTypes \cup {"boolean", "binary", "float64"} =>
              DecodeText(text, type) = Value(type, value)
         /\ type \in {"float16", "float32"} => DecodeText(text, type) = Value("float32", value)
<1>0. \A form, of : Text(form, of).form = form /\ Text(form, of).of = of
  BY DEF Text
<1>1. CASE type \in IntegerTypes
  <2>1. text = Text("int", value) /\ Fits(value, type)
    BY <1>1, ReadTexts
  <2>2. DecodeText(text, type) = ParseInteger(text, type)
    BY <1>1, IntegerTypesAre DEF DecodeText
  <2>3. ParseInteger(text, type) = Value(type, value)
    BY <1>0, <2>1 DEF ParseInteger
  <2> QED
    BY <1>1, <2>2, <2>3, IntegerTypesAre
<1>2. CASE type = "boolean"
  <2>1. text = Text("bool", value)
    BY <1>2, ReadTexts
  <2>2. DecodeText(text, type) = Value("boolean", value)
    BY <1>0, <1>2, <2>1, IntegerTypesAre DEF DecodeText, IsBoolean, Boolean
  <2> QED
    BY <1>2, <2>2
<1>3. CASE type \in {"float32", "float64"}
  <2>1. text = Text("float", value)
    BY <1>3, ReadTexts
  <2>2. IsFloat(text) /\ text.of = value
    BY <1>0, <2>1 DEF IsFloat
  <2>3. DecodeText(text, type) = Value(type, value)
    BY <1>3, <2>2, IntegerTypesAre DEF DecodeText
  <2> QED
    BY <1>3, <2>3, IntegerTypesAre
<1>4. type # "float16"
  BY ReadTexts
<1>5. CASE type = "binary"
  <2>1. Printed(schema).format \in {"z", "Z", "vz", "w"}
    <3>1. PlainType(Printed(schema)) = "binary"
      BY <1>5, CellTexts
    <3> QED
      BY <3>1, PlainTypes, FormatTypes
  <2>2. Printed(schema).typname \notin OidLikeTypnames
    BY <2>1, ByteFormatsAre DEF Misfits
  <2>3. text = Text("hex", value)
    <3>1. text = IF value = <<"">> THEN EmptyText ELSE Text("hex", value)
      BY <1>5, <2>2, ReadTexts
    <3> QED
      BY <3>1
  <2>4. IsHex(text) /\ text.of = value
    BY <1>0, <2>3 DEF IsHex
  <2>5. DecodeText(text, type) = Value("binary", value)
    BY <1>5, <2>4, IntegerTypesAre DEF DecodeText, DecodeHex
  <2> QED
    BY <1>5, <2>5
<1> QED
  BY <1>1, <1>2, <1>3, <1>4, <1>5

\* What ResultSet::value of Rust gives for a column is what the array holds, for every
\* value of every width.
THEOREM RustKeepsEveryValue == Spec => []RustKeepsValues
<1>1. ValueInv => RustKeepsValues
  <2> SUFFICES ASSUME ValueInv, column # Absent, answer.status = "ok", OffsetsAreRead(column)
               PROVE  RustKeepsValues
    BY DEF RustKeepsValues
  <2>1. PICK col : col = column
    OBVIOUS
  <2>2. PICK cell : cell = row[1]
    OBVIOUS
  <2>3. PICK read : read = answer.value
    OBVIOUS
  <2>4. PICK item : item = Item(col)
    OBVIOUS
  <2>5. IsColumn(col) /\ cell = CellFromArrow(col) /\ read = RustValue(cell, Code(col))
    BY <2>1, <2>2, <2>3 DEF ValueInv
  <2>6. PICK schema \in Schemas : schema = col.schema
    BY <2>5, Columns
  <2>7. SlotOf(col) = 1 + col.root_offset + col.offset
    <3>1. col.root_offset = 0 /\ (col.schema.format \in {"+w", "+s"} => col.offset = 0)
      BY <2>1 DEF OffsetsAreRead
    <3> QED
      BY <2>5, <3>1, Columns DEF SlotOf
  <2>8. item = col.slots[SlotOf(col)] /\ 1 + col.offset = 1 + col.root_offset + col.offset
    <3>1. col.root_offset = 0
      BY <2>1 DEF OffsetsAreRead
    <3> QED
      BY <2>4, <2>5, <2>7, <3>1, Columns DEF Item
  <2>9. PICK value \in ValuesOf(schema) : value = item.value
    BY <2>5, <2>6, <2>8, Columns
  <2>10. /\ cell.is_null <=> schema.format # "n" /\ item.null
         /\ cell.is_null => cell.text = EmptyText
         /\ ~cell.is_null => cell.text = CellText(schema, value)
    <3>1. IsNullAt(col) <=> schema.format # "n" /\ item.null
      BY <2>4, <2>6, <2>8 DEF IsNullAt, Item
    <3> QED
      BY <2>5, <2>6, <2>8, <2>9, <3>1 DEF CellFromArrow
  <2>11. schema.format = "n" => item.null
    BY <2>4, <2>5, <2>6, Columns
  <2> DEFINE type == ColumnType(schema)
             misfit == Misfits(Printed(schema), value)
             text == cell.text
  <2>12. type \in Types
    BY CellTexts, PlainTypes
  <2>13. read = IF cell.is_null \/ text = EmptyText THEN Null ELSE DecodeText(text, type)
    BY <2>5, <2>6, <2>12, RustReads DEF Code
  <2>14. schema.format = "n" /\ type # "unknown" => text = EmptyText
    <3> SUFFICES ASSUME schema.format = "n", type # "unknown", ~cell.is_null
                 PROVE  text = EmptyText
      BY <2>10
    <3>1. schema.dictionary = <<>> /\ schema.child = <<>>
      BY SchemasAssumption DEF NestedFormats, ListFormats
    <3>2. CellText(schema, value) = PlainText(schema, value)
      BY <3>1 DEF CellText
    <3>3. ~IsOpaque(schema) /\ ~IsTemporal(schema)
      BY FormatTypes DEF IsOpaque, ByteFormats, IsTemporal, TemporalTypes
    <3>4. ScalarText(schema, value) = EmptyText
      BY ScalarTexts
    <3> QED
      BY <2>10, <3>2, <3>3, <3>4 DEF PlainText
  <2>15. ~misfit /\ type # "unknown" => (read = Null <=> item.null \/ text = EmptyText)
    <3>1. read = Null <=> cell.is_null \/ text = EmptyText
      BY <2>13, Decoded
    <3> QED
      BY <2>10, <2>11, <2>14, <3>1
  <2>16. ASSUME ~misfit, read # Null
         PROVE  /\ type \in IntegerTypes \cup {"boolean", "binary", "float64"} =>
                     read = Value(type, value)
                /\ type \in {"float16", "float32"} => read = Value("float32", value)
                /\ type \notin IntegerTypes \cup FloatTypes \cup {"boolean", "binary"} =>
                     read = AsText(text)
    <3>1. ~cell.is_null /\ text # EmptyText /\ read = DecodeText(text, type)
      BY <2>13, <2>16
    <3>2. text = CellText(schema, value)
      BY <2>10, <3>1
    <3>3. /\ type \in IntegerTypes \cup {"boolean", "binary", "float64"} =>
               DecodeText(text, type) = Value(type, value)
          /\ type \in {"float16", "float32"} => DecodeText(text, type) = Value("float32", value)
      BY <2>16, <3>1, <3>2, RustKeeps
    <3>4. type \notin IntegerTypes \cup FloatTypes \cup {"boolean", "binary"} =>
            DecodeText(text, type) = AsText(text)
      BY Decoded
    <3> QED
      BY <3>1, <3>3, <3>4
  <2> HIDE DEF type, misfit, text
  <2> QED
    BY <2>1, <2>2, <2>3, <2>4, <2>6, <2>9, <2>15, <2>16 DEF RustKeepsValues, type, misfit, text
<1> QED
  BY <1>1, ValueInvariant, PTL

\* What Node and Python make of a cell with a text.
LEMMA NodeReads ==
  ASSUME NEW cell, NEW type, NEW text, text = cell.text, text # EmptyText, ~cell.is_null
  PROVE  /\ type \in IntegerTypes /\ text.form = "int" =>
              NodeValue(cell, type) = Value(type, text.of)
         /\ type = "boolean" =>
              NodeValue(cell, type) = IF IsBoolean(text) THEN Boolean(text) ELSE AsText(text)
         /\ type \in FloatTypes => NodeValue(cell, type) = Value("float", JsNumber(text))
         /\ type = "binary" =>
              NodeValue(cell, type) = Value("binary", IF IsHex(text) THEN text.of ELSE <<>>)
         /\ type = "text" => NodeValue(cell, type) = AsText(text)
BY IntegerTypesAre DEF NodeValue, FloatTypes, JsonTypes

\* The same for Python.
LEMMA PythonReads ==
  ASSUME NEW cell, NEW type, NEW text, text = cell.text, text # EmptyText, ~cell.is_null
  PROVE  /\ type \in IntegerTypes /\ text.form = "int" =>
              PythonValue(cell, type) = Value(type, text.of)
         /\ type = "boolean" =>
              PythonValue(cell, type) = IF IsBoolean(text) THEN Boolean(text) ELSE AsText(text)
         /\ type \in FloatTypes =>
              PythonValue(cell, type) \in {Value("float", text.of), AsText(text)}
         /\ type = "binary" =>
              PythonValue(cell, type) =
                IF IsHex(text) THEN Value("binary", text.of) ELSE AsText(text)
         /\ type = "text" => PythonValue(cell, type) = AsText(text)
BY IntegerTypesAre DEF PythonValue, FloatTypes, JsonTypes

\* decode_value, convertResultValue and _decode_result_value agree on numbers, Booleans and
\* bytes, misfits included, but for digits in a binary column and the infinities.
THEOREM BindingsReadTheSame == Spec => []BindingsReadAlike
<1>1. ValueInv => BindingsReadAlike
  <2> SUFFICES ASSUME ValueInv, column # Absent, stage # "driver", row[1].text # EmptyText
               PROVE  BindingsReadAlike
    BY DEF BindingsReadAlike
  <2>1. PICK col : col = column
    OBVIOUS
  <2>2. PICK cell : cell = row[1]
    OBVIOUS
  <2>3. IsColumn(col) /\ cell = CellFromArrow(col) /\ cell.text # EmptyText
    BY <2>1, <2>2 DEF ValueInv
  <2>4. PICK schema \in Schemas : schema = col.schema
    BY <2>3, Columns
  <2>5. PICK value \in ValuesOf(schema) : value = col.slots[SlotOf(col)].value
    BY <2>3, <2>4, Columns
  <2>6. ~cell.is_null /\ cell.text = CellText(schema, value)
    BY <2>3, <2>4, <2>5 DEF CellFromArrow
  <2>7. PICK type : type = ColumnType(schema)
    OBVIOUS
  <2>8. PICK text : text = cell.text
    OBVIOUS
  <2>9. /\ type \in Types
        /\ type \in IntegerTypes => text = Text("int", value) /\ Fits(value, type)
    BY <2>6, <2>7, <2>8, ReadTexts
  <2> DEFINE rust == RustValue(cell, ColumnTypeCode(type))
             node == NodeValue(cell, type)
             python == PythonValue(cell, type)
  <2>10. rust = DecodeText(text, type)
    BY <2>3, <2>6, <2>8, <2>9, RustReads
  <2>11. text # EmptyText /\ ~cell.is_null /\ cell.text = text
    BY <2>3, <2>6, <2>8
  <2>12. \A kind, of : Value(kind, of).kind = kind /\ Value(kind, of).of = of
    BY DEF Value
  <2>13. CASE type \in IntegerTypes
    <3>1. text.form = "int" /\ text.of = value /\ Fits(value, type)
      BY <2>9, <2>13 DEF Text
    <3>2. rust = Value(type, value)
      BY <2>10, <2>13, <3>1, IntegerTypesAre DEF DecodeText, ParseInteger
    <3>3. node = Value(type, value) /\ python = Value(type, value)
      BY <2>11, <2>13, <3>1, NodeReads, PythonReads
    <3> HIDE DEF rust, node, python
    <3>4. type \notin FloatTypes /\ type # "binary"
      BY <2>13, IntegerTypesAre DEF FloatTypes
    <3>5. rust = python /\ (rust = node <=> ~(type = "binary" /\ rust.kind = "text"))
      BY <3>2, <3>3, <3>4
    <3> QED
      BY <2>1, <2>2, <2>4, <2>7, <3>4, <3>5 DEF BindingsReadAlike, rust, node, python
  <2>14. CASE type = "boolean"
    <3>1. rust = IF IsBoolean(text) THEN Boolean(text) ELSE AsText(text)
      BY <2>10, <2>14, IntegerTypesAre DEF DecodeText
    <3>2. node = rust /\ python = rust
      BY <2>11, <2>14, <3>1, NodeReads, PythonReads
    <3> HIDE DEF rust, node, python
    <3>3. type \notin FloatTypes /\ type # "binary"
      BY <2>14 DEF FloatTypes
    <3> QED
      BY <2>1, <2>2, <2>4, <2>7, <3>2, <3>3 DEF BindingsReadAlike, rust, node, python
  <2>15. CASE type = "text"
    <3>1. rust = AsText(text)
      BY <2>10, <2>15, IntegerTypesAre, Decoded DEF FloatTypes
    <3>2. node = rust /\ python = rust
      BY <2>11, <2>15, <3>1, NodeReads, PythonReads
    <3> HIDE DEF rust, node, python
    <3>3. type \notin FloatTypes /\ type # "binary"
      BY <2>15 DEF FloatTypes
    <3> QED
      BY <2>1, <2>2, <2>4, <2>7, <3>2, <3>3 DEF BindingsReadAlike, rust, node, python
  <2>16. CASE type = "binary"
    <3>1. rust = IF IsHex(text) THEN Value("binary", text.of) ELSE AsText(text)
      BY <2>10, <2>16, IntegerTypesAre DEF DecodeText, DecodeHex, FloatTypes
    <3>2. python = rust
      BY <2>11, <2>16, <3>1, PythonReads
    <3>3. node = Value("binary", IF IsHex(text) THEN text.of ELSE <<>>)
      BY <2>11, <2>16, NodeReads
    <3>4. rust = node <=> ~(rust.kind = "text")
      <4>1. CASE IsHex(text)
        BY <2>12, <3>1, <3>3, <4>1
      <4>2. CASE ~IsHex(text)
        BY <2>12, <3>1, <3>3, <4>2 DEF AsText
      <4> QED
        BY <4>1, <4>2
    <3> HIDE DEF rust, node, python
    <3>5. type \notin FloatTypes
      BY <2>16 DEF FloatTypes
    <3> QED
      BY <2>1, <2>2, <2>4, <2>7, <2>16, <3>2, <3>4, <3>5
      DEF BindingsReadAlike, rust, node, python
  <2>17. CASE type \in FloatTypes
    <3>1. rust.of = text.of
      <4>1. rust \in {Value("float32", text.of), Value("float64", text.of), AsText(text)}
        BY <2>10, <2>17, IntegerTypesAre DEF DecodeText, FloatTypes
      <4> QED
        BY <2>12, <4>1 DEF AsText
    <3>2. node = Value("float", JsNumber(text))
      BY <2>11, <2>17, NodeReads
    <3>3. python \in {Value("float", text.of), AsText(text)}
      BY <2>11, <2>17, PythonReads
    <3>4. node.of = JsNumber(text) /\ python.of = text.of
      BY <2>12, <3>2, <3>3 DEF AsText
    <3>5. IsFloat(text)
      <4>1. text = Text("float", value)
        BY <2>6, <2>7, <2>8, <2>11, <2>17, ReadTexts DEF FloatTypes
      <4> QED
        BY <4>1 DEF Text, IsFloat
    <3>6. JsNumber(text) = text.of <=> text.of # <<"inf">>
      <4>1. <<"nan">> # <<"inf">>
        OBVIOUS
      <4> QED
        BY <2>11, <3>5, <4>1 DEF JsNumber
    <3> HIDE DEF rust, node, python
    <3>7. rust.of = python.of /\ (rust.of = node.of <=> row[1].text.of # <<"inf">>)
      BY <2>2, <2>8, <3>1, <3>4, <3>6
    <3>8. type \notin IntegerTypes \cup {"boolean", "binary", "text"}
      BY <2>17, IntegerTypesAre DEF FloatTypes
    <3> QED
      BY <2>1, <2>2, <2>4, <2>7, <3>7, <3>8 DEF BindingsReadAlike, rust, node, python
  <2>18. CASE type \notin IntegerTypes \cup FloatTypes \cup {"boolean", "binary", "text"}
    BY <2>1, <2>2, <2>4, <2>7, <2>18 DEF BindingsReadAlike
  <2> QED
    BY <2>13, <2>14, <2>15, <2>16, <2>17, <2>18
<1> QED
  BY <1>1, ValueInvariant, PTL

-----------------------------------------------------------------------------
(* Types and the texts of cells *)

\* A count gives a time of day exactly if it is not negative.
LEMMA TimesOfDay ==
  ASSUME NEW value \in Int, NEW unit \in Unit
  PROVE  FormatTimeOfDay(value, unit) = Panic <=> value < 0
<1>1. PICK units \in Nat \ {0} : units = UnitsPerSecond[unit]
  BY UnitsAssumption
<1>2. PICK seconds \in Int : seconds = value \div units
  BY <1>1
<1>3. PICK hours \in Int : hours = seconds \div 3600
  BY <1>2
<1>4. seconds < 0 <=> value < 0
  BY <1>1, <1>2
<1>5. hours < 0 <=> seconds < 0
  BY <1>2, <1>3
<1>6. \A a, b, c, d : <<a, b, c, d>> # Panic
  BY DEF Panic
<1> QED
  BY <1>1, <1>2, <1>3, <1>4, <1>5, <1>6 DEF FormatTimeOfDay

\* An interval is printed exactly if what is less than a day of it is not negative.
LEMMA Intervals ==
  ASSUME NEW months, NEW days, NEW rest \in Int, NEW unit \in Unit
  PROVE  FormatInterval(months, days, rest, unit) = Panic <=> rest < 0
<1>1. \A a, b, c : <<a, b, c>> # Panic
  BY DEF Panic
<1> QED
  BY <1>1, TimesOfDay DEF FormatInterval

\* A duration in units of less than a second is printed exactly if it is not negative
\* and, in microseconds, not too long to be made nanoseconds.
LEMMA Durations ==
  ASSUME NEW value \in Int, NEW unit \in Unit \ {"s"}
  PROVE  FormatArrowDuration(value, unit) = Panic
           <=> \/ value < 0
               \/ unit = "u" /\ value * (UnitsPerSecond["n"] \div UnitsPerSecond["u"]) > MaxI64
<1>1. PICK factor \in Nat \ {0} : factor = UnitsPerSecond["n"] \div UnitsPerSecond["u"]
  <2>1. PICK n \in Nat \ {0}, u \in Nat \ {0} :
          n = UnitsPerSecond["n"] /\ u = UnitsPerSecond["u"]
    BY UnitsAssumption DEF Unit
  <2>2. n % u = 0
    BY <2>1, UnitsAssumption
  <2>3. n \div u > 0
    BY <2>1, <2>2
  <2> QED
    BY <2>1, <2>3
<1>2. PICK product \in Int : product = value * factor
  BY <1>1
<1>3. value < 0 <=> product < 0
  <2>1. value < 0 => product < 0
    BY <1>1, <1>2
  <2>2. value >= 0 => product >= 0
    BY <1>1, <1>2
  <2> QED
    BY <1>2, <2>1, <2>2
<1>4. CASE unit \in {"m", "n"}
  BY <1>4, Intervals DEF FormatArrowDuration, Unit
<1>5. CASE unit = "u"
  <2>1. FormatArrowDuration(value, unit) =
          IF product \in -MaxI64 - 1..MaxI64 THEN FormatInterval(0, 0, product, "n") ELSE Panic
    BY <1>1, <1>2, <1>5 DEF FormatArrowDuration
  <2>2. FormatInterval(0, 0, product, "n") = Panic <=> product < 0
    BY <1>2, Intervals DEF Unit
  <2>3. MaxI64 \in Nat
    BY UnitsAssumption
  <2> QED
    BY <1>1, <1>2, <1>3, <1>5, <2>1, <2>2, <2>3
<1> QED
  BY <1>4, <1>5 DEF Unit

\* What has the form of a date, a time or an interval, and what cannot be printed.
LEMMA TemporalForms ==
  ASSUME NEW s, NEW value, IsTemporal(s), value[1] \in Int,
         s.format \in {"tiD", "tin"} => value[3] \in Int
  PROVE  TemporalText(s.format, value).form =
           IF IsUnprintable(s, value) THEN "panic"
           ELSE IF s.format = "tDs" THEN "seconds"
           ELSE IF FormatType(s.format) = "duration" THEN "interval"
           ELSE FormatType(s.format)
<1> DEFINE f == s.format
           type == FormatType(f)
           unit == UnitOf(f)
           count == value[1]
           PrintedAs(form, v) == IF v = Panic THEN Text("panic", <<>>) ELSE Text(form, v)
<1>1. type \in TemporalTypes /\ f # "T"
  BY DEF IsTemporal
<1>2. \A form, of : Text(form, of).form = form
  BY DEF Text
<1>3. \A form, v : PrintedAs(form, v).form = IF v = Panic THEN "panic" ELSE form
  BY <1>2
<1>4. unit \in Unit
  BY DEF UnitOf, Unit
<1> HIDE DEF PrintedAs
<1>5. CASE type = "date"
  <2>1. f \in {"tdD", "tdm"}
    BY <1>5, FormatTypes
  <2>2. ~IsUnprintable(s, value)
    BY <1>5, <2>1 DEF IsUnprintable
  <2>3. \E v : TemporalText(f, value) = Text("date", v)
    BY <1>5, <2>1 DEF TemporalText
  <2> QED
    BY <1>2, <1>5, <2>1, <2>2, <2>3
<1>6. CASE type = "timestamp"
  <2>1. f \in TimestampFormats
    BY <1>1, <1>6, FormatTypes
  <2>2. ~IsUnprintable(s, value)
    BY <1>6, <2>1 DEF IsUnprintable, TimestampFormats
  <2>3. TemporalText(f, value) = Text("timestamp", FormatTimestampValue(count, unit))
    BY <1>6, <2>1 DEF TemporalText, TimestampFormats
  <2> QED
    BY <1>2, <1>6, <2>1, <2>2, <2>3 DEF TimestampFormats
<1>7. CASE type = "time"
  <2>1. f \notin {"tdD", "tdm", "tDs", "tDm", "tDu", "tDn", "tiM", "tiD", "tin"}
    BY <1>7, FormatTypes
  <2>2. IsUnprintable(s, value) <=> count < 0
    BY <1>7, <2>1 DEF IsUnprintable
  <2>3. TemporalText(f, value) = PrintedAs("time", FormatTimeOfDay(count, unit))
    BY <1>7, <2>1 DEF TemporalText, PrintedAs
  <2> QED
    BY <1>3, <1>4, <1>7, <2>1, <2>2, <2>3, TimesOfDay
<1>8. CASE type = "duration"
  <2>1. f \in {"tDs", "tDm", "tDu", "tDn"}
    BY <1>8, FormatTypes
  <2>2. CASE f = "tDs"
    <3>1. ~IsUnprintable(s, value)
      BY <1>8, <2>2 DEF IsUnprintable
    <3>2. TemporalText(f, value) = Text("seconds", value)
      BY <1>8, <2>2 DEF TemporalText
    <3> QED
      BY <1>2, <2>2, <3>1, <3>2
  <2>3. CASE f # "tDs"
    <3>1. unit \in Unit \ {"s"} /\ (unit = "u" <=> f = "tDu")
      BY <2>1, <2>3 DEF UnitOf, Unit
    <3>2. IsUnprintable(s, value)
            <=> \/ count < 0
                \/ unit = "u" /\ count * (UnitsPerSecond["n"] \div UnitsPerSecond["u"]) > MaxI64
      BY <1>8, <2>1, <2>3, <3>1 DEF IsUnprintable, IsTemporal, TemporalTypes
    <3>3. TemporalText(f, value) = PrintedAs("interval", FormatArrowDuration(count, unit))
      BY <1>8, <2>1, <2>3 DEF TemporalText, PrintedAs
    <3>4. FormatArrowDuration(count, unit) = Panic <=> IsUnprintable(s, value)
      BY <3>1, <3>2, Durations
    <3> QED
      BY <1>3, <1>8, <2>3, <3>3, <3>4
  <2> QED
    BY <2>2, <2>3
<1>9. CASE type = "interval"
  <2>1. f \in {"tiM", "tiD", "tin"}
    BY <1>9, FormatTypes
  <2>2. IsUnprintable(s, value) <=> f \in {"tiD", "tin"} /\ value[3] < 0
    BY <1>9, <2>1 DEF IsUnprintable, IsTemporal, TemporalTypes
  <2>3. CASE f = "tiM"
    <3>1. TemporalText(f, value) = PrintedAs("interval", FormatInterval(count, 0, 0, "n"))
      BY <1>9, <2>3 DEF TemporalText, PrintedAs
    <3>2. FormatInterval(count, 0, 0, "n") # Panic
      BY Intervals DEF Unit
    <3> QED
      BY <1>3, <1>9, <2>2, <2>3, <3>1, <3>2
  <2>4. CASE f = "tiD"
    <3>1. TemporalText(f, value) = PrintedAs("interval", FormatInterval(0, value[2], value[3], "m"))
      BY <1>9, <2>4 DEF TemporalText, PrintedAs
    <3>2. FormatInterval(0, value[2], value[3], "m") = Panic <=> value[3] < 0
      BY <2>4, Intervals DEF Unit
    <3> QED
      BY <1>3, <1>9, <2>2, <2>4, <3>1, <3>2
  <2>5. CASE f = "tin"
    <3>1. TemporalText(f, value) =
            PrintedAs("interval", FormatInterval(count, value[2], value[3], "n"))
      BY <1>9, <2>5 DEF TemporalText, PrintedAs
    <3>2. FormatInterval(count, value[2], value[3], "n") = Panic <=> value[3] < 0
      BY <2>5, Intervals DEF Unit
    <3> QED
      BY <1>3, <1>9, <2>2, <2>5, <3>1, <3>2
  <2> QED
    BY <2>1, <2>3, <2>4, <2>5
<1> QED
  BY <1>1, <1>5, <1>6, <1>7, <1>8, <1>9 DEF TemporalTypes

\* A column a driver may bring, without dictionary and elements, and a value of it.
IsPlain(s, value) ==
  /\ s.child = <<>> /\ s.format \notin NestedFormats
  /\ s.typname \in DOMAIN TypnameFormats =>
       s.format \in BinaryFormats \cup TypnameFormats[s.typname]
  /\ s.extension = "arrow.json" => s.format \in TextFormats
  /\ IsTemporal(s) => value[1] \in Int
  /\ s.format \in {"tiD", "tin"} => value[3] \in Int
  /\ PlainType(s) = "json" => value # <<"">>

\* Which formats the columns with a type name have.
LEMMA Annotations ==
  ASSUME NEW s, NEW value, IsPlain(s, value), s.format \notin BinaryFormats
  PROVE  /\ s.typname # "uuid" /\ s.typname # "_int4"
         /\ s.typname = "date" => FormatType(s.format) = "date"
         /\ s.typname \in {"time", "timetz"} => FormatType(s.format) = "time"
         /\ s.typname = "interval" => FormatType(s.format) = "interval"
         /\ s.typname \in {"json", "jsonb"} => s.format \in TextFormats
         /\ s.typname \in OidLikeTypnames => s.format \in IntegerFormats
<1>1. ASSUME s.typname \in DOMAIN TypnameFormats
      PROVE  s.format \in TypnameFormats[s.typname]
  BY <1>1 DEF IsPlain
<1>2. DOMAIN TypnameFormats = {"date", "time", "timetz", "interval", "uuid", "json", "jsonb",
                               "_int4"} \cup OidLikeTypnames
  BY DEF TypnameFormats
<1>3. /\ TypnameFormats["date"] = {"tdD", "tdm"}
      /\ \A t \in {"time", "timetz"} : TypnameFormats[t] = {"tts", "ttm", "ttu", "ttn"}
      /\ TypnameFormats["interval"] = {"tiM", "tiD", "tin"}
      /\ \A t \in {"json", "jsonb"} : TypnameFormats[t] = TextFormats
      /\ TypnameFormats["_int4"] = ListFormats
      /\ \A t \in OidLikeTypnames : TypnameFormats[t] = IntegerFormats
      /\ TypnameFormats["uuid"] = {}
  BY <1>2 DEF TypnameFormats, OidLikeTypnames, IntegerFormats
<1>4. /\ s.format \in {"tdD", "tdm"} => FormatType(s.format) = "date"
      /\ s.format \in {"tts", "ttm", "ttu", "ttn"} => FormatType(s.format) = "time"
      /\ s.format \in {"tiM", "tiD", "tin"} => FormatType(s.format) = "interval"
  <2>1. ASSUME NEW f \in {"tts", "ttm", "ttu", "ttn"}
        PROVE  FormatType(f) = "time"
    <3>1. \/ f = "tts" \/ f = "ttm" \/ f = "ttu" \/ f = "ttn"
      OBVIOUS
    <3>2. /\ FormatType("tts") = "time" /\ FormatType("ttm") = "time"
          /\ FormatType("ttu") = "time" /\ FormatType("ttn") = "time"
      BY DEF FormatType, ListFormats
    <3> QED
      BY <3>1, <3>2
  <2> QED
    BY <2>1, FormatTypes
<1>5. s.format \notin ListFormats
  BY DEF IsPlain, NestedFormats
<1> HIDE DEF TypnameFormats
<1> QED
  BY <1>1, <1>2, <1>3, <1>4, <1>5

\* The type of a column whose name has no bearing on it is that of its format.
LEMMA TypesOfFormats ==
  ASSUME NEW s, s.extension \notin {"arrow.json", "arrow.uuid"}
  PROVE  /\ s.typname \in {"date", "interval", "uuid"} => PlainType(s) = s.typname
         /\ s.typname \in {"time", "timetz"} => PlainType(s) = "time"
         /\ s.typname \in UnsupportedTypnames => PlainType(s) = "unknown"
         /\ s.typname \in {"json", "jsonb"} => PlainType(s) = "json"
         /\ s.typname = "_int4" => PlainType(s) = "array"
         /\ s.typname \notin {"date", "interval", "uuid", "time", "timetz", "json", "jsonb",
                              "_int4"} \cup UnsupportedTypnames =>
              PlainType(s) = FormatType(s.format)
BY DEF PlainType, UnsupportedTypnames

\* The forms of the types.
LEMMA Forms ==
  /\ DocumentedForms("boolean") = {"bool"}
  /\ \A type \in IntegerTypes : DocumentedForms(type) = {"int"}
  /\ \A type \in FloatTypes : DocumentedForms(type) = {"float"}
  /\ DocumentedForms("text") = {"chars", "empty"}
  /\ DocumentedForms("binary") = {"hex", "empty"}
  /\ DocumentedForms("decimal") = {"decimal", "hex"}
  /\ DocumentedForms("json") = {"chars", "json"}
  /\ \A type \in {"duration", "interval"} : DocumentedForms(type) = {"interval"}
  /\ \A type \in {"timestamp", "date", "time", "uuid"} : DocumentedForms(type) = {type}
  /\ \A type \in {"array", "map", "struct"} : DocumentedForms(type) = {"json"}
BY IntegerTypesAre DEF DocumentedForms, FloatTypes

\* A text fits its type, or the column is one of those known not to.
FitsOrMisfits(s, value, text) ==
  PlainType(s) # "unknown" =>
    (text.form \in DocumentedForms(PlainType(s)) <=> ~Misfits(s, value))

WrittenAsBytes == {"date", "time", "timetz", "interval", "json", "jsonb", "_int4"}

\* The misfits among the columns without elements.
LEMMA PlainMisfits ==
  ASSUME NEW s, NEW value, s.child = <<>>
  PROVE  /\ Misfits(s, value)
              <=> \/ s.format \in {"e", "T", "tDs"}
                  \/ s.extension = "arrow.uuid" /\ s.typname # "uuid"
                  \/ s.format \in BinaryFormats /\ s.typname \in WrittenAsBytes \cup OidLikeTypnames
                  \/ IsUnprintable(s, value)
         /\ IsUnprintable(s, value) => IsTemporal(s)
BY DEF Misfits, WrittenAsBytes, IsUnprintable

\* Bytes of the types the backend decodes itself.
LEMMA OpaqueFits ==
  ASSUME NEW s, NEW value, IsPlain(s, value), IsOpaque(s)
  PROVE  FitsOrMisfits(s, value, PlainText(s, value))
<1> DEFINE text == PlainText(s, value)
           type == PlainType(s)
<1> USE ByteFormatsAre
<1>1. text = OpaqueText(s, value)
  BY DEF PlainText
<1>2. \A form, of : Text(form, of).form = form
  BY DEF Text
<1>3. EmptyText.form = "empty"
  BY DEF EmptyText, Text
<1>4. /\ s.child = <<>> /\ s.format \in ByteFormats
      /\ s.extension = "arrow.json" => s.format \in TextFormats
      /\ type = "json" => value # <<"">>
  BY DEF IsPlain, IsOpaque
<1>5. ~IsTemporal(s) /\ FormatType(s.format) \in {"text", "binary"}
      /\ s.format \notin {"e", "T", "tDs"}
  <2>1. FormatType(s.format) \in {"text", "binary"}
    <3>1. s.format \in {"u", "U", "vu"} \/ s.format \in {"z", "Z", "vz", "w"}
      BY <1>4 DEF ByteFormats
    <3>2. /\ FormatType(s.format) = "text" <=> s.format \in {"u", "U", "vu"}
          /\ FormatType(s.format) = "binary" <=> s.format \in {"z", "Z", "vz", "w"}
      BY FormatTypes
    <3> QED
      BY <3>1, <3>2
  <2> QED
    BY <1>4, <2>1 DEF IsTemporal, TemporalTypes, ByteFormats
<1>6. Misfits(s, value)
        <=> \/ s.extension = "arrow.uuid" /\ s.typname # "uuid"
            \/ s.format \in BinaryFormats /\ s.typname \in WrittenAsBytes \cup OidLikeTypnames
  BY <1>4, <1>5, PlainMisfits
<1>7. CASE s.typname = "uuid"
  <2>1. s.format \in BinaryFormats
    BY <1>7, Annotations
  <2>2. type = "uuid"
    <3>1. s.extension # "arrow.json"
      BY <1>4, <2>1
    <3> QED
      BY <1>7, <3>1 DEF PlainType, UnsupportedTypnames
  <2>3. ~Misfits(s, value)
    BY <1>6, <1>7 DEF WrittenAsBytes, OidLikeTypnames
  <2>4. text.form = "uuid"
    BY <1>1, <1>2, <1>7 DEF OpaqueText, OidLikeTypnames
  <2> QED
    BY <2>2, <2>3, <2>4, Forms DEF FitsOrMisfits
<1>8. CASE s.typname \in OidLikeTypnames
  <2>1. s.format \in BinaryFormats
    <3>1. s.format \notin IntegerFormats
      BY <1>4 DEF IntegerFormats, ByteFormats
    <3> QED
      BY <1>8, <3>1, Annotations
  <2>2. type \in {"binary", "uuid"}
    <3>1. FormatType(s.format) = "binary"
      BY <2>1, FormatTypes
    <3> QED
      BY <1>4, <1>8, <2>1, <3>1 DEF PlainType, OidLikeTypnames, UnsupportedTypnames
  <2>3. Misfits(s, value)
    BY <1>6, <1>8, <2>1
  <2>4. text.form = "int"
    BY <1>1, <1>2, <1>8 DEF OpaqueText, OidLikeTypnames
  <2> QED
    BY <2>2, <2>3, <2>4, Forms DEF FitsOrMisfits
<1>9. CASE s.typname \in UnsupportedTypnames
  <2>1. text.form = IF value = <<"">> THEN "empty" ELSE "chars"
    BY <1>1, <1>2, <1>3, <1>9 DEF OpaqueText, OidLikeTypnames, UnsupportedTypnames
  <2>2. CASE s.extension = "arrow.json"
    <3>1. type = "json" /\ s.format \notin BinaryFormats
      BY <1>4, <2>2 DEF PlainType
    <3>2. ~Misfits(s, value)
      BY <1>6, <2>2, <3>1
    <3> QED
      BY <1>4, <2>1, <3>1, <3>2, Forms DEF FitsOrMisfits
  <2>3. CASE s.extension = "arrow.uuid"
    <3>1. type = "uuid"
      BY <2>3 DEF PlainType
    <3>2. Misfits(s, value)
      BY <1>6, <1>9, <2>3 DEF UnsupportedTypnames
    <3> QED
      BY <2>1, <3>1, <3>2, Forms DEF FitsOrMisfits
  <2>4. CASE s.extension \notin {"arrow.json", "arrow.uuid"}
    BY <1>9, <2>4, TypesOfFormats DEF FitsOrMisfits
  <2> QED
    BY <2>2, <2>3, <2>4
<1> QED
  BY <1>7, <1>8, <1>9 DEF IsOpaque

\* Dates and times.
LEMMA TemporalFits ==
  ASSUME NEW s, NEW value, IsPlain(s, value), IsTemporal(s)
  PROVE  FitsOrMisfits(s, value, PlainText(s, value))
<1> DEFINE text == PlainText(s, value)
           type == PlainType(s)
           f == s.format
<1>1. /\ s.child = <<>>
      /\ value[1] \in Int /\ (f \in {"tiD", "tin"} => value[3] \in Int)
      /\ s.extension = "arrow.json" => f \in TextFormats
  BY DEF IsPlain
<1>2. FormatType(f) \in TemporalTypes /\ f # "T"
  BY DEF IsTemporal
<1>3. f \notin ByteFormats \cup IntegerFormats \cup {"e"}
  <2>1. FormatType(f) \notin {"text", "binary", "float16"}
    BY <1>2 DEF TemporalTypes
  <2>2. FormatType(f) \notin IntegerTypes
    BY <1>2, IntegerTypesAre DEF TemporalTypes
  <2> QED
    BY <2>1, <2>2, FormatTypes, ByteFormatsAre DEF TextFormats
<1>4. /\ f \notin TextFormats /\ f \notin BinaryFormats
      /\ s.extension # "arrow.json"
  BY <1>1, <1>3, ByteFormatsAre
<1>5. text.form = IF IsUnprintable(s, value) THEN "panic"
                  ELSE IF f = "tDs" THEN "seconds"
                  ELSE IF FormatType(f) = "duration" THEN "interval"
                  ELSE FormatType(f)
  <2>1. ~IsOpaque(s)
    BY <1>3 DEF IsOpaque
  <2>2. text = TemporalText(f, value)
    BY <2>1 DEF PlainText
  <2> QED
    BY <1>1, <2>2, TemporalForms
<1>6. Misfits(s, value)
        <=> \/ f = "tDs" \/ IsUnprintable(s, value)
            \/ s.extension = "arrow.uuid" /\ s.typname # "uuid"
  BY <1>1, <1>2, <1>3, <1>4, PlainMisfits
<1>7. /\ s.typname \notin {"uuid", "_int4", "json", "jsonb"}
      /\ s.typname = "date" => FormatType(f) = "date"
      /\ s.typname \in {"time", "timetz"} => FormatType(f) = "time"
      /\ s.typname = "interval" => FormatType(f) = "interval"
  BY <1>4, Annotations
<1>8. CASE s.extension = "arrow.uuid"
  <2>1. type = "uuid" /\ Misfits(s, value)
    BY <1>6, <1>7, <1>8 DEF PlainType
  <2>2. text.form # "uuid"
    BY <1>2, <1>5 DEF TemporalTypes
  <2> QED
    BY <2>1, <2>2, Forms DEF FitsOrMisfits
<1>9. CASE s.extension # "arrow.uuid"
  <2>1. type \in {"unknown", FormatType(f)}
    BY <1>4, <1>7, <1>9, TypesOfFormats
  <2>2. DocumentedForms(FormatType(f)) =
          IF FormatType(f) = "duration" THEN {"interval"} ELSE {FormatType(f)}
    BY <1>2, Forms DEF TemporalTypes
  <2>3. f = "tDs" => FormatType(f) = "duration"
    BY FormatTypes
  <2>4. text.form \in DocumentedForms(FormatType(f)) <=> ~Misfits(s, value)
    BY <1>2, <1>5, <1>6, <1>9, <2>2, <2>3 DEF TemporalTypes
  <2> QED
    BY <2>1, <2>4 DEF FitsOrMisfits
<1> QED
  BY <1>8, <1>9

\* The other types and formats.
LEMMA OtherFormats ==
  ASSUME NEW f, f \notin NestedFormats
  PROVE  /\ FormatType(f) \notin {"array", "struct", "map", "json", "uuid"}
         /\ FormatType(f) = "decimal" <=> f \in {"d", "d256"}
BY IntegerTypesAre, ZenonT(40) DEF FormatType, NestedFormats, ListFormats

\* The forms of these texts.
LEMMA ScalarForms ==
  ASSUME NEW s, NEW value
  PROVE  /\ s.format \in IntegerFormats \cup {"T"} => ScalarText(s, value).form = "int"
         /\ s.format = "b" => ScalarText(s, value).form = "bool"
         /\ s.format \in {"f", "g"} => ScalarText(s, value).form = "float"
         /\ s.format = "e" => ScalarText(s, value).form = "empty"
         /\ s.format \in BinaryFormats => ScalarText(s, value).form \in {"hex", "empty"}
         /\ s.format \in TextFormats =>
              ScalarText(s, value).form = IF value = <<"">> THEN "empty" ELSE "chars"
         /\ s.format = "d" => ScalarText(s, value).form = "decimal"
         /\ s.format = "d256" => ScalarText(s, value).form = "hex"
         /\ ScalarText(s, value).form
              \in {"empty", "bool", "int", "float", "chars", "hex", "decimal"}
<1> DEFINE f == s.format
           text == ScalarText(s, value)
<1>1. /\ f \in IntegerFormats => text = Text("int", value)
      /\ f = "b" => text = Text("bool", value)
      /\ f \in {"f", "g"} => text = Text("float", value)
      /\ f \in {"e", "n"} => text = EmptyText
      /\ f \in {"z", "Z", "vz", "w"} =>
           text = IF value = <<"">> THEN EmptyText ELSE Text("hex", value)
      /\ f \in {"u", "U", "vu"} =>
           text = IF value = <<"">> THEN EmptyText ELSE Text("chars", value)
      /\ f = "T" => text = Text("int", value)
      /\ f = "d256" => text = Text("hex", value)
      /\ f = "d" => text = Text("decimal", value)
  BY ScalarTexts
<1>2. text \in {EmptyText, Text("bool", value), Text("int", value), Text("float", value),
                Text("chars", value), Text("hex", value), Text("decimal", value)}
  BY ScalarTexts
<1>3. EmptyText.form = "empty" /\ \A form, of : Text(form, of).form = form
  BY DEF EmptyText, Text
<1> HIDE DEF f, text
<1>4. /\ f \in IntegerFormats \cup {"T"} => text.form = "int"
      /\ f = "b" => text.form = "bool"
      /\ f \in {"f", "g"} => text.form = "float"
      /\ f = "e" => text.form = "empty"
      /\ f = "d" => text.form = "decimal"
      /\ f = "d256" => text.form = "hex"
  BY <1>1, <1>3
<1>5. f \in BinaryFormats => text.form \in {"hex", "empty"}
  BY <1>1, <1>3, ByteFormatsAre
<1>6. f \in TextFormats => text.form = IF value = <<"">> THEN "empty" ELSE "chars"
  BY <1>1, <1>3 DEF TextFormats
<1>7. text.form \in {"empty", "bool", "int", "float", "chars", "hex", "decimal"}
  BY <1>3, <1>2
<1> QED
  BY <1>4, <1>5, <1>6, <1>7 DEF f, text

\* Numbers, Booleans, texts and the bytes that are written as they are.
LEMMA ScalarFits ==
  ASSUME NEW s, NEW value, IsPlain(s, value), ~IsOpaque(s), ~IsTemporal(s)
  PROVE  FitsOrMisfits(s, value, PlainText(s, value))
<1> DEFINE text == PlainText(s, value)
           type == PlainType(s)
           f == s.format
<1>1. text = ScalarText(s, value)
  BY DEF PlainText
<1>2. /\ f \in IntegerFormats \cup {"T"} => text.form = "int"
      /\ f = "b" => text.form = "bool"
      /\ f \in {"f", "g"} => text.form = "float"
      /\ f = "e" => text.form = "empty"
      /\ f \in BinaryFormats => text.form \in {"hex", "empty"}
      /\ f \in TextFormats => text.form = IF value = <<"">> THEN "empty" ELSE "chars"
      /\ f = "d" => text.form = "decimal"
      /\ f = "d256" => text.form = "hex"
      /\ text.form \in {"empty", "bool", "int", "float", "chars", "hex", "decimal"}
  BY <1>1, ScalarForms
<1>3. /\ s.child = <<>> /\ f \notin NestedFormats
      /\ s.extension = "arrow.json" => f \in TextFormats
      /\ type = "json" => value # <<"">>
  BY DEF IsPlain
<1>4. Misfits(s, value)
        <=> \/ f \in {"e", "T"}
            \/ s.extension = "arrow.uuid" /\ s.typname # "uuid"
            \/ f \in BinaryFormats /\ s.typname \in WrittenAsBytes \cup OidLikeTypnames
  <2>1. f # "tDs"
    BY FormatTypes DEF IsTemporal, TemporalTypes
  <2> QED
    BY <1>3, <2>1, PlainMisfits
<1>5. text.form \in {"empty", "bool", "int", "float", "chars", "hex", "decimal"}
  BY <1>2
<1>6. s.typname # "uuid"
  <2>1. s.typname = "uuid" => f \in BinaryFormats
    BY Annotations
  <2> QED
    BY <2>1, ByteFormatsAre DEF IsOpaque
<1>7. CASE s.extension = "arrow.uuid"
  <2>1. type = "uuid" /\ Misfits(s, value)
    BY <1>4, <1>6, <1>7 DEF PlainType
  <2> QED
    BY <1>5, <2>1, Forms DEF FitsOrMisfits
<1>8. CASE s.extension # "arrow.uuid" /\ f \in BinaryFormats
  <2>1. /\ s.extension # "arrow.json"
        /\ s.typname \notin UnsupportedTypnames \cup OidLikeTypnames
        /\ f \notin {"e", "T"}
    BY <1>3, <1>8, ByteFormatsAre DEF IsOpaque
  <2>2. text.form \in {"hex", "empty"}
    BY <1>2, <1>8
  <2>3. Misfits(s, value) <=> s.typname \in WrittenAsBytes
    BY <1>4, <1>8, <2>1
  <2>4. CASE s.typname \in WrittenAsBytes
    <3>1. type \in {"date", "time", "interval", "json", "array"}
      BY <1>8, <2>1, <2>4, TypesOfFormats DEF WrittenAsBytes
    <3>2. text.form \notin DocumentedForms(type)
      BY <2>2, <3>1, Forms
    <3> QED
      BY <2>3, <2>4, <3>2 DEF FitsOrMisfits
  <2>5. CASE s.typname \notin WrittenAsBytes
    <3>1. type = FormatType(f)
      BY <1>6, <1>8, <2>1, <2>5, TypesOfFormats DEF WrittenAsBytes
    <3>2. FormatType(f) = "binary"
      BY <1>8, FormatTypes, ByteFormatsAre
    <3> QED
      BY <2>2, <2>3, <2>5, <3>1, <3>2, Forms DEF FitsOrMisfits
  <2> QED
    BY <2>4, <2>5
<1>9. CASE s.extension # "arrow.uuid" /\ f \notin BinaryFormats
  <2>1. Misfits(s, value) <=> f \in {"e", "T"}
    BY <1>4, <1>9
  <2>2. /\ s.typname \notin {"date", "time", "timetz", "interval", "_int4"}
        /\ s.typname \in {"json", "jsonb"} => f \in TextFormats
    <3>1. FormatType(f) \notin {"date", "time", "interval"}
      <4>1. FormatType("T") = "timestamp"
        BY FormatTypes DEF TimestampFormats
      <4> QED
        BY <4>1 DEF IsTemporal, TemporalTypes
    <3> QED
      BY <1>9, <3>1, Annotations
  <2>3. CASE type = "json"
    <3>1. f \in TextFormats
      <4>1. FormatType(f) # "json"
        BY <1>3, OtherFormats
      <4>2. CASE s.extension = "arrow.json"
        BY <1>3, <4>2
      <4>3. CASE s.extension # "arrow.json"
        BY <1>6, <1>9, <2>2, <2>3, <4>1, <4>3, TypesOfFormats
      <4> QED
        BY <4>2, <4>3
    <3>2. text.form = "chars"
      BY <1>2, <1>3, <2>3, <3>1
    <3>3. ~Misfits(s, value)
      BY <2>1, <3>1 DEF TextFormats
    <3> QED
      BY <2>3, <3>2, <3>3, Forms DEF FitsOrMisfits
  <2>4. CASE type # "json"
    <3>1. type \in {"unknown", FormatType(f)}
      <4>1. s.extension # "arrow.json" /\ s.typname \notin {"json", "jsonb"}
        BY <1>9, <2>4, TypesOfFormats DEF PlainType
      <4> QED
        BY <1>6, <1>9, <2>2, <4>1, TypesOfFormats
    <3>2. FormatType(f) # "unknown" =>
            (text.form \in DocumentedForms(FormatType(f)) <=> f \notin {"e", "T"})
      <4>1. CASE f \in IntegerFormats
        <5>1. FormatType(f) \in IntegerTypes /\ text.form = "int" /\ f \notin {"e", "T"}
          BY <1>2, <4>1, FormatTypes DEF IntegerFormats
        <5> QED
          BY <5>1, Forms
      <4>2. CASE f = "b"
        <5>1. FormatType(f) = "boolean" /\ text.form = "bool" /\ f \notin {"e", "T"}
          BY <1>2, <4>2, FormatTypes
        <5> QED
          BY <5>1, Forms
      <4>3. CASE f \in {"e", "f", "g"}
        <5>1. FormatType(f) \in FloatTypes
          BY <4>3, FormatTypes DEF FloatTypes
        <5>2. text.form = IF f = "e" THEN "empty" ELSE "float"
          BY <1>2, <4>3
        <5> QED
          BY <4>3, <5>1, <5>2, Forms
      <4>4. CASE f \in TextFormats
        <5>1. FormatType(f) = "text" /\ f \notin {"e", "T"}
          BY <4>4, FormatTypes DEF TextFormats
        <5>2. text.form \in {"chars", "empty"}
          BY <1>2, <4>4
        <5> QED
          BY <5>1, <5>2, Forms
      <4>5. CASE f \in {"d", "d256"}
        <5>1. FormatType(f) = "decimal" /\ text.form \in {"decimal", "hex"}
          BY <1>2, <1>3, <4>5, OtherFormats
        <5> QED
          BY <4>5, <5>1, Forms
      <4>6. CASE f = "T"
        <5>1. FormatType(f) = "timestamp"
          BY <4>6, FormatTypes
        <5>2. text.form = "int"
          BY <1>2, <4>6
        <5> QED
          BY <4>6, <5>1, <5>2, Forms
      <4>7. CASE f \notin IntegerFormats \cup TextFormats
                           \cup {"b", "e", "f", "g", "d", "d256", "T"}
        <5>1. FormatType(f) \notin {"array", "struct", "map", "json", "uuid", "decimal"}
          BY <1>3, <4>7, OtherFormats
        <5>2. FormatType(f) \notin TemporalTypes
          BY <4>7 DEF IsTemporal
        <5>3. FormatType(f) \notin {"boolean", "float16", "float32", "float64"}
          BY <4>7, FormatTypes
        <5>4. FormatType(f) \notin {"text", "binary"}
          BY <1>9, <4>7, FormatTypes, ByteFormatsAre DEF TextFormats
        <5>5. FormatType(f) \notin IntegerTypes
          BY <4>7, FormatTypes
        <5>6. FormatType(f) \in Types
          BY FormatTypes
        <5>7. FormatType(f) = "unknown"
          BY <5>1, <5>2, <5>3, <5>4, <5>5, <5>6, IntegerTypesAre DEF Types, TemporalTypes
        <5> QED
          BY <5>7
      <4> QED
        BY <4>1, <4>2, <4>3, <4>4, <4>5, <4>6, <4>7
    <3> QED
      BY <2>1, <3>1, <3>2 DEF FitsOrMisfits
  <2> QED
    BY <2>3, <2>4
<1> QED
  BY <1>7, <1>8, <1>9

\* The text of a column without elements, whatever prints it.
LEMMA PlainFits ==
  ASSUME NEW s, NEW value, IsPlain(s, value)
  PROVE  FitsOrMisfits(s, value, PlainText(s, value))
BY OpaqueFits, TemporalFits, ScalarFits

\* The schema of the elements of a column.
IsElement(element) ==
  /\ element.format \notin NestedFormats /\ element.dictionary = <<>>
  /\ element.typname = "" /\ element.extension = ""

\* Which elements are written as JSON.
LEMMA ElementTexts ==
  ASSUME NEW element, NEW value, IsElement(element)
  PROVE  IsJsonElement(element, value)
           <=> ~ \/ element.format \in {"e", "d256"}
                 \/ element.format \in {"f", "g"} /\ value \in NotFinite
<1> DEFINE f == element.format
           type == FormatType(f)
           text == PlainText(element, value)
<1>1. ColumnType(element) = type
  BY DEF IsElement, ColumnType, PlainType, UnsupportedTypnames
<1>2. type \notin {"json", "array", "map", "struct"} /\ (type = "decimal" <=> f \in {"d", "d256"})
  BY OtherFormats DEF IsElement
<1>3. type \in BareTypes <=>
        f \in IntegerFormats \cup {"b", "e", "f", "g", "d", "d256"}
  <2>1. type \in BareTypes <=> type \in IntegerTypes \/ type = "float16" \/ type = "float32"
                                 \/ type = "float64" \/ type = "boolean" \/ type = "decimal"
    BY <1>2 DEF BareTypes, FloatTypes
  <2>2. /\ type \in IntegerTypes <=> f \in IntegerFormats
        /\ type = "boolean" <=> f = "b"
        /\ type = "float16" <=> f = "e"
        /\ type = "float32" <=> f = "f"
        /\ type = "float64" <=> f = "g"
    BY FormatTypes
  <2> HIDE DEF type, f
  <2> QED
    BY <1>2, <2>1, <2>2
<1>4. CASE type \notin BareTypes
  BY <1>1, <1>3, <1>4 DEF IsJsonElement
<1>5. CASE type \in BareTypes
  <2>1. text = ScalarText(element, value)
    <3>1. ~IsOpaque(element)
      BY DEF IsElement, IsOpaque, UnsupportedTypnames, OidLikeTypnames
    <3>2. ~IsTemporal(element)
      BY <1>2, <1>5, IntegerTypesAre DEF IsTemporal, TemporalTypes, BareTypes, FloatTypes
    <3> QED
      BY <3>1, <3>2 DEF PlainText
  <2>2. IsJsonElement(element, value) <=> IsJson(text)
    BY <1>1, <1>5 DEF IsJsonElement
  <2>3. /\ f \in IntegerFormats => text.form = "int"
        /\ f = "b" => text.form = "bool"
        /\ f = "e" => text.form = "empty"
        /\ f = "d" => text.form = "decimal"
        /\ f = "d256" => text.form = "hex"
    BY <2>1, ScalarForms
  <2>4. f \in {"f", "g"} => text.form = "float" /\ text.of = value
    <3>1. f \in {"f", "g"} => text = Text("float", value)
      BY <2>1, ScalarTexts
    <3>2. \A form, of : Text(form, of).form = form /\ Text(form, of).of = of
      BY DEF Text
    <3> QED
      BY <3>1, <3>2
  <2>5. f \in IntegerFormats => f \notin {"e", "d256", "f", "g"}
    BY DEF IntegerFormats
  <2>6. IsJson(text)
          <=> \/ text.form \in {"bool", "int", "decimal", "json"}
              \/ text.form = "float" /\ text.of \notin NotFinite
    BY DEF IsJson
  <2> HIDE DEF f, text, type
  <2>7. CASE f \in IntegerFormats
    BY <2>2, <2>3, <2>5, <2>6, <2>7 DEF f
  <2>8. CASE f \in {"b", "e", "d", "d256"}
    <3>1. \/ f = "b" /\ text.form = "bool"
          \/ f = "e" /\ text.form = "empty"
          \/ f = "d" /\ text.form = "decimal"
          \/ f = "d256" /\ text.form = "hex"
      BY <2>3, <2>8
    <3> QED
      BY <2>2, <2>6, <3>1 DEF f
  <2>9. CASE f \in {"f", "g"}
    BY <2>2, <2>4, <2>6, <2>9 DEF f
  <2> QED
    BY <1>3, <1>5, <2>7, <2>8, <2>9
<1> QED
  BY <1>4, <1>5

\* Lists, structs and maps.
LEMMA NestedFits ==
  ASSUME NEW s \in Schemas, NEW value, s.dictionary = <<>>, s.child # <<>>
  PROVE  FitsOrMisfits(s, value, NestedText(s, value))
<1> DEFINE f == s.format
           c == s.child[1]
           text == NestedText(s, value)
           type == PlainType(s)
<1>1. f \in NestedFormats /\ IsElement(c)
  BY SchemasAssumption DEF IsElement
<1>2. Printed(s) = s
  BY DEF Printed
<1>3. FormatType(f) \in {"array", "struct", "map"}
  BY <1>1 DEF NestedFormats, ListFormats, FormatType
<1>4. f \notin ByteFormats \cup {"e", "T", "tDs"} /\ ~IsUnprintable(s, value)
  BY <1>1, <1>3
  DEF NestedFormats, ListFormats, ByteFormats, IsUnprintable, IsTemporal, TemporalTypes
<1>5. Misfits(s, value)
        <=> \/ s.extension = "arrow.uuid" /\ s.typname # "uuid"
            \/ ~IsJsonElement(c, value)
  <2>1. f \notin BinaryFormats
    BY <1>4, ByteFormatsAre
  <2>2. IsJsonElement(c, value)
          <=> ~ \/ c.format \in {"e", "d256"}
                \/ c.format \in {"f", "g"} /\ value \in NotFinite
    BY <1>1, ElementTexts
  <2>3. Misfits(s, value)
          <=> \/ s.extension = "arrow.uuid" /\ s.typname # "uuid"
              \/ c.format \in {"e", "d256"}
              \/ c.format \in {"f", "g"} /\ value \in NotFinite
    BY <1>4, <2>1 DEF Misfits
  <2> QED
    BY <2>2, <2>3
<1>6. text.form = IF IsJsonElement(c, value) THEN "json" ELSE "broken"
  BY DEF NestedText, Text
<1>7. /\ s.extension # "arrow.json"
      /\ s.typname \in DOMAIN TypnameFormats => f \in TypnameFormats[s.typname]
  BY <1>2, <1>4, MetadataAssumption, ByteFormatsAre
<1>8. s.typname \notin {"date", "time", "timetz", "interval", "uuid", "json", "jsonb"}
  <2>1. \A t \in {"date", "time", "timetz", "interval", "uuid", "json", "jsonb"} :
          t \in DOMAIN TypnameFormats
            /\ TypnameFormats[t] \subseteq TextFormats \cup
                 {"tdD", "tdm", "tts", "ttm", "ttu", "ttn", "tiM", "tiD", "tin"}
    BY DEF TypnameFormats, OidLikeTypnames
  <2>2. f \notin TextFormats \cup
          {"tdD", "tdm", "tts", "ttm", "ttu", "ttn", "tiM", "tiD", "tin"}
    BY <1>1 DEF NestedFormats, ListFormats, TextFormats
  <2> QED
    BY <1>7, <2>1, <2>2
<1>9. CASE s.extension = "arrow.uuid"
  <2>1. type = "uuid" /\ Misfits(s, value)
    BY <1>5, <1>8, <1>9 DEF PlainType
  <2> QED
    BY <1>6, <2>1, Forms DEF FitsOrMisfits
<1>10. CASE s.extension # "arrow.uuid"
  <2>1. type \in {"unknown", "array", "struct", "map"}
    BY <1>3, <1>7, <1>8, <1>10, TypesOfFormats
  <2>2. type # "unknown" => DocumentedForms(type) = {"json"}
    BY <2>1, Forms
  <2> QED
    BY <1>5, <1>6, <1>10, <2>2 DEF FitsOrMisfits
<1> QED
  BY <1>9, <1>10

\* The type of a column and the text of its cells agree for every schema a driver may
\* bring and every value of it, but for the misfits, and never for those.
THEOREM TextsFitTypes == Spec => []TextFitsType
<1>1. ValueInv => TextFitsType
  <2> SUFFICES ASSUME ValueInv, column # Absent, stage # "driver", ~row[1].is_null
               PROVE  TextFitsType
    BY DEF TextFitsType
  <2>1. PICK col : col = column
    OBVIOUS
  <2>2. IsColumn(col) /\ row[1] = CellFromArrow(col)
    BY <2>1 DEF ValueInv
  <2>3. PICK value : value = col.slots[SlotOf(col)].value
    OBVIOUS
  <2>4. PICK schema \in Schemas : schema = col.schema
    BY <2>2, Columns
  <2>5. value \in ValuesOf(schema)
    BY <2>2, <2>3, <2>4, Columns
  <2>6. row[1].text = CellText(schema, value)
    BY <2>2, <2>3, <2>4 DEF CellFromArrow
  <2> DEFINE printed == Printed(schema)
  <2>7. FitsOrMisfits(printed, value, CellText(schema, value))
    <3>1. CASE schema.dictionary = <<>> /\ schema.child # <<>>
      <4>1. CellText(schema, value) = NestedText(schema, value) /\ printed = schema
        BY <3>1 DEF CellText, Printed
      <4> QED
        BY <3>1, <4>1, NestedFits
    <3>2. CASE ~(schema.dictionary = <<>> /\ schema.child # <<>>)
      <4>1. CellText(schema, value) = PlainText(printed, value)
        BY <3>2 DEF CellText, Printed
      <4>2. printed.child = <<>> /\ printed.format \notin NestedFormats
        <5>1. CASE schema.dictionary = <<>>
          <6>1. schema.child # <<>> <=> schema.format \in NestedFormats
            BY SchemasAssumption
          <6> QED
            BY <3>2, <5>1, <6>1 DEF Printed
        <5>2. CASE schema.dictionary # <<>>
          BY <5>2, SchemasAssumption
        <5> QED
          BY <5>1, <5>2
      <4>3. /\ IsTemporal(printed) => value[1] \in Int
            /\ printed.format \in {"tiD", "tin"} => value[3] \in Int
            /\ PlainType(printed) = "json" => value # <<"">>
        BY <2>5, ValuesAssumption
      <4>4. /\ printed.typname \in DOMAIN TypnameFormats =>
                 printed.format \in BinaryFormats \cup TypnameFormats[printed.typname]
            /\ printed.extension = "arrow.json" => printed.format \in TextFormats
        BY MetadataAssumption
      <4>5. IsPlain(printed, value)
        BY <4>2, <4>3, <4>4 DEF IsPlain
      <4> QED
        BY <4>1, <4>5, PlainFits
    <3> QED
      BY <3>1, <3>2
  <2>8. ColumnType(schema) = PlainType(printed)
    BY CellTexts
  <2>9. ColumnType(column.schema) # "unknown" =>
          (row[1].text.form \in DocumentedForms(ColumnType(column.schema))
             <=> ~Misfits(Printed(column.schema), column.slots[SlotOf(column)].value))
    BY <2>1, <2>3, <2>4, <2>6, <2>7, <2>8 DEF FitsOrMisfits
  <2> QED
    BY <2>9 DEF TextFitsType
<1> QED
  BY <1>1, ValueInvariant, PTL
=============================================================================
