------------------------ MODULE RecurrenceDatesProofs -----------------------
(***************************************************************************)
(* The scheduler, the backfill and the next occurrence shown to the client *)
(* name the same days: for every schedule that the columns can hold, every *)
(* zone and every year.  The proofs rest on the calendar: time.Date and    *)
(* Time.Date are inverse to each other, and months and years are in order. *)
(***************************************************************************)
EXTENDS RecurrenceDates, WellFoundedInduction, TLAPS

-----------------------------------------------------------------------------
(* The calendar.                                                           *)

\* A year ends where the next begins.
LEMMA YearLength ==
  ASSUME NEW y \in Int
  PROVE  /\ Jan1(y) \in Int /\ LeapYear(y) \in BOOLEAN
         /\ Jan1(y + 1) = Jan1(y) + (IF LeapYear(y) THEN 366 ELSE 365)
<1>1. FirstYear \in Int
  BY DateAssumptions
<1>2. LeapsBefore(y) \in Int /\ LeapsBefore(FirstYear) \in Int /\ LeapsBefore(y + 1) \in Int
  BY <1>1 DEF LeapsBefore
<1>3. /\ y \div 4 = (y - 1) \div 4 + (IF y % 4 = 0 THEN 1 ELSE 0)
      /\ y \div 100 = (y - 1) \div 100 + (IF y % 100 = 0 THEN 1 ELSE 0)
      /\ y \div 400 = (y - 1) \div 400 + (IF y % 400 = 0 THEN 1 ELSE 0)
  OBVIOUS
<1>4. (y % 400 = 0 => y % 100 = 0) /\ (y % 100 = 0 => y % 4 = 0)
  OBVIOUS
<1>5. LeapsBefore(y + 1) = LeapsBefore(y) + (IF LeapYear(y) THEN 1 ELSE 0)
  BY <1>3, <1>4 DEF LeapsBefore, LeapYear
<1>6. QED BY <1>1, <1>2, <1>5 DEF Jan1, LeapYear

\* Years follow one another.
LEMMA YearOrder ==
  ASSUME NEW x \in Int, NEW y \in Int, x < y
  PROVE  Jan1(x + 1) <= Jan1(y)
<1>1. FirstYear \in Int
  BY DateAssumptions
<1>2. (x + 1 - 1) \div 4 - (x + 1 - 1) \div 100 <= (y - 1) \div 4 - (y - 1) \div 100
  OBVIOUS
<1>3. (x + 1 - 1) \div 400 <= (y - 1) \div 400
  OBVIOUS
<1>4. LeapsBefore(x + 1) <= LeapsBefore(y)
  BY <1>2, <1>3 DEF LeapsBefore
<1>5. LeapsBefore(x + 1) \in Int /\ LeapsBefore(y) \in Int /\ LeapsBefore(FirstYear) \in Int
  BY <1>1 DEF LeapsBefore
<1>6. QED BY <1>1, <1>4, <1>5 DEF Jan1

\* The year of a day.
LEMMA YearOfType ==
  ASSUME NEW d \in Int
  PROVE  YearOf(d) \in Int /\ Jan1(YearOf(d)) <= d /\ d < Jan1(YearOf(d) + 1)
<1> DEFINE near == FirstYear + (400 * d) \div 146097
<1>1. near \in Int /\ FirstYear \in Int
  BY DateAssumptions
<1>2. Jan1(near - 1) <= d /\ d < Jan1(near + 2)
  <2> DEFINE k == (400 * d) \div 146097
  <2>1. k \in Int /\ 146097 * k <= 400 * d /\ 400 * d < 146097 * k + 146097
    OBVIOUS
  <2>2. ASSUME NEW y \in Int PROVE
          /\ LeapsBefore(y) \in Int
          /\ 400 * LeapsBefore(y) <= 97 * (y - 1) + 400 /\ 400 * LeapsBefore(y) >= 97 * (y - 1) - 800
    <3>1. /\ (y - 1) \div 4 \in Int /\ (y - 1) \div 100 \in Int /\ (y - 1) \div 400 \in Int
          /\ 4 * ((y - 1) \div 4) <= y - 1 /\ y - 1 < 4 * ((y - 1) \div 4) + 4
          /\ 100 * ((y - 1) \div 100) <= y - 1 /\ y - 1 < 100 * ((y - 1) \div 100) + 100
          /\ 400 * ((y - 1) \div 400) <= y - 1 /\ y - 1 < 400 * ((y - 1) \div 400) + 400
      OBVIOUS
    <3>2. QED BY <3>1 DEF LeapsBefore
  <2>3. /\ LeapsBefore(near - 1) \in Int /\ LeapsBefore(near + 2) \in Int /\ LeapsBefore(FirstYear) \in Int
        /\ 400 * LeapsBefore(near - 1) <= 97 * (near - 1 - 1) + 400
        /\ 400 * LeapsBefore(near + 2) >= 97 * (near + 2 - 1) - 800
        /\ 400 * LeapsBefore(FirstYear) <= 97 * (FirstYear - 1) + 400
        /\ 400 * LeapsBefore(FirstYear) >= 97 * (FirstYear - 1) - 800
    BY <1>1, <2>2
  <2>4. near = FirstYear + k
    OBVIOUS
  <2> HIDE DEF near, k
  <2>5. QED BY <1>1, <2>1, <2>3, <2>4 DEF Jan1
<1>3. Jan1(near) \in Int /\ Jan1(near + 1) \in Int
  BY <1>1, YearLength
<1>4. \E y \in near - 1 .. near + 1 : Jan1(y) <= d /\ d < Jan1(y + 1)
  <2>1. near - 1 + 1 = near /\ near + 1 + 1 = near + 2
    BY <1>1
  <2>2. near - 1 \in near - 1 .. near + 1 /\ near \in near - 1 .. near + 1 /\ near + 1 \in near - 1 .. near + 1
    BY <1>1
  <2> HIDE DEF near
  <2>3. CASE d < Jan1(near)
    BY <1>2, <2>1, <2>2, <2>3
  <2>4. CASE Jan1(near) <= d /\ d < Jan1(near + 1)
    BY <1>2, <2>1, <2>2, <2>4
  <2>5. CASE Jan1(near + 1) <= d
    BY <1>2, <2>1, <2>2, <2>5
  <2>6. QED BY <1>3, <2>3, <2>4, <2>5
<1>5. YearOf(d) \in near - 1 .. near + 1 /\ Jan1(YearOf(d)) <= d /\ d < Jan1(YearOf(d) + 1)
  BY <1>4 DEF YearOf
<1>6. QED BY <1>1, <1>5

\* The months of a year follow one another and fill it.
LEMMA MonthLength ==
  ASSUME NEW y \in Int
  PROVE  /\ \A m \in 1 .. 12 : Month1(y, m) \in Int /\ LastOfMonth(y, m) \in 28 .. 31
         /\ \A m \in 1 .. 11 : Month1(y, m + 1) = Month1(y, m) + LastOfMonth(y, m)
         /\ Month1(y, 1) = Jan1(y) /\ Month1(y, 12) + LastOfMonth(y, 12) = Jan1(y + 1)
<1>1. /\ Jan1(y) \in Int /\ LeapYear(y) \in BOOLEAN
      /\ Jan1(y + 1) = Jan1(y) + (IF LeapYear(y) THEN 366 ELSE 365)
  BY YearLength
<1> DEFINE leap == IF LeapYear(y) THEN 1 ELSE 0
<1>2. leap \in {0, 1}
  OBVIOUS
<1>3. /\ Month1(y, 1) = Jan1(y) /\ Month1(y, 2) = Jan1(y) + 31
      /\ Month1(y, 3) = Jan1(y) + 59 + leap /\ Month1(y, 4) = Jan1(y) + 90 + leap
      /\ Month1(y, 5) = Jan1(y) + 120 + leap /\ Month1(y, 6) = Jan1(y) + 151 + leap
      /\ Month1(y, 7) = Jan1(y) + 181 + leap /\ Month1(y, 8) = Jan1(y) + 212 + leap
      /\ Month1(y, 9) = Jan1(y) + 243 + leap /\ Month1(y, 10) = Jan1(y) + 273 + leap
      /\ Month1(y, 11) = Jan1(y) + 304 + leap /\ Month1(y, 12) = Jan1(y) + 334 + leap
  BY <1>1 DEF Month1, DaysBefore
<1>4. /\ LastOfMonth(y, 1) = 31 /\ LastOfMonth(y, 2) = 28 + leap /\ LastOfMonth(y, 3) = 31
      /\ LastOfMonth(y, 4) = 30 /\ LastOfMonth(y, 5) = 31 /\ LastOfMonth(y, 6) = 30
      /\ LastOfMonth(y, 7) = 31 /\ LastOfMonth(y, 8) = 31 /\ LastOfMonth(y, 9) = 30
      /\ LastOfMonth(y, 10) = 31 /\ LastOfMonth(y, 11) = 30 /\ LastOfMonth(y, 12) = 31
  BY DEF LastOfMonth
<1>5. \A m \in 1 .. 12 : m \in {1, 2, 3, 4, 5, 6, 7, 8, 9, 10, 11, 12}
  OBVIOUS
<1>6. Jan1(y + 1) = Jan1(y) + 365 + leap
  BY <1>1
<1> HIDE DEF leap
<1>7. \A m \in 1 .. 12 : Month1(y, m) \in Int /\ LastOfMonth(y, m) \in 28 .. 31
  BY <1>1, <1>2, <1>3, <1>4, <1>5
<1>8. ASSUME NEW m \in 1 .. 11 PROVE Month1(y, m + 1) = Month1(y, m) + LastOfMonth(y, m)
  <2>1. m \in {1, 2, 3, 4, 5, 6, 7, 8, 9, 10, 11}
    OBVIOUS
  <2>2. QED BY <1>1, <1>2, <1>3, <1>4, <2>1
<1>9. QED BY <1>1, <1>2, <1>3, <1>4, <1>6, <1>7, <1>8

\* Months follow one another: the end of one is not after the start of a later one.
LEMMA MonthOrder ==
  ASSUME NEW y \in Int, NEW m \in 1 .. 12, NEW n \in 1 .. 12, m < n
  PROVE  Month1(y, m) + LastOfMonth(y, m) <= Month1(y, n)
<1> DEFINE first == [i \in 1 .. 12 |-> Month1(y, i)]
<1>1. \A i \in 1 .. 12 : first[i] \in Int
  BY MonthLength
<1>2. \A i \in 1 .. 11 : first[i] <= first[i + 1]
  <2>1. ASSUME NEW i \in 1 .. 11 PROVE first[i] <= first[i + 1]
    <3>1. i \in 1 .. 12 /\ i + 1 \in 1 .. 12
      OBVIOUS
    <3>2. Month1(y, i + 1) = Month1(y, i) + LastOfMonth(y, i) /\ LastOfMonth(y, i) \in 28 .. 31
          /\ Month1(y, i) \in Int
      BY <3>1, MonthLength
    <3>3. QED BY <3>1, <3>2
  <2>2. QED BY <2>1
<1>3. /\ first[1] <= first[2] /\ first[2] <= first[3] /\ first[3] <= first[4]
      /\ first[4] <= first[5] /\ first[5] <= first[6] /\ first[6] <= first[7]
      /\ first[7] <= first[8] /\ first[8] <= first[9] /\ first[9] <= first[10]
      /\ first[10] <= first[11] /\ first[11] <= first[12]
  BY <1>2
<1>4. /\ first[1] \in Int /\ first[2] \in Int /\ first[3] \in Int /\ first[4] \in Int
      /\ first[5] \in Int /\ first[6] \in Int /\ first[7] \in Int /\ first[8] \in Int
      /\ first[9] \in Int /\ first[10] \in Int /\ first[11] \in Int /\ first[12] \in Int
  BY <1>1
<1> HIDE DEF first
<1>5. ASSUME NEW i \in 1 .. 12, NEW j \in 1 .. 12, i <= j PROVE first[i] <= first[j]
  <2>1. i \in {1, 2, 3, 4, 5, 6, 7, 8, 9, 10, 11, 12} /\ j \in {1, 2, 3, 4, 5, 6, 7, 8, 9, 10, 11, 12}
    OBVIOUS
  <2>2. QED BY <1>3, <1>4, <1>5, <2>1
<1>6. m \in 1 .. 11 /\ m + 1 \in 1 .. 12 /\ m + 1 <= n
  OBVIOUS
<1>7. first[m + 1] = Month1(y, m) + LastOfMonth(y, m) /\ first[n] = Month1(y, n)
  BY <1>6, MonthLength DEF first
<1>8. QED BY <1>5, <1>6, <1>7

\* A month lies within its year.
LEMMA MonthInYear ==
  ASSUME NEW y \in Int, NEW m \in 1 .. 12
  PROVE  Jan1(y) <= Month1(y, m) /\ Month1(y, m) + LastOfMonth(y, m) <= Jan1(y + 1)
<1>1. /\ 1 \in 1 .. 12 /\ 12 \in 1 .. 12 /\ Jan1(y) \in Int /\ y + 1 \in Int /\ Jan1(y + 1) \in Int
      /\ Month1(y, 1) = Jan1(y) /\ Month1(y, 12) + LastOfMonth(y, 12) = Jan1(y + 1)
      /\ LastOfMonth(y, 1) \in 28 .. 31 /\ LastOfMonth(y, 12) \in 28 .. 31
      /\ Month1(y, 12) \in Int
  BY YearLength, MonthLength
<1>2. Month1(y, m) \in Int /\ LastOfMonth(y, m) \in 28 .. 31
  BY MonthLength
<1>3. Jan1(y) <= Month1(y, m)
  <2>1. 1 < m => Month1(y, 1) + LastOfMonth(y, 1) <= Month1(y, m)
    BY <1>1, MonthOrder
  <2>2. m = 1 \/ 1 < m
    OBVIOUS
  <2>3. QED BY <1>1, <1>2, <2>1, <2>2
<1>4. Month1(y, m) + LastOfMonth(y, m) <= Jan1(y + 1)
  <2>1. m < 12 => Month1(y, m) + LastOfMonth(y, m) <= Month1(y, 12)
    BY <1>1, MonthOrder
  <2>2. m = 12 \/ m < 12
    OBVIOUS
  <2>3. QED BY <1>1, <1>2, <2>1, <2>2
<1>5. QED BY <1>3, <1>4

\* The month of a day.
LEMMA MonthOfType ==
  ASSUME NEW d \in Int
  PROVE  /\ MonthOf(d) \in 1 .. 12
         /\ Month1(YearOf(d), MonthOf(d)) <= d
         /\ d < Month1(YearOf(d), MonthOf(d)) + LastOfMonth(YearOf(d), MonthOf(d))
<1> DEFINE y == YearOf(d)
           first == [i \in 1 .. 12 |-> Month1(y, i)]
           last == [i \in 1 .. 12 |-> LastOfMonth(y, i)]
<1>1. y \in Int /\ Jan1(y) <= d /\ d < Jan1(y + 1)
  BY YearOfType
<1> HIDE DEF y
<1>2. /\ \A m \in 1 .. 12 : first[m] \in Int /\ last[m] \in 28 .. 31
      /\ first[1] <= d /\ d < first[12] + last[12]
  BY <1>1, MonthLength
<1>3. \A m \in 1 .. 11 : first[m + 1] = first[m] + last[m]
  <2>1. ASSUME NEW m \in 1 .. 11 PROVE first[m + 1] = first[m] + last[m]
    <3>1. m \in 1 .. 12 /\ m + 1 \in 1 .. 12
      OBVIOUS
    <3>2. QED BY <1>1, <3>1, MonthLength
  <2>2. QED BY <2>1
<1>4. \E m \in 1 .. 12 : first[m] <= d /\ d < first[m] + last[m]
  <2> HIDE DEF first, last
  <2>1. /\ first[2] = first[1] + last[1] /\ first[3] = first[2] + last[2]
        /\ first[4] = first[3] + last[3] /\ first[5] = first[4] + last[4]
        /\ first[6] = first[5] + last[5] /\ first[7] = first[6] + last[6]
        /\ first[8] = first[7] + last[7] /\ first[9] = first[8] + last[8]
        /\ first[10] = first[9] + last[9] /\ first[11] = first[10] + last[10]
        /\ first[12] = first[11] + last[11]
    BY <1>3
  <2>2. /\ first[1] \in Int /\ first[2] \in Int /\ first[3] \in Int /\ first[4] \in Int
        /\ first[5] \in Int /\ first[6] \in Int /\ first[7] \in Int /\ first[8] \in Int
        /\ first[9] \in Int /\ first[10] \in Int /\ first[11] \in Int /\ first[12] \in Int
    BY <1>2
  <2>3. \/ first[1] <= d /\ d < first[2]
        \/ first[2] <= d /\ d < first[3]
        \/ first[3] <= d /\ d < first[4]
        \/ first[4] <= d /\ d < first[5]
        \/ first[5] <= d /\ d < first[6]
        \/ first[6] <= d /\ d < first[7]
        \/ first[7] <= d /\ d < first[8]
        \/ first[8] <= d /\ d < first[9]
        \/ first[9] <= d /\ d < first[10]
        \/ first[10] <= d /\ d < first[11]
        \/ first[11] <= d /\ d < first[12]
        \/ first[12] <= d
    BY <1>2, <2>2
  <2>4. \/ \E m \in 1 .. 11 : first[m] <= d /\ d < first[m + 1]
        \/ first[12] <= d
    <3>1. ASSUME NEW m \in 1 .. 11, NEW n, n = m + 1, first[m] <= d, d < first[n]
          PROVE  \E i \in 1 .. 11 : first[i] <= d /\ d < first[i + 1]
      BY <3>1
    <3>2. /\ 2 = 1 + 1 /\ 3 = 2 + 1 /\ 4 = 3 + 1 /\ 5 = 4 + 1 /\ 6 = 5 + 1 /\ 7 = 6 + 1
          /\ 8 = 7 + 1 /\ 9 = 8 + 1 /\ 10 = 9 + 1 /\ 11 = 10 + 1 /\ 12 = 11 + 1
          /\ \A i \in {1, 2, 3, 4, 5, 6, 7, 8, 9, 10, 11} : i \in 1 .. 11
      OBVIOUS
    <3>3. QED BY <2>3, <3>1, <3>2
  <2>5. QED BY <1>2, <1>3, <2>4
<1>5. \E m \in 1 .. 12 : Month1(y, m) <= d /\ d < Month1(y, m) + LastOfMonth(y, m)
  BY <1>4
<1>6. QED BY <1>5 DEF MonthOf, y

\* time.Date and Time.Date are inverse to each other.
LEMMA DateOfDay ==
  ASSUME NEW y \in Int, NEW m \in 1 .. 12, NEW k \in 1 .. LastOfMonth(y, m)
  PROVE  /\ DayNumber(y, m, k) \in Int
         /\ YearOf(DayNumber(y, m, k)) = y /\ MonthOf(DayNumber(y, m, k)) = m
         /\ DayOf(DayNumber(y, m, k)) = k
<1>1. Month1(y, m) \in Int /\ LastOfMonth(y, m) \in 28 .. 31
  BY MonthLength
<1>2. PICK d \in Int : d = DayNumber(y, m, k)
  BY <1>1 DEF DayNumber
<1>3. d = Month1(y, m) + k - 1 /\ Month1(y, m) <= d /\ d < Month1(y, m) + LastOfMonth(y, m)
  BY <1>1, <1>2 DEF DayNumber
<1>4. Jan1(y) <= d /\ d < Jan1(y + 1)
  <2>1. Jan1(y) <= Month1(y, m) /\ Month1(y, m) + LastOfMonth(y, m) <= Jan1(y + 1)
    BY MonthInYear
  <2>2. Jan1(y) \in Int /\ y + 1 \in Int /\ Jan1(y + 1) \in Int
    BY YearLength
  <2>3. QED BY <1>1, <1>3, <2>1, <2>2
<1>5. YearOf(d) = y
  <2>1. PICK x \in Int : x = YearOf(d) /\ Jan1(x) <= d /\ d < Jan1(x + 1)
    BY YearOfType
  <2>2. Jan1(x) \in Int /\ Jan1(y) \in Int /\ x + 1 \in Int /\ y + 1 \in Int
        /\ Jan1(x + 1) \in Int /\ Jan1(y + 1) \in Int
    BY YearLength
  <2>3. ~(x < y)
    <3>1. x < y => Jan1(x + 1) <= Jan1(y)
      BY YearOrder
    <3>2. QED BY <1>4, <2>1, <2>2, <3>1
  <2>4. ~(y < x)
    <3>1. y < x => Jan1(y + 1) <= Jan1(x)
      BY YearOrder
    <3>2. QED BY <1>4, <2>1, <2>2, <3>1
  <2>5. QED BY <2>1, <2>3, <2>4
<1>6. MonthOf(d) = m
  <2>1. PICK n \in 1 .. 12 : n = MonthOf(d) /\ Month1(y, n) <= d /\ d < Month1(y, n) + LastOfMonth(y, n)
    BY <1>5, MonthOfType
  <2>2. Month1(y, n) \in Int /\ LastOfMonth(y, n) \in 28 .. 31
    BY MonthLength
  <2>3. ~(n < m)
    <3>1. n < m => Month1(y, n) + LastOfMonth(y, n) <= Month1(y, m)
      BY MonthOrder
    <3>2. QED BY <1>1, <1>3, <2>1, <2>2, <3>1
  <2>4. ~(m < n)
    <3>1. m < n => Month1(y, m) + LastOfMonth(y, m) <= Month1(y, n)
      BY MonthOrder
    <3>2. QED BY <1>1, <1>3, <2>1, <2>2, <3>1
  <2>5. QED BY <2>1, <2>3, <2>4
<1>7. QED BY <1>1, <1>2, <1>3, <1>5, <1>6 DEF DayOf

\* A day is the day of the month it says.
LEMMA DayOfType ==
  ASSUME NEW d \in Int
  PROVE  /\ DayOf(d) \in 1 .. LastOfMonth(YearOf(d), MonthOf(d)) /\ DayOf(d) \in 1 .. 31
         /\ d = DayNumber(YearOf(d), MonthOf(d), DayOf(d))
<1>1. PICK y \in Int, m \in 1 .. 12 :
        y = YearOf(d) /\ m = MonthOf(d) /\ Month1(y, m) <= d /\ d < Month1(y, m) + LastOfMonth(y, m)
  BY YearOfType, MonthOfType
<1>2. Month1(y, m) \in Int /\ LastOfMonth(y, m) \in 28 .. 31
  BY MonthLength
<1>3. DayOf(d) = d - Month1(y, m) + 1
  BY <1>1 DEF DayOf
<1>4. QED BY <1>1, <1>2, <1>3 DEF DayNumber

\* Later days are in later years and months, or in the same.
LEMMA DayOrder ==
  ASSUME NEW c \in Int, NEW d \in Int, c <= d
  PROVE  /\ YearOf(c) <= YearOf(d)
         /\ MonthIndex(c) \in Int /\ MonthIndex(d) \in Int /\ MonthIndex(c) <= MonthIndex(d)
<1>1. PICK x \in Int, y \in Int :
        /\ x = YearOf(c) /\ Jan1(x) <= c /\ c < Jan1(x + 1)
        /\ y = YearOf(d) /\ Jan1(y) <= d /\ d < Jan1(y + 1)
  BY YearOfType
<1>2. PICK m \in 1 .. 12, n \in 1 .. 12 :
        /\ m = MonthOf(c) /\ Month1(x, m) <= c /\ c < Month1(x, m) + LastOfMonth(x, m)
        /\ n = MonthOf(d) /\ Month1(y, n) <= d /\ d < Month1(y, n) + LastOfMonth(y, n)
  BY <1>1, MonthOfType
<1>3. x <= y
  <2>1. Jan1(x) \in Int /\ Jan1(y + 1) \in Int
    BY YearLength
  <2>2. y < x => Jan1(y + 1) <= Jan1(x)
    BY YearOrder
  <2>3. QED BY <1>1, <2>1, <2>2
<1>4. x = y => m <= n
  <2>1. Month1(y, n) \in Int /\ LastOfMonth(y, n) \in 28 .. 31 /\ Month1(y, m) \in Int
    BY MonthLength
  <2>2. n < m => Month1(y, n) + LastOfMonth(y, n) <= Month1(y, m)
    BY MonthOrder
  <2>3. QED BY <1>2, <2>1, <2>2
<1>5. MonthIndex(c) = 12 * (x - FirstYear) + m - 1 /\ MonthIndex(d) = 12 * (y - FirstYear) + n - 1
  BY <1>1, <1>2 DEF MonthIndex
<1>6. FirstYear \in Int
  BY DateAssumptions
<1>7. QED BY <1>1, <1>3, <1>4, <1>5, <1>6

\* resolveMonthDay stays in its month.
LEMMA ResolveIn ==
  ASSUME NEW y \in Int, NEW m \in 1 .. 12, NEW k \in 1 .. 31
  PROVE  /\ ResolveMonthDay(y, m, k) \in Int
         /\ YearOf(ResolveMonthDay(y, m, k)) = y /\ MonthOf(ResolveMonthDay(y, m, k)) = m
<1>1. LastOfMonth(y, m) \in 28 .. 31
  BY MonthLength
<1>2. Min({k, LastOfMonth(y, m)}) \in 1 .. LastOfMonth(y, m)
  <2>1. PICK l \in 28 .. 31 : l = LastOfMonth(y, m)
    BY <1>1
  <2>2. \E x \in {k, l} : \A w \in {k, l} : x =< w
    OBVIOUS
  <2>3. Min({k, l}) \in {k, l} /\ Min({k, l}) <= l
    BY <2>2 DEF Min
  <2>4. QED BY <2>1, <2>3
<1>3. QED BY <1>2, DateOfDay DEF ResolveMonthDay

\* The months counted from the January of FirstYear.
LEMMA MonthNumbered ==
  ASSUME NEW n \in Int
  PROVE  FirstYear + (n \div 12) \in Int /\ (n % 12) + 1 \in 1 .. 12
<1>1. FirstYear \in Int
  BY DateAssumptions
<1>2. n \div 12 \in Int /\ n % 12 \in 0 .. 11
  OBVIOUS
<1>3. QED BY <1>1, <1>2

-----------------------------------------------------------------------------
(* Zones.                                                                  *)

\* Days begin one after another, whatever the clocks do.
LEMMA MidnightOrder ==
  ASSUME NEW z \in Zone, NEW c \in Int, NEW d \in Int
  PROVE  /\ Midnight(z, c) \in Int /\ Midnight(z, d) \in Int
         /\ c < d => Midnight(z, c) < Midnight(z, d)
<1>1. z.offset \in -12 .. 14
  BY DEF Zone
<1>2. QED BY <1>1 DEF Midnight

\* The local day of an instant.
LEMMA StartOfDayType ==
  ASSUME NEW z \in Zone, NEW t \in Int
  PROVE  /\ StartOfDayIn(z, t) \in Int
         /\ Midnight(z, StartOfDayIn(z, t)) <= t /\ t < Midnight(z, StartOfDayIn(z, t) + 1)
<1> DEFINE b == t \div 24
<1>1. z.offset \in -12 .. 14
  BY DEF Zone
<1>2. b \in Int /\ 24 * b <= t /\ t < 24 * b + 24
  OBVIOUS
<1> HIDE DEF b
<1>3. Midnight(z, b - 1) <= t /\ t < Midnight(z, b + 2)
  BY <1>1, <1>2 DEF Midnight
<1>4. Midnight(z, b) \in Int /\ Midnight(z, b + 1) \in Int
  BY <1>2, MidnightOrder
<1>5. b - 1 + 1 = b /\ b + 1 + 1 = b + 2
      /\ b - 1 \in b - 1 .. b + 1 /\ b \in b - 1 .. b + 1 /\ b + 1 \in b - 1 .. b + 1
  BY <1>2
<1>6. \E d \in b - 1 .. b + 1 : Midnight(z, d) <= t /\ t < Midnight(z, d + 1)
  <2>1. CASE t < Midnight(z, b)
    BY <1>3, <1>5, <2>1
  <2>2. CASE Midnight(z, b) <= t /\ t < Midnight(z, b + 1)
    BY <1>5, <2>2
  <2>3. CASE Midnight(z, b + 1) <= t
    BY <1>3, <1>5, <2>3
  <2>4. QED BY <1>4, <2>1, <2>2, <2>3
<1>7. /\ StartOfDayIn(z, t) \in b - 1 .. b + 1
      /\ Midnight(z, StartOfDayIn(z, t)) <= t /\ t < Midnight(z, StartOfDayIn(z, t) + 1)
  BY <1>6 DEF StartOfDayIn, b
<1>8. QED BY <1>2, <1>7

\* An instant is not before a midnight just if its day is not before that day.
LEMMA DayOfInstant ==
  ASSUME NEW z \in Zone, NEW t \in Int, NEW d \in Int
  PROVE  Midnight(z, d) <= t <=> d <= StartOfDayIn(z, t)
<1>1. PICK e \in Int : e = StartOfDayIn(z, t) /\ Midnight(z, e) <= t /\ t < Midnight(z, e + 1)
  BY StartOfDayType
<1>2. /\ Midnight(z, d) \in Int /\ Midnight(z, e) \in Int /\ Midnight(z, e + 1) \in Int
      /\ (d < e => Midnight(z, d) < Midnight(z, e))
      /\ (e + 1 < d => Midnight(z, e + 1) < Midnight(z, d))
  BY MidnightOrder
<1>3. e < d => e + 1 = d \/ e + 1 < d
  OBVIOUS
<1>4. QED BY <1>1, <1>2, <1>3

\* A midnight is in its own day.
LEMMA DayOfMidnight ==
  ASSUME NEW z \in Zone, NEW d \in Int
  PROVE  StartOfDayIn(z, Midnight(z, d)) = d
<1>1. PICK t \in Int : t = Midnight(z, d)
  BY MidnightOrder
<1>2. PICK e \in Int : e = StartOfDayIn(z, t)
  BY StartOfDayType
<1>3. d <= e
  BY <1>1, <1>2, DayOfInstant
<1>4. e <= d
  <2>1. Midnight(z, e) <= t
    BY <1>2, StartOfDayType
  <2>2. d < e => Midnight(z, d) < Midnight(z, e)
    BY MidnightOrder
  <2>3. Midnight(z, e) \in Int
    BY MidnightOrder
  <2>4. QED BY <1>1, <2>1, <2>2, <2>3
<1>5. QED BY <1>1, <1>2, <1>3, <1>4

-----------------------------------------------------------------------------
(* The days of a rule.                                                     *)

\* What a rule holds.
LEMMA RuleType ==
  ASSUME NEW r \in Rule, NEW z \in Zone
  PROVE  /\ StartDay(r, z) \in Int /\ (r.end # None => r.end \in Int /\ EndDay(r, z) \in Int)
         /\ r.freq \in {"daily", "weekly", "monthly", "yearly"}
         /\ TargetDay(r, z) \in 1 .. 31
<1>1. /\ r.start \in Int /\ r.end \in Int \cup {None} /\ r.dom \in 1 .. 31 \cup {None}
      /\ r.freq \in {"daily", "weekly", "monthly", "yearly"}
  BY DEF Rule
<1>2. StartDay(r, z) \in Int
  BY <1>1, StartOfDayType DEF StartDay
<1>3. r.end # None => r.end \in Int /\ EndDay(r, z) \in Int
  BY <1>1, StartOfDayType DEF EndDay
<1>4. DayOf(StartDay(r, z)) \in 1 .. 31
  BY <1>2, DayOfType
<1>5. QED BY <1>1, <1>2, <1>3, <1>4 DEF TargetDay

\* Every month has its occurrence.
LEMMA OccurrenceIn ==
  ASSUME NEW r \in Rule, NEW z \in Zone, NEW n \in Int
  PROVE  Occurrence(r, z, n) \in Int /\ MonthIndex(Occurrence(r, z, n)) = n
<1>1. PICK y \in Int, m \in 1 .. 12 : y = FirstYear + (n \div 12) /\ m = (n % 12) + 1
  BY MonthNumbered
<1>2. n = 12 * (n \div 12) + (n % 12) /\ n \div 12 \in Int /\ n % 12 \in 0 .. 11
  OBVIOUS
<1>3. 12 * (y - FirstYear) + m - 1 = n
  BY <1>1, <1>2, DateAssumptions
<1>4. PICK k \in 1 .. 31 : Occurrence(r, z, n) = ResolveMonthDay(y, m, k)
  BY <1>1, RuleType DEF Occurrence
<1>5. /\ Occurrence(r, z, n) \in Int /\ YearOf(Occurrence(r, z, n)) = y
      /\ MonthOf(Occurrence(r, z, n)) = m
  <2>1. /\ ResolveMonthDay(y, m, k) \in Int /\ YearOf(ResolveMonthDay(y, m, k)) = y
        /\ MonthOf(ResolveMonthDay(y, m, k)) = m
    BY ResolveIn
  <2>2. QED BY <1>4, <2>1
<1>6. QED BY <1>3, <1>5 DEF MonthIndex

\* Every year has its anniversary.
LEMMA AnniversaryIn ==
  ASSUME NEW r \in Rule, NEW z \in Zone, NEW y \in Int
  PROVE  Anniversary(r, z, y) \in Int /\ YearOf(Anniversary(r, z, y)) = y
<1>1. MonthOf(StartDay(r, z)) \in 1 .. 12 /\ DayOf(StartDay(r, z)) \in 1 .. 31
  BY RuleType, MonthOfType, DayOfType
<1>2. QED BY <1>1, ResolveIn DEF Anniversary

\* Without summer time, hours count the days.
LEMMA DaysApart ==
  ASSUME NEW r \in Rule, NEW z \in Zone, Steady(r, z), r.freq = "weekly", r.dows = {},
         NEW c \in Int, NEW d \in Int
  PROVE  DaysBetween(z, c, d) = d - c
<1>1. z.summer = {} /\ z.offset \in -12 .. 14
  BY DEF Steady, Zone
<1>2. Midnight(z, d) - Midnight(z, c) = 24 * (d - c)
  BY <1>1 DEF Midnight
<1>3. (24 * (d - c)) \div 24 = d - c
  OBVIOUS
<1>4. QED BY <1>2, <1>3 DEF DaysBetween

\* The day a search for weekly days snaps to is the first that is whole weeks from the start.
LEMMA Snapped ==
  ASSUME NEW r \in Rule, NEW z \in Zone, Steady(r, z), r.freq = "weekly", r.dows = {},
         NEW c \in Int, NEW x \in Int, c <= x
  PROVE  /\ SnapForward(r, z, c) \in Int /\ c <= SnapForward(r, z, c) /\ SnapForward(r, z, c) < c + 7
         /\ (x - StartDay(r, z)) % 7 = 0 <=>
              SnapForward(r, z, c) <= x /\ (x - SnapForward(r, z, c)) % 7 = 0
<1>1. PICK s \in Int : s = StartDay(r, z)
  BY RuleType
<1>2. DaysBetween(z, s, c) = c - s
  BY DaysApart
<1>3. SnapForward(r, z, c) = IF (c - s) % 7 = 0 THEN c ELSE c + 7 - ((c - s) % 7)
  BY <1>1, <1>2 DEF SnapForward
<1>4. (c - s) % 7 \in 0 .. 6 /\ (c - s) \div 7 \in Int /\ c - s = 7 * ((c - s) \div 7) + ((c - s) % 7)
  OBVIOUS
<1>5. PICK f \in Int : f = SnapForward(r, z, c) /\ c <= f /\ f < c + 7 /\ (f - s) % 7 = 0
  <2>1. PICK k \in 0 .. 6, q \in Int : k = (c - s) % 7 /\ q = (c - s) \div 7 /\ c - s = 7 * q + k
    BY <1>4
  <2>2. CASE k = 0
    BY <1>3, <2>1, <2>2
  <2>3. CASE k # 0
    <3>1. c + 7 - k - s = 7 * (q + 1)
      BY <2>1
    <3>2. (7 * (q + 1)) % 7 = 0
      OBVIOUS
    <3>3. QED BY <1>3, <2>1, <2>3, <3>1, <3>2
  <2>4. QED BY <2>2, <2>3
<1>6. (x - s) % 7 = 0 <=> f <= x /\ (x - f) % 7 = 0
  <2>1. PICK p \in Int : f - s = 7 * p
    <3>1. (f - s) \div 7 \in Int /\ f - s = 7 * ((f - s) \div 7)
      BY <1>5
    <3>2. QED BY <3>1
  <2>2. (x - s) % 7 = 0 <=> (x - f) % 7 = 0
    <3>1. x - s = (x - f) + 7 * p
      BY <2>1
    <3>2. ((x - f) + 7 * p) % 7 = (x - f) % 7
      OBVIOUS
    <3>3. QED BY <3>1, <3>2
  <2>3. (x - f) % 7 = 0 => f <= x
    BY <1>5
  <2>4. QED BY <2>2, <2>3
<1>7. QED BY <1>1, <1>5, <1>6

\* The monthly and the yearly search go through the days that fire.
LEMMA MonthlyDays ==
  ASSUME NEW r \in Rule, NEW z \in Zone, NEW c \in Int, NEW d \in Int, c <= d
  PROVE  CollectMonthly(r, z, c, d) = {x \in c .. d : x = Occurrence(r, z, MonthIndex(x))}
<1>1. ASSUME NEW x \in CollectMonthly(r, z, c, d)
      PROVE  x \in c .. d /\ x = Occurrence(r, z, MonthIndex(x))
  <2>1. MonthIndex(c) \in Int /\ MonthIndex(d) \in Int
    BY DayOrder
  <2>2. PICK n \in MonthIndex(c) .. MonthIndex(d) : x = Occurrence(r, z, n)
    BY <1>1 DEF CollectMonthly
  <2>3. n \in Int
    BY <2>1
  <2>4. MonthIndex(Occurrence(r, z, n)) = n
    BY <2>3, OccurrenceIn
  <2>5. QED BY <1>1, <2>2, <2>4 DEF CollectMonthly
<1>2. ASSUME NEW x \in c .. d, x = Occurrence(r, z, MonthIndex(x))
      PROVE  x \in CollectMonthly(r, z, c, d)
  <2>1. x \in Int /\ c <= x /\ x <= d
    OBVIOUS
  <2>2. MonthIndex(x) \in MonthIndex(c) .. MonthIndex(d)
    <3>1. MonthIndex(c) \in Int /\ MonthIndex(x) \in Int /\ MonthIndex(c) <= MonthIndex(x)
      BY <2>1, DayOrder
    <3>2. MonthIndex(d) \in Int /\ MonthIndex(x) <= MonthIndex(d)
      BY <2>1, DayOrder
    <3>3. QED BY <3>1, <3>2
  <2>3. QED BY <1>2, <2>2 DEF CollectMonthly
<1>3. QED BY <1>1, <1>2

LEMMA YearlyDays ==
  ASSUME NEW r \in Rule, NEW z \in Zone, NEW c \in Int, NEW d \in Int, c <= d
  PROVE  CollectYearly(r, z, c, d) = {x \in c .. d : x = Anniversary(r, z, YearOf(x))}
<1>1. ASSUME NEW x \in CollectYearly(r, z, c, d)
      PROVE  x \in c .. d /\ x = Anniversary(r, z, YearOf(x))
  <2>1. YearOf(c) \in Int /\ YearOf(d) \in Int
    BY YearOfType
  <2>2. PICK y \in YearOf(c) .. YearOf(d) : x = Anniversary(r, z, y)
    BY <1>1 DEF CollectYearly
  <2>3. y \in Int
    BY <2>1
  <2>4. YearOf(Anniversary(r, z, y)) = y
    BY <2>3, AnniversaryIn
  <2>5. QED BY <1>1, <2>2, <2>4 DEF CollectYearly
<1>2. ASSUME NEW x \in c .. d, x = Anniversary(r, z, YearOf(x))
      PROVE  x \in CollectYearly(r, z, c, d)
  <2>1. x \in Int /\ c <= x /\ x <= d
    OBVIOUS
  <2>2. YearOf(x) \in YearOf(c) .. YearOf(d)
    <3>1. YearOf(c) <= YearOf(x) /\ YearOf(x) <= YearOf(d)
      BY <2>1, DayOrder
    <3>2. YearOf(c) \in Int /\ YearOf(x) \in Int /\ YearOf(d) \in Int
      BY <2>1, YearOfType
    <3>3. QED BY <3>1, <3>2
  <2>3. QED BY <1>2, <2>2 DEF CollectYearly
<1>3. QED BY <1>1, <1>2

\* The days the weekly search goes through, in whole weeks from the start.
LEMMA AlignedDays ==
  ASSUME NEW r \in Rule, NEW z \in Zone, Steady(r, z), r.freq = "weekly", r.dows = {},
         NEW c \in Int, NEW d \in Int, c <= d
  PROVE  CollectWeeklyAligned(r, z, c, d) =
           {x \in c .. d : DaysBetween(z, StartDay(r, z), x) % 7 = 0}
<1>1. SnapForward(r, z, c) \in Int /\ c <= SnapForward(r, z, c)
  BY Snapped
<1>2. ASSUME NEW x \in c .. d
      PROVE  DaysBetween(z, StartDay(r, z), x) % 7 = 0 <=>
               SnapForward(r, z, c) <= x /\ (x - SnapForward(r, z, c)) % 7 = 0
  <2>1. x \in Int /\ c <= x
    OBVIOUS
  <2>2. DaysBetween(z, StartDay(r, z), x) = x - StartDay(r, z)
    BY <2>1, RuleType, DaysApart
  <2>3. QED BY <2>1, <2>2, Snapped
<1>3. QED BY <1>1, <1>2 DEF CollectWeeklyAligned

\* The backfill lists the days on which the rule fires, from where it resumes.
LEMMA MissedDays ==
  ASSUME NEW r \in Rule, NEW z \in Zone, Steady(r, z), NEW lastAdded \in Int \cup {None},
         NEW d \in Int
  PROVE  AllMissedOccurrences(r, z, lastAdded, d) =
           {x \in ResumeDay(r, z, lastAdded) .. d : FiresToday(r, z, x)}
<1>1. PICK s \in Int : s = StartDay(r, z)
  BY RuleType
<1>2. PICK c \in Int : c = ResumeDay(r, z, lastAdded) /\ s <= c
  <2>1. CASE lastAdded # None /\ StartOfDayIn(z, lastAdded) >= s
    <3>1. StartOfDayIn(z, lastAdded) \in Int
      BY <2>1, StartOfDayType
    <3>2. QED BY <1>1, <2>1, <3>1 DEF ResumeDay
  <2>2. CASE ~(lastAdded # None /\ StartOfDayIn(z, lastAdded) >= s)
    BY <1>1, <2>2 DEF ResumeDay
  <2>3. QED BY <2>1, <2>2
<1>3. CASE c > d
  BY <1>2, <1>3 DEF AllMissedOccurrences
<1>4. CASE c <= d
  <2>1. \A x \in c .. d : x >= StartDay(r, z)
    BY <1>1, <1>2
  <2>2. CASE r.freq = "daily"
    BY <1>2, <1>4, <2>1, <2>2 DEF AllMissedOccurrences, FiresToday
  <2>3. CASE r.freq = "weekly" /\ r.dows = {}
    <3>1. AllMissedOccurrences(r, z, lastAdded, d) = CollectWeeklyAligned(r, z, c, d)
      BY <1>2, <1>4, <2>3 DEF AllMissedOccurrences
    <3>2. \A x \in c .. d : FiresToday(r, z, x) <=> DaysBetween(z, StartDay(r, z), x) % 7 = 0
      BY <2>1, <2>3 DEF FiresToday
    <3>3. CollectWeeklyAligned(r, z, c, d) =
            {x \in c .. d : DaysBetween(z, StartDay(r, z), x) % 7 = 0}
      BY <1>4, <2>3, AlignedDays
    <3>4. QED BY <1>2, <3>1, <3>2, <3>3
  <2>4. CASE r.freq = "weekly" /\ r.dows # {}
    <3>1. AllMissedOccurrences(r, z, lastAdded, d) = CollectWeeklyByDay(r, c, d)
      BY <1>2, <1>4, <2>4 DEF AllMissedOccurrences
    <3>2. \A x \in c .. d : FiresToday(r, z, x) <=> Weekday(x) \in r.dows
      BY <2>1, <2>4 DEF FiresToday
    <3>3. QED BY <1>2, <3>1, <3>2 DEF CollectWeeklyByDay
  <2>5. CASE r.freq = "monthly"
    <3>1. AllMissedOccurrences(r, z, lastAdded, d) = CollectMonthly(r, z, c, d)
      BY <1>2, <1>4, <2>5 DEF AllMissedOccurrences
    <3>2. \A x \in c .. d : FiresToday(r, z, x) <=> x = Occurrence(r, z, MonthIndex(x))
      BY <2>1, <2>5 DEF FiresToday
    <3>3. CollectMonthly(r, z, c, d) = {x \in c .. d : x = Occurrence(r, z, MonthIndex(x))}
      BY <1>4, MonthlyDays
    <3>4. QED BY <1>2, <3>1, <3>2, <3>3
  <2>6. CASE r.freq = "yearly"
    <3>1. AllMissedOccurrences(r, z, lastAdded, d) = CollectYearly(r, z, c, d)
      BY <1>2, <1>4, <2>6 DEF AllMissedOccurrences
    <3>2. \A x \in c .. d : FiresToday(r, z, x) <=> x = Anniversary(r, z, YearOf(x))
      BY <2>1, <2>6 DEF FiresToday
    <3>3. CollectYearly(r, z, c, d) = {x \in c .. d : x = Anniversary(r, z, YearOf(x))}
      BY <1>4, YearlyDays
    <3>4. QED BY <1>2, <3>1, <3>2, <3>3
  <2>7. QED BY <2>2, <2>3, <2>4, <2>5, <2>6, RuleType
<1>5. QED BY <1>2, <1>3, <1>4

-----------------------------------------------------------------------------
(* The scheduler.                                                          *)

\* The days before today on which the rule was due are the ones that fired.
DatesInv ==
  /\ rule \in Rules /\ zone \in Zones /\ today \in Int /\ FirstDay <= today
  /\ fired = {d \in FirstDay .. today - 1 : Due(rule, zone, d)}

LEMMA DatesInductive == DatesSpec => []DatesInv
<1>1. DatesInit => DatesInv
  BY DateAssumptions DEF DatesInit, DatesInv
<1>2. DatesInv /\ [DatesNext]_dateVars => DatesInv'
  <2> SUFFICES ASSUME DatesInv, [DatesNext]_dateVars PROVE DatesInv'
    OBVIOUS
  <2>1. CASE UNCHANGED dateVars
    BY <2>1 DEF dateVars, DatesInv
  <2>2. CASE Tick
    <3>1. rule' = rule /\ zone' = zone /\ today' = today + 1
      BY <2>2 DEF Tick
    <3>2. today \in Int /\ FirstDay \in Int /\ FirstDay <= today
      BY DateAssumptions DEF DatesInv
    <3>3. FirstDay .. today' - 1 = (FirstDay .. today - 1) \cup {today}
      BY <3>1, <3>2
    <3>4. fired' = {d \in FirstDay .. today' - 1 : Due(rule, zone, d)}
      BY <2>2, <3>3 DEF Tick, DatesInv
    <3>5. QED BY <3>1, <3>2, <3>4 DEF DatesInv
  <2>3. QED BY <2>1, <2>2 DEF DatesNext
<1>3. QED BY <1>1, <1>2, PTL DEF DatesSpec

\* The rule and the zone are what the columns can hold.
LEMMA RuleAndZone == DatesInv => rule \in Rule /\ zone \in Zone
BY DateAssumptions DEF DatesInv

\* UTC is a zone, in which a day is 24 hours and every rule keeps its week.
LEMMA InUtc ==
  /\ Utc \in Zone /\ \A r : Steady(r, Utc)
  /\ \A d \in Int : Midnight(Utc, d) = 24 * d
<1>1. Utc.offset = 0 /\ Utc.summer = {}
  BY DEF Utc
<1>2. Utc \in Zone
  BY DEF Utc, Zone
<1>3. QED BY <1>1, <1>2 DEF Steady, Midnight

\* The date in UTC when a user's day begins.
LEMMA UtcDay ==
  ASSUME NEW z \in Zone, NEW d \in Int
  PROVE  StartOfDayIn(Utc, Midnight(z, d)) = IF Midnight(z, d) < Midnight(Utc, d) THEN d - 1 ELSE d
<1>1. PICK t \in Int : t = Midnight(z, d) /\ 24 * d - 24 <= t /\ t < 24 * d + 24
  <2>1. z.offset \in -12 .. 14
    BY DEF Zone
  <2>2. QED BY <2>1 DEF Midnight
<1>2. PICK e \in Int : e = StartOfDayIn(Utc, t) /\ 24 * e <= t /\ t < 24 * (e + 1)
  <2>1. PICK e \in Int : e = StartOfDayIn(Utc, t)
    BY InUtc, StartOfDayType
  <2>2. Midnight(Utc, e) <= t /\ t < Midnight(Utc, e + 1)
    BY <2>1, InUtc, StartOfDayType
  <2>3. QED BY <2>1, <2>2, InUtc
<1>3. Midnight(Utc, d) = 24 * d
  BY InUtc
<1>4. QED BY <1>1, <1>2, <1>3

\* A rule starts a day earlier than in UTC at most, and not so on it or east of it.
LEMMA StartsApart ==
  ASSUME NEW r \in Rule, NEW z \in Zone
  PROVE  /\ StartDay(r, Utc) - 1 <= StartDay(r, z)
         /\ z.offset >= 0 => StartDay(r, Utc) <= StartDay(r, z)
<1>1. PICK t \in Int : t = r.start
  BY DEF Rule
<1>2. z.offset \in -12 .. 14
  BY DEF Zone
<1>3. PICK u \in Int : u = StartDay(r, Utc) /\ 24 * u <= t
  <2>1. PICK u \in Int : u = StartDay(r, Utc)
    BY InUtc, RuleType
  <2>2. Midnight(Utc, u) <= t
    BY <1>1, <2>1, InUtc, StartOfDayType DEF StartDay
  <2>3. QED BY <2>1, <2>2, InUtc
<1>4. Midnight(z, u - 1) <= t /\ (z.offset >= 0 => Midnight(z, u) <= t)
  BY <1>2, <1>3 DEF Midnight
<1>5. u - 1 <= StartDay(r, z) /\ (z.offset >= 0 => u <= StartDay(r, z))
  BY <1>1, <1>3, <1>4, DayOfInstant DEF StartDay
<1>6. QED BY <1>3, <1>5

\* From both starts on, the rule fires on the same dates in UTC and in the user's zone.
LEMMA SameDates ==
  ASSUME NEW r \in Rule, NEW z \in Zone, Steady(r, z), SameCalendar(r, z), NEW d \in Int,
         d >= StartDay(r, Utc), d >= StartDay(r, z)
  PROVE  FiresToday(r, Utc, d) <=> FiresToday(r, z, d)
<1>1. CASE r.freq = "daily" \/ (r.freq = "weekly" /\ r.dows # {})
  BY <1>1 DEF FiresToday
<1>2. CASE r.freq = "weekly" /\ r.dows = {}
  <2>1. PICK s \in Int : s = StartDay(r, Utc) /\ s = StartDay(r, z)
    BY <1>2, RuleType DEF SameCalendar, FromStart
  <2>2. DaysBetween(z, s, d) = d - s /\ DaysBetween(Utc, s, d) = d - s
    BY <1>2, InUtc, DaysApart
  <2>3. QED BY <1>2, <2>1, <2>2 DEF FiresToday
<1>3. CASE r.freq = "monthly"
  <2>1. TargetDay(r, Utc) = TargetDay(r, z)
    BY <1>3 DEF SameCalendar, FromStart, TargetDay
  <2>2. Occurrence(r, Utc, MonthIndex(d)) = Occurrence(r, z, MonthIndex(d))
    BY <2>1 DEF Occurrence
  <2>3. QED BY <1>3, <2>2 DEF FiresToday
<1>4. CASE r.freq = "yearly"
  <2>1. StartDay(r, Utc) = StartDay(r, z)
    BY <1>4 DEF SameCalendar, FromStart
  <2>2. Anniversary(r, Utc, YearOf(d)) = Anniversary(r, z, YearOf(d))
    BY <2>1 DEF Anniversary
  <2>3. QED BY <1>4, <2>2 DEF FiresToday
<1>5. QED BY <1>1, <1>2, <1>3, <1>4, RuleType

\* What a backfill lists when a day of the user begins: the days that are over and
\* that day as far as it has begun in UTC.
LEMMA ListedDays ==
  ASSUME NEW r \in Rule, NEW z \in Zone, NEW lastAdded \in Int \cup {None}, NEW d \in Int
  PROVE  \A x \in Int : x < d =>
           (x \in MissedInUtc(r, lastAdded, Midnight(z, d)) <=>
              ResumeDay(r, Utc, lastAdded) <= x /\ FiresToday(r, Utc, x))
<1>1. PICK e \in Int : e = StartOfDayIn(Utc, Midnight(z, d)) /\ d - 1 <= e
  BY UtcDay
<1>2. ResumeDay(r, Utc, lastAdded) \in Int
  <2>1. StartDay(r, Utc) \in Int
    BY InUtc, RuleType
  <2>2. lastAdded # None => StartOfDayIn(Utc, lastAdded) \in Int
    BY InUtc, StartOfDayType
  <2>3. QED BY <2>1, <2>2 DEF ResumeDay
<1>3. MissedInUtc(r, lastAdded, Midnight(z, d)) =
        {x \in ResumeDay(r, Utc, lastAdded) .. e : FiresToday(r, Utc, x)}
  BY <1>1, InUtc, MissedDays DEF MissedInUtc
<1>4. QED BY <1>1, <1>2, <1>3

\* For every schedule a row can hold and every zone of its user, a scheduler that misses
\* no day and a backfill in UTC name the same dates, with the exceptions the property
\* states.
THEOREM BackfillAgrees == DatesSpec => []TicksMatchBackfill
<1>1. DatesInv => TicksMatchBackfill
  <2> DEFINE listed == MissedInUtc(rule, None, Midnight(zone, today))
             begun == {d \in FirstDay .. today - 1 :
                         d >= StartDay(rule, Utc) /\ d >= StartDay(rule, zone)}
  <2> SUFFICES ASSUME DatesInv, Steady(rule, zone), SameCalendar(rule, zone), NEW d \in begun
               PROVE  d \in fired <=> d \in listed /\ ~Ended(d)
    BY DEF TicksMatchBackfill
  <2>1. rule \in Rule /\ zone \in Zone /\ today \in Int /\ FirstDay \in Int
    BY RuleAndZone, DateAssumptions DEF DatesInv
  <2>2. d \in FirstDay .. today - 1 /\ d \in Int /\ d < today
        /\ d >= StartDay(rule, Utc) /\ d >= StartDay(rule, zone)
    BY <2>1
  <2>3. d \in fired <=> FiresToday(rule, zone, d) /\ ~Ended(d)
    <3>1. rule.end # None => EndDay(rule, zone) \in Int
      BY <2>1, RuleType
    <3>2. QED BY <2>2, <3>1 DEF DatesInv, Due, Ended
  <2>4. d \in listed <=> FiresToday(rule, Utc, d)
    <3>1. ResumeDay(rule, Utc, None) = StartDay(rule, Utc)
      BY DEF ResumeDay
    <3>2. QED BY <2>1, <2>2, <3>1, ListedDays
  <2>5. QED BY <2>1, <2>2, <2>3, <2>4, SameDates
<1>2. QED BY <1>1, DatesInductive, PTL

\* A backfill in UTC that resumes after an occurrence lists the later ones, and that one
\* again exactly east of UTC.
THEOREM BackfillResumesExactly == DatesSpec => []BackfillResumes
<1>1. DatesInv => BackfillResumes
  <2> SUFFICES ASSUME DatesInv, Steady(rule, zone), SameCalendar(rule, zone), NEW d \in fired
               PROVE  {x \in MissedInUtc(rule, Midnight(zone, d), Midnight(zone, today)) :
                         x < today /\ ~Ended(x)}
                        = {x \in fired : x > d \/ (x = d /\ Midnight(zone, d) < Midnight(Utc, d))}
    BY DEF BackfillResumes
  <2>1. rule \in Rule /\ zone \in Zone /\ today \in Int /\ FirstDay \in Int
    BY RuleAndZone, DateAssumptions DEF DatesInv
  <2>2. fired = {x \in FirstDay .. today - 1 : Due(rule, zone, x)}
    BY DEF DatesInv
  <2>3. \A x : x \in fired <=> x \in FirstDay .. today - 1 /\ FiresToday(rule, zone, x) /\ ~Ended(x)
    <3>1. rule.end # None => EndDay(rule, zone) \in Int
      BY <2>1, RuleType
    <3>2. FirstDay .. today - 1 \subseteq Int
      BY <2>1
    <3>3. QED BY <2>2, <3>1, <3>2 DEF Due, Ended
  <2>4. PICK s \in Int, u \in Int : s = StartDay(rule, zone) /\ u = StartDay(rule, Utc)
    BY <2>1, InUtc, RuleType
  <2>5. d \in Int /\ FirstDay <= d /\ d < today /\ s <= d /\ u - 1 <= s
    BY <2>1, <2>3, <2>4, StartsApart DEF FiresToday
  <2>6. Midnight(zone, d) \in Int /\ Midnight(zone, d) # None
    BY <2>1, <2>5, MidnightOrder, DateAssumptions
  <2> DEFINE east == Midnight(zone, d) < Midnight(Utc, d)
             from == ResumeDay(rule, Utc, Midnight(zone, d))
  <2>7. east => u <= s
    <3>1. zone.offset \in -12 .. 14
      BY <2>1 DEF Zone
    <3>2. east => zone.offset >= 0
      BY <2>5, <3>1, InUtc DEF Midnight
    <3>3. QED BY <2>1, <2>4, <3>2, StartsApart
  <2>8. from = IF east THEN d ELSE d + 1
    <3>1. StartOfDayIn(Utc, Midnight(zone, d)) = IF east THEN d - 1 ELSE d
      BY <2>1, <2>5, UtcDay
    <3> HIDE DEF east
    <3>2. CASE east
      BY <2>4, <2>5, <2>6, <2>7, <3>1, <3>2 DEF ResumeDay
    <3>3. CASE ~east
      BY <2>4, <2>5, <2>6, <3>1, <3>3 DEF ResumeDay
    <3>4. QED BY <3>2, <3>3
  <2> HIDE DEF east, from
  <2>9. from \in Int /\ d <= from /\ u <= from /\ s <= from
    BY <2>4, <2>5, <2>7, <2>8
  <2>10. ASSUME NEW x \in Int, x < today
         PROVE  x \in MissedInUtc(rule, Midnight(zone, d), Midnight(zone, today))
                  <=> from <= x /\ FiresToday(rule, zone, x)
    <3>1. x \in MissedInUtc(rule, Midnight(zone, d), Midnight(zone, today))
            <=> from <= x /\ FiresToday(rule, Utc, x)
      BY <2>1, <2>6, <2>10, ListedDays DEF from
    <3>2. from <= x => (FiresToday(rule, Utc, x) <=> FiresToday(rule, zone, x))
      BY <2>1, <2>4, <2>9, <2>10, SameDates
    <3>3. QED BY <3>1, <3>2
  <2>11. \A x \in MissedInUtc(rule, Midnight(zone, d), Midnight(zone, today)) : x \in Int
    <3>1. StartOfDayIn(Utc, Midnight(zone, today)) \in Int
      BY <2>1, UtcDay
    <3>2. QED BY <2>1, <2>6, <2>9, <3>1, InUtc, MissedDays DEF MissedInUtc, from
  <2>12. \A x \in Int : from <= x <=> x > d \/ (x = d /\ east)
    BY <2>5, <2>8
  <2>13. QED
    BY <2>1, <2>3, <2>5, <2>9, <2>10, <2>11, <2>12 DEF east
<1>2. QED BY <1>1, DatesInductive, PTL

\* The fallback of weekly rules is late by a day or not at all, in every zone.
THEOREM LateByADay == DatesSpec => []WeeklyDriftsOneDay
<1>1. DatesInv => WeeklyDriftsOneDay
  <2> SUFFICES ASSUME DatesInv, rule.freq = "weekly", rule.dows = {}, NEW d \in Past,
                      d >= StartDay(rule, zone)
               PROVE  d \in fired <=>
                        (d - StartDay(rule, zone)) % 7 =
                          IF d \in zone.summer /\ StartDay(rule, zone) \notin zone.summer THEN 1 ELSE 0
    BY DEF WeeklyDriftsOneDay
  <2>1. rule \in Rule /\ zone \in Zone /\ today \in Int /\ FirstDay \in Int
    BY RuleAndZone, DateAssumptions DEF DatesInv
  <2>2. PICK s \in Int : s = StartDay(rule, zone)
    BY <2>1, RuleType
  <2>3. d \in FirstDay .. today - 1 /\ d \in Int
    BY <2>1 DEF Past
  <2>4. d \in fired <=> DaysBetween(zone, s, d) % 7 = 0
    <3>1. rule.end = None \/ d <= EndDay(rule, zone)
      BY <2>1, <2>3, RuleType DEF Past, Ended
    <3>2. QED BY <2>2, <2>3, <3>1 DEF DatesInv, Due, FiresToday
  <2> DEFINE gone == d \in zone.summer /\ s \notin zone.summer
  <2>5. zone.offset \in Int
    BY <2>1 DEF Zone
  <2>6. DaysBetween(zone, s, d) = IF gone THEN d - s - 1 ELSE d - s
    <3>1. CASE gone
      <4>1. Midnight(zone, d) - Midnight(zone, s) = 24 * (d - s) - 1
        BY <2>3, <2>5, <3>1 DEF Midnight
      <4>2. (24 * (d - s) - 1) \div 24 = d - s - 1
        BY <2>3
      <4>3. QED BY <3>1, <4>1, <4>2 DEF DaysBetween
    <3>2. CASE ~gone
      <4>1. \/ Midnight(zone, d) - Midnight(zone, s) = 24 * (d - s)
            \/ Midnight(zone, d) - Midnight(zone, s) = 24 * (d - s) + 1
        BY <2>3, <2>5, <3>2 DEF Midnight
      <4>2. (24 * (d - s)) \div 24 = d - s /\ (24 * (d - s) + 1) \div 24 = d - s
        BY <2>3
      <4>3. QED BY <3>2, <4>1, <4>2 DEF DaysBetween
    <3>3. QED BY <3>1, <3>2
  <2>7. (d - s - 1) % 7 = 0 <=> (d - s) % 7 = 1
    BY <2>3
  <2>8. QED BY <2>2, <2>4, <2>6, <2>7
<1>2. QED BY <1>1, DatesInductive, PTL

-----------------------------------------------------------------------------
(* The next occurrence.                                                    *)

\* Of the numbers in a set that are not below c, if there are any, one is the least.
LEMMA LeastFrom ==
  ASSUME NEW S \in SUBSET Int, NEW c \in Int, \E x \in S : x >= c
  PROVE  \E x \in S : x >= c /\ \A y \in S : y >= c => x <= y
<1> DEFINE T == {x - c : x \in {y \in S : y >= c}}
<1>1. T \subseteq Nat /\ T # {}
  OBVIOUS
<1>2. IsWellFoundedOn(OpToRel(<, Nat), Nat)
  BY NatLessThanWellFounded
<1>3. PICK n \in T : \A m \in T : ~ (<<m, n>> \in OpToRel(<, Nat))
  <2> HIDE DEF T
  <2>1. QED BY <1>1, <1>2, WFMin
<1>4. \A m \in T : ~(m < n)
  <2> HIDE DEF T
  <2>1. QED BY <1>1, <1>3 DEF OpToRel
<1>5. PICK x \in S : x >= c /\ n = x - c
  OBVIOUS
<1>6. ASSUME NEW y \in S, y >= c PROVE x <= y
  <2>1. y - c \in T
    BY <1>6
  <2>2. ~(y - c < n)
    BY <1>4, <2>1
  <2>3. QED BY <1>5, <2>2
<1>7. QED BY <1>5, <1>6

\* n is the first day from c on which the rule fires.
FirstFiring(r, z, c, n) ==
  /\ n \in Int /\ c <= n /\ FiresToday(r, z, n)
  /\ \A x \in c .. n - 1 : ~FiresToday(r, z, x)

\* A search through days that fire, none left out up to one of them, ends on the first.
LEMMA SearchEnds ==
  ASSUME NEW r, NEW z, NEW c \in Int, NEW S \in SUBSET Int, NEW e \in S, e >= c,
         \A x \in S : x >= c => FiresToday(r, z, x),
         \A x \in c .. e : FiresToday(r, z, x) => x \in S
  PROVE  FirstFiring(r, z, c, FirstFrom(S, c))
<1> DEFINE T == {x \in S : x >= c}
<1>1. \E x \in T : \A y \in T : x =< y
  BY LeastFrom
<1>2. PICK n \in T : n = FirstFrom(S, c) /\ \A y \in T : n <= y
  BY <1>1 DEF FirstFrom, Min
<1>3. n \in Int /\ c <= n /\ FiresToday(r, z, n) /\ n <= e
  BY <1>2
<1>4. ASSUME NEW x \in c .. n - 1, FiresToday(r, z, x) PROVE FALSE
  <2>1. x \in c .. e
    BY <1>3
  <2>2. x \in T
    BY <1>4, <2>1
  <2>3. QED BY <1>2, <1>3, <2>2
<1>5. QED BY <1>2, <1>3, <1>4 DEF FirstFiring

\* Five years on is more than a week away.
LEMMA HorizonFar ==
  ASSUME NEW d \in Int
  PROVE  Horizon(d) \in Int /\ d + 7 <= Horizon(d)
<1>1. PICK y \in Int, m \in 1 .. 12, k \in 1 .. 31 :
        /\ y = YearOf(d) /\ m = MonthOf(d) /\ k = DayOf(d)
        /\ d < Jan1(y + 1)
  BY YearOfType, MonthOfType, DayOfType
<1>2. Month1(y + 5, m) \in Int /\ Jan1(y + 5) <= Month1(y + 5, m)
  <2>1. y + 5 \in Int
    OBVIOUS
  <2>2. QED BY <2>1, MonthLength, MonthInYear
<1>3. Jan1(y + 2) <= Jan1(y + 5)
  <2>1. y + 1 \in Int /\ y + 5 \in Int /\ y + 1 < y + 5 /\ y + 1 + 1 = y + 2
    OBVIOUS
  <2>2. QED BY <2>1, YearOrder
<1>4. Jan1(y + 1) \in Int /\ Jan1(y + 2) >= Jan1(y + 1) + 365 /\ Jan1(y + 2) \in Int /\ Jan1(y + 5) \in Int
  <2>1. y + 1 \in Int /\ y + 2 \in Int /\ y + 5 \in Int /\ y + 1 + 1 = y + 2
    OBVIOUS
  <2>2. Jan1(y + 1) \in Int /\ Jan1(y + 1 + 1) = Jan1(y + 1) + (IF LeapYear(y + 1) THEN 366 ELSE 365)
    BY <2>1, YearLength
  <2>3. Jan1(y + 2) \in Int /\ Jan1(y + 5) \in Int
    BY <2>1, YearLength
  <2>4. QED BY <2>1, <2>2, <2>3
<1>5. Horizon(d) = Month1(y + 5, m) + k - 1
  BY <1>1 DEF Horizon, DayNumber
<1>6. QED BY <1>1, <1>2, <1>3, <1>4, <1>5

\* A month is a day shorter in another year at most.
LEMMA OtherYear ==
  ASSUME NEW x \in Int, NEW y \in Int, NEW m \in 1 .. 12
  PROVE  LastOfMonth(x, m) <= LastOfMonth(y, m) + 1
BY DEF LastOfMonth

\* The horizon moves on with the days.
LEMMA HorizonOrder ==
  ASSUME NEW c \in Int, NEW d \in Int, c <= d
  PROVE  Horizon(c) <= Horizon(d)
<1>1. PICK x \in Int, m \in 1 .. 12 :
        /\ x = YearOf(c) /\ m = MonthOf(c)
        /\ DayOf(c) \in 1 .. LastOfMonth(x, m) /\ c = DayNumber(x, m, DayOf(c))
  BY YearOfType, MonthOfType, DayOfType
<1>2. PICK y \in Int, n \in 1 .. 12 :
        /\ y = YearOf(d) /\ n = MonthOf(d)
        /\ DayOf(d) \in 1 .. LastOfMonth(y, n) /\ d = DayNumber(y, n, DayOf(d))
  BY YearOfType, MonthOfType, DayOfType
<1>3. PICK a \in Int, b \in Int : a = x + 5 /\ b = y + 5
  OBVIOUS
<1>4. /\ Month1(x, m) \in Int /\ LastOfMonth(x, m) \in 28 .. 31 /\ LastOfMonth(y, n) \in 28 .. 31
      /\ Month1(a, m) \in Int /\ LastOfMonth(a, m) \in 28 .. 31 /\ Month1(b, n) \in Int
  BY MonthLength
<1>5. PICK j \in 1 .. 31, k \in 1 .. 31 : j = DayOf(c) /\ k = DayOf(d) /\ j <= LastOfMonth(x, m)
  BY <1>1, <1>2, <1>4
<1>6. Horizon(c) = Month1(a, m) + j - 1 /\ Horizon(d) = Month1(b, n) + k - 1
  BY <1>1, <1>2, <1>3, <1>5 DEF Horizon, DayNumber
<1>7. j <= LastOfMonth(a, m) + 1
  BY <1>4, <1>5, OtherYear
<1>8. CASE x < y
  <2>1. Month1(a, m) + LastOfMonth(a, m) <= Jan1(a + 1) /\ Jan1(b) <= Month1(b, n)
    BY MonthInYear
  <2>2. Jan1(a + 1) <= Jan1(b)
    BY <1>3, <1>8, YearOrder
  <2>3. a + 1 \in Int /\ Jan1(a + 1) \in Int /\ Jan1(b) \in Int
    BY YearLength
  <2>4. QED BY <1>4, <1>6, <1>7, <2>1, <2>2, <2>3
<1>9. CASE x = y /\ m < n
  <2>1. Month1(a, m) + LastOfMonth(a, m) <= Month1(a, n)
    BY <1>9, MonthOrder
  <2>2. a = b
    BY <1>3, <1>9
  <2>3. QED BY <1>4, <1>6, <1>7, <2>1, <2>2
<1>10. CASE x = y /\ m = n
  BY <1>1, <1>2, <1>3, <1>4, <1>5, <1>6, <1>10 DEF DayNumber
<1>11. x < y \/ (x = y /\ m < n) \/ (x = y /\ m = n)
  <2>1. x <= y
    BY <1>1, <1>2, DayOrder
  <2>2. MonthIndex(c) <= MonthIndex(d)
    BY DayOrder
  <2>3. MonthIndex(c) = 12 * (x - FirstYear) + m - 1 /\ MonthIndex(d) = 12 * (y - FirstYear) + n - 1
    BY <1>1, <1>2 DEF MonthIndex
  <2>4. ASSUME x = y PROVE m <= n
    <3>1. PICK i \in Int : i = 12 * (x - FirstYear)
      BY DateAssumptions
    <3>2. i + m - 1 <= i + n - 1
      BY <2>2, <2>3, <2>4, <3>1
    <3>3. QED BY <3>2
  <2>5. QED BY <2>1, <2>4
<1>12. QED BY <1>8, <1>9, <1>10, <1>11

\* Some day of any seven is a given weekday.
LEMMA WeekdayComes ==
  ASSUME NEW c \in Int, NEW w \in 0 .. 6
  PROVE  \E x \in c .. c + 6 : Weekday(x) = w
<1>1. FirstWeekday \in Int
  BY DateAssumptions
<1>2. PICK k \in 0 .. 6 : k = (w - (c + FirstWeekday)) % 7
  BY <1>1
<1>3. (c + k + FirstWeekday) % 7 = w
  BY <1>1, <1>2
<1>4. c + k \in c .. c + 6
  OBVIOUS
<1>5. QED BY <1>3, <1>4 DEF Weekday

\* The search for the next occurrence goes far enough: it ends on the first day that fires.
LEMMA NextFires ==
  ASSUME NEW r \in Rule, NEW z \in Zone, Steady(r, z), NEW d \in Int,
         StartDay(r, z) <= Horizon(d)
  PROVE  FirstFiring(r, z, SearchFrom(r, z, d), NextOccurrenceAfter(r, z, d))
<1>1. PICK s \in Int : s = StartDay(r, z)
  BY RuleType
<1>2. PICK h \in Int : h = Horizon(d) /\ d + 7 <= h
  BY HorizonFar
<1>3. PICK c \in Int : c = SearchFrom(r, z, d) /\ c >= s /\ (c = s \/ c = d + 1)
  <2>1. \E x \in {s, d + 1} : \A y \in {s, d + 1} : x >= y
    BY <1>1
  <2>2. Max({s, d + 1}) \in {s, d + 1} /\ Max({s, d + 1}) >= s
    BY <2>1 DEF Max
  <2>3. QED BY <1>1, <2>2 DEF SearchFrom
<1>4. ~(StartDay(r, z) > Horizon(d))
  BY <1>1, <1>2
<1>5. \A x \in Int : x >= c => x >= StartDay(r, z)
  BY <1>1, <1>3
<1>6. CASE r.freq = "daily"
  <2>1. NextOccurrenceAfter(r, z, d) = c
    BY <1>3, <1>4, <1>6 DEF NextOccurrenceAfter
  <2>2. FiresToday(r, z, c)
    BY <1>5, <1>6 DEF FiresToday
  <2>3. QED BY <1>3, <2>1, <2>2 DEF FirstFiring
<1>7. CASE r.freq = "weekly" /\ r.dows = {}
  <2>1. PICK f \in Int : f = SnapForward(r, z, c) /\ c <= f /\ f < c + 7
    BY <1>7, Snapped
  <2>2. f <= h
    <3>1. CASE c = d + 1
      BY <1>2, <2>1, <3>1
    <3>2. CASE c = s
      <4>1. DaysBetween(z, s, c) = 0
        BY <1>7, <3>2, DaysApart
      <4>2. f = c
        BY <1>1, <2>1, <4>1 DEF SnapForward
      <4>3. QED BY <1>1, <1>2, <3>2, <4>2
    <3>3. QED BY <1>3, <3>1, <3>2
  <2>3. \A x \in Int : x >= c => (FiresToday(r, z, x) <=> f <= x /\ (x - f) % 7 = 0)
    <3>1. ASSUME NEW x \in Int, x >= c PROVE FiresToday(r, z, x) <=> f <= x /\ (x - f) % 7 = 0
      <4>1. FiresToday(r, z, x) <=> DaysBetween(z, s, x) % 7 = 0
        BY <1>1, <1>5, <1>7, <3>1 DEF FiresToday
      <4>2. DaysBetween(z, s, x) = x - s
        BY <1>7, DaysApart
      <4>3. (x - s) % 7 = 0 <=> f <= x /\ (x - f) % 7 = 0
        BY <1>1, <1>7, <2>1, <3>1, Snapped
      <4>4. QED BY <4>1, <4>2, <4>3
    <3>2. QED BY <3>1
  <2> DEFINE S == {f} \cap (c .. h)
  <2>4. S \in SUBSET Int /\ f \in S /\ f >= c
    BY <2>1, <2>2
  <2>5. \A x \in S : x >= c => FiresToday(r, z, x)
    BY <2>3
  <2>6. \A x \in c .. f : FiresToday(r, z, x) => x \in S
    BY <2>3, <2>4
  <2>7. NextOccurrenceAfter(r, z, d) = FirstFrom(S, c)
    BY <1>2, <1>3, <1>4, <1>7, <2>1 DEF NextOccurrenceAfter
  <2> HIDE DEF S
  <2>8. QED BY <1>3, <2>4, <2>5, <2>6, <2>7, SearchEnds
<1>8. CASE r.freq = "weekly" /\ r.dows # {}
  <2> DEFINE S == CollectWeeklyByDay(r, c, c + 13)
  <2>1. \A x \in Int : x >= c => (FiresToday(r, z, x) <=> Weekday(x) \in r.dows)
    BY <1>5, <1>8 DEF FiresToday
  <2>2. PICK w \in 0 .. 6 : w \in r.dows
    BY <1>8 DEF Rule
  <2>3. PICK e \in c .. c + 6 : Weekday(e) = w
    BY WeekdayComes
  <2>4. S \in SUBSET Int /\ e \in S /\ e >= c
    BY <2>2, <2>3 DEF CollectWeeklyByDay
  <2>5. \A x \in S : x >= c => FiresToday(r, z, x)
    BY <2>1, <2>4 DEF CollectWeeklyByDay
  <2>6. \A x \in c .. e : FiresToday(r, z, x) => x \in S
    BY <2>1 DEF CollectWeeklyByDay
  <2>7. NextOccurrenceAfter(r, z, d) = FirstFrom(S, c)
    BY <1>3, <1>4, <1>8 DEF NextOccurrenceAfter
  <2> HIDE DEF S
  <2>8. QED BY <1>3, <2>4, <2>5, <2>6, <2>7, SearchEnds
<1>9. CASE r.freq = "monthly"
  <2> DEFINE S == {Occurrence(r, z, MonthIndex(c) + k) : k \in 0 .. 13}
  <2>1. PICK i \in Int : i = MonthIndex(c)
    BY DayOrder
  <2>2. \A k \in 0 .. 13 : i + k \in Int
    OBVIOUS
  <2>3. \A k \in 0 .. 13 :
          /\ Occurrence(r, z, i + k) \in Int
          /\ MonthIndex(Occurrence(r, z, i + k)) = i + k
    BY <2>2, OccurrenceIn
  <2>4. \A x \in Int : x >= c => (FiresToday(r, z, x) <=> x = Occurrence(r, z, MonthIndex(x)))
    BY <1>5, <1>9 DEF FiresToday
  <2>5. PICK e \in Int : e = Occurrence(r, z, i + 1) /\ MonthIndex(e) = i + 1
    BY <2>3
  <2>6. e >= c
    <3>1. e <= c => MonthIndex(e) <= MonthIndex(c)
      BY DayOrder
    <3>2. QED BY <2>1, <2>5, <3>1
  <2>7. S \in SUBSET Int /\ e \in S
    BY <2>1, <2>3, <2>5
  <2>8. ASSUME NEW x \in S, x >= c PROVE FiresToday(r, z, x)
    <3>1. PICK k \in 0 .. 13 : x = Occurrence(r, z, i + k)
      BY <2>1
    <3>2. x \in Int /\ MonthIndex(x) = i + k
      BY <2>3, <3>1
    <3>3. QED BY <2>4, <2>8, <3>1, <3>2
  <2>9. ASSUME NEW x \in c .. e, FiresToday(r, z, x) PROVE x \in S
    <3>1. x \in Int /\ c <= x /\ x <= e
      OBVIOUS
    <3>2. PICK j \in Int : j = MonthIndex(x) /\ i <= j /\ j <= i + 1
      <4>1. MonthIndex(x) \in Int /\ MonthIndex(c) <= MonthIndex(x)
        BY <3>1, DayOrder
      <4>2. MonthIndex(x) <= MonthIndex(e)
        BY <3>1, DayOrder
      <4>3. QED BY <2>1, <2>5, <4>1, <4>2
    <3>3. j - i \in 0 .. 13 /\ i + (j - i) = j
      BY <3>2
    <3>4. x = Occurrence(r, z, i + (j - i))
      BY <2>4, <2>9, <3>1, <3>2, <3>3
    <3>5. QED BY <2>1, <3>3, <3>4
  <2>10. NextOccurrenceAfter(r, z, d) = FirstFrom(S, c)
    BY <1>3, <1>4, <1>9 DEF NextOccurrenceAfter
  <2> HIDE DEF S
  <2>11. QED BY <1>3, <2>6, <2>7, <2>8, <2>9, <2>10, SearchEnds
<1>10. CASE r.freq = "yearly"
  <2> DEFINE S == {Anniversary(r, z, YearOf(c) + k) : k \in 0 .. 5}
  <2>1. PICK i \in Int : i = YearOf(c)
    BY YearOfType
  <2>2. \A k \in 0 .. 5 : i + k \in Int
    OBVIOUS
  <2>3. \A k \in 0 .. 5 :
          /\ Anniversary(r, z, i + k) \in Int
          /\ YearOf(Anniversary(r, z, i + k)) = i + k
    BY <2>2, AnniversaryIn
  <2>4. \A x \in Int : x >= c => (FiresToday(r, z, x) <=> x = Anniversary(r, z, YearOf(x)))
    BY <1>5, <1>10 DEF FiresToday
  <2>5. PICK e \in Int : e = Anniversary(r, z, i + 1) /\ YearOf(e) = i + 1
    BY <2>3
  <2>6. e >= c
    <3>1. e <= c => YearOf(e) <= YearOf(c)
      BY DayOrder
    <3>2. QED BY <2>1, <2>5, <3>1
  <2>7. S \in SUBSET Int /\ e \in S
    BY <2>1, <2>3, <2>5
  <2>8. ASSUME NEW x \in S, x >= c PROVE FiresToday(r, z, x)
    <3>1. PICK k \in 0 .. 5 : x = Anniversary(r, z, i + k)
      BY <2>1
    <3>2. x \in Int /\ YearOf(x) = i + k
      BY <2>3, <3>1
    <3>3. QED BY <2>4, <2>8, <3>1, <3>2
  <2>9. ASSUME NEW x \in c .. e, FiresToday(r, z, x) PROVE x \in S
    <3>1. x \in Int /\ c <= x /\ x <= e
      OBVIOUS
    <3>2. PICK j \in Int : j = YearOf(x) /\ i <= j /\ j <= i + 1
      <4>1. YearOf(c) <= YearOf(x) /\ YearOf(x) <= YearOf(e)
        BY <3>1, DayOrder
      <4>2. YearOf(x) \in Int
        BY <3>1, YearOfType
      <4>3. QED BY <2>1, <2>5, <4>1, <4>2
    <3>3. j - i \in 0 .. 5 /\ i + (j - i) = j
      BY <3>2
    <3>4. x = Anniversary(r, z, i + (j - i))
      BY <2>4, <2>9, <3>1, <3>2, <3>3
    <3>5. QED BY <2>1, <3>3, <3>4
  <2>10. NextOccurrenceAfter(r, z, d) = FirstFrom(S, c)
    BY <1>3, <1>4, <1>10 DEF NextOccurrenceAfter
  <2> HIDE DEF S
  <2>11. QED BY <1>3, <2>6, <2>7, <2>8, <2>9, <2>10, SearchEnds
<1>11. QED BY <1>6, <1>7, <1>8, <1>9, <1>10, RuleType

\* What the client is shown: the first day after d on which the rule fires, or nothing once
\* that is beyond the rule's end.
LEMMA NextShown ==
  ASSUME NEW r \in Rule, NEW z \in Zone, Steady(r, z), NEW d \in Int,
         StartDay(r, z) <= Horizon(d)
  PROVE  \E n \in Int :
           /\ FirstFiring(r, z, d + 1, n)
           /\ ComputeNextOccurrence(r, z, d) =
                IF r.end = None \/ n <= EndDay(r, z) THEN n ELSE None
<1>1. PICK n \in Int :
        n = NextOccurrenceAfter(r, z, d) /\ FirstFiring(r, z, SearchFrom(r, z, d), n)
  BY NextFires DEF FirstFiring
<1>2. PICK s \in Int : s = StartDay(r, z)
  BY RuleType
<1>3. PICK c \in Int : c = SearchFrom(r, z, d) /\ c >= d + 1 /\ (c = s \/ c = d + 1)
  <2>1. \E x \in {s, d + 1} : \A y \in {s, d + 1} : x >= y
    BY <1>2
  <2>2. Max({s, d + 1}) \in {s, d + 1} /\ Max({s, d + 1}) >= d + 1
    BY <2>1 DEF Max
  <2>3. QED BY <1>2, <2>2 DEF SearchFrom
<1>4. c <= n /\ FiresToday(r, z, n) /\ \A x \in c .. n - 1 : ~FiresToday(r, z, x)
  BY <1>1, <1>3 DEF FirstFiring
<1>5. ASSUME NEW x \in d + 1 .. n - 1 PROVE ~FiresToday(r, z, x)
  <2>1. CASE x < c
    BY <1>2, <1>3, <2>1 DEF FiresToday
  <2>2. CASE c <= x
    <3>1. x \in c .. n - 1
      BY <2>2
    <3>2. QED BY <1>4, <3>1
  <2>3. QED BY <2>1, <2>2
<1>6. FirstFiring(r, z, d + 1, n)
  BY <1>3, <1>4, <1>5 DEF FirstFiring
<1>7. ComputeNextOccurrence(r, z, d) = IF r.end = None \/ n <= EndDay(r, z) THEN n ELSE None
  <2>1. n # None
    BY DateAssumptions
  <2>2. CASE r.end = None
    BY <1>1, <2>1, <2>2 DEF ComputeNextOccurrence
  <2>3. CASE r.end # None
    <3>1. r.end \in Int
      BY <2>3, RuleType
    <3>2. Midnight(z, n) <= r.end <=> n <= EndDay(r, z)
      BY <3>1, DayOfInstant DEF EndDay
    <3>3. Midnight(z, n) \in Int
      BY MidnightOrder
    <3>4. Midnight(z, n) > r.end <=> ~(n <= EndDay(r, z))
      BY <3>1, <3>2, <3>3
    <3>5. QED BY <1>1, <2>1, <2>3, <3>4 DEF ComputeNextOccurrence
  <2>4. QED BY <2>2, <2>3
<1>8. QED BY <1>6, <1>7

\* When a rule starts more than five years from now its next occurrence is not shown, and
\* then it is shown out of nothing; no rule here starts so late.
StartsInView ==
  \A r \in Rules, z \in Zones : StartDay(r, z) <= Horizon(FirstDay - 1)

\* The next_occurrence a client was shown is kept for every schedule, every zone and every
\* day: the searches of fourteen days, fourteen months and six years go far enough, the
\* rule does not fire before it and fires on it, and the end date is compared with an
\* instant here and with a day by the scheduler to the same effect.
THEOREM ShownIsKept == StartsInView => (DatesSpec => NextOccurrenceKept)
<1> SUFFICES ASSUME StartsInView PROVE DatesSpec => NextOccurrenceKept
  OBVIOUS
<1>1. ASSUME DatesInv, DatesNext, Steady(rule, zone)
      PROVE  IF Due(rule, zone, today)
             THEN ComputeNextOccurrence(rule, zone, today - 1) = today
             ELSE ComputeNextOccurrence(rule, zone, today - 1) =
                    ComputeNextOccurrence(rule, zone, today)
  <2>1. rule \in Rule /\ zone \in Zone /\ today \in Int /\ FirstDay \in Int /\ FirstDay <= today
    BY <1>1, RuleAndZone, DateAssumptions DEF DatesInv
  <2>2. StartDay(rule, zone) \in Int /\ StartDay(rule, zone) <= Horizon(FirstDay - 1)
    BY <1>1, <2>1, RuleType DEF StartsInView, DatesInv
  <2>3. ASSUME NEW d \in Int, FirstDay - 1 <= d PROVE StartDay(rule, zone) <= Horizon(d)
    <3>1. FirstDay - 1 \in Int
      BY <2>1
    <3>2. Horizon(FirstDay - 1) <= Horizon(d)
      BY <2>3, <3>1, HorizonOrder
    <3>3. Horizon(FirstDay - 1) \in Int /\ Horizon(d) \in Int
      BY <3>1, HorizonFar
    <3>4. QED BY <2>2, <3>2, <3>3
  <2>4. today - 1 \in Int /\ FirstDay - 1 <= today - 1 /\ FirstDay - 1 <= today
        /\ today - 1 + 1 = today
    BY <2>1
  <2>5. PICK n \in Int :
          /\ FirstFiring(rule, zone, today, n)
          /\ ComputeNextOccurrence(rule, zone, today - 1) =
               IF rule.end = None \/ n <= EndDay(rule, zone) THEN n ELSE None
    <3>1. StartDay(rule, zone) <= Horizon(today - 1)
      BY <2>3, <2>4
    <3>2. \E n \in Int :
            /\ FirstFiring(rule, zone, today - 1 + 1, n)
            /\ ComputeNextOccurrence(rule, zone, today - 1) =
                 IF rule.end = None \/ n <= EndDay(rule, zone) THEN n ELSE None
      BY <1>1, <2>1, <2>4, <3>1, NextShown
    <3>3. QED BY <2>4, <3>2
  <2>6. PICK m \in Int :
          /\ FirstFiring(rule, zone, today + 1, m)
          /\ ComputeNextOccurrence(rule, zone, today) =
               IF rule.end = None \/ m <= EndDay(rule, zone) THEN m ELSE None
    <3>1. StartDay(rule, zone) <= Horizon(today)
      BY <2>1, <2>3, <2>4
    <3>2. QED BY <1>1, <2>1, <3>1, NextShown
  <2>7. CASE FiresToday(rule, zone, today)
    <3>1. n = today
      <4>1. today < n => today \in today .. n - 1
        BY <2>1
      <4>2. QED BY <2>1, <2>5, <2>7, <4>1 DEF FirstFiring
    <3>2. today < m
      BY <2>1, <2>6 DEF FirstFiring
    <3>3. rule.end # None => EndDay(rule, zone) \in Int
      BY <2>1, RuleType
    <3>4. QED BY <2>1, <2>5, <2>6, <2>7, <3>1, <3>2, <3>3 DEF Due
  <2>8. CASE ~FiresToday(rule, zone, today)
    <3>1. n = m
      <4>1. today < n
        BY <2>1, <2>5, <2>8 DEF FirstFiring
      <4>2. today < m
        BY <2>1, <2>6 DEF FirstFiring
      <4>3. ~(n < m)
        <5>1. n < m => n \in today + 1 .. m - 1
          BY <2>1, <4>1
        <5>2. QED BY <2>5, <2>6, <5>1 DEF FirstFiring
      <4>4. ~(m < n)
        <5>1. m < n => m \in today .. n - 1
          BY <2>1, <4>2
        <5>2. QED BY <2>5, <2>6, <5>1 DEF FirstFiring
      <4>5. QED BY <4>3, <4>4
    <3>2. QED BY <2>5, <2>6, <2>8, <3>1 DEF Due
  <2>9. QED BY <2>7, <2>8
<1>2. DatesInv /\ [DatesNext]_dateVars =>
        [Steady(rule, zone) =>
           LET shown == ComputeNextOccurrence(rule, zone, today - 1)
           IN  IF Due(rule, zone, today) THEN shown = today
               ELSE shown = ComputeNextOccurrence(rule, zone, today)]_dateVars
  BY <1>1
<1>3. QED BY <1>2, DatesInductive, PTL DEF DatesSpec, NextOccurrenceKept
=============================================================================
