--------------------------- MODULE RecurrenceDates ---------------------------
(***************************************************************************)
(* The calendar arithmetic of package recurring: on which local days a     *)
(* rule fires (firesToday, asked by the scheduler), which days it should   *)
(* have fired on (allMissedOccurrences, asked by the backfill) and which   *)
(* day comes next (nextOccurrenceAfter, shown to the client).  The three   *)
(* were written separately and must tell the same story, across short      *)
(* months, leap years and clock changes.  The scheduler and the client's   *)
(* next day are asked in the user's zone, the backfill in UTC.             *)
(*                                                                         *)
(* A day is a number, an instant a number of hours since the midnight of   *)
(* day 0 in UTC.  A zone is its offset in hours and the days whose         *)
(* midnight is in summer time.  The specification walks through the days:  *)
(* every day the scheduler asks once whether the rule fires.               *)
(***************************************************************************)
EXTENDS Integers, FiniteSetsExt

CONSTANTS
  FirstYear,   \* the year of day 0, which is its 1 January
  FirstWeekday, \* the weekday of day 0, Sunday is 0
  FirstDay, LastDay, \* the days the scheduler runs on
  Rules,       \* recurring_transactions rows: their schedule columns
  Zones,       \* users.timezone, resolved
  None         \* NULL, nil

VARIABLES
  rule,    \* the rule
  zone,    \* its user's zone
  today,   \* the local day the scheduler looks at
  fired    \* the local days it has inserted an occurrence for

dateVars == <<rule, zone, today, fired>>

Zone == [offset: -12 .. 14, summer: SUBSET Int]

Rule == [freq: {"daily", "weekly", "monthly", "yearly"}, dom: (1 .. 31) \cup {None},
         dows: SUBSET (0 .. 6), start: Int, end: Int \cup {None}]

ASSUME DateAssumptions ==
  /\ FirstYear \in Int /\ FirstWeekday \in 0 .. 6
  /\ FirstDay \in Int /\ LastDay \in Int
  /\ Rules \subseteq Rule /\ Zones \subseteq Zone
  /\ None \notin Int

-----------------------------------------------------------------------------
(* Package time of the Go library.                                         *)

LeapYear(y) == y % 4 = 0 /\ (y % 100 # 0 \/ y % 400 = 0)

\* Day 0 of the next month, which time.Date normalises to the last of this one.
LastOfMonth(y, m) ==
  CASE m = 2 -> IF LeapYear(y) THEN 29 ELSE 28
    [] m \in {4, 6, 9, 11} -> 30
    [] OTHER -> 31

\* Leap years before year y.
LeapsBefore(y) == (y - 1) \div 4 - (y - 1) \div 100 + (y - 1) \div 400

Jan1(y) == 365 * (y - FirstYear) + LeapsBefore(y) - LeapsBefore(FirstYear)

\* The days of a common year before each month.
DaysBefore == <<0, 31, 59, 90, 120, 151, 181, 212, 243, 273, 304, 334>>

Month1(y, m) == Jan1(y) + DaysBefore[m] + (IF m > 2 /\ LeapYear(y) THEN 1 ELSE 0)

\* time.Date: a day beyond the month runs into the next.
DayNumber(y, m, d) == Month1(y, m) + d - 1

\* 400 years have 146097 days.
YearOf(d) ==
  LET near == FirstYear + (400 * d) \div 146097
  IN  CHOOSE y \in near - 1 .. near + 1 : Jan1(y) <= d /\ d < Jan1(y + 1)
MonthOf(d) ==
  CHOOSE m \in 1 .. 12 :
    Month1(YearOf(d), m) <= d /\ d < Month1(YearOf(d), m) + LastOfMonth(YearOf(d), m)
DayOf(d) == d - Month1(YearOf(d), MonthOf(d)) + 1
Weekday(d) == (d + FirstWeekday) % 7

Midnight(z, d) == 24 * d - z.offset - (IF d \in z.summer THEN 1 ELSE 0)

\* startOfDayIn: the local day of an instant.
StartOfDayIn(z, t) ==
  CHOOSE d \in (t \div 24) - 1 .. (t \div 24) + 1 : Midnight(z, d) <= t /\ t < Midnight(z, d + 1)

\* A mutant of DaysBetween: hours of a day that has begun count as a day.
DaysBetweenUp(z, a, b) == (Midnight(z, b) - Midnight(z, a) + 23) \div 24

\* int(b.Sub(a).Hours() / 24)
DaysBetween(z, a, b) == (Midnight(z, b) - Midnight(z, a)) \div 24

-----------------------------------------------------------------------------
StartDay(r, z) == StartOfDayIn(z, r.start)
EndDay(r, z) == StartOfDayIn(z, r.end)

\* The day of the month, or its last day if it is shorter.
ResolveMonthDay(y, m, d) == DayNumber(y, m, Min({d, LastOfMonth(y, m)}))

\* day_of_month, or the day of start_date.
TargetDay(r, z) == IF r.dom = None THEN DayOf(StartDay(r, z)) ELSE r.dom

Anniversary(r, z, y) == ResolveMonthDay(y, MonthOf(StartDay(r, z)), DayOf(StartDay(r, z)))

\* Month n, counted from the January of FirstYear.
Occurrence(r, z, n) ==
  ResolveMonthDay(FirstYear + (n \div 12), (n % 12) + 1, TargetDay(r, z))
MonthIndex(d) == 12 * (YearOf(d) - FirstYear) + MonthOf(d) - 1

FiresToday(r, z, d) ==
  /\ d >= StartDay(r, z)
  /\ \/ r.freq = "daily"
     \/ r.freq = "weekly" /\ r.dows = {} /\ DaysBetween(z, StartDay(r, z), d) % 7 = 0
     \/ r.freq = "weekly" /\ Weekday(d) \in r.dows
     \/ r.freq = "monthly" /\ d = Occurrence(r, z, MonthIndex(d))
     \/ r.freq = "yearly" /\ d = Anniversary(r, z, YearOf(d))

\* A mutant of Due: end_date is forgotten.
DueForever(r, z, d) == FiresToday(r, z, d)

\* What GenerateDueTransactions asks before it looks at the skips.
Due(r, z, d) == FiresToday(r, z, d) /\ (r.end = None \/ d <= EndDay(r, z))

-----------------------------------------------------------------------------
\* The day after "day" that is a multiple of seven days from the start.
SnapForward(r, z, day) ==
  LET mod == DaysBetween(z, StartDay(r, z), day) % 7
  IN  IF mod = 0 THEN day ELSE day + 7 - mod

CollectWeeklyAligned(r, z, cursor, d) ==
  {x \in SnapForward(r, z, cursor) .. d : (x - SnapForward(r, z, cursor)) % 7 = 0}

CollectWeeklyByDay(r, cursor, d) == {x \in cursor .. d : Weekday(x) \in r.dows}

CollectMonthly(r, z, cursor, d) ==
  {Occurrence(r, z, n) : n \in MonthIndex(cursor) .. MonthIndex(d)} \cap (cursor .. d)

CollectYearly(r, z, cursor, d) ==
  {Anniversary(r, z, y) : y \in YearOf(cursor) .. YearOf(d)} \cap (cursor .. d)

\* A mutant of ResumeDay: the last day is listed again.
ResumeOnLast(r, z, lastAdded) ==
  IF lastAdded # None /\ StartOfDayIn(z, lastAdded) >= StartDay(r, z)
  THEN StartOfDayIn(z, lastAdded) ELSE StartDay(r, z)

\* Strictly after the last fire date, and not before the start.
ResumeDay(r, z, lastAdded) ==
  IF lastAdded # None /\ StartOfDayIn(z, lastAdded) >= StartDay(r, z)
  THEN StartOfDayIn(z, lastAdded) + 1 ELSE StartDay(r, z)

AllMissedOccurrences(r, z, lastAdded, d) ==
  LET cursor == ResumeDay(r, z, lastAdded)
  IN  IF cursor > d THEN {} ELSE
      CASE r.freq = "daily" -> cursor .. d
        [] r.freq = "weekly" -> IF r.dows = {} THEN CollectWeeklyAligned(r, z, cursor, d)
                                ELSE CollectWeeklyByDay(r, cursor, d)
        [] r.freq = "monthly" -> CollectMonthly(r, z, cursor, d)
        [] r.freq = "yearly" -> CollectYearly(r, z, cursor, d)

\* Whoever's rule it is, the administrator's backfill passes time.UTC, and no end_date.
Utc == [offset |-> 0, summer |-> {}]

MissedInUtc(r, lastAdded, now) ==
  AllMissedOccurrences(r, Utc, lastAdded, StartOfDayIn(Utc, now))

-----------------------------------------------------------------------------
\* after.AddDate(5, 0, 0)
Horizon(d) == DayNumber(YearOf(d) + 5, MonthOf(d), DayOf(d))

\* The first of the days that is not before the cursor, if there is one.
FirstFrom(days, cursor) ==
  IF \E x \in days : x >= cursor THEN Min({x \in days : x >= cursor}) ELSE None

\* A mutant of SearchFrom: the search starts on the day itself.
SearchFromToday(r, z, d) == Max({StartDay(r, z), d})

SearchFrom(r, z, d) == Max({StartDay(r, z), d + 1})

\* How many months, years and days each search goes through is the code's.
NextOccurrenceAfter(r, z, d) ==
  LET cursor == SearchFrom(r, z, d)
  IN  IF StartDay(r, z) > Horizon(d) THEN None ELSE
      CASE r.freq = "daily" -> cursor
        [] r.freq = "weekly" ->
             IF r.dows = {}
             THEN FirstFrom({SnapForward(r, z, cursor)} \cap (cursor .. Horizon(d)), cursor)
             ELSE FirstFrom(CollectWeeklyByDay(r, cursor, cursor + 13), cursor)
        [] r.freq = "monthly" ->
             FirstFrom({Occurrence(r, z, MonthIndex(cursor) + k) : k \in 0 .. 13}, cursor)
        [] r.freq = "yearly" ->
             FirstFrom({Anniversary(r, z, YearOf(cursor) + k) : k \in 0 .. 5}, cursor)

\* computeNextOccurrence: next_occurrence of an active rule.
ComputeNextOccurrence(r, z, d) ==
  LET next == NextOccurrenceAfter(r, z, d)
  IN  IF next # None /\ r.end # None /\ Midnight(z, next) > r.end THEN None ELSE next

-----------------------------------------------------------------------------
DatesInit ==
  /\ rule \in Rules
  /\ zone \in Zones
  /\ today = FirstDay
  /\ fired = {}

\* The first tick of the day that gets through.
Tick ==
  /\ today < LastDay
  /\ fired' = IF Due(rule, zone, today) THEN fired \cup {today} ELSE fired
  /\ today' = today + 1
  /\ UNCHANGED <<rule, zone>>

DatesNext == Tick

DatesSpec == DatesInit /\ [][DatesNext]_dateVars

-----------------------------------------------------------------------------
(* Properties.                                                             *)

\* Counted in hours, a week that starts before the clocks go forward loses a day.
Steady(r, z) == ~ (r.freq = "weekly" /\ r.dows = {} /\ z.summer # {})

\* The days that are over and not beyond the rule's end.
Ended(d) == rule.end # None /\ d > EndDay(rule, zone)
Past == {d \in FirstDay .. today - 1 : ~Ended(d)}

\* The days of the rule are counted from the day of its start.
FromStart(r) ==
  \/ r.freq = "weekly" /\ r.dows = {}
  \/ r.freq = "monthly" /\ r.dom = None
  \/ r.freq = "yearly"

\* Then the start must have one date in both zones, or the two count differently.
SameCalendar(r, z) == StartDay(r, Utc) = StartDay(r, z) \/ ~FromStart(r)

\* The scheduler, in the user's zone, and the administrator's backfill, in UTC, agree
\* on dates: a scheduler that misses no day enters exactly those the backfill lists, but
\* for the days after end_date, which the backfill lists too, and the day of the start,
\* which only one of them may have.  Rules that count from a start with another date in
\* UTC are out: their backfill lists other days.
TicksMatchBackfill ==
  Steady(rule, zone) /\ SameCalendar(rule, zone) =>
    LET listed == MissedInUtc(rule, None, Midnight(zone, today))
        begun == {d \in FirstDay .. today - 1 :
                    d >= StartDay(rule, Utc) /\ d >= StartDay(rule, zone)}
    IN  fired \cap begun = {d \in listed \cap begun : ~Ended(d)}

\* last_added_date is the user's midnight.  A backfill that resumes after one of the last
\* occurrences leaves none of the later ones out, and lists that occurrence again just
\* if the midnight was on the day before in UTC: east of it.
BackfillResumes ==
  Steady(rule, zone) /\ SameCalendar(rule, zone) =>
    \A d \in fired : d > today - 32 =>
      {x \in MissedInUtc(rule, Midnight(zone, d), Midnight(zone, today)) : x < today /\ ~Ended(x)}
        = {x \in fired : x > d \/ (x = d /\ Midnight(zone, d) < Midnight(Utc, d))}

\* "Fallback: every 7 days from start_date", for a weekly rule without days: POST and a
\* PATCH of the frequency refuse one, a PATCH of days_of_week alone lets the empty list
\* in.  The fallback is kept while no clock change lies between the start and the day;
\* in summer time after a start in winter the scheduler is a day late, and it is so on
\* every week, never by more.
WeeklyDriftsOneDay ==
  rule.freq = "weekly" /\ rule.dows = {} =>
    \A d \in Past : d >= StartDay(rule, zone) =>
      (d \in fired <=>
         (d - StartDay(rule, zone)) % 7 =
           IF d \in zone.summer /\ StartDay(rule, zone) \notin zone.summer THEN 1 ELSE 0)

\* The next_occurrence a client was shown is kept: the rule does not fire before it,
\* fires on it, and until then the same day is shown.
NextOccurrenceKept ==
  [][Steady(rule, zone) =>
       LET shown == ComputeNextOccurrence(rule, zone, today - 1)
       IN  IF Due(rule, zone, today) THEN shown = today
           ELSE shown = ComputeNextOccurrence(rule, zone, today)]_dateVars
=============================================================================
