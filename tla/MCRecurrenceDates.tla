-------------------------- MODULE MCRecurrenceDates --------------------------
(* Rules and zones for TLC: 1 January 2024, a Monday, is day 0.            *)
EXTENDS RecurrenceDates

At(m, d, hour) == 24 * DayNumber(2024, m, d) + hour

Base == [freq |-> "daily", dom |-> None, dows |-> {}, start |-> At(1, 31, 0), end |-> None]

MCRules ==
  { Base,
    [Base EXCEPT !.end = At(3, 10, 7)],
    [Base EXCEPT !.freq = "weekly", !.dows = {0}],
    [Base EXCEPT !.freq = "weekly", !.dows = {1, 3, 6}, !.end = At(12, 31, 20)],
    [Base EXCEPT !.freq = "weekly"],
    [Base EXCEPT !.freq = "weekly", !.start = At(3, 10, 12)],
    [Base EXCEPT !.freq = "weekly", !.start = At(6, 1, 12)],
    [Base EXCEPT !.freq = "monthly", !.dom = 31],
    [Base EXCEPT !.freq = "monthly", !.dom = 30, !.start = At(2, 29, 2)],
    [Base EXCEPT !.freq = "monthly", !.dom = 1, !.end = At(11, 1, 3)],
    [Base EXCEPT !.freq = "yearly", !.start = At(2, 29, 12)],
    [Base EXCEPT !.freq = "yearly"] }

Kiritimati == [offset |-> 14, summer |-> {}]
Honolulu == [offset |-> -10, summer |-> {}]
NewYork == [offset |-> -5, summer |-> (DayNumber(2024, 3, 11) .. DayNumber(2024, 11, 3))
                             \cup (DayNumber(2025, 3, 10) .. DayNumber(2025, 11, 2))]
MCZones == {Utc, Kiritimati, Honolulu, NewYork}
=============================================================================
