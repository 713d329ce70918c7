----------------------------- MODULE DateRange -----------------------------
(***************************************************************************)
(* validation/dates.py: a date token and the reference date give an        *)
(* inclusive range of instants.                                            *)
(*                                                                         *)
(* Days are numbered, with a Monday as day 0.  A day has three kinds of instants:    *)
(* midnight, the rest of it up to its last whole second, and the fraction  *)
(* of a second after that.  The calendar is the sets of days on which a    *)
(* month and a year begin.                                                 *)
(***************************************************************************)
EXTENDS Integers, FiniteSetsExt

CONSTANTS
    MonthStarts, YearStarts,    \* the calendar, as day numbers
    Error                       \* an {"error": ...} result, a ValidationError

ASSUME CalendarAssumption ==
    /\ MonthStarts \subseteq Int /\ YearStarts \subseteq MonthStarts

Midnight(day) == 3 * day
LastSecond(day) == 3 * day + 1          \* 23:59:59
LastMicrosecond(day) == 3 * day + 2     \* 23:59:59.999999

Weekday(day) == day % 7
MonthStart(day) == Max({s \in MonthStarts : s =< day})
YearStart(day) == Max({s \in YearStarts : s =< day})

Tokens == {"today", "yesterday", "this_week", "last_week",
           "this_month", "last_month", "this_year", "last_year"}

From(day) == Midnight(day)

\* fault: the week before the last Sunday counted from the reference day
LateSunday(day) == day - Weekday(day)

LastSunday(day) == day - (Weekday(day) + 1)

\* The range of a token.  last_month is the one that ends on the second before
\* the first of this month; the others end on the last microsecond of a day.
TokenRange(token, day) ==
    CASE token = "today"      -> <<From(day), LastMicrosecond(day)>>
      [] token = "yesterday"  -> <<From(day - 1), LastMicrosecond(day - 1)>>
      [] token = "this_week"  -> <<From(day - Weekday(day)), LastMicrosecond(day)>>
      [] token = "last_week"  -> <<From(LastSunday(day) - 6), LastMicrosecond(LastSunday(day))>>
      [] token = "this_month" -> <<From(MonthStart(day)), LastMicrosecond(day)>>
      [] token = "last_month" -> LET last == MonthStart(day) - 1
                                 IN <<From(MonthStart(last)), LastSecond(last)>>
      [] token = "this_year"  -> <<From(YearStart(day)), LastMicrosecond(day)>>
      [] token = "last_year"  -> LET last == YearStart(day) - 1
                                 IN <<From(YearStart(last)), LastMicrosecond(last)>>
      [] OTHER -> Error

\* {"from": ..., "to": ...}: both days in full, up to the last whole second
ExplicitRange(first, last) == <<From(first), LastSecond(last)>>

\* A token as the model sends it: [token |-> name] or [from |-> d, to |-> d]
DateRange(t, day) ==
    IF "from" \in DOMAIN t THEN ExplicitRange(t.from, t.to) ELSE TokenRange(t.token, day)

Within(instant, range) == range[1] =< instant /\ instant =< range[2]
=============================================================================
