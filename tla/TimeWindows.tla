---------------------------- MODULE TimeWindows ----------------------------
(***************************************************************************)
(* The time window of a Subscription (pkg/utils/timewindow.go): is the      *)
(* window open at a given time, how long until it opens, and after how long *)
(* must the status be looked at again.  Time is counted in minutes of the   *)
(* window's own location, from the midnight at which a Sunday begins.       *)
(***************************************************************************)
EXTENDS Integers, Sequences, Functions

CONSTANTS
    DayLen,   \* the minutes of a day
    WeekLen   \* the days of a week

ASSUME CalendarAssumption == DayLen \in Nat \ {0} /\ WeekLen \in Nat \ {0}

Days == 0..(WeekLen - 1)
Weekday(t) == (t \div DayLen) % WeekLen
TimeOfDay(t) == t % DayLen

\* A window: active or blocked, the names of days (an unknown one is none of
\* them), and ranges of the day.  A range that ends at 0 ends at midnight.
Window(type, days, hours) == [type |-> type, days |-> days, hours |-> hours]
HourRange(s, e) == [start |-> s, end |-> e]
IsMidnight(m) == m % DayLen = 0
Least(S) == CHOOSE e \in S : \A f \in S : e <= f

----------------------------------------------------------------------------
(* The ranges of the day.                                                    *)

\* The next range joins the last one if it begins before that ends.
Join(out, r) ==
    LET last == out[Len(out)]
    IN  IF r.start <= last.end
        THEN [out EXCEPT ![Len(out)].end = IF last.end < r.end THEN r.end ELSE @]
        ELSE Append(out, r)

\* In the order of their starts; ranges that start together in any order.
SortedByStart(in) ==
    LET ds == DOMAIN in
        order == CHOOSE o \in Bijection(ds, ds) :
                     \A i, j \in ds : i < j => in[o[i]].start <= in[o[j]].start
    IN  [i \in ds |-> in[order[i]]]

MergeHourRanges(in) ==
    IF Len(in) < 2 THEN in
    ELSE LET sorted == SortedByStart(in)
             merged[i \in DOMAIN in] ==
                 IF i = 1 THEN <<sorted[1]>> ELSE Join(merged[i - 1], sorted[i])
         IN  merged[Len(in)]

\* Mutant: a range that is written backwards stays so.
HoursAsWritten(hours) == MergeHourRanges(hours)

\* A range that is written backwards is turned around, unless it ends at midnight.
ValidateHourRange(hours) ==
    MergeHourRanges([i \in DOMAIN hours |->
        LET r == hours[i]
        IN  IF r.start < r.end \/ IsMidnight(r.end) THEN r ELSE HourRange(r.end, r.start)])

\* The gaps before, between and after the ranges.
Gap(acc, r) ==
    [out |-> IF acc.from = r.start THEN acc.out ELSE Append(acc.out, HourRange(acc.from, r.start)),
     from |-> r.end]
ReverseRange(slots) ==
    IF slots = <<>> THEN slots
    ELSE LET gaps[i \in 0..Len(slots)] ==
                 IF i = 0 THEN [out |-> <<>>, from |-> 0] ELSE Gap(gaps[i - 1], slots[i])
             out == gaps[Len(slots)].out
             last == gaps[Len(slots)].from
             from == IF IsMidnight(last) THEN last + DayLen ELSE last
         IN  IF from = DayLen THEN out ELSE Append(out, HourRange(from, DayLen))

\* The days that are named, and the others; neither if no names are given.
RunDays(tw) == tw.days \cap Days
OtherDays(tw) == IF tw.days = {} THEN {} ELSE Days \ tw.days

----------------------------------------------------------------------------
(* The time that is left.                                                    *)

TillMidnight(t) == DayLen - TimeOfDay(t)

\* The least of fit, the numbers of the slots at which a loop returns; 0 if there is none.
FirstFit(fit) == IF fit # {} THEN Least(fit) ELSE 0

\* To the next slot, of today or of tomorrow.
TillNextSlot(slots, t) ==
    LET m == TimeOfDay(t)
        i == FirstFit({j \in 1..Len(slots) : m <= slots[j].start \/ m <= slots[j].end})
    IN  IF slots[Len(slots)].end < m THEN TillMidnight(t) + slots[1].start
        ELSE IF i = 0 \/ slots[i].start < m THEN 0
        ELSE slots[i].start - m

TillNextSlotFromMidnight(slots) == TillNextSlot(slots, 0)

\* To the next slot of today, or -1.
TillNextSlotInCurrentDay(slots, t) ==
    LET m == TimeOfDay(t)
        i == FirstFit({j \in 1..Len(slots) : m <= slots[j].start \/ m <= slots[j].end
                                                  \/ IsMidnight(slots[j].end)})
    IN  IF i = 0 THEN -1
        ELSE IF slots[i].start < m THEN 0
        ELSE slots[i].start - m

\* Mutant: the last day of the week is followed by the first day of this week.
DaysAheadNoWrap(days, d) ==
    LET later == {e \in days : d < e}
    IN  IF later # {} THEN Least(later) - d ELSE 0

\* The days to the next day on which to run.  The last of the days, once its
\* slots are over, is followed by itself.
DaysAhead(days, d) ==
    LET later == {e \in days : d < e}
    IN  IF later # {} THEN Least(later) - d
        ELSE IF d \in days THEN WeekLen
        ELSE WeekLen - d + Least(days)

\* The whole days between today and the next day on which to run.
DurationToNextRunnableWeekday(days, slots, t) ==
    LET d == Weekday(t)
    IN  IF days = {} THEN 0
        ELSE IF d \in days /\ TillNextSlotInCurrentDay(slots, t) >= 0 THEN 0
        ELSE (DaysAhead(days, d) - 1) * DayLen

----------------------------------------------------------------------------
(* generateNextPoint                                                         *)

\* Days are the ones that are not blocked; on the others only the slots are open.
NextPointBlocked(slots, days, t) ==
    LET today == IF slots = <<>> THEN -1 ELSE TillNextSlotInCurrentDay(slots, t)
    IN  IF Weekday(t) \in days THEN 0
        ELSE IF today >= 0 THEN today
        ELSE TillMidnight(t) +
             (IF slots = <<>> THEN DurationToNextRunnableWeekday(days, slots, t)
              ELSE IF Weekday(t + DayLen) \in days THEN 0
              ELSE TillNextSlotFromMidnight(slots))

NextPointActive(slots, days, t) ==
    LET ahead == DurationToNextRunnableWeekday(days, slots, t)
        today == TillNextSlotInCurrentDay(slots, t)
        later == TillMidnight(t) + TillNextSlotFromMidnight(slots) + ahead
    IN  IF slots = <<>> THEN IF Weekday(t) \in days THEN 0 ELSE TillMidnight(t) + ahead
        ELSE IF days = {} THEN TillNextSlot(slots, t)
        ELSE IF Weekday(t) \in days /\ ahead = 0 /\ today >= 0 THEN today
        ELSE later

GenerateNextPoint(slots, days, t, blocked) ==
    IF slots = <<>> /\ days = {} THEN 0
    ELSE IF blocked THEN NextPointBlocked(slots, days, t)
    ELSE NextPointActive(slots, days, t)

----------------------------------------------------------------------------
(* The operations.                                                           *)

NextStartPoint(tw, t) ==
    LET slots == ValidateHourRange(tw.hours)
    IN  IF tw.type = "blocked"
        THEN GenerateNextPoint(ReverseRange(slots), OtherDays(tw), t, TRUE)
        ELSE GenerateNextPoint(slots, RunDays(tw), t, FALSE)

IsInWindow(tw, t) == NextStartPoint(tw, t) = 0

\* Mutant: an open window that is of the blocked type is treated like an active one.
NextStatusReversed(tw, t) ==
    IF tw.days = {} /\ tw.hours = <<>> THEN 0
    ELSE IF IsInWindow(tw, t)
         THEN GenerateNextPoint(ReverseRange(ValidateHourRange(tw.hours)), RunDays(tw), t, FALSE) + 1
    ELSE NextStartPoint(tw, t) + 1

\* The minutes to the next look at the status; 0 is no look at all.
NextStatusReconcile(tw, t) ==
    LET slots == ValidateHourRange(tw.hours)
        until == IF tw.type = "blocked" THEN slots ELSE ReverseRange(slots)
    IN  IF tw.days = {} /\ tw.hours = <<>> THEN 0
        ELSE IF IsInWindow(tw, t) THEN GenerateNextPoint(until, RunDays(tw), t, FALSE) + 1
        ELSE NextStartPoint(tw, t) + 1
=============================================================================
