------------------------- MODULE SubscriptionStatus -------------------------
(***************************************************************************)
(* The status that the subscription controller of a managed cluster keeps   *)
(* of a Subscription with a time window                                     *)
(* (pkg/controller/subscription/subscription_controller.go): each reconcile *)
(* writes whether the window is open and asks to be called again when that  *)
(* changes.  The clock goes on between the steps of a reconcile.            *)
(***************************************************************************)
EXTENDS TimeWindows

CONSTANTS
    Windows,     \* the time windows the user may ask for
    RetryLen,    \* the minutes after which a failed reconcile is repeated
    MaxEdits,    \* edits of the Subscription
    MaxFaults    \* failing calls

ASSUME StatusAssumption == RetryLen \in Nat \ {0} /\ MaxEdits \in Nat /\ MaxFaults \in Nat

\* Windows are of one of the two types, and their times of the day were parsed.
ASSUME WindowAssumption ==
    \A w \in Windows : /\ w.type \in {"active", "blocked"}
                       /\ w.hours \in Seq([start : 0..(DayLen - 1), end : 0..(DayLen - 1)])

VARIABLES
    clock,    \* the minute of the week
    sub,      \* the Subscription: its window and its pause label
    status,   \* message and phase
    queued,   \* is the Subscription in the work queue?
    timer,    \* the minutes until the work queue adds it, or Never
    ctl,      \* the reconcile in progress
    excused,  \* history: why the status need not be right
    edits, faults

vars == <<clock, sub, status, queued, timer, ctl, excused, edits, faults>>

Never == -1
Minutes == 0..(WeekLen * DayLen - 1)
Idle == [pc |-> "idle", error |-> "no", fresh |-> "yes", message |-> "none"]

Message(tw, t) == IF IsInWindow(tw, t) THEN "active" ELSE "blocked"
Earlier(a, b) == IF a = Never \/ (b # Never /\ b < a) THEN b ELSE a

\* The slots of the last of several days are over: the code takes that day of
\* the next week for the next one.
LastDayOver(tw, t) ==
    /\ tw.hours # <<>> /\ RunDays(tw) # {Weekday(t)}
    /\ Weekday(t) \in RunDays(tw) /\ \A d \in RunDays(tw) : d <= Weekday(t)
    /\ TillNextSlotInCurrentDay(ValidateHourRange(tw.hours), t) = -1

Fail == faults < MaxFaults /\ faults' = faults + 1
Ok == UNCHANGED faults

----------------------------------------------------------------------------
(* The user and the clock.                                                   *)

Edit ==
    /\ edits < MaxEdits /\ edits' = edits + 1
    /\ \/ \E w \in Windows \ {sub.window} : sub' = [sub EXCEPT !.window = w]
       \/ sub' = [sub EXCEPT !.paused = IF @ = "yes" THEN "no" ELSE "yes"]
    /\ queued' = "yes"
    /\ ctl' = [ctl EXCEPT !.fresh = "no"]
    /\ UNCHANGED <<clock, status, timer, excused, faults>>

\* The work queue adds the Subscription when its time has come.
Tick ==
    /\ clock' = (clock + 1) % (WeekLen * DayLen)
    /\ timer' = IF timer <= 1 THEN Never ELSE timer - 1
    /\ queued' = IF timer = 1 THEN "yes" ELSE queued
    /\ excused' = IF ctl.pc = "schedule" THEN excused \cup {"tick"} ELSE excused
    /\ UNCHANGED <<sub, status, ctl, edits, faults>>

----------------------------------------------------------------------------
(* The controller.                                                           *)

\* doReconcile hands the Subscription to its subscriber.  While it is not known
\* whether its user is an administrator nothing is done, for a few seconds.
Reconcile ==
    /\ ctl.pc = "idle" /\ queued = "yes"
    /\ \/ /\ Fail /\ UNCHANGED <<ctl, queued>>
       \/ /\ queued' = "no"
          /\ \E error \in {"no", "yes"} :
               /\ IF error = "yes" THEN Fail ELSE Ok
               /\ ctl' = [Idle EXCEPT !.pc = "message", !.error = error]
    /\ UNCHANGED <<clock, sub, status, timer, excused, edits>>

\* The Subscription is read again; a paused one keeps its status, and no new
\* call is asked for.  The first look at the clock is for the message.
SetMessage ==
    /\ ctl.pc = "message"
    /\ ctl' = IF sub.paused = "yes" THEN Idle
              ELSE [ctl EXCEPT !.pc = "schedule", !.fresh = "yes",
                               !.message = Message(sub.window, clock)]
    /\ excused' = IF sub.paused = "yes" THEN {"paused"} ELSE {}
    /\ UNCHANGED <<clock, sub, status, queued, timer, edits, faults>>

\* The second is for the next call; the update fails if the Subscription has
\* changed.  The work queue keeps the earlier of two times.
UpdateStatus ==
    LET next == NextStatusReconcile(sub.window, clock)
        after == IF ctl.error = "yes" THEN RetryLen ELSE IF next = 0 THEN Never ELSE next
    IN
    /\ ctl.pc = "schedule"
    /\ ctl' = Idle
    /\ \/ /\ Fail \/ (Ok /\ ctl.fresh = "no")
          /\ queued' = "yes" /\ UNCHANGED <<status, timer, excused>>
       \/ /\ Ok /\ ctl.fresh = "yes"
          /\ status' = [message |-> ctl.message, phase |-> IF ctl.error = "yes" THEN "failed" ELSE "subscribed"]
          /\ timer' = Earlier(timer, after)
          /\ excused' = excused \cup (IF ctl.error = "yes" THEN {"failed"} ELSE {})
                                 \cup (IF LastDayOver(sub.window, clock) THEN {"week"} ELSE {})
          /\ UNCHANGED queued
    /\ UNCHANGED <<clock, sub, edits>>

Init ==
    /\ clock \in Minutes
    /\ sub \in [window : Windows, paused : {"no"}]
    /\ status = [message |-> "none", phase |-> "none"]
    /\ queued = "yes" /\ timer = Never /\ ctl = Idle /\ excused = {}
    /\ edits = 0 /\ faults = 0

Controller == Reconcile \/ SetMessage \/ UpdateStatus

Next == Edit \/ Tick \/ Controller

Spec == Init /\ [][Next]_vars

----------------------------------------------------------------------------
(* Properties.                                                               *)

\* What a window means.  An active one is open on its days in its ranges, ends
\* included; a blocked one is closed there, but not at the ends of a range, for
\* what is just before or just after them is open.
Ordered(r) == IF r.end = 0 THEN HourRange(r.start, DayLen)
              ELSE IF r.start < r.end THEN r ELSE HourRange(r.end, r.start)
Ranges(tw) == {Ordered(tw.hours[i]) : i \in DOMAIN tw.hours}
OpenHours(tw, m) == tw.hours = <<>> \/ \E r \in Ranges(tw) : r.start <= m /\ m <= r.end
ClosedHours(tw, m) == tw.hours = <<>> \/
    /\ m = 0 \/ \E r \in Ranges(tw) : r.start < m /\ m <= r.end
    /\ \E r \in Ranges(tw) : r.start <= m /\ m < r.end
Open(tw, t) ==
    IF tw.type = "blocked"
    THEN \/ tw.days = {} /\ tw.hours = <<>>
         \/ tw.days # {} /\ Weekday(t) \notin tw.days
         \/ ~ClosedHours(tw, TimeOfDay(t))
    ELSE (RunDays(tw) = {} \/ Weekday(t) \in tw.days) /\ OpenHours(tw, TimeOfDay(t))

\* The windows that are not read as they are written.  A range that ends at
\* midnight counts only if it is the only one, and in an active window only with
\* days; a window that blocks all days, all day, blocks none.
EndsAtMidnight(tw) == \E i \in DOMAIN tw.hours : tw.hours[i].end = 0
BlocksAlways(tw) == \A t \in Minutes : ~Open(tw, t)
Misread(tw) ==
    \/ EndsAtMidnight(tw) /\ (Len(tw.hours) > 1 \/ (tw.type = "active" /\ RunDays(tw) = {}))
    \/ tw.type = "blocked" /\ BlocksAlways(tw)

\* IsInWindow says of every minute of the week what the window means, across
\* midnight, the end of the week, ranges that overlap, touch or are written
\* backwards, and unknown names of days.
WindowIsRight ==
    Misread(sub.window) \/ IsInWindow(sub.window, clock) = Open(sub.window, clock)

\* The minutes that NextStartPoint promises are those to the very next minute at
\* which the window is open, but for the end of the last day of several.
Wait(tw, t) == CHOOSE d \in Minutes : Open(tw, t + d) /\ \A e \in 0..(d - 1) : ~Open(tw, t + e)
NextIsNext ==
    \/ Misread(sub.window) \/ LastDayOver(sub.window, clock)
    \/ NextStartPoint(sub.window, clock) = Wait(sub.window, clock)

\* Whenever the controller rests, the message tells what IsInWindow says of the
\* window, with a minute's delay at most, however the window was edited and whatever
\* timers were set before; unless the last reconcile found the Subscription
\* paused, failed, fell between two minutes or on the end of the last day.
StatusTimely ==
    \/ queued = "yes" \/ ctl.pc # "idle" \/ excused # {} \/ EndsAtMidnight(sub.window)
    \/ \E ago \in {0, 1} :
         status.message = Message(sub.window, clock + WeekLen * DayLen - ago)
=============================================================================
