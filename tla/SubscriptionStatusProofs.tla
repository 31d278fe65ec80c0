---------------------- MODULE SubscriptionStatusProofs ----------------------
(***************************************************************************)
(* The theorems of SubscriptionStatus: what the controller makes of a time  *)
(* window and the status it keeps of it, for days and weeks of any length   *)
(* and any windows with any number of ranges of the day.                    *)
(***************************************************************************)
EXTENDS TimeWindowsProofs

----------------------------------------------------------------------------
(* IsInWindow.                                                               *)

\* The windows of a Subscription are the user's, and the clock counts minutes.
WindowTyped == sub.window \in Windows /\ clock \in Nat

\* No step leaves them.
LEMMA WindowIsTyped == Spec => []WindowTyped
<1>1. Init => WindowTyped BY DEF Init, WindowTyped, Minutes
<1>2. WindowTyped /\ [Next]_vars => WindowTyped'
  <2> SUFFICES ASSUME WindowTyped, [Next]_vars PROVE WindowTyped' OBVIOUS
  <2>1. CASE Edit
    <3>1. clock' = clock BY <2>1 DEF Edit
    <3>2. sub'.window \in Windows
      <4>1. CASE \E w \in Windows \ {sub.window} : sub' = [sub EXCEPT !.window = w] BY <4>1 DEF WindowTyped
      <4>2. CASE sub' = [sub EXCEPT !.paused = IF @ = "yes" THEN "no" ELSE "yes"] BY <4>2 DEF WindowTyped
      <4> QED BY <2>1, <4>1, <4>2 DEF Edit
    <3> QED BY <3>1, <3>2 DEF WindowTyped
  <2>2. CASE Tick
    <3>1. WeekLen * DayLen \in Nat \ {0} BY CalendarAssumption
    <3>2. \A a \in Nat, b \in Nat \ {0} : a % b \in Nat OBVIOUS
    <3>3. clock' \in Nat BY <2>2, <3>1, <3>2 DEF Tick, WindowTyped
    <3> QED BY <2>2, <3>3 DEF Tick, WindowTyped
  <2>3. CASE Controller BY <2>3 DEF Controller, Reconcile, SetMessage, UpdateStatus, WindowTyped
  <2>4. CASE UNCHANGED vars BY <2>4 DEF vars, WindowTyped
  <2> QED BY <2>1, <2>2, <2>3, <2>4 DEF Next
<1> QED BY <1>1, <1>2, PTL DEF Spec

\* Whatever window the user asks for, and at every minute: IsInWindow says what
\* the window means, unless it is one of those that are misread.
THEOREM WindowsAreRight == Spec => []WindowIsRight
<1>1. WindowTyped => WindowIsRight
  <2> SUFFICES ASSUME WindowTyped, ~Misread(sub.window)
               PROVE  IsInWindow(sub.window, clock) = Open(sub.window, clock)
    BY DEF WindowIsRight
  <2> DEFINE w == sub.window
  <2>1. /\ w.type \in {"active", "blocked"} /\ clock \in Nat
        /\ w.hours \in Seq(AnySlots)
    BY Zenon, WindowAssumption DEF WindowTyped, AnySlots
  <2>2. IsInWindow(w, clock) <=> Open(w, clock)
    <3> HIDE DEF w
    <3>1. ~Misread(w) BY DEF w
    <3> QED BY <2>1, <3>1, ActiveRead, BlockedRead
  <2>3. IsInWindow(w, clock) \in BOOLEAN BY DEF IsInWindow
  <2>4. Open(w, clock) \in BOOLEAN BY Zenon DEF Open
  <2> HIDE DEF w
  <2>5. IsInWindow(w, clock) = Open(w, clock) BY <2>2, <2>3, <2>4
  <2> QED BY <2>5 DEF w
<1> QED BY <1>1, WindowIsTyped, PTL

(* The next point.                                                           *)

\* DaysAhead leads to a day of days, and over none, unless the last of several
\* days is today.
LEMMA AheadExact ==
  ASSUME NEW q \in Nat, NEW days, days \subseteq Days, days # {}, NEW d, d = q % WeekLen,
         d \in days /\ (\A x \in days : x <= d) => days = {d}
  PROVE  LET J == DaysAhead(days, d)
         IN  /\ J \in 1..WeekLen /\ (J = WeekLen => d \in days)
             /\ (q + J) % WeekLen \in days
             /\ \A j \in 1..(J - 1) : (q + j) % WeekLen \notin days
<1> DEFINE later == {e \in days : d < e}
           J == DaysAhead(days, d)
           w == WeekLen
<1>1. w \in Nat \ {0} /\ \A e \in days : e \in Nat /\ e < w BY CalendarAssumption DEF Days
<1>2. d \in Nat /\ d < w BY CalendarAssumption
<1>3. ASSUME NEW s, s \subseteq days, s # {} PROVE Least(s) \in s /\ \A f \in s : Least(s) <= f
  <2>1. s \subseteq Nat BY <1>1, <1>3
  <2> QED BY Zenon, <1>3, <2>1, LeastNumber DEF Least
<1>4. J = IF later # {} THEN Least(later) - d ELSE IF d \in days THEN w ELSE w - d + Least(days)
  BY DEF DaysAhead
<1>5. later # {} => Least(later) \in later /\ \A f \in later : Least(later) <= f
  <2>1. later \subseteq days OBVIOUS
  <2> HIDE DEF later
  <2> QED BY <1>3, <2>1
<1>6. Least(days) \in days /\ \A f \in days : Least(days) <= f BY <1>3
<1>7. \A j \in 0..w : (q + j) % w = IF d + j < w THEN d + j ELSE d + j - w BY WeekdayLater
<1> HIDE DEF J, w
<1>8. CASE later # {}
  <2> DEFINE l == Least(later)
  <2>1. l \in days /\ d < l /\ \A f \in days : d < f => l <= f BY <1>5, <1>8
  <2>2. J = l - d BY <1>4, <1>8
  <2> HIDE DEF l, later
  <2>3. l \in Nat /\ l < w BY <1>1, <2>1
  <2>4. J \in 1..w /\ J # w BY <1>1, <1>2, <2>1, <2>2, <2>3
  <2>5. (q + J) % w \in days
    <3>1. J \in 0..w /\ d + J = l BY <1>1, <1>2, <2>2, <2>3, <2>4
    <3>2. (q + J) % w = l BY <1>7, <2>3, <3>1
    <3> QED BY <2>1, <3>2
  <2>6. ASSUME NEW j \in 1..(J - 1), (q + j) % w \in days PROVE FALSE
    <3>1. j \in 0..w /\ d + j < l /\ d < d + j BY <1>1, <1>2, <2>2, <2>3, <2>4
    <3>2. d + j < w BY <1>1, <1>2, <2>3, <3>1
    <3>3. (q + j) % w = d + j BY <1>7, <3>1, <3>2
    <3> QED BY <1>2, <2>1, <2>3, <2>6, <3>1, <3>3
  <2> QED BY <2>4, <2>5, <2>6 DEF J, w
<1>9. CASE later = {} /\ d \in days
  <2>1. J = w BY <1>4, <1>9
  <2>2. days = {d}
    <3>1. \A x \in days : x <= d BY <1>1, <1>2, <1>9
    <3> QED BY <1>9, <3>1
  <2>3. J \in 1..w BY <1>1, <2>1
  <2>4. (q + J) % w \in days
    <3>1. J \in 0..w /\ ~(d + J < w) /\ d + J - w = d BY <1>1, <1>2, <2>1
    <3>2. (q + J) % w = d BY <1>7, <3>1
    <3> QED BY <1>9, <3>2
  <2>5. ASSUME NEW j \in 1..(J - 1), (q + j) % w \in days PROVE FALSE
    <3>1. j \in 0..w /\ j # 0 /\ j # w BY <1>1, <2>1
    <3>2. (q + j) % w = IF d + j < w THEN d + j ELSE d + j - w BY <1>7, <3>1
    <3>3. (q + j) % w # d BY <1>1, <1>2, <3>1, <3>2
    <3> QED BY <2>2, <2>5, <3>3
  <2> QED BY <1>9, <2>3, <2>4, <2>5 DEF J, w
<1>10. CASE later = {} /\ d \notin days
  <2> DEFINE l == Least(days)
  <2>1. J = w - d + l BY <1>4, <1>10
  <2>2. l \in days /\ \A f \in days : l <= f BY <1>6
  <2>3. l \in Nat /\ l < d
    <3>1. l \in Nat /\ ~(d < l) /\ l # d BY <1>1, <1>10, <2>2
    <3> HIDE DEF l
    <3> QED BY <1>2, <3>1
  <2>4. \A x \in days : ~(d < x) BY <1>10
  <2> HIDE DEF l, later
  <2>5. J \in 1..w /\ J # w BY <1>1, <1>2, <2>1, <2>3
  <2>6. (q + J) % w \in days
    <3>1. J \in 0..w /\ ~(d + J < w) /\ d + J - w = l BY <1>1, <1>2, <2>1, <2>3, <2>5
    <3>2. (q + J) % w = l BY <1>7, <3>1
    <3> QED BY <2>2, <3>2
  <2>7. ASSUME NEW j \in 1..(J - 1), (q + j) % w \in days PROVE FALSE
    <3>1. j \in 0..w /\ j < J /\ j # 0 BY <1>1, <2>5
    <3>2. (q + j) % w = IF d + j < w THEN d + j ELSE d + j - w BY <1>7, <3>1
    <3>3. CASE d + j < w
      <4>1. (q + j) % w = d + j /\ d < d + j BY <1>2, <3>1, <3>2, <3>3
      <4> QED BY <2>4, <2>7, <4>1
    <3>4. CASE ~(d + j < w)
      <4>1. (q + j) % w = d + j - w BY <3>2, <3>4
      <4>2. d + j - w < l /\ d + j - w \in Int BY <1>1, <1>2, <2>1, <2>3, <3>1
      <4>3. l <= d + j - w BY <2>2, <2>7, <4>1
      <4> QED BY <2>3, <4>2, <4>3
    <3> QED BY <3>3, <3>4
  <2> QED BY <1>10, <2>5, <2>6, <2>7 DEF J, w
<1> QED BY <1>8, <1>9, <1>10

\* N minutes after t it is minute a, J days later; the minutes before are of the
\* days before, or earlier in the day.
Leads(t, N, J, a) ==
    /\ TimeOfDay(t + N) = a /\ Weekday(t + N) = (Day(t) + J) % WeekLen
    /\ \A e \in Nat : e < N =>
         \E j \in Nat : /\ Weekday(t + e) = (Day(t) + j) % WeekLen
                        /\ j = 0 => TimeOfDay(t) <= TimeOfDay(t + e)
                        /\ j < J \/ (j = J /\ TimeOfDay(t + e) < a)

\* It is so when N is the difference of the two times.
LEMMA Jump ==
  ASSUME NEW t \in Nat, NEW J \in Nat, NEW a \in 0..(DayLen - 1), NEW N \in Nat,
         N = DayLen * J + a - TimeOfDay(t)
  PROVE  Leads(t, N, J, a)
<1> DEFINE q == Day(t)
           m == TimeOfDay(t)
<1>1. q \in Nat /\ m \in 0..(DayLen - 1) /\ t = DayLen * q + m BY TimeFacts
<1>2. DayLen \in Nat /\ DayLen * q \in Nat /\ DayLen * J \in Nat BY <1>1, CalendarAssumption
<1> HIDE DEF q, m
<1>3. t + N = DayLen * (q + J) + a
  <2>1. DayLen * (q + J) = DayLen * q + DayLen * J BY <1>1, <1>2
  <2> DEFINE x == DayLen * q
             y == DayLen * J
  <2>2. x \in Nat /\ y \in Nat /\ t = x + m /\ N = y + a - m BY <1>1, <1>2 DEF m
  <2> HIDE DEF x, y
  <2>3. t + N = x + y + a BY <1>1, <2>2
  <2> QED BY <2>1, <2>3 DEF x, y
<1>4. q + J \in Nat BY <1>1
<1>5. TimeOfDay(t + N) = a /\ Weekday(t + N) = (q + J) % WeekLen BY <1>3, <1>4, MadeOf
<1>6. ASSUME NEW e \in Nat, e < N
      PROVE  \E j \in Nat : /\ Weekday(t + e) = (q + j) % WeekLen
                            /\ j = 0 => m <= TimeOfDay(t + e)
                            /\ j < J \/ (j = J /\ TimeOfDay(t + e) < a)
  <2> DEFINE b == TimeOfDay(t + e)
  <2>1. PICK j \in Nat : /\ e = DayLen * j + b - m
                         /\ Weekday(t + e) = (q + j) % WeekLen
                         /\ j = 0 => m <= b
    BY Zenon, LaterTime DEF q, m
  <2>2. b \in 0..(DayLen - 1)
    <3>1. t + e \in Nat OBVIOUS
    <3> QED BY <3>1, TimeFacts
  <2> HIDE DEF b
  <2>3. DayLen * j + b < DayLen * J + a
    <3> DEFINE x == DayLen * j
               y == DayLen * J
    <3>1. x \in Nat /\ y \in Nat /\ e = x + b - m /\ N = y + a - m BY <1>2, <2>1 DEF m
    <3> HIDE DEF x, y
    <3>2. x + b < y + a BY <1>1, <1>6, <2>2, <3>1
    <3> QED BY <3>2 DEF x, y
  <2>4. j < J \/ (j = J /\ b < a) BY <2>2, <2>3, DayOrder
  <2> QED BY <2>1, <2>4 DEF b
<1> QED BY <1>5, <1>6 DEF q, m, Leads

\* It is less than a week.
LEMMA LessThanWeek ==
  ASSUME NEW m \in 0..(DayLen - 1), NEW J \in 0..WeekLen, NEW a \in 0..(DayLen - 1),
         J = WeekLen => a < m
  PROVE  DayLen * J + a - m < WeekLen * DayLen
<1>1. DayLen \in Nat \ {0} /\ WeekLen \in Nat /\ J \in Nat BY CalendarAssumption
<1>2. CASE J = WeekLen
  <2>1. DayLen * J = WeekLen * DayLen /\ WeekLen * DayLen \in Nat BY <1>1, <1>2
  <2> QED BY <1>2, <2>1
<1>3. CASE J # WeekLen
  <2>1. J < WeekLen /\ 0 \in 0..(DayLen - 1) BY <1>1, <1>3
  <2>2. DayLen * J + a < DayLen * WeekLen + 0 BY <1>1, <2>1, DayOrder
  <2>3. DayLen * WeekLen = WeekLen * DayLen /\ DayLen * J \in Nat /\ DayLen * WeekLen \in Nat BY <1>1
  <2> QED BY <2>2, <2>3
<1> QED BY <1>2, <1>3

\* The times on one of the days, or on any if there are none, in the minutes A.
Hits(A, days, t) == (days = {} \/ Weekday(t) \in days) /\ TimeOfDay(t) \in A

\* N is the time from t to the next of them, and less than a week.
NextHit(N, A, days, t) ==
    N \in Minutes /\ Hits(A, days, t + N) /\ \A e \in Nat : e < N => ~Hits(A, days, t + e)

\* It is today.
LEMMA HitToday ==
  ASSUME NEW A, A \subseteq 0..(DayLen - 1), NEW days, NEW t \in Nat, NEW N \in Nat,
         days = {} \/ Weekday(t) \in days,
         TimeOfDay(t) + N \in A, \A e \in Nat : e < N => TimeOfDay(t) + e \notin A
  PROVE  NextHit(N, A, days, t)
<1> DEFINE m == TimeOfDay(t)
           a == m + N
<1>1. m \in 0..(DayLen - 1) /\ Day(t) \in Nat /\ Weekday(t) = Day(t) % WeekLen BY TimeFacts
<1>2. a \in 0..(DayLen - 1) /\ 0 \in Nat BY Zenon
<1>3. N = DayLen * 0 + a - m
  <2>1. DayLen * 0 = 0 BY CalendarAssumption
  <2> HIDE DEF m
  <2> QED BY <1>1, <2>1
<1> HIDE DEF m, a
<1>4. Day(t) + 0 = Day(t) BY <1>1
<1>5. /\ TimeOfDay(t + N) = a /\ Weekday(t + N) = Weekday(t)
      /\ \A e \in Nat : e < N =>
           \E j \in Nat : /\ j = 0 => m <= TimeOfDay(t + e)
                          /\ j < 0 \/ (j = 0 /\ TimeOfDay(t + e) < a)
  <2>1. Leads(t, N, 0, a) BY <1>2, <1>3, Jump DEF m
  <2> QED BY <1>1, <1>4, <2>1, Zenon DEF m, Leads
<1>6. Hits(A, days, t + N) BY <1>5 DEF Hits, a, m
<1>7. ASSUME NEW e \in Nat, e < N PROVE ~Hits(A, days, t + e)
  <2> DEFINE b == TimeOfDay(t + e)
  <2>1. m <= b /\ b < a BY <1>5, <1>7
  <2>2. b \in 0..(DayLen - 1)
    <3>1. t + e \in Nat OBVIOUS
    <3> QED BY <3>1, TimeFacts
  <2> HIDE DEF b
  <2>3. b - m \in Nat /\ b - m < N /\ m + (b - m) = b BY <1>1, <2>1, <2>2 DEF a
  <2>4. b \notin A BY <2>3 DEF m
  <2> QED BY <2>4 DEF Hits, b
<1>8. N \in Minutes
  <2>1. 0 \in 0..WeekLen /\ 0 # WeekLen /\ WeekLen * DayLen \in Nat BY CalendarAssumption
  <2>2. N < WeekLen * DayLen BY <1>1, <1>2, <1>3, <2>1, LessThanWeek
  <2> QED BY <2>1, <2>2 DEF Minutes
<1> QED BY <1>6, <1>7, <1>8 DEF NextHit

\* It is the first of the minutes, on a later day.
LEMMA HitLater ==
  ASSUME NEW A, A \subseteq 0..(DayLen - 1), NEW days, days \subseteq Days, NEW t \in Nat, NEW J, NEW f \in A,
         \A e \in Nat : e < f => e \notin A,
         (days = {} \/ Weekday(t) \in days) => \A a \in A : a < TimeOfDay(t),
         Weekday(t) \in days /\ (\A x \in days : x <= Weekday(t)) => days = {Weekday(t)},
         J = IF days = {} THEN 1 ELSE DaysAhead(days, Weekday(t))
  PROVE  /\ J \in Nat \ {0}
         /\ NextHit(TillMidnight(t) + f + (J - 1) * DayLen, A, days, t)
<1> DEFINE m == TimeOfDay(t)
           q == Day(t)
           N == TillMidnight(t) + f + (J - 1) * DayLen
<1>1. m \in 0..(DayLen - 1) /\ q \in Nat /\ Weekday(t) = q % WeekLen BY TimeFacts
<1>2. f \in 0..(DayLen - 1) /\ DayLen \in Nat \ {0} /\ WeekLen \in Nat \ {0} BY CalendarAssumption
<1>3. /\ J \in 1..WeekLen /\ (J = WeekLen => days = {} \/ Weekday(t) \in days)
      /\ days = {} \/ (q + J) % WeekLen \in days
      /\ days = {} => J = 1
      /\ days # {} => \A j \in 1..(J - 1) : (q + j) % WeekLen \notin days
  <2>1. CASE days = {} BY <1>2, <2>1
  <2>2. CASE days # {} BY <1>1, <2>2, AheadExact
  <2> QED BY <2>1, <2>2
<1>4. J \in Nat \ {0} BY <1>2, <1>3
<1>5. N = DayLen * J + f - m /\ N \in Nat
  <2>1. (J - 1) * DayLen = DayLen * J - DayLen BY <1>2, <1>4
  <2>2. DayLen * J \in Nat /\ (J - 1) * DayLen \in Nat BY <1>2, <1>4
  <2> DEFINE x == DayLen * J
             y == (J - 1) * DayLen
  <2>3. N = DayLen - m + f + y BY DEF TillMidnight
  <2> HIDE DEF N, x, y, m
  <2>4. x \in Nat /\ y \in Nat /\ y = x - DayLen BY <2>1, <2>2 DEF x, y
  <2>5. N = x + f - m /\ N \in Nat BY <1>1, <1>2, <2>3, <2>4
  <2> QED BY <2>5 DEF x
<1> HIDE DEF N, m, q
<1>6. /\ TimeOfDay(t + N) = f /\ Weekday(t + N) = (q + J) % WeekLen
      /\ \A e \in Nat : e < N =>
           \E j \in Nat : /\ Weekday(t + e) = (q + j) % WeekLen
                          /\ j = 0 => m <= TimeOfDay(t + e)
                          /\ j < J \/ (j = J /\ TimeOfDay(t + e) < f)
  <2>1. J \in Nat BY <1>4
  <2>2. Leads(t, N, J, f) BY <1>2, <1>5, <2>1, Jump DEF m
  <2> QED BY <2>2 DEF m, q, Leads
<1>7. Hits(A, days, t + N) BY <1>3, <1>6 DEF Hits
<1>8. ASSUME NEW e \in Nat, e < N, Hits(A, days, t + e) PROVE FALSE
  <2> DEFINE b == TimeOfDay(t + e)
  <2>1. PICK j \in Nat : /\ Weekday(t + e) = (q + j) % WeekLen
                         /\ j = 0 => m <= b
                         /\ j < J \/ (j = J /\ b < f)
    BY <1>6, <1>8
  <2>2. b \in A /\ (days = {} \/ (q + j) % WeekLen \in days) BY <1>8, <2>1 DEF Hits
  <2> HIDE DEF b
  <2>3. b \in Nat BY <2>2
  <2>4. CASE j = 0
    <3>1. (q + j) % WeekLen = Weekday(t) BY <1>1, <2>4
    <3>2. b < m BY <2>2, <3>1 DEF m
    <3> QED BY <1>1, <2>1, <2>3, <2>4, <3>2
  <2>5. CASE j # 0 /\ j < J
    <3>1. j \in 1..(J - 1) BY <1>4, <2>5
    <3> QED BY <1>3, <2>2, <3>1
  <2>6. CASE j = J BY <2>1, <2>2, <2>3, <2>6, <1>4
  <2> QED BY <2>1, <2>4, <2>5, <2>6
<1>9. N \in Minutes
  <2>1. J = WeekLen => f < m BY <1>3 DEF m
  <2>2. J \in 0..WeekLen BY <1>2, <1>3
  <2>3. N < WeekLen * DayLen BY <1>1, <1>2, <1>5, <2>1, <2>2, LessThanWeek
  <2>4. WeekLen * DayLen \in Nat BY <1>2
  <2> QED BY <1>5, <2>3, <2>4 DEF Minutes
<1> QED BY <1>4, <1>7, <1>8, <1>9 DEF NextHit, N

\* The point that is generated for an active window, or for a look at the status,
\* is the next time on its days in its slots.
LEMMA ActiveExact ==
  ASSUME NEW slots, InOrder(slots), slots # <<>>, NEW days, days \subseteq Days, NEW t \in Nat,
         days = {} => \A k \in DOMAIN slots : /\ slots[k].end <= slots[Len(slots)].end
                                              /\ IsMidnight(slots[k].end) => slots[k].end = DayLen,
         /\ TillNextSlotInCurrentDay(slots, t) = -1
         /\ Weekday(t) \in days /\ (\A x \in days : x <= Weekday(t))
         => days = {Weekday(t)}
  PROVE  NextHit(NextPointActive(slots, days, t), SlotMinutes(slots), days, t)
<1> DEFINE A == SlotMinutes(slots)
           d == Weekday(t)
           m == TimeOfDay(t)
           today == TillNextSlotInCurrentDay(slots, t)
           f == TillNextSlotFromMidnight(slots)
           J == IF days = {} THEN 1 ELSE DaysAhead(days, d)
           ahead == DurationToNextRunnableWeekday(days, slots, t)
           N == NextPointActive(slots, days, t)
<1>1. A \subseteq 0..(DayLen - 1) BY DEF SlotMinutes
<1>2. \/ today \in Nat /\ m + today \in A /\ \A e \in Nat : e < today => m + e \notin A
      \/ today = -1 /\ \A a \in A : a < m
  BY TodayExact
<1>3. f \in A /\ \A e \in Nat : e < f => e \notin A BY FromMidnightExact
<1>4. days = {} => TillNextSlot(slots, t) = IF today >= 0 THEN today ELSE TillMidnight(t) + f BY NextSlotExact
<1>5. /\ days = {} => N = TillNextSlot(slots, t)
      /\ days # {} => N = IF d \in days /\ ahead = 0 /\ today >= 0 THEN today ELSE TillMidnight(t) + f + ahead
  BY DEF NextPointActive
<1>6. days # {} => ahead = IF d \in days /\ today >= 0 THEN 0 ELSE (J - 1) * DayLen
  BY DEF DurationToNextRunnableWeekday
<1> HIDE DEF today, f, ahead, N
<1>7. CASE (days = {} \/ d \in days) /\ today \in Nat
  <2>1. today >= 0 BY <1>7
  <2>2. N = today BY <1>4, <1>5, <1>6, <1>7, <2>1
  <2>3. m + today \in A /\ \A e \in Nat : e < today => m + e \notin A BY <1>2, <1>7
  <2>4. NextHit(today, A, days, t)
    <3> HIDE DEF A
    <3> QED BY Zenon, <1>1, <1>7, <2>3, HitToday
  <2> QED BY <2>2, <2>4 DEF N
<1>8. CASE ~((days = {} \/ d \in days) /\ today \in Nat)
  <2>1. (days = {} \/ d \in days) => today = -1 /\ ~(today >= 0) /\ \A a \in A : a < m BY <1>2, <1>8
  <2>2. d \in days /\ (\A x \in days : x <= d) => days = {d} BY <2>1 DEF today
  <2> DEFINE L == TillMidnight(t) + f + (J - 1) * DayLen
  <2>3. J \in Nat \ {0} /\ NextHit(L, A, days, t)
    <3> HIDE DEF A, J
    <3>1. J = IF days = {} THEN 1 ELSE DaysAhead(days, d) BY DEF J
    <3> QED BY ZenonT(60), <1>1, <1>3, <2>1, <2>2, <3>1, HitLater
  <2>4. N = L
    <3>1. CASE days = {}
      <4>1. N = TillMidnight(t) + f BY <1>4, <1>5, <2>1, <3>1
      <4>2. (J - 1) * DayLen = 0 BY <3>1, CalendarAssumption
      <4>3. TillMidnight(t) + f \in Int
        <5>1. f \in Int BY <1>1, <1>3
        <5>2. TillMidnight(t) \in Int BY TimeFacts, CalendarAssumption DEF TillMidnight
        <5> QED BY <5>1, <5>2
      <4> HIDE DEF J
      <4> QED BY <4>1, <4>2, <4>3
    <3>2. CASE days # {} BY <1>5, <1>6, <2>1, <3>2
    <3> QED BY <3>1, <3>2
  <2> HIDE DEF L
  <2> QED BY <2>3, <2>4 DEF N
<1> QED BY <1>7, <1>8

\* Without slots, the next time on its days.
LEMMA ActiveAllDay ==
  ASSUME NEW days, days \subseteq Days, days # {}, NEW t \in Nat
  PROVE  NextHit(NextPointActive(<<>>, days, t), 0..(DayLen - 1), days, t)
<1> DEFINE A == 0..(DayLen - 1)
           d == Weekday(t)
           J == DaysAhead(days, d)
           ahead == DurationToNextRunnableWeekday(days, <<>>, t)
           N == NextPointActive(<<>>, days, t)
<1>1. N = IF d \in days THEN 0 ELSE TillMidnight(t) + ahead BY DEF NextPointActive
<1>2. TimeOfDay(t) \in A /\ TillMidnight(t) \in Int BY TimeFacts, CalendarAssumption DEF TillMidnight
<1> HIDE DEF N
<1>3. CASE d \in days
  <2>1. TimeOfDay(t) + 0 \in A /\ 0 \in Nat /\ \A e \in Nat : ~(e < 0) BY <1>2
  <2>2. NextHit(0, A, days, t)
    <3>1. A \subseteq 0..(DayLen - 1) OBVIOUS
    <3> HIDE DEF A
    <3> QED BY Zenon, <1>3, <2>1, <3>1, HitToday
  <2> QED BY <1>1, <1>3, <2>2 DEF N
<1>4. CASE d \notin days
  <2>1. ahead = (J - 1) * DayLen BY <1>4 DEF DurationToNextRunnableWeekday
  <2> DEFINE L == TillMidnight(t) + 0 + (J - 1) * DayLen
  <2>2. 0 \in A /\ \A e \in Nat : ~(e < 0) BY CalendarAssumption
  <2>3. NextHit(L, A, days, t)
    <3>1. A \subseteq 0..(DayLen - 1) OBVIOUS
    <3>2. J = IF days = {} THEN 1 ELSE DaysAhead(days, d) OBVIOUS
    <3> HIDE DEF A, J
    <3> QED BY Zenon, <1>4, <2>2, <3>1, <3>2, HitLater
  <2>4. N = L
    <3>1. TillMidnight(t) + 0 = TillMidnight(t) BY <1>2
    <3> HIDE DEF J
    <3> QED BY <1>1, <1>4, <2>1, <3>1
  <2> HIDE DEF L
  <2> QED BY <2>3, <2>4 DEF N
<1> QED BY <1>3, <1>4

\* The times on one of the days or in the minutes A.
Opens(A, days, t) == Weekday(t) \in days \/ TimeOfDay(t) \in A

\* N is the time from t to the next of them, and less than a week.
NextOpen(N, A, days, t) ==
    N \in Minutes /\ Opens(A, days, t + N) /\ \A e \in Nat : e < N => ~Opens(A, days, t + e)

\* It is today or tomorrow, if nothing before is open.
LEMMA OpenSoon ==
  ASSUME NEW A, A \subseteq 0..(DayLen - 1), NEW days, NEW t \in Nat, NEW J \in {0, 1}, NEW a \in 0..(DayLen - 1),
         NEW N \in Nat, N = DayLen * J + a - TimeOfDay(t), J = 1 => WeekLen > 1 \/ a < TimeOfDay(t),
         Weekday(t) \notin days,
         (Day(t) + J) % WeekLen \in days \/ a \in A,
         \A b \in A : TimeOfDay(t) <= b => J = 0 /\ a <= b,
         J = 1 /\ a # 0 => (Day(t) + 1) % WeekLen \notin days /\ \A b \in A : a <= b
  PROVE  NextOpen(N, A, days, t)
<1> DEFINE m == TimeOfDay(t)
           q == Day(t)
<1>1. m \in 0..(DayLen - 1) /\ q \in Nat /\ Weekday(t) = q % WeekLen BY TimeFacts
<1>2. J \in Nat OBVIOUS
<1>3. Leads(t, N, J, a) BY <1>2, Jump
<1>4. Opens(A, days, t + N) BY <1>3 DEF Leads, Opens
<1> HIDE DEF m, q
<1>5. ASSUME NEW e \in Nat, e < N, Opens(A, days, t + e) PROVE FALSE
  <2> DEFINE b == TimeOfDay(t + e)
  <2>1. PICK j \in Nat : /\ Weekday(t + e) = (q + j) % WeekLen
                         /\ j = 0 => m <= b
                         /\ j < J \/ (j = J /\ b < a)
    BY <1>3, <1>5 DEF Leads, m, q
  <2>2. b \in A \/ (q + j) % WeekLen \in days BY <1>5, <2>1 DEF Opens
  <2>3. b \in Nat
    <3>1. t + e \in Nat OBVIOUS
    <3> QED BY <3>1, TimeFacts
  <2> HIDE DEF b
  <2>4. CASE j = 0
    <3>1. (q + j) % WeekLen = Weekday(t) BY <1>1, <2>4
    <3>2. b \in A /\ m <= b BY <2>1, <2>2, <2>4, <3>1
    <3>3. J = 0 /\ a <= b BY <3>2 DEF m
    <3> QED BY <2>1, <2>3, <2>4, <3>3
  <2>5. CASE j # 0
    <3>1. j = 1 /\ J = 1 /\ b < a BY <2>1, <2>5
    <3>2. a # 0 BY <2>3, <3>1
    <3>3. b \notin A BY <2>3, <3>1, <3>2
    <3> QED BY <2>2, <3>1, <3>2, <3>3 DEF q
  <2> QED BY <2>4, <2>5
<1>6. N \in Minutes
  <2>1. J \in 0..WeekLen /\ (J = WeekLen => a < m) /\ WeekLen * DayLen \in Nat BY CalendarAssumption DEF m
  <2>2. N < WeekLen * DayLen BY <1>1, <2>1, LessThanWeek DEF m
  <2> QED BY <2>1, <2>2 DEF Minutes
<1> QED BY <1>4, <1>5, <1>6 DEF NextOpen

\* The point that is generated for a blocked window is the next time on the days
\* that are not blocked or in the gaps.
LEMMA BlockedExact ==
  ASSUME NEW slots, InOrder(slots), NEW days, days \subseteq Days, NEW t \in Nat, slots # <<>> \/ days # {}
  PROVE  NextOpen(NextPointBlocked(slots, days, t), SlotMinutes(slots), days, t)
<1> DEFINE A == SlotMinutes(slots)
           d == Weekday(t)
           m == TimeOfDay(t)
           q == Day(t)
           today == TillNextSlotInCurrentDay(slots, t)
           f == TillNextSlotFromMidnight(slots)
           N == NextPointBlocked(slots, days, t)
<1>1. m \in 0..(DayLen - 1) /\ q \in Nat /\ d = q % WeekLen /\ t = DayLen * q + m BY TimeFacts
<1>2. DayLen \in Nat \ {0} /\ WeekLen \in Nat \ {0} /\ WeekLen * DayLen \in Nat \ {0} BY CalendarAssumption
<1>3. TillMidnight(t) = DayLen - m BY DEF TillMidnight
<1>4. A \subseteq 0..(DayLen - 1) BY DEF SlotMinutes
<1>5. CASE d \in days
  <2>1. N = 0 BY <1>5 DEF NextPointBlocked
  <2>2. 0 \in Minutes BY <1>2 DEF Minutes
  <2>3. t + 0 = t OBVIOUS
  <2>4. Opens(A, days, t + 0) BY <1>5, <2>3 DEF Opens
  <2>5. \A e \in Nat : ~(e < 0) OBVIOUS
  <2> QED BY <2>1, <2>2, <2>4, <2>5 DEF NextOpen
<1>6. CASE d \notin days /\ slots = <<>>
  <2> DEFINE B == 0..(DayLen - 1)
  <2>1. ~(-1 >= 0) OBVIOUS
  <2>2. N = TillMidnight(t) + DurationToNextRunnableWeekday(days, slots, t)
    BY <1>6, <2>1 DEF NextPointBlocked
  <2>3. N = NextPointActive(<<>>, days, t) BY <1>6, <2>2 DEF NextPointActive
  <2>4. NextHit(N, B, days, t) BY <1>6, <2>3, ActiveAllDay
  <2>5. ASSUME NEW u \in Nat PROVE Hits(B, days, u) <=> Opens(A, days, u)
    <3>1. TimeOfDay(u) \in B BY TimeFacts
    <3>2. A = {} BY <1>6 DEF SlotMinutes, InSlots
    <3>3. days # {} BY <1>6
    <3> HIDE DEF A, B
    <3> QED BY <3>1, <3>2, <3>3 DEF Hits, Opens
  <2>6. N \in Nat BY <2>4 DEF NextHit, Minutes
  <2>7. \A e \in Nat : t + e \in Nat OBVIOUS
  <2> HIDE DEF N, A, B
  <2>8. NextOpen(N, A, days, t) BY <2>4, <2>5, <2>6, <2>7 DEF NextHit, NextOpen
  <2> QED BY <2>8 DEF N, A
<1>7. CASE d \notin days /\ slots # <<>>
  <2>1. \/ today \in Nat /\ m + today \in A /\ \A e \in Nat : e < today => m + e \notin A
        \/ today = -1 /\ \A a \in A : a < m
    BY TodayExact
  <2>2. f \in A /\ \A e \in Nat : e < f => e \notin A BY <1>7, FromMidnightExact
  <2>3. \A b \in A : f <= b /\ b \in Nat
    <3> HIDE DEF A, f
    <3> QED BY <1>4, <2>2
  <2>4. Weekday(t + DayLen) = (q + 1) % WeekLen
    <3>1. t + DayLen = DayLen * (q + 1) + m
      <4>1. DayLen * (q + 1) = DayLen * q + DayLen /\ DayLen * q \in Nat BY <1>1, <1>2
      <4> HIDE DEF q, m
      <4> QED BY <1>1, <1>2, <4>1
    <3>2. q + 1 \in Nat BY <1>1
    <3> HIDE DEF q, m
    <3> QED BY <1>1, <3>1, <3>2, MadeOf
  <2>5. N = IF today >= 0 THEN today
            ELSE TillMidnight(t) + (IF Weekday(t + DayLen) \in days THEN 0 ELSE f)
    BY <1>7 DEF NextPointBlocked
  <2> HIDE DEF A, m, q, d, today, f, N
  <2>6. CASE today \in Nat
    <3> DEFINE a == m + today
    <3>1. N = today /\ N \in Nat BY <2>5, <2>6
    <3>2. a \in A /\ \A e \in Nat : e < today => m + e \notin A BY <2>1, <2>6
    <3>3. a \in 0..(DayLen - 1) BY Zenon, <1>4, <3>2
    <3>4. N = DayLen * 0 + a - m
      <4>1. DayLen * 0 = 0 BY <1>2
      <4> QED BY <1>1, <2>6, <3>1, <4>1
    <3> HIDE DEF a
    <3>5. ASSUME NEW b \in A, m <= b PROVE a <= b
      <4>1. b \in Nat BY <1>4
      <4>2. b < a => b - m \in Nat /\ b - m < today /\ m + (b - m) = b BY <1>1, <2>6, <3>5, <4>1 DEF a
      <4>3. ~(b < a) BY <3>2, <3>5, <4>2
      <4> QED BY <3>3, <4>1, <4>3
    <3>6. NextOpen(N, A, days, t)
      <4>1. 0 \in {0, 1} /\ 0 # 1 OBVIOUS
      <4> QED BY Zenon, <1>4, <1>7, <3>1, <3>2, <3>3, <3>4, <3>5, <4>1, OpenSoon DEF m, d
    <3> QED BY <3>6 DEF N, A
  <2>7. CASE today = -1
    <3> DEFINE a == IF (q + 1) % WeekLen \in days THEN 0 ELSE f
    <3>1. \A b \in A : b < m BY <2>1, <2>7
    <3>2. ~(today >= 0) BY <2>7
    <3>3. N = DayLen - m + a BY <1>3, <2>4, <2>5, <3>2
    <3>4. a \in 0..(DayLen - 1) /\ a < m
      <4>1. f < m /\ f \in 0..(DayLen - 1) BY <1>4, <2>2, <3>1
      <4> QED BY <1>1, <1>2, <4>1
    <3>5. (q + 1) % WeekLen \in days \/ a \in A BY <2>2
    <3>6. a # 0 => (q + 1) % WeekLen \notin days /\ \A b \in A : a <= b BY <2>3
    <3> HIDE DEF a
    <3>7. N = DayLen * 1 + a - m /\ N \in Nat
      <4>1. DayLen * 1 = DayLen BY <1>2
      <4> QED BY <1>1, <1>2, <3>3, <3>4, <4>1
    <3>8. \A b \in A : ~(m <= b) BY <1>1, <2>3, <3>1
    <3>9. NextOpen(N, A, days, t)
      <4>1. 1 \in {0, 1} /\ 1 # 0 OBVIOUS
      <4> QED BY Zenon, <1>4, <1>7, <3>4, <3>5, <3>6, <3>7, <3>8, <4>1, OpenSoon DEF m, d, q
    <3> QED BY <3>9 DEF N, A
  <2> QED BY <2>1, <2>6, <2>7
<1> QED BY <1>5, <1>6, <1>7

(* NextStartPoint.                                                           *)

\* No ranges, no slots.
LEMMA NoHours == ValidateHourRange(<<>>) = <<>> /\ ReverseRange(<<>>) = <<>>
<1>1. ValidateHourRange(<<>>) = MergeHourRanges(Turned(<<>>)) BY DEF ValidateHourRange, Turned
<1>2. Turned(<<>>) = <<>> BY DEF Turned
<1>3. MergeHourRanges(<<>>) = <<>> BY DEF MergeHourRanges
<1>4. ReverseRange(<<>>) = <<>> BY DEF ReverseRange
<1> QED BY <1>1, <1>2, <1>3, <1>4

\* The last of ranges that are apart ends last, and none at midnight.
LEMMA DisjointEnds ==
  ASSUME NEW s, Disjoint(s)
  PROVE  \A k \in DOMAIN s : s[k].end <= s[Len(s)].end /\ (IsMidnight(s[k].end) => s[k].end = DayLen)
<1> DEFINE n == Len(s)
<1>1. /\ n \in Nat /\ n # 0 /\ DOMAIN s = 1..n
      /\ \A i \in 1..n : s[i] \in Slots /\ s[i].start <= s[i].end
      /\ \A i, j \in 1..n : i < j => s[i].end < s[j].start
  BY DEF Disjoint
<1>2. \A i \in 1..n : s[i].start \in Nat /\ s[i].end \in 1..(DayLen - 1)
  <2> HIDE DEF n
  <2> QED BY <1>1 DEF Slots
<1> HIDE DEF n
<1>3. ASSUME NEW k \in 1..n PROVE s[k].end <= s[n].end
  <2>1. n \in 1..n BY <1>1
  <2>2. CASE k = n BY <1>2, <2>1, <2>2
  <2>3. CASE k # n
    <3>1. k < n BY <1>1, <2>3
    <3>2. s[k].end < s[n].start /\ s[n].start <= s[n].end BY <1>1, <2>1, <3>1
    <3> QED BY <1>2, <2>1, <3>2
  <2> QED BY <2>2, <2>3
<1>4. ASSUME NEW k \in 1..n PROVE ~IsMidnight(s[k].end)
  <2>1. s[k].end \in 1..(DayLen - 1) BY <1>2
  <2> QED BY <2>1, MinuteFacts DEF IsMidnight
<1> QED BY <1>1, <1>3, <1>4 DEF n

\* N is the time from t to the next minute at which the window is open.
FirstOpen(tw, t, N) ==
    N \in Minutes /\ Open(tw, t + N) /\ \A e \in Nat : e < N => ~Open(tw, t + e)

\* There is only one.
LEMMA FirstIsWait ==
  ASSUME NEW tw, NEW t, NEW N, FirstOpen(tw, t, N)
  PROVE  N = Wait(tw, t)
<1> DEFINE P(d) == Open(tw, t + d) /\ \A e \in 0..(d - 1) : ~Open(tw, t + e)
<1>1. Minutes \subseteq Nat BY DEF Minutes
<1>2. N \in Minutes /\ Open(tw, t + N) /\ \A e \in Nat : e < N => ~Open(tw, t + e) BY DEF FirstOpen
<1>3. P(N) BY <1>1, <1>2
<1>4. ASSUME NEW d \in Minutes, P(d) PROVE d = N
  <2>1. ~(d < N) BY <1>1, <1>2, <1>4
  <2>2. ~(N < d)
    <3>1. N < d => N \in 0..(d - 1) BY <1>1, <1>2
    <3> QED BY <1>2, <1>4, <3>1
  <2> QED BY <1>1, <1>2, <2>1, <2>2
<1>5. Wait(tw, t) = CHOOSE d \in Minutes : P(d) BY DEF Wait
<1> HIDE DEF P
<1>6. Wait(tw, t) \in Minutes /\ P(Wait(tw, t)) BY <1>2, <1>3, <1>5
<1> QED BY <1>4, <1>6

\* For an active window.
LEMMA ActiveNext ==
  ASSUME NEW tw, tw.type = "active", tw.hours \in Seq(AnySlots), ~Misread(tw), NEW t \in Nat, ~LastDayOver(tw, t)
  PROVE  FirstOpen(tw, t, NextStartPoint(tw, t))
<1> DEFINE slots == ValidateHourRange(tw.hours)
           days == RunDays(tw)
           N == NextStartPoint(tw, t)
<1>1. N = GenerateNextPoint(slots, days, t, FALSE) BY DEF NextStartPoint
<1>2. \A u \in Nat : Open(tw, u) <=> (days = {} \/ Weekday(u) \in days) /\ OpenHours(tw, TimeOfDay(u))
  <2>1. \A u \in Nat : Weekday(u) \in Days BY WeekdayFacts
  <2>2. \A u \in Nat : Weekday(u) \in tw.days <=> Weekday(u) \in days BY <2>1 DEF RunDays
  <2> QED BY <2>2 DEF Open
<1>3. \A u \in Nat : TimeOfDay(u) \in 0..(DayLen - 1) BY Zenon, TimeFacts
<1>4. days \subseteq Days BY DEF RunDays
<1>5. ASSUME NEW A, NextHit(N, A, days, t), \A u \in Nat : TimeOfDay(u) \in A <=> OpenHours(tw, TimeOfDay(u))
      PROVE  FirstOpen(tw, t, N)
  <2>1. \A u \in Nat : Hits(A, days, u) <=> Open(tw, u) BY <1>2, <1>5 DEF Hits
  <2>2. N \in Nat BY <1>5 DEF NextHit, Minutes
  <2>3. \A e \in Nat : t + e \in Nat OBVIOUS
  <2> HIDE DEF N, days
  <2> QED BY <1>5, <2>1, <2>2, <2>3 DEF NextHit, FirstOpen
<1>6. CASE tw.hours = <<>>
  <2>1. slots = <<>> BY <1>6, NoHours
  <2>2. \A u \in Nat : OpenHours(tw, TimeOfDay(u)) BY <1>6 DEF OpenHours
  <2>3. CASE days = {}
    <3>1. N = 0 BY <1>1, <2>1, <2>3 DEF GenerateNextPoint
    <3>2. Open(tw, t + 0)
      <4>1. t + 0 \in Nat OBVIOUS
      <4> QED BY <1>2, <2>2, <2>3, <4>1
    <3>3. 0 \in Minutes BY CalendarAssumption DEF Minutes
    <3>4. \A e \in Nat : ~(e < 0) OBVIOUS
    <3> QED BY <3>1, <3>2, <3>3, <3>4 DEF FirstOpen
  <2>4. CASE days # {}
    <3>1. N = NextPointActive(<<>>, days, t) BY <1>1, <2>1, <2>4 DEF GenerateNextPoint
    <3>2. NextHit(N, 0..(DayLen - 1), days, t) BY <1>4, <2>4, <3>1, ActiveAllDay
    <3> QED BY Zenon, <1>3, <1>5, <2>2, <3>2
  <2> QED BY <2>3, <2>4
<1>7. CASE tw.hours # <<>>
  <2>1. EndsAtMidnight(tw) => Len(tw.hours) = 1 /\ days # {}
    <3>1. EndsAtMidnight(tw) => ~(Len(tw.hours) > 1) /\ days # {} BY DEF Misread
    <3> DEFINE n == Len(tw.hours)
    <3>2. n \in Nat /\ n # 0 BY <1>7
    <3> HIDE DEF n
    <3>3. ~(n > 1) => n = 1 BY <3>2
    <3> QED BY <3>1, <3>3 DEF n
  <2>2. \A m \in 0..(DayLen - 1) :
          InOrder(slots) /\ slots # <<>> /\ (InSlots(slots, m) <=> OpenHours(tw, m))
    BY <1>7, <2>1, HoursFacts
  <2>3. InOrder(slots) /\ slots # <<>> BY <1>3, <2>2
  <2>4. \A u \in Nat : TimeOfDay(u) \in SlotMinutes(slots) <=> OpenHours(tw, TimeOfDay(u))
    BY Zenon, <1>3, <2>2 DEF SlotMinutes
  <2>5. days = {} => \A k \in DOMAIN slots : /\ slots[k].end <= slots[Len(slots)].end
                                             /\ IsMidnight(slots[k].end) => slots[k].end = DayLen
    <3> SUFFICES ASSUME days = {}
                 PROVE  \A k \in DOMAIN slots : /\ slots[k].end <= slots[Len(slots)].end
                                                /\ IsMidnight(slots[k].end) => slots[k].end = DayLen
      BY Zenon
    <3>1. Disjoint(slots)
      <4>1. 0 \in Nat OBVIOUS
      <4> QED BY <1>7, <2>1, <4>1, PlainHours
    <3> HIDE DEF slots
    <3> QED BY <3>1, DisjointEnds
  <2>6. /\ TillNextSlotInCurrentDay(slots, t) = -1
        /\ Weekday(t) \in days /\ (\A x \in days : x <= Weekday(t))
        => days = {Weekday(t)}
    <3> SUFFICES ASSUME TillNextSlotInCurrentDay(slots, t) = -1,
                        Weekday(t) \in days, \A x \in days : x <= Weekday(t)
                 PROVE  days = {Weekday(t)}
      OBVIOUS
    <3> QED BY <1>7 DEF LastDayOver
  <2>7. N = NextPointActive(slots, days, t) BY <1>1, <2>3 DEF GenerateNextPoint
  <2>8. NextHit(NextPointActive(slots, days, t), SlotMinutes(slots), days, t)
    <3> HIDE DEF slots, days
    <3> QED BY Zenon, <1>4, <2>3, <2>5, <2>6, ActiveExact
  <2> QED BY <1>5, <2>4, <2>7, <2>8
<1> QED BY <1>6, <1>7

\* The gaps of a blocked window hold the minutes that are not closed.
LEMMA BlockedSlots ==
  ASSUME NEW tw, tw.hours \in Seq(AnySlots), ~(EndsAtMidnight(tw) /\ Len(tw.hours) > 1)
  PROVE  LET slots == ReverseRange(ValidateHourRange(tw.hours))
         IN  /\ InOrder(slots)
             /\ \A u \in Nat : TimeOfDay(u) \in SlotMinutes(slots) <=> ~ClosedHours(tw, TimeOfDay(u))
<1> DEFINE slots == ReverseRange(ValidateHourRange(tw.hours))
           A == SlotMinutes(slots)
<1>1. \A u \in Nat : TimeOfDay(u) \in 0..(DayLen - 1) BY Zenon, TimeFacts
<1>2. tw.hours = <<>> => slots = <<>> BY NoHours
<1>3. CASE tw.hours = <<>>
  <2>1. slots = <<>> /\ <<>> \in Seq(GapRanges) /\ DOMAIN slots = {} BY <1>2, <1>3
  <2>2. InOrder(slots) BY <2>1 DEF InOrder
  <2>3. A = {} BY <2>1 DEF SlotMinutes, InSlots
  <2>4. \A u \in Nat : ClosedHours(tw, TimeOfDay(u)) BY <1>3 DEF ClosedHours
  <2> QED BY <2>2, <2>3, <2>4
<1>4. CASE tw.hours # <<>>
  <2>1. EndsAtMidnight(tw) => Len(tw.hours) = 1
    <3>1. EndsAtMidnight(tw) => ~(Len(tw.hours) > 1) OBVIOUS
    <3> DEFINE n == Len(tw.hours)
    <3>2. n \in Nat /\ n # 0 BY <1>4
    <3> HIDE DEF n
    <3>3. ~(n > 1) => n = 1 BY <3>2
    <3> QED BY <3>1, <3>3 DEF n
  <2>2. \A k \in 0..(DayLen - 1) : InOrder(slots) /\ (InSlots(slots, k) <=> ~ClosedHours(tw, k))
    BY <1>4, <2>1, HoursFacts
  <2> HIDE DEF slots
  <2>3. InOrder(slots) /\ \A u \in Nat : TimeOfDay(u) \in SlotMinutes(slots) <=> ~ClosedHours(tw, TimeOfDay(u))
    BY Zenon, <1>1, <2>2 DEF SlotMinutes
  <2> QED BY <2>3 DEF slots
<1> QED BY <1>3, <1>4

\* For a blocked window.
LEMMA BlockedNext ==
  ASSUME NEW tw, tw.type = "blocked", tw.hours \in Seq(AnySlots), ~Misread(tw), NEW t \in Nat
  PROVE  FirstOpen(tw, t, NextStartPoint(tw, t))
<1> DEFINE slots == ReverseRange(ValidateHourRange(tw.hours))
           days == OtherDays(tw)
           N == NextStartPoint(tw, t)
           A == SlotMinutes(slots)
<1>1. N = GenerateNextPoint(slots, days, t, TRUE) BY DEF NextStartPoint
<1>2. \A u \in Nat : Open(tw, u) <=> \/ tw.days = {} /\ tw.hours = <<>>
                                     \/ Weekday(u) \in days
                                     \/ ~ClosedHours(tw, TimeOfDay(u))
  <2>1. \A u \in Nat : Weekday(u) \in Days BY WeekdayFacts
  <2>2. \A u \in Nat : Weekday(u) \in days <=> tw.days # {} /\ Weekday(u) \notin tw.days BY <2>1 DEF OtherDays
  <2> HIDE DEF days
  <2> QED BY <2>2 DEF Open
<1>3. \A u \in Nat : TimeOfDay(u) \in 0..(DayLen - 1) BY Zenon, TimeFacts
<1>4. days \subseteq Days /\ (tw.days = {} => days = {}) BY DEF OtherDays
<1>5. tw.hours = <<>> => slots = <<>> BY NoHours
<1>6. InOrder(slots) /\ \A u \in Nat : TimeOfDay(u) \in A <=> ~ClosedHours(tw, TimeOfDay(u))
  <2>1. ~(EndsAtMidnight(tw) /\ Len(tw.hours) > 1) BY DEF Misread
  <2> QED BY <2>1, BlockedSlots
<1>7. \E u \in Nat : Open(tw, u)
  <2>1. \E u \in Minutes : Open(tw, u) BY DEF Misread, BlocksAlways
  <2>2. Minutes \subseteq Nat BY DEF Minutes
  <2> QED BY <2>1, <2>2
<1>8. slots = <<>> => A = {} BY DEF SlotMinutes, InSlots
<1> HIDE DEF slots, days, A, N
<1>9. CASE slots = <<>> /\ days = {}
  <2>1. N = 0 BY <1>1, <1>9 DEF GenerateNextPoint
  <2>2. tw.days = {} /\ tw.hours = <<>> BY <1>2, <1>6, <1>7, <1>8, <1>9
  <2>3. Open(tw, t + 0)
    <3>1. t + 0 \in Nat OBVIOUS
    <3> QED BY <1>2, <2>2, <3>1
  <2>4. 0 \in Minutes BY CalendarAssumption DEF Minutes
  <2>5. \A e \in Nat : ~(e < 0) OBVIOUS
  <2> QED BY <2>1, <2>3, <2>4, <2>5 DEF FirstOpen, N
<1>10. CASE slots # <<>> \/ days # {}
  <2>1. N = NextPointBlocked(slots, days, t) BY <1>1, <1>10 DEF GenerateNextPoint
  <2>2. NextOpen(N, A, days, t) BY Zenon, <1>4, <1>6, <1>10, <2>1, BlockedExact DEF A
  <2>3. \A u \in Nat : Opens(A, days, u) <=> Open(tw, u) BY <1>2, <1>4, <1>5, <1>6, <1>10 DEF Opens
  <2>4. N \in Nat BY <2>2 DEF NextOpen, Minutes
  <2>5. \A e \in Nat : t + e \in Nat OBVIOUS
  <2>6. FirstOpen(tw, t, N) BY <2>2, <2>3, <2>4, <2>5 DEF NextOpen, FirstOpen
  <2> QED BY <2>6 DEF N
<1> QED BY <1>9, <1>10

\* Whatever window the user asks for, and at every minute: NextStartPoint is the
\* time to the very next minute at which the window is open, unless the window is
\* misread or the slots of the last of several days are over.
THEOREM NextStartsAreNext == Spec => []NextIsNext
<1>1. WindowTyped => NextIsNext
  <2> SUFFICES ASSUME WindowTyped, ~Misread(sub.window), ~LastDayOver(sub.window, clock)
               PROVE  NextStartPoint(sub.window, clock) = Wait(sub.window, clock)
    BY DEF NextIsNext
  <2> DEFINE w == sub.window
  <2>1. /\ w.type \in {"active", "blocked"} /\ clock \in Nat
        /\ w.hours \in Seq(AnySlots)
    BY Zenon, WindowAssumption DEF WindowTyped, AnySlots
  <2>2. FirstOpen(w, clock, NextStartPoint(w, clock))
    <3>1. ~Misread(w) /\ ~LastDayOver(w, clock) OBVIOUS
    <3> HIDE DEF w
    <3> QED BY <2>1, <3>1, ActiveNext, BlockedNext
  <2> QED BY <2>2, FirstIsWait
<1> QED BY <1>1, WindowIsTyped, PTL

(* NextStatusReconcile.                                                      *)

\* The weeks are alike.
LEMMA WeeksLater ==
  ASSUME NEW t \in Nat, NEW k \in Nat
  PROVE  LET u == t + (WeekLen * DayLen) * k
         IN  u \in Nat /\ TimeOfDay(u) = TimeOfDay(t) /\ Weekday(u) = Weekday(t)
<1> DEFINE q == Day(t)
           m == TimeOfDay(t)
           u == t + (WeekLen * DayLen) * k
           p == q + WeekLen * k
           w == q \div WeekLen
           d == q % WeekLen
<1>1. q \in Nat /\ m \in 0..(DayLen - 1) /\ t = DayLen * q + m /\ Weekday(t) = d BY TimeFacts
<1>2. WeekLen \in Nat \ {0} /\ DayLen \in Nat \ {0} BY CalendarAssumption
<1>3. w \in Int /\ d \in 0..(WeekLen - 1) /\ q = WeekLen * w + d
  <2> HIDE DEF q
  <2> QED BY <1>1, <1>2
<1> HIDE DEF q, m, w, d
<1>4. WeekLen * k \in Nat /\ p \in Nat BY <1>1, <1>2
<1>5. u = DayLen * p + m
  <2>1. DayLen * p = DayLen * q + DayLen * (WeekLen * k)
    <3> DEFINE x == WeekLen * k
    <3>1. x \in Nat BY <1>4
    <3> HIDE DEF x
    <3>2. DayLen * (q + x) = DayLen * q + DayLen * x BY <1>1, <1>2, <3>1
    <3> QED BY <3>2 DEF x
  <2>2. DayLen * (WeekLen * k) = (WeekLen * DayLen) * k BY <1>2
  <2> DEFINE y == (WeekLen * DayLen) * k
             z == DayLen * q
  <2>3. y \in Nat /\ z \in Nat /\ t = z + m /\ u = t + y BY <1>1, <1>2
  <2>4. DayLen * p = z + y BY <2>1, <2>2
  <2> HIDE DEF y, z, u, p
  <2> QED BY <1>1, <2>3, <2>4
<1>6. u \in Nat /\ TimeOfDay(u) = m /\ Weekday(u) = p % WeekLen
  <2> HIDE DEF p, u
  <2> QED BY <1>1, <1>4, <1>5, MadeOf
<1>7. p % WeekLen = d
  <2>1. WeekLen * (w + k) = WeekLen * w + WeekLen * k BY <1>2, <1>3
  <2>2. w + k \in Int BY <1>3
  <2>3. p = WeekLen * (w + k) + d
    <3> DEFINE x == WeekLen * w
               y == WeekLen * k
    <3>1. x \in Int /\ y \in Int /\ q = x + d /\ p = q + y BY <1>2, <1>3
    <3> HIDE DEF x, y, p
    <3>2. p = x + y + d BY <1>3, <3>1
    <3> QED BY <2>1, <3>2 DEF x, y
  <2> HIDE DEF p
  <2> QED BY <1>2, <1>3, <2>2, <2>3, Division
<1> QED BY <1>1, <1>6, <1>7 DEF m

\* IsInWindow of a blocked window.
LEMMA BlockedShows ==
  ASSUME NEW tw, tw.type = "blocked", tw.hours \in Seq(AnySlots), ~EndsAtMidnight(tw)
  PROVE  LET slots == ReverseRange(ValidateHourRange(tw.hours))
             days == OtherDays(tw)
         IN  IF slots = <<>> /\ days = {} THEN \A u \in Nat : NextStartPoint(tw, u) = 0
             ELSE \A u \in Nat : /\ NextOpen(NextStartPoint(tw, u), SlotMinutes(slots), days, u)
                                 /\ IsInWindow(tw, u) <=> Opens(SlotMinutes(slots), days, u)
<1> DEFINE slots == ReverseRange(ValidateHourRange(tw.hours))
           days == OtherDays(tw)
           A == SlotMinutes(slots)
<1>1. \A u \in Nat : NextStartPoint(tw, u) = GenerateNextPoint(slots, days, u, TRUE) BY DEF NextStartPoint
<1>2. InOrder(slots) BY BlockedSlots
<1>3. days \subseteq Days BY DEF OtherDays
<1>4. CASE slots = <<>> /\ days = {}
  <2> HIDE DEF slots, days
  <2>1. \A u \in Nat : NextStartPoint(tw, u) = 0 BY <1>1, <1>4 DEF GenerateNextPoint
  <2> QED BY <1>4, <2>1 DEF slots, days
<1>5. CASE ~(slots = <<>> /\ days = {})
  <2> HIDE DEF slots, days
  <2>1. ASSUME NEW u \in Nat
        PROVE  /\ NextOpen(NextStartPoint(tw, u), A, days, u)
               /\ IsInWindow(tw, u) <=> Opens(A, days, u)
    <3> DEFINE N == NextStartPoint(tw, u)
    <3>1. N = NextPointBlocked(slots, days, u) BY <1>1, <1>5 DEF GenerateNextPoint
    <3>2. NextOpen(N, A, days, u) BY <1>2, <1>3, <1>5, <3>1, BlockedExact
    <3>3. IsInWindow(tw, u) <=> N = 0 BY DEF IsInWindow
    <3> HIDE DEF N, A
    <3>4. N \in Nat /\ Opens(A, days, u + N) /\ \A e \in Nat : e < N => ~Opens(A, days, u + e)
      BY <3>2 DEF NextOpen, Minutes
    <3>5. u + 0 = u OBVIOUS
    <3>6. N = 0 => Opens(A, days, u) BY <3>4, <3>5
    <3>7. N # 0 => ~Opens(A, days, u)
      <4>1. N # 0 => 0 < N /\ 0 \in Nat BY <3>4
      <4> QED BY Zenon, <3>4, <3>5, <4>1
    <3> QED BY <3>2, <3>3, <3>6, <3>7 DEF N
  <2> QED BY <1>5, <2>1 DEF slots, days
<1> QED BY <1>4, <1>5

\* Active windows in which no range ends at midnight are not misread.
LEMMA ActiveShows ==
  ASSUME NEW tw, tw.type = "active", tw.hours \in Seq(AnySlots), ~EndsAtMidnight(tw)
  PROVE  ~Misread(tw) /\ \A u \in Nat : IsInWindow(tw, u) <=> Open(tw, u)
<1>1. ~Misread(tw)
  <2>1. tw.type # "blocked" OBVIOUS
  <2> QED BY <2>1 DEF Misread
<1> QED BY <1>1, ActiveRead

\* IsInWindow depends on the day of the week and the time of the day only.
LEMMA SameTime ==
  ASSUME NEW tw, tw.type \in {"active", "blocked"}, tw.hours \in Seq(AnySlots), ~EndsAtMidnight(tw),
         NEW t \in Nat, NEW u \in Nat, TimeOfDay(u) = TimeOfDay(t), Weekday(u) = Weekday(t)
  PROVE  IsInWindow(tw, u) <=> IsInWindow(tw, t)
<1>1. CASE tw.type = "active"
  <2>1. Open(tw, u) <=> Open(tw, t)
    <3>1. tw.type # "blocked" BY <1>1
    <3> QED BY <3>1 DEF Open
  <2> QED BY <1>1, <2>1, ActiveShows
<1>2. CASE tw.type = "blocked"
  <2> DEFINE slots == ReverseRange(ValidateHourRange(tw.hours))
             days == OtherDays(tw)
             A == SlotMinutes(slots)
  <2>1. IF slots = <<>> /\ days = {} THEN \A x \in Nat : NextStartPoint(tw, x) = 0
        ELSE \A x \in Nat : /\ NextOpen(NextStartPoint(tw, x), A, days, x)
                            /\ IsInWindow(tw, x) <=> Opens(A, days, x)
    BY <1>2, BlockedShows
  <2> HIDE DEF slots, days, A
  <2>2. Opens(A, days, u) <=> Opens(A, days, t) BY DEF Opens
  <2>3. (\A x \in Nat : NextStartPoint(tw, x) = 0) => IsInWindow(tw, u) /\ IsInWindow(tw, t) BY DEF IsInWindow
  <2> QED BY <2>1, <2>2, <2>3
<1> QED BY <1>1, <1>2

\* Later on the same day.
LEMMA SameDay ==
  ASSUME NEW t \in Nat, NEW e \in Nat, TimeOfDay(t) + e \in 0..(DayLen - 1)
  PROVE  TimeOfDay(t + e) = TimeOfDay(t) + e /\ Weekday(t + e) = Weekday(t)
<1> DEFINE m == TimeOfDay(t)
           a == m + e
<1>1. m \in 0..(DayLen - 1) /\ Day(t) \in Nat /\ Weekday(t) = Day(t) % WeekLen BY TimeFacts
<1>2. a \in 0..(DayLen - 1) /\ 0 \in Nat OBVIOUS
<1>3. e = DayLen * 0 + a - m
  <2>1. DayLen * 0 = 0 BY CalendarAssumption
  <2> HIDE DEF m
  <2> QED BY <1>1, <2>1
<1> HIDE DEF m, a
<1>4. Leads(t, e, 0, a) BY <1>2, <1>3, Jump DEF m
<1>5. Day(t) + 0 = Day(t) BY <1>1
<1> QED BY <1>1, <1>4, <1>5 DEF Leads, a, m

\* The last of the gaps is the end of the day, and the only one that ends there.
LEMMA GapsEnd ==
  ASSUME NEW s, Disjoint(s)
  PROVE  LET R == ReverseRange(s)
         IN  /\ DayLen - 1 \in SlotMinutes(R)
             /\ \A k \in DOMAIN R : R[k].end <= R[Len(R)].end /\ (IsMidnight(R[k].end) => R[k].end = DayLen)
<1> DEFINE R == ReverseRange(s)
           n == Len(s)
           z == LeftOut(s)
           l == Len(R)
<1>1. /\ n \in Nat /\ n # 0 /\ DOMAIN s = 1..n
      /\ \A i \in 1..n : s[i] \in Slots /\ s[i].start <= s[i].end
      /\ \A i, j \in 1..n : i < j => s[i].end < s[j].start
  BY DEF Disjoint
<1>2. /\ \A i \in 1..n : s[i].start \in 0..(DayLen - 1) /\ s[i].end \in 1..(DayLen - 1)
      /\ DayLen \in Nat \ {0} /\ z \in {0, 1} /\ (z = 0 => s[1].start # 0)
  <2> HIDE DEF n
  <2> QED BY <1>1, CalendarAssumption DEF Slots, LeftOut
<1>3. R \in Seq(GapRanges) /\ l = n + 1 - z /\ \A k \in DOMAIN R : R[k] = GapBefore(s, k + z) BY ReverseFacts
<1>4. DOMAIN R = 1..l BY <1>3
<1> HIDE DEF R, l, z, n
<1>5. l \in 1..l /\ l + z = n + 1 /\ l \in Nat BY <1>1, <1>2, <1>3
<1>6. R[l].end = DayLen /\ R[l].start = s[n].end
  <2>1. R[l] = GapBefore(s, n + 1) BY <1>3, <1>4, <1>5
  <2>2. n + 1 # 1 /\ n + 1 - 1 = n BY <1>1
  <2> QED BY <2>1, <2>2 DEF GapBefore, HourRange, n
<1>7. ASSUME NEW k \in 1..l, k # l
      PROVE  R[k].end \in Nat /\ R[k].end < DayLen /\ R[k].end # 0
  <2> DEFINE j == k + z
  <2>1. j \in 1..n /\ j # n + 1 BY <1>1, <1>2, <1>3, <1>7
  <2>2. R[k] = GapBefore(s, j) BY <1>3, <1>4
  <2> HIDE DEF j
  <2>3. R[k].end = s[j].start BY <2>1, <2>2 DEF GapBefore, HourRange, n
  <2>4. s[j].start \in Nat /\ s[j].start < DayLen BY <1>2, <2>1
  <2>5. s[j].start # 0
    <3>1. CASE j = 1
      <4>1. z = 0 BY <1>2, <3>1 DEF j
      <4> QED BY <1>2, <3>1, <4>1
    <3>2. CASE j # 1
      <4>1. 1 \in 1..n /\ 1 < j BY <1>1, <2>1, <3>2
      <4>2. s[1].end < s[j].start BY <1>1, <2>1, <4>1
      <4>3. s[1].end \in 1..(DayLen - 1) BY <1>2, <4>1
      <4> QED BY <2>4, <4>2, <4>3
    <3> QED BY <3>1, <3>2
  <2> QED BY <2>3, <2>4, <2>5
<1>8. \A k \in 1..l : R[k].end <= R[l].end
  <2>1. \A k \in 1..l : k # l => R[k].end \in Nat /\ R[k].end < DayLen BY <1>7
  <2> QED BY <1>2, <1>6, <2>1
<1>9. ASSUME NEW k \in 1..l, IsMidnight(R[k].end) PROVE R[k].end = DayLen
  <2>1. CASE k = l BY <1>6, <2>1
  <2>2. CASE k # l
    <3>1. R[k].end \in 1..(DayLen - 1) BY <1>2, <1>7, <2>2
    <3> QED BY <1>9, <3>1, MinuteFacts DEF IsMidnight
  <2> QED BY <2>1, <2>2
<1>10. DayLen - 1 \in SlotMinutes(R)
  <2>1. n \in 1..n BY <1>1
  <2>2. s[n].end \in 1..(DayLen - 1) BY Zenon, <1>2, <2>1
  <2>3. R[l].start <= DayLen - 1 /\ DayLen - 1 <= R[l].end /\ DayLen - 1 \in 0..(DayLen - 1) BY SMTT(60), <1>2, <1>6, <2>2
  <2> QED BY <1>4, <1>5, <2>3 DEF SlotMinutes, InSlots
<1> QED BY <1>4, <1>8, <1>9, <1>10 DEF R, l

\* An active window stays open until the point that is generated for its gaps.
LEMMA ActiveStays ==
  ASSUME NEW tw, tw.type = "active", tw.hours \in Seq(AnySlots), tw.hours # <<>>, ~EndsAtMidnight(tw),
         NEW t \in Nat, IsInWindow(tw, t)
  PROVE  LET M == GenerateNextPoint(ReverseRange(ValidateHourRange(tw.hours)), RunDays(tw), t, FALSE)
         IN  M \in Nat /\ \A e \in Nat : e < M => IsInWindow(tw, t + e)
<1> DEFINE s == ValidateHourRange(tw.hours)
           R == ReverseRange(s)
           A == SlotMinutes(R)
           days == RunDays(tw)
           m == TimeOfDay(t)
           today == TillNextSlotInCurrentDay(R, t)
           M == GenerateNextPoint(R, days, t, FALSE)
<1>1. m \in 0..(DayLen - 1) BY TimeFacts
<1>2. Disjoint(s) /\ \A k \in 0..(DayLen - 1) : OpenHours(tw, k) <=> \E i \in DOMAIN s : Touches(s[i], k)
  <2>1. \A k \in 0..(DayLen - 1) : k \in Nat OBVIOUS
  <2>2. \A k \in Nat : Disjoint(s) /\ (OpenHours(tw, k) <=> \E i \in DOMAIN s : Touches(s[i], k)) BY Zenon, PlainHours
  <2>3. 0 \in Nat OBVIOUS
  <2> HIDE DEF s
  <2> QED BY <2>1, <2>2, <2>3
<1> HIDE DEF s
<1>3. /\ InOrder(R) /\ R # <<>>
      /\ \A k \in 0..(DayLen - 1) : InSlots(R, k)
            <=> ~(/\ k = 0 \/ \E i \in DOMAIN s : Ends(s[i], k)
                  /\ \E i \in DOMAIN s : Begins(s[i], k))
  BY Zenon, <1>1, <1>2, GapsInOrder
<1>4. /\ DayLen - 1 \in A
      /\ \A k \in DOMAIN R : R[k].end <= R[Len(R)].end /\ (IsMidnight(R[k].end) => R[k].end = DayLen)
  BY <1>2, GapsEnd
<1>5. today \in Nat /\ m + today \in A /\ \A e \in Nat : e < today => m + e \notin A
  <2>1. \/ today \in Nat /\ m + today \in A /\ \A e \in Nat : e < today => m + e \notin A
        \/ today = -1 /\ \A a \in A : a < m
    BY <1>3, TodayExact
  <2>2. ~(\A a \in A : a < m)
    <3>1. ~(DayLen - 1 < m) BY <1>1, CalendarAssumption
    <3> QED BY <1>4, <3>1
  <2> QED BY Zenon, <2>1, <2>2
<1>6. (days = {} \/ Weekday(t) \in days) /\ Open(tw, t)
  <2>1. Open(tw, t) BY ActiveShows
  <2>2. Weekday(t) \in Days BY WeekdayFacts
  <2>3. tw.type # "blocked" OBVIOUS
  <2> QED BY Zenon, <2>1, <2>2, <2>3 DEF Open, RunDays
<1>7. M = today
  <2>1. today >= 0 BY <1>5
  <2>2. M = NextPointActive(R, days, t) BY <1>3 DEF GenerateNextPoint
  <2>3. CASE days = {}
    <3>1. M = TillNextSlot(R, t) BY Zenon, <1>3, <2>2, <2>3 DEF NextPointActive
    <3>2. TillNextSlot(R, t) = IF today >= 0 THEN today ELSE TillMidnight(t) + TillNextSlotFromMidnight(R)
      <4> HIDE DEF R
      <4> QED BY <1>3, <1>4, NextSlotExact
    <3> QED BY Zenon, <2>1, <3>1, <3>2
  <2>4. CASE days # {}
    <3>1. Weekday(t) \in days BY <1>6, <2>4
    <3>2. DurationToNextRunnableWeekday(days, R, t) = 0
      BY Zenon, <2>1, <2>4, <3>1 DEF DurationToNextRunnableWeekday
    <3> HIDE DEF today, days, R
    <3> QED BY Zenon, <1>3, <2>1, <2>2, <2>4, <3>1, <3>2 DEF NextPointActive, today
  <2> QED BY Zenon, <2>3, <2>4
<1>8. ASSUME NEW e \in Nat, e < today PROVE IsInWindow(tw, t + e)
  <2>1. m + today \in 0..(DayLen - 1) BY <1>5 DEF SlotMinutes
  <2>2. m + e \in 0..(DayLen - 1) /\ m + e \notin A
    <3>1. m + e \notin A BY Zenon, <1>5, <1>8
    <3>2. m \in 0..(DayLen - 1) /\ today \in Nat /\ e < today BY <1>1, <1>5, <1>8
    <3>3. DayLen \in Nat BY CalendarAssumption
    <3> HIDE DEF m, today, A
    <3>4. m + e \in 0..(DayLen - 1) BY <2>1, <3>2, <3>3
    <3> QED BY Zenon, <3>1, <3>4
  <2>3. TimeOfDay(t + e) = m + e /\ Weekday(t + e) = Weekday(t) BY <2>2, SameDay
  <2> DEFINE k == m + e
  <2>4. ~InSlots(R, k) BY <2>2 DEF SlotMinutes
  <2>5. /\ k = 0 \/ \E i \in DOMAIN s : Ends(s[i], k)
        /\ \E i \in DOMAIN s : Begins(s[i], k)
    BY <1>3, <2>2, <2>4
  <2> HIDE DEF k
  <2>6. k \in 0..(DayLen - 1) BY <2>2 DEF k
  <2>7. \E i \in DOMAIN s : Touches(s[i], k)
    <3>1. PICK i \in DOMAIN s : Begins(s[i], k) BY <2>5
    <3>2. s[i] \in Slots BY <1>2 DEF Disjoint
    <3>3. s[i].end \in Nat BY <3>2 DEF Slots
    <3>4. s[i].start <= k /\ k <= s[i].end BY SMTT(60), <2>6, <3>1, <3>3 DEF Begins
    <3> QED BY <3>4 DEF Touches
  <2>8. OpenHours(tw, k) BY <1>2, <2>6, <2>7
  <2>9. tw.type # "blocked" BY Zenon
  <2>10. Open(tw, t + e) BY <1>6, <2>3, <2>8, <2>9 DEF Open, k
  <2>11. t + e \in Nat BY SMTT(60)
  <2> QED BY Zenon, <2>10, <2>11, ActiveShows
<1> QED BY ZenonT(60), <1>5, <1>7, <1>8 DEF s

\* A blocked window stays open until the point that is generated for its slots.
LEMMA BlockedStays ==
  ASSUME NEW tw, tw.type = "blocked", tw.hours \in Seq(AnySlots), ~EndsAtMidnight(tw),
         ~(tw.days = {} /\ tw.hours = <<>>), NEW t \in Nat, ~LastDayOver(tw, t)
  PROVE  LET M == GenerateNextPoint(ValidateHourRange(tw.hours), RunDays(tw), t, FALSE)
         IN  M \in Nat /\ \A e \in Nat : e < M => IsInWindow(tw, t + e)
<1> DEFINE s == ValidateHourRange(tw.hours)
           R == ReverseRange(s)
           A == SlotMinutes(R)
           days == RunDays(tw)
           M == GenerateNextPoint(s, days, t, FALSE)
<1>1. \A u \in Nat : TimeOfDay(u) \in 0..(DayLen - 1) BY Zenon, TimeFacts
<1>2. \A u \in Nat : TimeOfDay(u) \in A <=> ~ClosedHours(tw, TimeOfDay(u)) BY BlockedSlots
<1>3. days \subseteq Days BY Zenon DEF RunDays
<1>4. ASSUME NEW u \in Nat, (tw.days # {} /\ Weekday(u) \notin days) \/ ~ClosedHours(tw, TimeOfDay(u))
      PROVE  IsInWindow(tw, u)
  <2>1. Weekday(u) \in Days BY WeekdayFacts
  <2>2. tw.days # {} /\ Weekday(u) \notin days => Weekday(u) \in OtherDays(tw) BY Zenon, <2>1 DEF RunDays, OtherDays
  <2>3. Opens(A, OtherDays(tw), u) BY ZenonT(60), <1>2, <1>4, <2>2 DEF Opens
  <2>4. IF R = <<>> /\ OtherDays(tw) = {} THEN \A x \in Nat : NextStartPoint(tw, x) = 0
        ELSE \A x \in Nat : /\ NextOpen(NextStartPoint(tw, x), A, OtherDays(tw), x)
                            /\ IsInWindow(tw, x) <=> Opens(A, OtherDays(tw), x)
    BY BlockedShows
  <2>5. (\A x \in Nat : NextStartPoint(tw, x) = 0) => IsInWindow(tw, u) BY DEF IsInWindow
  <2> HIDE DEF R, A
  <2> QED BY <2>3, <2>4, <2>5
<1>5. \A e \in Nat : t + e \in Nat BY SMTT(60)
<1>6. CASE tw.hours = <<>>
  <2>1. s = <<>> BY <1>6, NoHours
  <2>2. CASE days = {}
    <3>1. M = 0 BY <2>1, <2>2 DEF GenerateNextPoint
    <3>2. \A e \in Nat : ~(e < 0) OBVIOUS
    <3> HIDE DEF M
    <3>3. M \in Nat /\ \A e \in Nat : e < M => IsInWindow(tw, t + e) BY Zenon, <3>1, <3>2
    <3> QED BY Zenon, <3>3 DEF M
  <2>3. CASE days # {}
    <3>1. M = NextPointActive(<<>>, days, t) BY <2>1, <2>3 DEF GenerateNextPoint
    <3>2. NextHit(M, 0..(DayLen - 1), days, t) BY Zenon, <1>3, <2>3, <3>1, ActiveAllDay
    <3> HIDE DEF M, days
    <3>3. M \in Nat BY <3>2 DEF NextHit, Minutes
    <3>4. ASSUME NEW e \in Nat, e < M PROVE IsInWindow(tw, t + e)
      <4>1. ~Hits(0..(DayLen - 1), days, t + e) BY <3>2, <3>4 DEF NextHit
      <4>2. Weekday(t + e) \notin days BY Zenon, <1>1, <1>5, <4>1 DEF Hits
      <4> QED BY <1>4, <1>5, <1>6, <4>2
    <3> QED BY Zenon, <3>3, <3>4 DEF M, days
  <2> QED BY Zenon, <2>2, <2>3
<1>7. CASE tw.hours # <<>>
  <2>1. \A k \in Nat : /\ Disjoint(s)
                       /\ OpenHours(tw, k) <=> \E i \in DOMAIN s : Touches(s[i], k)
                       /\ ClosedHours(tw, k) <=> /\ k = 0 \/ \E i \in DOMAIN s : Ends(s[i], k)
                                                 /\ \E i \in DOMAIN s : Begins(s[i], k)
    BY Zenon, <1>7, PlainHours
  <2>2. 0 \in Nat OBVIOUS
  <2>3. Disjoint(s)
    <3> HIDE DEF s
    <3> QED BY Zenon, <2>1, <2>2
  <2>4. /\ TillNextSlotInCurrentDay(s, t) = -1
        /\ Weekday(t) \in days /\ (\A x \in days : x <= Weekday(t))
        => days = {Weekday(t)}
    <3> SUFFICES ASSUME TillNextSlotInCurrentDay(s, t) = -1,
                        Weekday(t) \in days, \A x \in days : x <= Weekday(t)
                 PROVE  days = {Weekday(t)}
      OBVIOUS
    <3> QED BY <1>7 DEF LastDayOver
  <2> HIDE DEF s
  <2>5. InOrder(s) /\ s # <<>> BY <2>2, <2>3, DisjointInOrder DEF Disjoint
  <2>6. \A k \in Nat : InSlots(s, k) <=> \E i \in DOMAIN s : Touches(s[i], k) BY <2>3, DisjointInOrder
  <2>7. \A k \in DOMAIN s : s[k].end <= s[Len(s)].end /\ (IsMidnight(s[k].end) => s[k].end = DayLen)
    BY <2>3, DisjointEnds
  <2>8. M = NextPointActive(s, days, t) BY <2>5 DEF GenerateNextPoint
  <2>9. NextHit(NextPointActive(s, days, t), SlotMinutes(s), days, t)
    <3> HIDE DEF days
    <3> QED BY ZenonT(60), <1>3, <2>4, <2>5, <2>7, ActiveExact
  <2> HIDE DEF M, days
  <2>10. M \in Nat BY <2>8, <2>9 DEF NextHit, Minutes
  <2>11. ASSUME NEW e \in Nat, e < M PROVE IsInWindow(tw, t + e)
    <3> DEFINE k == TimeOfDay(t + e)
    <3>1. k \in 0..(DayLen - 1) /\ k \in Nat BY SMTT(60), <1>1, <1>5
    <3>2. ~Hits(SlotMinutes(s), days, t + e) BY <2>8, <2>9, <2>11 DEF NextHit
    <3>3. CASE days # {} /\ Weekday(t + e) \notin days
      <4>1. tw.days # {} BY <3>3 DEF days, RunDays
      <4> QED BY <1>4, <1>5, <3>3, <4>1
    <3>4. CASE k \notin SlotMinutes(s)
      <4> HIDE DEF k
      <4>1. ~InSlots(s, k) BY <3>1, <3>4 DEF SlotMinutes
      <4>2. \A i \in DOMAIN s : ~Touches(s[i], k) BY <2>6, <3>1, <4>1
      <4>3. ASSUME NEW i \in DOMAIN s PROVE ~Begins(s[i], k)
        <5>1. s[i] \in Slots BY <2>3 DEF Disjoint
        <5>2. s[i].end \in Nat BY <5>1 DEF Slots
        <5>3. ~(s[i].start <= k /\ k <= s[i].end) BY Zenon, <4>2 DEF Touches
        <5> QED BY <3>1, <5>2, <5>3 DEF Begins
      <4>4. ~ClosedHours(tw, k) BY ZenonT(60), <2>1, <3>1, <4>3
      <4> QED BY <1>4, <1>5, <4>4 DEF k
    <3> QED BY <3>2, <3>3, <3>4 DEF Hits
  <2> QED BY Zenon, <2>10, <2>11 DEF M, days, s
<1> QED BY Zenon, <1>6, <1>7

\* Until the next look at the status, less the minute that is added, IsInWindow
\* says the same; if there is no next look, always.
LEMMA NoSkip ==
  ASSUME NEW tw, tw.type \in {"active", "blocked"}, tw.hours \in Seq(AnySlots), ~EndsAtMidnight(tw),
         NEW t \in Nat, ~LastDayOver(tw, t)
  PROVE  LET N == NextStatusReconcile(tw, t)
         IN  /\ N \in Nat
             /\ N = 0 => \A u \in Nat : IsInWindow(tw, u)
             /\ \A e \in Nat : e + 1 < N => (IsInWindow(tw, t + e) <=> IsInWindow(tw, t))
<1> DEFINE s == ValidateHourRange(tw.hours)
           until == IF tw.type = "blocked" THEN s ELSE ReverseRange(s)
           days == RunDays(tw)
           N == NextStatusReconcile(tw, t)
<1>1. CASE tw.days = {} /\ tw.hours = <<>>
  <2>1. N = 0 BY <1>1 DEF NextStatusReconcile
  <2>2. s = <<>> /\ ReverseRange(s) = <<>> BY <1>1, NoHours
  <2>3. days = {} /\ OtherDays(tw) = {} BY <1>1 DEF RunDays, OtherDays
  <2>4. \A u \in Nat : NextStartPoint(tw, u) = 0 BY <2>2, <2>3 DEF NextStartPoint, GenerateNextPoint
  <2>5. \A u \in Nat : IsInWindow(tw, u) BY <2>4 DEF IsInWindow
  <2>6. \A e \in Nat : ~(e + 1 < 0) OBVIOUS
  <2> QED BY <2>1, <2>5, <2>6
<1>2. ASSUME NEW M \in Nat, N = M + 1,
             \A e \in Nat : e < M => (IsInWindow(tw, t + e) <=> IsInWindow(tw, t))
      PROVE  /\ N \in Nat /\ N # 0
             /\ \A e \in Nat : e + 1 < N => (IsInWindow(tw, t + e) <=> IsInWindow(tw, t))
  <2> HIDE DEF N
  <2>1. N \in Nat /\ N # 0 /\ \A e \in Nat : e + 1 < N => e < M BY <1>2
  <2> QED BY <1>2, <2>1
<1>3. CASE ~(tw.days = {} /\ tw.hours = <<>>) /\ IsInWindow(tw, t)
  <2> DEFINE M == GenerateNextPoint(until, days, t, FALSE)
  <2>1. N = M + 1 BY ZenonT(60), <1>3 DEF NextStatusReconcile
  <2>2. M \in Nat /\ \A e \in Nat : e < M => IsInWindow(tw, t + e)
    <3>1. CASE tw.type = "blocked"
      <4>1. until = s BY <3>1
      <4> QED BY Zenon, <1>3, <3>1, <4>1, BlockedStays
    <3>2. CASE tw.type = "active" /\ tw.hours # <<>>
      <4>1. until = ReverseRange(s) BY <3>2
      <4> QED BY Zenon, <1>3, <3>2, <4>1, ActiveStays
    <3>3. CASE tw.type = "active" /\ tw.hours = <<>>
      <4>1. until = <<>> BY <3>3, NoHours
      <4>2. days = {} \/ Weekday(t) \in days
        <5>1. Open(tw, t) BY Zenon, <1>3, <3>3, ActiveShows
        <5>2. Weekday(t) \in Days BY WeekdayFacts
        <5>3. tw.type # "blocked" BY Zenon, <3>3
        <5> QED BY <5>1, <5>2, <5>3 DEF Open, RunDays
      <4>3. M = 0 BY <4>1, <4>2 DEF GenerateNextPoint, NextPointActive
      <4>4. \A e \in Nat : ~(e < 0) OBVIOUS
      <4> HIDE DEF M
      <4> QED BY <4>3, <4>4
    <3> QED BY Zenon, <3>1, <3>2, <3>3
  <2> HIDE DEF M, N
  <2>3. \A e \in Nat : e < M => (IsInWindow(tw, t + e) <=> IsInWindow(tw, t)) BY Zenon, <1>3, <2>2
  <2> QED BY Zenon, <1>2, <2>1, <2>2, <2>3 DEF N
<1>4. CASE ~(tw.days = {} /\ tw.hours = <<>>) /\ ~IsInWindow(tw, t)
  <2> DEFINE M == NextStartPoint(tw, t)
  <2>1. N = M + 1 BY <1>4 DEF NextStatusReconcile
  <2>2. M \in Nat /\ \A e \in Nat : e < M => ~IsInWindow(tw, t + e)
    <3>1. \A e \in Nat : t + e \in Nat OBVIOUS
    <3>2. CASE tw.type = "active"
      <4>1. ~Misread(tw) /\ \A u \in Nat : IsInWindow(tw, u) <=> Open(tw, u) BY <3>2, ActiveShows
      <4>2. FirstOpen(tw, t, M) BY <3>2, <4>1, ActiveNext
      <4> HIDE DEF M
      <4>3. M \in Nat BY <4>2 DEF FirstOpen, Minutes
      <4> QED BY Zenon, <3>1, <4>1, <4>2, <4>3 DEF FirstOpen
    <3>3. CASE tw.type = "blocked"
      <4> DEFINE R == ReverseRange(s)
                 A == SlotMinutes(R)
                 D == OtherDays(tw)
      <4>1. IF R = <<>> /\ D = {} THEN \A u \in Nat : NextStartPoint(tw, u) = 0
            ELSE \A u \in Nat : /\ NextOpen(NextStartPoint(tw, u), A, D, u)
                                /\ IsInWindow(tw, u) <=> Opens(A, D, u)
        BY <3>3, BlockedShows
      <4>2. ~(\A u \in Nat : NextStartPoint(tw, u) = 0) BY <1>4 DEF IsInWindow
      <4> HIDE DEF R, A, D
      <4>3. NextOpen(M, A, D, t) /\ \A u \in Nat : IsInWindow(tw, u) <=> Opens(A, D, u) BY <4>1, <4>2
      <4> HIDE DEF M
      <4>4. M \in Nat BY <4>3 DEF NextOpen, Minutes
      <4> QED BY Zenon, <3>1, <4>3, <4>4 DEF NextOpen
    <3> QED BY <3>2, <3>3
  <2> HIDE DEF M, N
  <2>3. \A e \in Nat : e < M => (IsInWindow(tw, t + e) <=> IsInWindow(tw, t)) BY Zenon, <1>4, <2>2
  <2> QED BY Zenon, <1>2, <2>1, <2>2, <2>3 DEF N
<1> QED BY <1>1, <1>3, <1>4

(* The status.                                                               *)

\* The messages of a week later are the same, and so is that of the next minute,
\* counted from the beginning of the week.
LEMMA MessagesRepeat ==
  ASSUME NEW tw \in Windows, ~EndsAtMidnight(tw), NEW c \in Minutes
  PROVE  LET next == (c + 1) % (WeekLen * DayLen)
         IN  /\ Message(tw, c + WeekLen * DayLen) = Message(tw, c)
             /\ next \in Minutes
             /\ \A e \in Nat : Message(tw, next + e) = Message(tw, c + (e + 1))
             /\ Message(tw, next + WeekLen * DayLen - 1) = Message(tw, c)
<1> DEFINE W == WeekLen * DayLen
           next == (c + 1) % W
<1>1. W \in Nat \ {0} BY CalendarAssumption
<1>2. tw.type \in {"active", "blocked"} /\ tw.hours \in Seq(AnySlots) BY Zenon, WindowAssumption DEF AnySlots
<1>3. ASSUME NEW t \in Nat PROVE Message(tw, t + W) = Message(tw, t)
  <2>1. t + W * 1 \in Nat /\ TimeOfDay(t + W * 1) = TimeOfDay(t) /\ Weekday(t + W * 1) = Weekday(t)
    <3>1. 1 \in Nat OBVIOUS
    <3> QED BY <3>1, WeeksLater
  <2>2. W * 1 = W BY <1>1
  <2>3. t + W \in Nat /\ TimeOfDay(t + W) = TimeOfDay(t) /\ Weekday(t + W) = Weekday(t) BY <2>1, <2>2
  <2>4. IsInWindow(tw, t + W) <=> IsInWindow(tw, t)
    <3> HIDE DEF W
    <3> QED BY <1>2, <2>3, SameTime
  <2> QED BY <2>4 DEF Message
<1>4. c \in Nat /\ c < W
  <2>1. c \in 0..(W - 1) BY DEF Minutes
  <2> HIDE DEF W
  <2> QED BY <1>1, <2>1
<1>5. Message(tw, c + W) = Message(tw, c) BY <1>3, <1>4
<1>6. \A x \in Nat : x < W => x \in Minutes
  <2>1. Minutes = 0..(W - 1) BY DEF Minutes
  <2> HIDE DEF W
  <2> QED BY <1>1, <2>1
<1>7. CASE c + 1 < W
  <2>1. next = c + 1
    <3> HIDE DEF W
    <3> QED BY <1>1, <1>4, <1>7
  <2> HIDE DEF W, next
  <2>2. next \in Minutes BY <1>4, <1>6, <1>7, <2>1
  <2>3. \A e \in Nat : next + e = c + (e + 1) BY <1>4, <2>1
  <2>4. next + W - 1 = c + W BY <1>1, <1>4, <2>1
  <2>5. /\ Message(tw, c + W) = Message(tw, c) /\ next \in Minutes
        /\ \A e \in Nat : Message(tw, next + e) = Message(tw, c + (e + 1))
        /\ Message(tw, next + W - 1) = Message(tw, c)
    BY <1>5, <2>2, <2>3, <2>4
  <2> QED BY <2>5 DEF next, W
<1>8. CASE ~(c + 1 < W)
  <2>1. c + 1 = W
    <3> HIDE DEF W
    <3> QED BY SMTT(60), <1>1, <1>4, <1>8
  <2>2. next = 0
    <3>1. next = W % W BY <2>1
    <3>2. \A x \in Nat \ {0} : x % x = 0 OBVIOUS
    <3> HIDE DEF W
    <3> QED BY <1>1, <3>1, <3>2
  <2> HIDE DEF W, next
  <2>3. next \in Minutes BY <1>1, <1>6, <2>2
  <2>4. ASSUME NEW e \in Nat PROVE Message(tw, next + e) = Message(tw, c + (e + 1))
    <3>1. next + e = e /\ c + (e + 1) = e + W BY <1>1, <1>4, <2>1, <2>2
    <3> QED BY <1>3, <3>1
  <2>5. next + W - 1 = c BY <1>1, <1>4, <2>1, <2>2
  <2>6. /\ Message(tw, c + W) = Message(tw, c) /\ next \in Minutes
        /\ \A e \in Nat : Message(tw, next + e) = Message(tw, c + (e + 1))
        /\ Message(tw, next + W - 1) = Message(tw, c)
    BY Zenon, <1>5, <2>3, <2>4, <2>5
  <2> QED BY <2>6 DEF next, W
<1> QED BY <1>7, <1>8

\* The controller waits for the timer, and nothing excuses the message.
Resting == queued # "yes" /\ ctl.pc = "idle" /\ excused = {} /\ ~EndsAtMidnight(sub.window)

\* The message was right a minute ago at least, and stays right until a minute
\* before the timer; without a timer it is right for ever.
Timed(tw, c, timing, message) ==
    /\ message = Message(tw, c) \/ message = Message(tw, c + WeekLen * DayLen - 1)
    /\ timing = Never => \A t \in Nat : Message(tw, t) = message
    /\ \A e \in Nat : e + 1 < timing => Message(tw, c + e) = message

\* The message that is about to be written is that of the present minute, unless
\* the clock went on or the Subscription was changed, and a resting controller
\* has a timer that comes before the next change.
TimelyInv ==
    /\ clock \in Minutes /\ sub.window \in Windows /\ (timer = Never \/ timer \in Nat \ {0})
    /\ ctl.pc = "schedule" /\ ctl.fresh = "yes" /\ excused = {} => ctl.message = Message(sub.window, clock)
    /\ Resting => Timed(sub.window, clock, timer, status.message)

\* A minute goes by.
LEMMA TimelyTick == TimelyInv /\ Tick => TimelyInv'
<1> SUFFICES ASSUME TimelyInv, Tick PROVE TimelyInv' OBVIOUS
<1> DEFINE w == sub.window
           W == WeekLen * DayLen
           msg == status.message
<1>1. /\ clock \in Minutes /\ w \in Windows /\ (timer = Never \/ timer \in Nat \ {0})
      /\ clock' = (clock + 1) % W
      /\ timer' = IF timer <= 1 THEN Never ELSE timer - 1
      /\ queued' = IF timer = 1 THEN "yes" ELSE queued
      /\ excused' = IF ctl.pc = "schedule" THEN excused \cup {"tick"} ELSE excused
      /\ sub' = sub /\ status' = status /\ ctl' = ctl
  BY DEF TimelyInv, Tick
<1>2. timer' = Never \/ timer' \in Nat \ {0}
  <2>1. CASE timer = Never
    <3>1. timer <= 1 BY <2>1 DEF Never
    <3> QED BY <1>1, <3>1
  <2>2. CASE timer \in Nat \ {0}
    <3>1. timer <= 1 \/ timer - 1 \in Nat \ {0} BY <2>2
    <3> QED BY <1>1, <3>1
  <2> QED BY <1>1, <2>1, <2>2
<1>3. clock' \in Minutes
  <2>1. W \in Nat \ {0} /\ \A a \in Nat, b \in Nat \ {0} : a % b \in 0..(b - 1) BY CalendarAssumption
  <2>2. clock + 1 \in Nat BY <1>1 DEF Minutes
  <2>3. (clock + 1) % W \in 0..(W - 1)
    <3> HIDE DEF W
    <3> QED BY <2>1, <2>2
  <2> QED BY <1>1, <2>3 DEF Minutes
<1>4. ~(ctl'.pc = "schedule" /\ excused' = {}) BY <1>1
<1>5. ASSUME Resting' PROVE Timed(w, clock', timer', msg)
  <2>1. queued' # "yes" /\ ctl.pc = "idle" /\ excused' = {} /\ ~EndsAtMidnight(w) BY <1>1, <1>5 DEF Resting
  <2>2. queued # "yes" /\ timer # 1 /\ excused = {} BY <1>1, <2>1
  <2>3. Timed(w, clock, timer, msg) BY Zenon, <2>1, <2>2 DEF TimelyInv, Resting
  <2>4. /\ \A e \in Nat : Message(w, clock' + e) = Message(w, clock + (e + 1))
        /\ Message(w, clock' + W - 1) = Message(w, clock)
    <3> HIDE DEF w
    <3> QED BY <1>1, <2>1, MessagesRepeat DEF w
  <2> HIDE DEF w, W, msg
  <2>5. CASE timer = Never
    <3>1. timer' = Never BY <1>1, <2>5 DEF Never
    <3>2. \A t \in Nat : Message(w, t) = msg BY <2>3, <2>5 DEF Timed
    <3>3. clock' \in Nat BY <1>3 DEF Minutes
    <3>4. \A e \in Nat : ~(e + 1 < Never) BY DEF Never
    <3> QED BY <3>1, <3>2, <3>3, <3>4 DEF Timed
  <2>6. CASE timer \in Nat \ {0}
    <3>1. timer' = timer - 1 /\ ~(timer <= 1) BY <1>1, <2>2, <2>6
    <3>2. timer' # Never /\ timer' \in Nat BY SMTT(60), <2>6, <3>1 DEF Never
    <3>3. \A e \in Nat : e + 1 < timer => Message(w, clock + e) = msg BY <2>3 DEF Timed
    <3>4. Message(w, clock + 0) = msg
      <4>1. 0 + 1 < timer /\ 0 \in Nat BY <2>6, <3>1
      <4> QED BY <3>3, <4>1
    <3>5. clock + 0 = clock BY <1>1 DEF Minutes
    <3>6. msg = Message(w, clock' + W - 1) BY <2>4, <3>4, <3>5
    <3>7. ASSUME NEW e \in Nat, e + 1 < timer' PROVE Message(w, clock' + e) = msg
      <4>1. e + 1 \in Nat /\ (e + 1) + 1 < timer BY <2>6, <3>1, <3>7
      <4> QED BY Zenon, <2>4, <3>3, <4>1
    <3> QED BY <3>2, <3>6, <3>7 DEF Timed, W
  <2> QED BY <1>1, <2>5, <2>6
<1> QED BY <1>1, <1>2, <1>3, <1>4, <1>5 DEF TimelyInv

\* The slots of every window are ranges, in which order ever.
LEMMA ValidType ==
  ASSUME NEW hours \in Seq(AnySlots)
  PROVE  ValidateHourRange(hours) \in Seq(AnySlots)
<1> DEFINE in == Turned(hours)
           n == Len(hours)
<1>1. n \in Nat /\ DOMAIN hours = 1..n /\ \A i \in 1..n : hours[i] \in AnySlots OBVIOUS
<1>2. in \in Seq(AnySlots)
  <2>1. ASSUME NEW i \in 1..n
        PROVE  (LET r == hours[i]
                IN  IF r.start < r.end \/ IsMidnight(r.end) THEN r ELSE HourRange(r.end, r.start)) \in AnySlots
    <3>1. hours[i] \in AnySlots BY Zenon, <1>1
    <3> QED BY <3>1 DEF AnySlots, HourRange
  <2>2. in \in [1..n -> AnySlots] BY Zenon, <1>1, <2>1 DEF Turned
  <2> HIDE DEF in, n
  <2> QED BY <1>1, <2>2
<1>3. ValidateHourRange(hours) = MergeHourRanges(in) BY DEF ValidateHourRange, Turned
<1> HIDE DEF in
<1>4. CASE Len(in) < 2
  <2>1. MergeHourRanges(in) = in BY <1>4 DEF MergeHourRanges
  <2> QED BY <1>2, <1>3, <2>1
<1>5. CASE ~(Len(in) < 2)
  <2>1. Len(in) >= 2
    <3>1. Len(in) \in Nat BY <1>2
    <3> QED BY <1>5, <3>1
  <2>2. \E f : MergeHourRanges(in) = f[Len(in)] /\ f[Len(in)] \in Seq(AnySlots) \ {<<>>}
    <3>1. AnySlots \in {Slots, AnySlots} OBVIOUS
    <3> QED BY <1>2, <2>1, <3>1, MergeRuns
  <2> QED BY <1>3, <2>2
<1> QED BY <1>4, <1>5

\* And so are the gaps.
LEMMA ReverseType ==
  ASSUME NEW s \in Seq(AnySlots)
  PROVE  ReverseRange(s) \in Seq(GapRanges)
<1> DEFINE n == Len(s)
           S == [out : Seq(GapRanges), from : 0..(DayLen - 1)]
<1>1. CASE s = <<>>
  <2>1. ReverseRange(s) = <<>> BY <1>1 DEF ReverseRange
  <2> QED BY <2>1
<1>2. CASE s # <<>>
  <2>1. PICK f : /\ f[0] = [out |-> <<>>, from |-> 0]
                 /\ \A i \in DOMAIN s : f[i] = Gap(f[i - 1], s[i])
                 /\ LET last == f[n].from
                        from == IF IsMidnight(last) THEN last + DayLen ELSE last
                    IN  ReverseRange(s) = IF from = DayLen THEN f[n].out
                                          ELSE Append(f[n].out, HourRange(from, DayLen))
    BY <1>2, ReverseRuns
  <2>2. n \in Nat /\ DOMAIN s = 1..n /\ \A i \in 1..n : s[i] \in AnySlots OBVIOUS
  <2> DEFINE X == {i \in Nat : i \in 0..n => f[i] \in S}
  <2>3. 0 \in X
    <3>1. <<>> \in Seq(GapRanges) /\ 0 \in 0..(DayLen - 1) BY SMTT(60), CalendarAssumption
    <3>2. f[0] \in S BY <2>1, <3>1
    <3> HIDE DEF S
    <3> QED BY <3>2
  <2>4. ASSUME NEW i \in Nat, i \in X PROVE i + 1 \in X
    <3> SUFFICES ASSUME i + 1 \in 0..n PROVE f[i + 1] \in S OBVIOUS
    <3>1. i \in 0..n /\ i + 1 \in 1..n BY <2>2
    <3>2. f[i] \in S BY <2>4, <3>1
    <3>3. PICK j \in 1..n : j = i + 1 BY <3>1
    <3>4. j - 1 = i BY <3>3
    <3>5. f[j] = Gap(f[i], s[j]) BY <2>1, <2>2, <3>4
    <3>6. s[j].start \in 0..(DayLen - 1) /\ s[j].end \in 0..(DayLen - 1)
      <4>1. s[j] \in AnySlots BY Zenon, <2>2
      <4> QED BY Zenon, <4>1 DEF AnySlots
    <3>7. Gap(f[i], s[j]) \in S
      <4>1. s[j].start \in 0..DayLen BY <3>6, CalendarAssumption
      <4>2. HourRange(f[i].from, s[j].start) \in GapRanges BY <3>2, <4>1 DEF HourRange, GapRanges
      <4>3. Append(f[i].out, HourRange(f[i].from, s[j].start)) \in Seq(GapRanges) BY <3>2, <4>2
      <4> QED BY <3>2, <3>6, <4>3 DEF Gap
    <3> HIDE DEF S
    <3> QED BY Zenon, <3>3, <3>5, <3>7
  <2>5. n \in X
    <3> HIDE DEF X, n
    <3>1. Nat \subseteq X BY <2>3, <2>4, SetInduction
    <3> QED BY <2>2, <3>1
  <2>6. f[n] \in S BY <2>2, <2>5
  <2> DEFINE last == f[n].from
             out == f[n].out
             from == IF IsMidnight(last) THEN last + DayLen ELSE last
  <2>7. last \in 0..(DayLen - 1) /\ out \in Seq(GapRanges) BY Zenon, <2>6
  <2>8. ReverseRange(s) = IF from = DayLen THEN out ELSE Append(out, HourRange(from, DayLen)) BY <2>1
  <2> HIDE DEF last, out
  <2>9. CASE from = DayLen BY <2>7, <2>8, <2>9
  <2>10. CASE from # DayLen
    <3>1. last # 0 => ~IsMidnight(last) BY <2>7, MinuteFacts DEF IsMidnight
    <3>2. last = 0 => from = DayLen
      <4>1. IsMidnight(0) BY MinuteFacts, CalendarAssumption DEF IsMidnight
      <4> QED BY <4>1, CalendarAssumption
    <3>3. from = last BY Zenon, <2>10, <3>1, <3>2
    <3>4. HourRange(from, DayLen) \in GapRanges BY <2>7, <3>3, CalendarAssumption DEF HourRange, GapRanges
    <3> HIDE DEF from
    <3> QED BY <2>7, <2>8, <2>10, <3>4
  <2> QED BY Zenon, <2>9, <2>10
<1> QED BY <1>1, <1>2

\* The points that are generated from any slots are in the future.
LEMMA PointType ==
  ASSUME NEW slots \in Seq(GapRanges), NEW days, days \subseteq Days, NEW t \in Nat, NEW blocked \in BOOLEAN
  PROVE  GenerateNextPoint(slots, days, t, blocked) \in Nat
<1> DEFINE m == TimeOfDay(t)
           n == Len(slots)
           today == TillNextSlotInCurrentDay(slots, t)
           tomorrow == TillNextSlotFromMidnight(slots)
           ahead == DurationToNextRunnableWeekday(days, slots, t)
<1>1. n \in Nat /\ DOMAIN slots = 1..n /\ \A k \in 1..n : slots[k] \in GapRanges OBVIOUS
<1>2. m \in Nat /\ TillMidnight(t) \in Nat /\ \A k \in 1..n : slots[k].start \in Nat
  <2>1. m \in 0..(DayLen - 1) BY Zenon, TimeFacts
  <2>2. TillMidnight(t) \in Nat BY <2>1, CalendarAssumption DEF TillMidnight
  <2>3. \A k \in 1..n : slots[k].start \in Nat
    <3> HIDE DEF n
    <3> QED BY <1>1 DEF GapRanges
  <2> QED BY <2>1, <2>2, <2>3
<1>3. ahead \in Nat BY DurationFacts
<1>4. slots # <<>> => tomorrow \in Nat BY FromMidnightFacts
<1>5. ASSUME NEW I, I \subseteq 1..n PROVE LET i == IF I # {} THEN Least(I) ELSE 0 IN i = 0 \/ i \in 1..n
  <2>1. CASE I = {} BY <2>1
  <2>2. CASE I # {}
    <3>1. I \subseteq Nat BY <1>5
    <3>2. \E x \in I : \A y \in I : x <= y BY Zenon, <2>2, <3>1, LeastNumber
    <3>3. Least(I) \in I BY <3>2 DEF Least
    <3> QED BY Zenon, <1>5, <2>2, <3>3
  <2> QED BY <2>1, <2>2
<1>6. today \in Nat \cup {-1}
  <2> DEFINE Test(s) == m <= s.start \/ m <= s.end \/ IsMidnight(s.end)
             I == {k \in 1..Len(slots) : Test(slots[k])}
             i == IF I # {} THEN Least(I) ELSE 0
  <2>1. today = IF i = 0 THEN -1 ELSE IF slots[i].start < m THEN 0 ELSE slots[i].start - m
    BY DEF TillNextSlotInCurrentDay, FirstFit
  <2>2. I \subseteq 1..n OBVIOUS
  <2>3. i = 0 \/ i \in 1..n
    <3> HIDE DEF I, n
    <3> QED BY Zenon, <1>5, <2>2
  <2> HIDE DEF i, today, m, n
  <2> QED BY SMTT(60), <1>2, <2>1, <2>3
<1>7. slots # <<>> => TillNextSlot(slots, t) \in Nat
  <2> DEFINE Test(s) == m <= s.start \/ m <= s.end
             I == {k \in 1..Len(slots) : Test(slots[k])}
             i == IF I # {} THEN Least(I) ELSE 0
             N == TillNextSlot(slots, t)
  <2>1. N = IF slots[n].end < m THEN TillMidnight(t) + slots[1].start
            ELSE IF i = 0 \/ slots[i].start < m THEN 0 ELSE slots[i].start - m
    BY DEF TillNextSlot, FirstFit
  <2>2. I \subseteq 1..n OBVIOUS
  <2>3. i = 0 \/ i \in 1..n
    <3> HIDE DEF I, n
    <3> QED BY Zenon, <1>5, <2>2
  <2>4. slots # <<>> => 1 \in 1..n BY <1>1
  <2> HIDE DEF i, m, n, N
  <2>5. slots # <<>> => N \in Nat BY SMTT(60), <1>2, <2>1, <2>3, <2>4
  <2> QED BY Zenon, <2>5 DEF N
<1>8. NextPointActive(slots, days, t) \in Nat
  <2>1. NextPointActive(slots, days, t) =
          IF slots = <<>> THEN IF Weekday(t) \in days THEN 0 ELSE TillMidnight(t) + ahead
          ELSE IF days = {} THEN TillNextSlot(slots, t)
          ELSE IF Weekday(t) \in days /\ ahead = 0 /\ today >= 0 THEN today
          ELSE TillMidnight(t) + tomorrow + ahead
    BY DEF NextPointActive
  <2> HIDE DEF today, ahead, tomorrow
  <2>2. today >= 0 => today \in Nat BY <1>6
  <2> QED BY SMTT(60), <1>2, <1>3, <1>4, <1>7, <2>1, <2>2
<1>9. NextPointBlocked(slots, days, t) \in Nat
  <2> DEFINE now == IF slots = <<>> THEN -1 ELSE today
             rest == IF slots = <<>> THEN ahead ELSE IF Weekday(t + DayLen) \in days THEN 0 ELSE tomorrow
  <2>1. NextPointBlocked(slots, days, t) =
          IF Weekday(t) \in days THEN 0 ELSE IF now >= 0 THEN now ELSE TillMidnight(t) + rest
    BY DEF NextPointBlocked
  <2> HIDE DEF today, ahead, tomorrow
  <2>2. now >= 0 => now \in Nat BY <1>6
  <2>3. rest \in Nat BY <1>3, <1>4
  <2> HIDE DEF now, rest
  <2> QED BY <1>2, <2>1, <2>2, <2>3
<1> QED BY <1>8, <1>9 DEF GenerateNextPoint

\* And so is the next look at the status.
LEMMA StatusPoint ==
  ASSUME NEW tw, tw.hours \in Seq(AnySlots), NEW t \in Nat
  PROVE  NextStatusReconcile(tw, t) \in Nat
<1> DEFINE s == ValidateHourRange(tw.hours)
           R == ReverseRange(s)
<1>1. s \in Seq(AnySlots) BY ValidType
<1> HIDE DEF s
<1>2. R \in Seq(GapRanges) BY <1>1, ReverseType
<1>3. s \in Seq(GapRanges)
  <2>1. AnySlots \subseteq GapRanges BY CalendarAssumption DEF AnySlots, GapRanges
  <2> QED BY <1>1, <2>1
<1>4. RunDays(tw) \subseteq Days /\ OtherDays(tw) \subseteq Days BY DEF RunDays, OtherDays
<1> HIDE DEF R
<1>5. NextStartPoint(tw, t) \in Nat
  <2>1. NextStartPoint(tw, t) = IF tw.type = "blocked" THEN GenerateNextPoint(R, OtherDays(tw), t, TRUE)
                                ELSE GenerateNextPoint(s, RunDays(tw), t, FALSE)
    BY DEF NextStartPoint, R, s
  <2> QED BY Zenon, <1>2, <1>3, <1>4, <2>1, PointType
<1> DEFINE until == IF tw.type = "blocked" THEN s ELSE R
<1>6. GenerateNextPoint(until, RunDays(tw), t, FALSE) \in Nat BY Zenon, <1>2, <1>3, <1>4, PointType
<1>7. NextStatusReconcile(tw, t) =
        IF tw.days = {} /\ tw.hours = <<>> THEN 0
        ELSE IF IsInWindow(tw, t) THEN GenerateNextPoint(until, RunDays(tw), t, FALSE) + 1
        ELSE NextStartPoint(tw, t) + 1
  BY DEF NextStatusReconcile, R, s
<1>8. \A x \in Nat : x + 1 \in Nat OBVIOUS
<1> HIDE DEF until
<1>9. GenerateNextPoint(until, RunDays(tw), t, FALSE) + 1 \in Nat /\ NextStartPoint(tw, t) + 1 \in Nat
  BY Zenon, <1>5, <1>6, <1>8
<1>10. 0 \in Nat BY Zenon
<1> QED BY <1>7, <1>9, <1>10, Zenon

\* The status is written, and the next call is asked for.
LEMMA TimelyUpdate == TimelyInv /\ UpdateStatus => TimelyInv'
<1> SUFFICES ASSUME TimelyInv, UpdateStatus PROVE TimelyInv' OBVIOUS
<1> DEFINE w == sub.window
           next == NextStatusReconcile(w, clock)
           after == IF ctl.error = "yes" THEN RetryLen ELSE IF next = 0 THEN Never ELSE next
<1>1. /\ clock \in Minutes /\ w \in Windows /\ (timer = Never \/ timer \in Nat \ {0})
      /\ ctl.pc = "schedule" /\ ctl' = Idle /\ clock' = clock /\ sub' = sub
  BY DEF TimelyInv, UpdateStatus
<1>2. ctl'.pc = "idle" BY Zenon, <1>1 DEF Idle
<1>3. CASE queued' = "yes" /\ UNCHANGED <<status, timer, excused>> BY Zenon, <1>1, <1>2, <1>3 DEF TimelyInv, Resting
<1>4. CASE /\ Ok /\ ctl.fresh = "yes"
           /\ status' = [message |-> ctl.message, phase |-> IF ctl.error = "yes" THEN "failed" ELSE "subscribed"]
           /\ timer' = Earlier(timer, after)
           /\ excused' = excused \cup (IF ctl.error = "yes" THEN {"failed"} ELSE {})
                                  \cup (IF LastDayOver(sub.window, clock) THEN {"week"} ELSE {})
           /\ UNCHANGED queued
  <2>1. status'.message = ctl.message BY Zenon, <1>4
  <2>2. timer' = IF timer = Never \/ (after # Never /\ after < timer) THEN after ELSE timer BY <1>4 DEF Earlier
  <2>3. clock \in Nat BY <1>1 DEF Minutes
  <2>4. w.type \in {"active", "blocked"} /\ w.hours \in Seq(AnySlots) BY Zenon, <1>1, WindowAssumption DEF AnySlots
  <2>5. ASSUME after = Never \/ after \in Nat \ {0} PROVE timer' = Never \/ timer' \in Nat \ {0}
    <3> HIDE DEF after
    <3> QED BY <1>1, <2>2, <2>5
  <2>6. NextStatusReconcile(w, clock) \in Nat
    <3> HIDE DEF w
    <3> QED BY <2>3, <2>4, StatusPoint
  <2>7. after = Never \/ after \in Nat \ {0}
    <3> HIDE DEF next
    <3> QED BY <2>6, StatusAssumption DEF next
  <2>8. ASSUME Resting' PROVE Timed(w, clock, timer', ctl.message)
    <3>1. excused' = {} /\ ~EndsAtMidnight(w) BY <1>1, <2>8 DEF Resting
    <3>2. excused = {} /\ ctl.error # "yes" /\ ~LastDayOver(w, clock) BY Zenon, <1>4, <3>1
    <3>3. ctl.message = Message(w, clock) BY Zenon, <1>1, <1>4, <3>2 DEF TimelyInv
    <3>4. /\ next = 0 => \A u \in Nat : IsInWindow(w, u)
          /\ \A e \in Nat : e + 1 < next => (IsInWindow(w, clock + e) <=> IsInWindow(w, clock))
      <4> HIDE DEF w
      <4> QED BY <2>3, <2>4, <3>1, <3>2, NoSkip
    <3>5. next \in Nat BY <2>6
    <3> HIDE DEF next, w
    <3>6. CASE next = 0
      <4>1. \A u \in Nat : Message(w, u) = "active" BY <3>4, <3>6 DEF Message
      <4>2. \A e \in Nat : clock + e \in Nat BY <2>3
      <4> QED BY <2>3, <3>3, <4>1, <4>2 DEF Timed
    <3>7. CASE next # 0
      <4>1. after = next BY <3>2, <3>7
      <4>2. timer' \in Nat /\ timer' <= next
        <5>1. after # Never BY <3>5, <4>1 DEF Never
        <5> HIDE DEF after
        <5> QED BY <1>1, <2>2, <3>5, <4>1, <5>1
      <4>3. timer' # Never BY <4>2 DEF Never
      <4>4. ASSUME NEW e \in Nat, e + 1 < timer' PROVE Message(w, clock + e) = ctl.message
        <5>1. e + 1 < next BY <3>5, <4>2, <4>4
        <5> QED BY <3>3, <3>4, <5>1 DEF Message
      <4> QED BY <3>3, <4>3, <4>4 DEF Timed
    <3> QED BY <3>6, <3>7
  <2> QED BY Zenon, <1>1, <1>2, <2>1, <2>5, <2>7, <2>8 DEF TimelyInv
<1> QED BY Zenon, <1>3, <1>4 DEF UpdateStatus

\* Whatever the user asks for, and whenever: a resting controller's message is that
\* of the present minute or of the one before.
THEOREM MessagesAreTimely == Spec => []StatusTimely
<1>1. Init => TimelyInv BY DEF Init, TimelyInv, Resting, Idle
<1>2. TimelyInv /\ [Next]_vars => TimelyInv'
  <2> SUFFICES ASSUME TimelyInv, [Next]_vars PROVE TimelyInv' OBVIOUS
  <2>1. CASE Edit
    <3>1. sub'.window \in Windows
      <4>1. CASE \E w \in Windows \ {sub.window} : sub' = [sub EXCEPT !.window = w]
        BY <4>1 DEF TimelyInv
      <4>2. CASE sub' = [sub EXCEPT !.paused = IF @ = "yes" THEN "no" ELSE "yes"] BY <4>2 DEF TimelyInv
      <4> QED BY <2>1, <4>1, <4>2 DEF Edit
    <3>2. clock' = clock /\ timer' = timer /\ queued' = "yes" /\ ctl' = [ctl EXCEPT !.fresh = "no"] BY <2>1 DEF Edit
    <3> QED BY <3>1, <3>2 DEF TimelyInv, Resting
  <2>2. CASE Tick BY <2>2, TimelyTick
  <2>3. CASE Reconcile
    <3>1. UNCHANGED <<clock, sub, status, timer, excused>> BY <2>3 DEF Reconcile
    <3>2. CASE UNCHANGED <<ctl, queued>> BY Zenon, <3>1, <3>2 DEF TimelyInv, Resting
    <3>3. CASE ctl'.pc = "message" BY <3>1, <3>3 DEF TimelyInv, Resting
    <3> QED BY Zenon, <2>3, <3>2, <3>3 DEF Reconcile, Idle
  <2>4. CASE SetMessage
    <3>1. UNCHANGED <<clock, sub, status, queued, timer>> BY ZenonT(60), <2>4 DEF SetMessage
    <3>2. CASE sub.paused = "yes"
      <4>1. ctl'.pc = "idle" /\ excused' = {"paused"} BY <2>4, <3>2 DEF SetMessage, Idle
      <4> QED BY <3>1, <4>1 DEF TimelyInv, Resting
    <3>3. CASE sub.paused # "yes"
      <4>1. ctl' = [ctl EXCEPT !.pc = "schedule", !.fresh = "yes", !.message = Message(sub.window, clock)]
        BY Zenon, <2>4, <3>3 DEF SetMessage
      <4> QED BY <3>1, <4>1 DEF TimelyInv, Resting
    <3> QED BY <3>2, <3>3
  <2>5. CASE UpdateStatus BY <2>5, TimelyUpdate
  <2>6. CASE UNCHANGED vars BY <2>6 DEF vars, TimelyInv, Resting
  <2> QED BY Zenon, <2>1, <2>2, <2>3, <2>4, <2>5, <2>6 DEF Next, Controller
<1>3. TimelyInv => StatusTimely
  <2> SUFFICES ASSUME TimelyInv, Resting
               PROVE  \E ago \in {0, 1} : status.message = Message(sub.window, clock + WeekLen * DayLen - ago)
    BY DEF StatusTimely, Resting
  <2> DEFINE w == sub.window
             W == WeekLen * DayLen
  <2>1. status.message = Message(w, clock) \/ status.message = Message(w, clock + W - 1)
    BY DEF TimelyInv, Timed
  <2>2. Message(w, clock + W) = Message(w, clock)
    <3>1. w \in Windows /\ clock \in Minutes /\ ~EndsAtMidnight(w) BY DEF TimelyInv, Resting
    <3> HIDE DEF w
    <3> QED BY <3>1, MessagesRepeat
  <2>3. clock + W - 0 = clock + W BY CalendarAssumption DEF TimelyInv, Minutes
  <2> HIDE DEF w, W
  <2>4. \E ago \in {0, 1} : status.message = Message(w, clock + W - ago) BY <2>1, <2>2, <2>3
  <2> QED BY <2>4 DEF w, W
<1> QED BY <1>1, <1>2, <1>3, PTL DEF Spec

=============================================================================
