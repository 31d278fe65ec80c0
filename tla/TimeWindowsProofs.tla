------------------------- MODULE TimeWindowsProofs -------------------------
(***************************************************************************)
(* What the operators of TimeWindows compute, for days and weeks of any     *)
(* length and any number of ranges of the day: what sorting, merging and    *)
(* reversing the ranges makes of them, and the time that the code finds to  *)
(* be left until the next one.                                              *)
(***************************************************************************)
EXTENDS SubscriptionStatus, WellFoundedInduction, TLAPS

----------------------------------------------------------------------------
(* Numbers.                                                                  *)

\* Some numbers have a least one.
LEMMA LeastNumber ==
  ASSUME NEW S, S \subseteq Nat, S # {}
  PROVE  \E x \in S : \A y \in S : x <= y
<1> DEFINE R == {ss \in Nat \X Nat : ss[1] < ss[2]}
<1>1. IsWellFoundedOn(R, Nat) BY NatLessThanWellFounded DEF OpToRel
<1>2. PICK x \in S : \A y \in S : <<y, x>> \notin R
  <2> HIDE DEF R
  <2> QED BY Zenon, <1>1, WFMin
<1>3. ASSUME NEW y \in S PROVE x <= y
  <2>1. x \in Nat /\ y \in Nat OBVIOUS
  <2>2. <<y, x>> \in R <=> y < x BY <2>1
  <2> HIDE DEF R
  <2> QED BY <1>2, <2>1, <2>2
<1> QED BY <1>3

\* A set of numbers that has 0, and with every number the next, has them all.
LEMMA SetInduction ==
  ASSUME NEW S, 0 \in S, \A n \in Nat : n \in S => n + 1 \in S
  PROVE  Nat \subseteq S
<1> SUFFICES ASSUME Nat \ S # {} PROVE FALSE OBVIOUS
<1>1. PICK x \in Nat \ S : \A y \in Nat \ S : x <= y BY Zenon, LeastNumber
<1>2. x - 1 \in Nat \ S BY <1>1
<1> QED BY <1>1, <1>2


\* The values of a recursion up to n.
Runs(S, a, F, n) == {g \in [0..n -> S] : g[0] = a /\ \A i \in 1..n : g[i] = F[i][g[i - 1]]}

\* There are such values, for every n.
LEMMA RunsExist ==
  ASSUME NEW S, NEW a \in S, NEW F \in [Nat -> [S -> S]], NEW n \in Nat
  PROVE  Runs(S, a, F, n) # {}
<1> DEFINE T == {k \in Nat : Runs(S, a, F, k) # {}}
<1>1. 0 \in T
  <2>1. [i \in 0..0 |-> a] \in Runs(S, a, F, 0) BY DEF Runs
  <2> QED BY <2>1
<1>2. ASSUME NEW k \in Nat, k \in T PROVE k + 1 \in T
  <2>1. PICK g : g \in Runs(S, a, F, k) BY <1>2
  <2>2. g \in [0..k -> S] /\ g[0] = a /\ \A i \in 1..k : g[i] = F[i][g[i - 1]] BY <2>1 DEF Runs
  <2> DEFINE h == [i \in 0..(k + 1) |-> IF i = k + 1 THEN F[k + 1][g[k]] ELSE g[i]]
  <2> HIDE DEF T
  <2>3. h \in [0..(k + 1) -> S]
    <3>1. g[k] \in S /\ F[k + 1] \in [S -> S] BY <2>2
    <3>2. F[k + 1][g[k]] \in S BY <3>1
    <3> QED BY <2>2, <3>2
  <2>4. h[0] = a /\ h[k + 1] = F[k + 1][g[k]] /\ \A i \in 0..k : h[i] = g[i] BY <2>2
  <2> HIDE DEF h
  <2>5. ASSUME NEW i \in 1..(k + 1) PROVE h[i] = F[i][h[i - 1]]
    <3>1. i - 1 \in 0..k /\ h[i - 1] = g[i - 1] BY <2>4
    <3>2. CASE i = k + 1 BY <2>4, <3>1, <3>2
    <3>3. CASE i # k + 1
      <4>1. i \in 1..k BY <3>3
      <4> QED BY <2>2, <2>4, <3>1, <4>1
    <3> QED BY <3>2, <3>3
  <2>6. h \in Runs(S, a, F, k + 1) BY <2>3, <2>4, <2>5 DEF Runs
  <2> QED BY <2>6 DEF T
<1> HIDE DEF T
<1>3. Nat \subseteq T BY <1>1, <1>2, SetInduction
<1> QED BY <1>3 DEF T


\* The orders of 1..n that put the values of f in order.
Orders(n, f) == {o \in Bijection(1..n, 1..n) : \A i, j \in 1..n : i < j => f[o[i]] <= f[o[j]]}

\* There is one, for every n: the index of a greatest value goes to the end.
LEMMA OrdersExist ==
  ASSUME NEW n \in Nat, NEW f \in [1..n -> Nat]
  PROVE  Orders(n, f) # {}
<1> DEFINE T == {k \in Nat : \A g \in [1..k -> Nat] : Orders(k, g) # {}}
<1>1. 0 \in T
  <2>1. ASSUME NEW g \in [1..0 -> Nat] PROVE [i \in 1..0 |-> i] \in Orders(0, g)
    BY DEF Orders, Bijection, Injection, Surjection, IsInjective
  <2> QED BY <2>1
<1>2. ASSUME NEW k \in Nat, k \in T PROVE k + 1 \in T
  <2>1. SUFFICES ASSUME NEW g \in [1..(k + 1) -> Nat] PROVE Orders(k + 1, g) # {} OBVIOUS
  <2>2. \A p \in [1..k -> Nat] : Orders(k, p) # {} BY Zenon, <1>2
  <2> HIDE DEF T
  <2>3. PICK top \in 1..(k + 1) : \A i \in 1..(k + 1) : g[i] <= g[top]
    <3> DEFINE H == {j \in Nat : \E top \in 1..(k + 1) : \A i \in 1..(k + 1) : i <= j => g[i] <= g[top]}
    <3>1. 0 \in H
      <4>1. 1 \in 1..(k + 1) OBVIOUS
      <4> QED BY <4>1
    <3>2. ASSUME NEW j \in Nat, j \in H PROVE j + 1 \in H
      <4>1. PICK top \in 1..(k + 1) : \A i \in 1..(k + 1) : i <= j => g[i] <= g[top] BY <3>2
      <4> HIDE DEF H
      <4>2. \E new \in 1..(k + 1) : \A i \in 1..(k + 1) : i <= j + 1 => g[i] <= g[new]
        <5>1. CASE j + 1 \in 1..(k + 1) /\ g[top] < g[j + 1]
          <6>1. ASSUME NEW i \in 1..(k + 1), i <= j + 1 PROVE g[i] <= g[j + 1]
            <7>1. CASE i = j + 1 BY <5>1, <7>1
            <7>2. CASE i # j + 1
              <8>1. g[i] <= g[top] BY <4>1, <6>1, <7>2
              <8>2. g[i] \in Nat /\ g[top] \in Nat /\ g[j + 1] \in Nat BY <5>1
              <8> QED BY <5>1, <8>1, <8>2
            <7> QED BY <7>1, <7>2
          <6> QED BY <5>1, <6>1
        <5>2. CASE ~(j + 1 \in 1..(k + 1) /\ g[top] < g[j + 1])
          <6>1. ASSUME NEW i \in 1..(k + 1), i <= j + 1 PROVE g[i] <= g[top]
            <7>1. g[i] \in Nat /\ g[top] \in Nat OBVIOUS
            <7>2. CASE i = j + 1 BY <5>2, <7>1, <7>2
            <7>3. CASE i # j + 1 BY <4>1, <6>1, <7>3
            <7> QED BY <7>2, <7>3
          <6> QED BY <6>1
        <5> QED BY <5>1, <5>2
      <4> QED BY <4>2 DEF H
    <3> HIDE DEF H
    <3>3. k + 1 \in H BY Zenon, <3>1, <3>2, SetInduction
    <3>4. PICK top \in 1..(k + 1) : \A i \in 1..(k + 1) : i <= k + 1 => g[i] <= g[top] BY <3>3 DEF H
    <3> QED BY <3>4
  <2> DEFINE p == [i \in 1..k |-> IF i = top THEN g[k + 1] ELSE g[i]]
  <2>4. p \in [1..k -> Nat] OBVIOUS
  <2>5. PICK o : o \in Orders(k, p) BY Zenon, <2>2, <2>4
  <2>6. /\ o \in [1..k -> 1..k]
        /\ \A i, j \in 1..k : o[i] = o[j] => i = j
        /\ \A t \in 1..k : \E s \in 1..k : o[s] = t
        /\ \A i, j \in 1..k : i < j => p[o[i]] <= p[o[j]]
    <3>1. DOMAIN o = 1..k BY <2>5 DEF Orders, Bijection, Injection, Surjection
    <3> QED BY Zenon, <2>5, <3>1 DEF Orders, Bijection, Injection, Surjection, IsInjective
  <2> DEFINE q == [i \in 1..(k + 1) |-> IF i = k + 1 THEN top ELSE IF o[i] = top THEN k + 1 ELSE o[i]]
  <2>7. \A i \in 1..(k + 1) : i # k + 1 => i \in 1..k OBVIOUS
  <2>8. q \in [1..(k + 1) -> 1..(k + 1)]
    <3>1. ASSUME NEW i \in 1..k PROVE o[i] \in 1..(k + 1)
      <4>1. o[i] \in 1..k BY Zenon, <2>6
      <4> QED BY <4>1
    <3>2. k + 1 \in 1..(k + 1) OBVIOUS
    <3> QED BY <2>7, <3>1, <3>2
  <2>9. /\ q[k + 1] = top
        /\ \A i \in 1..k : q[i] = (IF o[i] = top THEN k + 1 ELSE o[i])
        /\ \A i \in 1..k : q[i] # top
        /\ \A i \in 1..k : g[q[i]] = p[o[i]]
    <3>1. q[k + 1] = top OBVIOUS
    <3>2. \A i \in 1..k : q[i] = (IF o[i] = top THEN k + 1 ELSE o[i]) OBVIOUS
    <3> HIDE DEF q
    <3>3. ASSUME NEW i \in 1..k PROVE q[i] # top /\ g[q[i]] = p[o[i]]
      <4>1. o[i] \in 1..k BY Zenon, <2>6
      <4>2. CASE o[i] = top BY <3>2, <4>1, <4>2
      <4>3. CASE o[i] # top BY Zenon, <3>2, <4>1, <4>3
      <4> QED BY <4>2, <4>3
    <3> QED BY Zenon, <3>1, <3>2, <3>3
  <2> HIDE DEF q, p
  <2>10. ASSUME NEW i \in 1..(k + 1), NEW j \in 1..(k + 1), q[i] = q[j] PROVE i = j
    <3>1. CASE i = k + 1 /\ j # k + 1 BY <2>7, <2>9, <2>10, <3>1
    <3>2. CASE j = k + 1 /\ i # k + 1 BY <2>7, <2>9, <2>10, <3>2
    <3>3. CASE i # k + 1 /\ j # k + 1
      <4>1. i \in 1..k /\ j \in 1..k BY <2>7, <3>3
      <4>2. o[i] \in 1..k /\ o[j] \in 1..k BY Zenon, <2>6, <4>1
      <4>3. o[i] = o[j] BY Zenon, <2>9, <2>10, <4>1, <4>2
      <4> QED BY <2>6, <4>1, <4>3
    <3> QED BY <3>1, <3>2, <3>3
  <2>11. ASSUME NEW t \in 1..(k + 1) PROVE \E s \in 1..(k + 1) : q[s] = t
    <3>1. k + 1 \in 1..(k + 1) /\ 1..k \subseteq 1..(k + 1) OBVIOUS
    <3>2. CASE t = top BY <2>9, <3>1, <3>2
    <3>3. CASE t # top /\ t # k + 1
      <4>1. PICK s \in 1..k : o[s] = t BY <2>6, <2>7, <3>3
      <4> QED BY Zenon, <2>9, <3>1, <3>3, <4>1
    <3>4. CASE t # top /\ t = k + 1
      <4>1. PICK s \in 1..k : o[s] = top BY <2>6, <2>7, <3>4
      <4> QED BY <2>9, <3>1, <3>4, <4>1
    <3> QED BY <3>2, <3>3, <3>4
  <2>12. ASSUME NEW i \in 1..(k + 1), NEW j \in 1..(k + 1), i < j PROVE g[q[i]] <= g[q[j]]
    <3>1. i \in 1..k BY <2>12
    <3>2. CASE j = k + 1 BY Zenon, <2>3, <2>8, <2>9, <3>2
    <3>3. CASE j # k + 1 BY Zenon, <2>6, <2>7, <2>9, <2>12, <3>1, <3>3
    <3> QED BY <3>2, <3>3
  <2>13. q \in Orders(k + 1, g)
    <3>1. DOMAIN q = 1..(k + 1) BY <2>8
    <3> QED BY Zenon, <2>8, <2>10, <2>11, <2>12, <3>1 DEF Orders, Bijection, Injection, Surjection, IsInjective
  <2> QED BY <2>13
<1> HIDE DEF T
<1>3. Nat \subseteq T BY Zenon, <1>1, <1>2, SetInduction
<1> QED BY <1>3 DEF T

(* The ranges of the day: what sorting and merging makes of them.           *)

\* Ranges that do not end at midnight.
Slots == [start : 0..(DayLen - 1), end : 1..(DayLen - 1)]

\* Ranges as they are written: one that ends at 0 ends at midnight.
AnySlots == [start : 0..(DayLen - 1), end : 0..(DayLen - 1)]

\* One after the other, with a gap between any two of them.
Disjoint(s) ==
    /\ s \in Seq(Slots) /\ s # <<>>
    /\ \A i \in DOMAIN s : s[i].start <= s[i].end
    /\ \A i, j \in DOMAIN s : i < j => s[i].end < s[j].start

\* The minute m is in a range; it or the minute before it is; it and the next is.
Touches(r, m) == r.start <= m /\ m <= r.end
Ends(r, m) == r.start < m /\ m <= r.end
Begins(r, m) == r.start <= m /\ m < r.end

\* The ranges of s cover what those of t with the indexes in I cover.
Covers(s, t, I) ==
    \A m \in Nat :
        /\ (\E i \in DOMAIN s : Touches(s[i], m)) <=> \E i \in I : Touches(t[i], m)
        /\ (\E i \in DOMAIN s : Ends(s[i], m)) <=> \E i \in I : Ends(t[i], m)
        /\ (\E i \in DOMAIN s : Begins(s[i], m)) <=> \E i \in I : Begins(t[i], m)

\* Sorting keeps the ranges and puts their starts in order.
LEMMA SortedFacts ==
  ASSUME NEW T \in {Slots, AnySlots}, NEW in \in Seq(T)
  PROVE  /\ SortedByStart(in) \in Seq(T) /\ DOMAIN SortedByStart(in) = DOMAIN in
         /\ \A i, j \in DOMAIN in : i < j => SortedByStart(in)[i].start <= SortedByStart(in)[j].start
         /\ \A i \in DOMAIN in : \E j \in DOMAIN in : SortedByStart(in)[i] = in[j]
         /\ \A j \in DOMAIN in : \E i \in DOMAIN in : SortedByStart(in)[i] = in[j]
<1> DEFINE n == Len(in)
           f == [i \in 1..n |-> in[i].start]
           ds == DOMAIN in
           order == CHOOSE o \in Bijection(ds, ds) :
                        \A i, j \in ds : i < j => in[o[i]].start <= in[o[j]].start
<1>1. n \in Nat /\ ds = 1..n /\ \A i \in ds : in[i] \in T OBVIOUS
<1>2. f \in [1..n -> Nat]
  <2>1. ASSUME NEW i \in 1..n PROVE in[i].start \in Nat
    <3>1. in[i] \in T BY <1>1
    <3>2. \A r \in Slots \cup AnySlots : r.start \in 0..(DayLen - 1) BY DEF Slots, AnySlots
    <3>3. in[i].start \in 0..(DayLen - 1) BY <3>1, <3>2
    <3> QED BY <3>3
  <2> QED BY <2>1
<1>3. PICK p : p \in Orders(n, f) BY Zenon, <1>1, <1>2, OrdersExist
<1>4. p \in Bijection(ds, ds) /\ p \in [ds -> ds] BY <1>1, <1>3 DEF Orders, Bijection, Injection
<1>5. ASSUME NEW i \in ds, NEW j \in ds, i < j PROVE in[p[i]].start <= in[p[j]].start
  <2>1. f[p[i]] <= f[p[j]] BY Zenon, <1>1, <1>3, <1>5 DEF Orders
  <2>2. p[i] \in 1..n /\ p[j] \in 1..n BY Zenon, <1>1, <1>4
  <2> QED BY <2>1, <2>2
<1>6. /\ order \in Bijection(ds, ds)
      /\ \A i, j \in ds : i < j => in[order[i]].start <= in[order[j]].start
  <2> HIDE DEF n, f, ds
  <2> QED BY <1>4, <1>5
<1>7. SortedByStart(in) = [i \in ds |-> in[order[i]]] BY DEF SortedByStart
<1>8. order \in [ds -> ds] /\ \A t \in ds : \E s \in ds : order[s] = t
  <2> HIDE DEF order
  <2> QED BY <1>6 DEF Bijection, Injection, Surjection
<1> HIDE DEF order
<1>9. SortedByStart(in) \in Seq(T)
  <2>1. SortedByStart(in) \in [1..n -> T] BY <1>1, <1>7, <1>8
  <2> HIDE DEF n
  <2> QED BY <1>1, <2>1
<1>10. DOMAIN SortedByStart(in) = DOMAIN in BY <1>7
<1>11. \A i \in ds : SortedByStart(in)[i] = in[order[i]] BY <1>7
<1> HIDE DEF ds, n, f
<1>12. /\ \A i, j \in ds : i < j => SortedByStart(in)[i].start <= SortedByStart(in)[j].start
       /\ \A i \in ds : \E j \in ds : SortedByStart(in)[i] = in[j]
       /\ \A j \in ds : \E i \in ds : SortedByStart(in)[i] = in[j]
  BY <1>6, <1>8, <1>11
<1> QED BY <1>9, <1>10, <1>12 DEF ds

\* A range that begins after the last one joins it or follows it.
LEMMA JoinFacts ==
  ASSUME NEW out, Disjoint(out), NEW r \in Slots, r.start <= r.end, out[Len(out)].start <= r.start
  PROVE  /\ Disjoint(Join(out, r))
         /\ Join(out, r)[Len(Join(out, r))].start <= r.start
         /\ \A m \in Nat :
              /\ (\E i \in DOMAIN Join(out, r) : Touches(Join(out, r)[i], m))
                   <=> Touches(r, m) \/ \E i \in DOMAIN out : Touches(out[i], m)
              /\ (\E i \in DOMAIN Join(out, r) : Ends(Join(out, r)[i], m))
                   <=> Ends(r, m) \/ \E i \in DOMAIN out : Ends(out[i], m)
              /\ (\E i \in DOMAIN Join(out, r) : Begins(Join(out, r)[i], m))
                   <=> Begins(r, m) \/ \E i \in DOMAIN out : Begins(out[i], m)
<1> DEFINE n == Len(out)
           J == Join(out, r)
           last == out[n]
           e == IF last.end < r.end THEN r.end ELSE last.end
<1>1. /\ out \in Seq(Slots) /\ n \in Nat \ {0} /\ DOMAIN out = 1..n
      /\ \A i \in 1..n : out[i] \in Slots /\ out[i].start <= out[i].end
      /\ \A i, j \in 1..n : i < j => out[i].end < out[j].start
  BY DEF Disjoint
<1>2. /\ \A i \in 1..n : out[i].start \in Nat /\ out[i].end \in Nat
      /\ r.start \in Nat /\ r.end \in Nat /\ n \in 1..n
  BY <1>1, CalendarAssumption DEF Slots
<1>3. CASE r.start <= last.end
  <2>1. J = [out EXCEPT ![n] = [last EXCEPT !.end = e]] BY <1>3, <1>1 DEF Join
  <2>2. [last EXCEPT !.end = e] \in Slots BY <1>1 DEF Slots
  <2>3. /\ J \in Seq(Slots) /\ Len(J) = n /\ DOMAIN J = 1..n
        /\ \A i \in 1..n : i # n => J[i] = out[i]
        /\ J[n] = [last EXCEPT !.end = e]
    BY <1>1, <2>1, <2>2
  <2>4. J[n].start = last.start /\ J[n].end = e BY <1>1, <2>3 DEF Slots
  <2>5. last.start \in Nat /\ last.end \in Nat /\ last.start <= last.end /\ last.start <= r.start BY <1>1, <1>2
  <2>6. e \in Nat /\ last.end <= e /\ r.end <= e /\ (e = last.end \/ e = r.end) BY <1>2, <2>5
  <2> HIDE DEF J, last, e
  <2>7. Disjoint(J)
    <3> HIDE DEF n
    <3>1. ASSUME NEW i \in 1..n PROVE J[i].start <= J[i].end
      <4>1. CASE i = n BY <2>4, <2>5, <2>6, <4>1
      <4>2. CASE i # n BY <1>1, <2>3, <4>2
      <4> QED BY <4>1, <4>2
    <3>2. ASSUME NEW i \in 1..n, NEW j \in 1..n, i < j PROVE J[i].end < J[j].start
      <4>1. i # n BY <1>1, <3>2
      <4>2. J[i] = out[i] BY <2>3, <4>1
      <4>3. J[j].start = out[j].start BY Zenon, <2>3, <2>4 DEF last
      <4> QED BY <1>1, <3>2, <4>2, <4>3
    <3>3. J # <<>> BY <1>1, <2>3
    <3> QED BY <2>3, <3>1, <3>2, <3>3 DEF Disjoint
  <2>8. ASSUME NEW m \in Nat
        PROVE  /\ Touches(J[n], m) <=> Touches(last, m) \/ Touches(r, m)
               /\ Ends(J[n], m) <=> Ends(last, m) \/ Ends(r, m)
               /\ Begins(J[n], m) <=> Begins(last, m) \/ Begins(r, m)
    BY <1>2, <1>3, <2>4, <2>5, <2>6 DEF Touches, Ends, Begins
  <2> HIDE DEF n
  <2>9. ASSUME NEW m \in Nat
        PROVE  /\ (\E i \in 1..n : Touches(J[i], m)) <=> Touches(r, m) \/ \E i \in 1..n : Touches(out[i], m)
               /\ (\E i \in 1..n : Ends(J[i], m)) <=> Ends(r, m) \/ \E i \in 1..n : Ends(out[i], m)
               /\ (\E i \in 1..n : Begins(J[i], m)) <=> Begins(r, m) \/ \E i \in 1..n : Begins(out[i], m)
    BY Zenon, <1>2, <2>3, <2>8 DEF last
  <2>10. J[Len(J)].start <= r.start BY <2>3, <2>4, <2>5
  <2> QED BY <1>1, <2>3, <2>7, <2>9, <2>10 DEF J
<1>4. CASE ~(r.start <= last.end)
  <2>1. J = Append(out, r) BY <1>4 DEF Join
  <2>2. /\ J \in Seq(Slots) /\ Len(J) = n + 1 /\ DOMAIN J = 1..(n + 1)
        /\ \A i \in 1..n : J[i] = out[i]
        /\ J[n + 1] = r
    BY <1>1, <2>1
  <2>3. \A i \in 1..(n + 1) : i \in 1..n \/ i = n + 1 BY <1>1
  <2>4. 1..n \subseteq 1..(n + 1) /\ n + 1 \in 1..(n + 1) BY <1>1
  <2> HIDE DEF J
  <2>5. Disjoint(J)
    <3>1. \A i \in 1..(n + 1) : J[i].start <= J[i].end BY <1>1, <2>2, <2>3
    <3>2. ASSUME NEW i \in 1..(n + 1), NEW j \in 1..(n + 1), i < j PROVE J[i].end < J[j].start
      <4>1. i \in 1..n BY <1>1, <3>2
      <4>2. CASE j \in 1..n BY <1>1, <2>2, <3>2, <4>1, <4>2
      <4>3. CASE j = n + 1
        <5>1. out[i].end <= last.end
          <6>1. CASE i = n BY <1>2, <6>1
          <6>2. CASE i # n
            <7> HIDE DEF n
            <7>1. i < n BY <1>1, <4>1, <6>2
            <7>2. out[i].end < out[n].start /\ out[n].start <= out[n].end BY <1>1, <1>2, <4>1, <7>1
            <7> QED BY SMTT(60), <1>2, <4>1, <7>2
          <6> QED BY <6>1, <6>2
        <5> QED BY <1>2, <1>4, <2>2, <4>1, <4>3, <5>1
      <4> QED BY <2>3, <4>2, <4>3
    <3>3. J # <<>> BY <1>1, <2>2
    <3> HIDE DEF n
    <3> QED BY <2>2, <3>1, <3>2, <3>3 DEF Disjoint
  <2> HIDE DEF n
  <2>6. ASSUME NEW m \in Nat
        PROVE  /\ (\E i \in 1..(n + 1) : Touches(J[i], m)) <=> Touches(r, m) \/ \E i \in 1..n : Touches(out[i], m)
               /\ (\E i \in 1..(n + 1) : Ends(J[i], m)) <=> Ends(r, m) \/ \E i \in 1..n : Ends(out[i], m)
               /\ (\E i \in 1..(n + 1) : Begins(J[i], m)) <=> Begins(r, m) \/ \E i \in 1..n : Begins(out[i], m)
    BY Zenon, <2>2, <2>3, <2>4
  <2>7. J[Len(J)].start <= r.start BY <1>2, <2>2
  <2> QED BY Zenon, <1>1, <2>2, <2>5, <2>6, <2>7 DEF J
<1> QED BY <1>3, <1>4


\* Joining keeps the type, whatever the order.
LEMMA JoinType ==
  ASSUME NEW T \in {Slots, AnySlots}, NEW out \in Seq(T) \ {<<>>}, NEW r \in T
  PROVE  Join(out, r) \in Seq(T) \ {<<>>}
<1> DEFINE n == Len(out)
           e == IF out[n].end < r.end THEN r.end ELSE out[n].end
<1>1. n \in 1..n /\ n \in Nat /\ out[n] \in T OBVIOUS
<1>2. CASE r.start <= out[n].end
  <2>1. Join(out, r) = [out EXCEPT ![n] = [out[n] EXCEPT !.end = e]] BY <1>1, <1>2 DEF Join
  <2>2. [out[n] EXCEPT !.end = e] \in T BY ZenonT(60), <1>1 DEF Slots, AnySlots
  <2>3. Join(out, r) \in Seq(T) /\ Len(Join(out, r)) = n BY <1>1, <2>1, <2>2
  <2> QED BY <1>1, <2>3
<1>3. CASE ~(r.start <= out[n].end)
  <2>1. Join(out, r) = Append(out, r) BY <1>3 DEF Join
  <2> QED BY <2>1
<1> QED BY <1>2, <1>3

\* The recursion of mergeHourRanges has values, and its result is the last.
LEMMA MergeRuns ==
  ASSUME NEW T \in {Slots, AnySlots}, NEW in \in Seq(T), Len(in) >= 2
  PROVE  \E f : /\ DOMAIN f = DOMAIN in
                /\ f[1] = <<SortedByStart(in)[1]>>
                /\ \A i \in DOMAIN in : i # 1 => f[i] = Join(f[i - 1], SortedByStart(in)[i])
                /\ MergeHourRanges(in) = f[Len(in)] /\ f[Len(in)] \in Seq(T) \ {<<>>}
<1> DEFINE n == Len(in)
           s == SortedByStart(in)
           S == Seq(T) \ {<<>>}
           F == [i \in Nat |-> [x \in S |-> IF i + 1 \in DOMAIN in THEN Join(x, s[i + 1]) ELSE x]]
           Eq(h) == h = [i \in DOMAIN in |-> IF i = 1 THEN <<s[1]>> ELSE Join(h[i - 1], s[i])]
           f == CHOOSE h : Eq(h)
<1>1. n \in Nat /\ DOMAIN in = 1..n /\ 1 \in 1..n OBVIOUS
<1>2. \A i \in DOMAIN in : s[i] \in T BY <1>1, SortedFacts
<1>3. <<s[1]>> \in S BY <1>1, <1>2
<1>4. F \in [Nat -> [S -> S]]
  <2>1. ASSUME NEW i \in Nat, NEW x \in S PROVE (IF i + 1 \in DOMAIN in THEN Join(x, s[i + 1]) ELSE x) \in S
    <3>1. CASE i + 1 \in DOMAIN in
      <4>1. s[i + 1] \in T BY <1>2, <3>1
      <4> QED BY Zenon, <3>1, <4>1, JoinType
    <3>2. CASE i + 1 \notin DOMAIN in BY <3>2
    <3> QED BY <3>1, <3>2
  <2> HIDE DEF S, s
  <2> QED BY <2>1
<1>5. PICK g : g \in Runs(S, <<s[1]>>, F, n - 1)
  <2> HIDE DEF S, F, s
  <2>1. n - 1 \in Nat BY <1>1
  <2>2. Runs(S, <<s[1]>>, F, n - 1) # {} BY Zenon, <1>3, <1>4, <2>1, RunsExist
  <2> QED BY <2>2
<1>6. /\ g \in [0..(n - 1) -> S] /\ g[0] = <<s[1]>>
      /\ \A i \in 1..(n - 1) : g[i] = F[i][g[i - 1]]
  <2> HIDE DEF S, F, s
  <2> QED BY <1>5 DEF Runs
<1>7. ASSUME NEW i \in 1..(n - 1) PROVE g[i] = Join(g[i - 1], s[i + 1])
  <2>1. i \in Nat /\ i + 1 \in DOMAIN in /\ i - 1 \in 0..(n - 1) BY <1>1
  <2>2. g[i - 1] \in S BY Zenon, <1>6, <2>1
  <2>3. F[i][g[i - 1]] = Join(g[i - 1], s[i + 1])
    <3> HIDE DEF S, s
    <3> QED BY <2>1, <2>2
  <2> HIDE DEF F
  <2> QED BY <1>6, <2>3
<1> DEFINE h == [i \in DOMAIN in |-> g[i - 1]]
<1>8. Eq(h)
  <2>1. ASSUME NEW i \in DOMAIN in
        PROVE  g[i - 1] = IF i = 1 THEN <<s[1]>> ELSE Join(h[i - 1], s[i])
    <3>1. CASE i = 1 BY <1>6, <3>1
    <3>2. CASE i # 1
      <4>1. i - 1 \in 1..(n - 1) /\ i - 1 \in DOMAIN in BY <1>1, <3>2
      <4>2. g[i - 1] = Join(g[i - 1 - 1], s[i - 1 + 1]) BY <1>7, <4>1
      <4>3. h[i - 1] = g[i - 1 - 1] /\ i - 1 + 1 = i BY <1>1, <4>1
      <4> QED BY <3>2, <4>2, <4>3
    <3> QED BY <3>1, <3>2
  <2> QED BY Zenon, <2>1
<1>9. Eq(f)
  <2> HIDE DEF Eq, h
  <2> QED BY <1>8
<1>10. MergeHourRanges(in) = f[Len(in)] BY DEF MergeHourRanges
<1> HIDE DEF f, s
<1>11. /\ DOMAIN f = DOMAIN in /\ f[1] = <<s[1]>>
       /\ \A i \in DOMAIN in : i # 1 => f[i] = Join(f[i - 1], s[i])
  <2>1. DOMAIN f = DOMAIN in BY <1>9
  <2>2. \A i \in DOMAIN in : f[i] = IF i = 1 THEN <<s[1]>> ELSE Join(f[i - 1], s[i]) BY Zenon, <1>9
  <2> QED BY <1>1, <2>1, <2>2
<1>12. \A i \in Nat : i + 1 \in 1..n => f[i + 1] \in S
  <2> DEFINE X == {i \in Nat : i + 1 \in 1..n => f[i + 1] \in S}
  <2>1. 0 \in X
    <3>1. 0 + 1 = 1 /\ 0 \in Nat OBVIOUS
    <3>2. f[1] \in S BY <1>3, <1>11
    <3> HIDE DEF S
    <3> QED BY <3>1, <3>2
  <2>2. ASSUME NEW i \in Nat, i \in X PROVE i + 1 \in X
    <3> SUFFICES ASSUME (i + 1) + 1 \in 1..n PROVE f[(i + 1) + 1] \in S OBVIOUS
    <3> DEFINE j == (i + 1) + 1
    <3>1. i + 1 \in 1..n /\ j - 1 = i + 1 /\ j # 1 BY <1>1
    <3>2. f[i + 1] \in S BY <2>2, <3>1
    <3> HIDE DEF S
    <3>3. f[j] = Join(f[i + 1], s[j])
      <4>1. j \in DOMAIN in BY <1>1
      <4> HIDE DEF j
      <4> QED BY <1>11, <3>1, <4>1
    <3>4. s[j] \in T BY <1>1, <1>2
    <3> HIDE DEF j
    <3>5. f[j] \in S BY Zenon, <3>2, <3>3, <3>4, JoinType DEF S
    <3> QED BY <3>5 DEF j
  <2> HIDE DEF X
  <2>3. Nat \subseteq X BY <2>1, <2>2, SetInduction
  <2> QED BY <2>3 DEF X
<1>13. f[n] \in S
  <2>1. n - 1 \in Nat /\ (n - 1) + 1 = n /\ n \in 1..n BY <1>1
  <2> HIDE DEF n, S
  <2> QED BY <1>12, <2>1
<1> QED BY <1>10, <1>11, <1>13 DEF s

\* The merged ranges are apart, and cover what the ranges cover.
LEMMA MergedFacts ==
  ASSUME NEW in \in Seq(Slots), in # <<>>, \A i \in DOMAIN in : in[i].start <= in[i].end
  PROVE  Disjoint(MergeHourRanges(in)) /\ Covers(MergeHourRanges(in), in, DOMAIN in)
<1>1. CASE Len(in) < 2
  <2>1. MergeHourRanges(in) = in BY <1>1 DEF MergeHourRanges
  <2>2. DOMAIN in = {1}
    <3>1. Len(in) \in Nat /\ Len(in) # 0 /\ DOMAIN in = 1..Len(in) OBVIOUS
    <3>2. Len(in) = 1 BY <1>1, <3>1
    <3> QED BY <3>1, <3>2
  <2>3. Disjoint(in) BY <2>2 DEF Disjoint
  <2>4. Covers(in, in, DOMAIN in) BY DEF Covers
  <2> QED BY <2>1, <2>3, <2>4
<1>2. CASE ~(Len(in) < 2)
  <2> DEFINE n == Len(in)
             s == SortedByStart(in)
  <2>1. PICK f : /\ DOMAIN f = DOMAIN in
                 /\ f[1] = <<s[1]>>
                 /\ \A i \in DOMAIN in : i # 1 => f[i] = Join(f[i - 1], s[i])
                 /\ MergeHourRanges(in) = f[n]
    <3>1. Len(in) >= 2 BY <1>2
    <3> QED BY Zenon, <3>1, MergeRuns
  <2>2. /\ n \in Nat /\ n >= 2 /\ DOMAIN in = 1..n
        /\ s \in Seq(Slots) /\ DOMAIN s = 1..n /\ \A i \in 1..n : s[i] \in Slots
        /\ \A i, j \in 1..n : i < j => s[i].start <= s[j].start
        /\ \A i \in 1..n : \E j \in 1..n : s[i] = in[j]
        /\ \A j \in 1..n : \E i \in 1..n : s[i] = in[j]
    <3>1. n \in Nat /\ n >= 2 /\ DOMAIN in = 1..n BY <1>2
    <3> HIDE DEF n
    <3>2. s \in Seq(Slots) /\ DOMAIN s = 1..n BY <3>1, SortedFacts
    <3>3. /\ \A i, j \in DOMAIN in : i < j => s[i].start <= s[j].start
          /\ \A i \in DOMAIN in : \E j \in DOMAIN in : s[i] = in[j]
          /\ \A j \in DOMAIN in : \E i \in DOMAIN in : s[i] = in[j]
      BY SortedFacts, Zenon
    <3> HIDE DEF s
    <3>4. \A i \in 1..n : s[i] \in Slots
      <4>1. \A j \in DOMAIN in : in[j] \in Slots OBVIOUS
      <4> QED BY <3>1, <3>3, <4>1, Zenon
    <3> QED BY Zenon, <3>1, <3>2, <3>3, <3>4
  <2> HIDE DEF n, s
  <2>3. \A i \in 1..n : s[i].start <= s[i].end BY Zenon, <2>2
  <2> DEFINE Good(i) == Disjoint(f[i]) /\ f[i][Len(f[i])].start <= s[i].start /\ Covers(f[i], s, 1..i)
             T == {k \in Nat : k + 1 \in 1..n => Good(k + 1)}
  <2>4. 0 \in T
    <3>1. 1 \in 1..n /\ f[1] = <<s[1]>> /\ s[1] \in Slots BY <2>1, <2>2
    <3>2. f[1] \in Seq(Slots) /\ Len(f[1]) = 1 /\ DOMAIN f[1] = {1} /\ f[1][1] = s[1] /\ f[1] # <<>> BY <3>1
    <3>3. Disjoint(f[1]) BY <2>3, <3>1, <3>2 DEF Disjoint
    <3>4. s[1].start <= s[1].start BY <3>1, CalendarAssumption DEF Slots
    <3>5. Covers(f[1], s, 1..1)
      <4>1. 1..1 = {1} OBVIOUS
      <4> QED BY <3>2, <4>1 DEF Covers
    <3> QED BY <3>2, <3>3, <3>4, <3>5
  <2>5. ASSUME NEW k \in Nat, k \in T PROVE k + 1 \in T
    <3> SUFFICES ASSUME k + 1 + 1 \in 1..n PROVE Good(k + 1 + 1) OBVIOUS
    <3> DEFINE i == k + 1
               r == s[i + 1]
               J == Join(f[i], r)
    <3>1. /\ i \in 1..n /\ i + 1 \in 1..n /\ i + 1 # 1 /\ i + 1 - 1 = i /\ i < i + 1
          /\ \A j \in 1..(i + 1) : j \in 1..i \/ j = i + 1
          /\ 1..i \subseteq 1..(i + 1) /\ i + 1 \in 1..(i + 1)
      <4>1. i \in Nat /\ i + 1 \in 1..n OBVIOUS
      <4> HIDE DEF i
      <4>2. i \in 1..n /\ i + 1 # 1 /\ i + 1 - 1 = i /\ i < i + 1
        <5>1. i # 0 BY DEF i
        <5> QED BY <2>2, <4>1, <5>1
      <4>3. \A j \in 1..(i + 1) : j \in 1..i \/ j = i + 1 BY <4>1
      <4>4. 1..i \subseteq 1..(i + 1) /\ i + 1 \in 1..(i + 1) BY <4>1
      <4> QED BY <4>1, <4>2, <4>3, <4>4
    <3>2. Good(i) BY <2>5, <3>1
    <3> HIDE DEF i, T
    <3>3. f[i + 1] = J
      <4>1. i + 1 \in DOMAIN in /\ i + 1 # 1 BY <2>2, <3>1
      <4>2. PICK j \in DOMAIN in : j = i + 1 BY <4>1
      <4>3. j # 1 /\ j - 1 = i BY <3>1, <4>2
      <4>4. f[j] = Join(f[j - 1], s[j]) BY <2>1, <4>3, Zenon
      <4> QED BY <4>2, <4>3, <4>4
    <3>4. r \in Slots /\ r.start <= r.end /\ f[i][Len(f[i])].start <= r.start
      <4>1. r \in Slots /\ r.start <= r.end /\ s[i].start <= r.start /\ s[i] \in Slots BY Zenon, <2>2, <2>3, <3>1
      <4>2. f[i][Len(f[i])] \in Slots
        <5>1. f[i] \in Seq(Slots) /\ f[i] # <<>> BY <3>2 DEF Disjoint
        <5> QED BY <5>1
      <4>3. f[i][Len(f[i])].start \in Int /\ s[i].start \in Int /\ r.start \in Int BY SMTT(60), <4>1, <4>2 DEF Slots
      <4> QED BY <3>2, <4>1, <4>3
    <3>5. /\ Disjoint(J) /\ J[Len(J)].start <= r.start
          /\ \A m \in Nat :
               /\ (\E j \in DOMAIN J : Touches(J[j], m)) <=> Touches(r, m) \/ \E j \in DOMAIN f[i] : Touches(f[i][j], m)
               /\ (\E j \in DOMAIN J : Ends(J[j], m)) <=> Ends(r, m) \/ \E j \in DOMAIN f[i] : Ends(f[i][j], m)
               /\ (\E j \in DOMAIN J : Begins(J[j], m)) <=> Begins(r, m) \/ \E j \in DOMAIN f[i] : Begins(f[i][j], m)
      BY Zenon, <3>2, <3>4, JoinFacts
    <3> HIDE DEF J
    <3>6. Covers(J, s, 1..(i + 1))
      <4>1. ASSUME NEW m \in Nat
            PROVE  /\ (\E j \in DOMAIN f[i] : Touches(f[i][j], m)) <=> \E j \in 1..i : Touches(s[j], m)
                   /\ (\E j \in DOMAIN f[i] : Ends(f[i][j], m)) <=> \E j \in 1..i : Ends(s[j], m)
                   /\ (\E j \in DOMAIN f[i] : Begins(f[i][j], m)) <=> \E j \in 1..i : Begins(s[j], m)
        BY Zenon, <3>2 DEF Covers
      <4>2. ASSUME NEW m \in Nat
            PROVE  /\ (\E j \in 1..(i + 1) : Touches(s[j], m)) <=> Touches(r, m) \/ \E j \in 1..i : Touches(s[j], m)
                   /\ (\E j \in 1..(i + 1) : Ends(s[j], m)) <=> Ends(r, m) \/ \E j \in 1..i : Ends(s[j], m)
                   /\ (\E j \in 1..(i + 1) : Begins(s[j], m)) <=> Begins(r, m) \/ \E j \in 1..i : Begins(s[j], m)
        BY <3>1, Zenon
      <4> HIDE DEF r
      <4> QED BY Zenon, <3>5, <4>1, <4>2 DEF Covers
    <3> QED BY <3>3, <3>5, <3>6 DEF i
  <2> HIDE DEF T
  <2>6. Nat \subseteq T BY <2>4, <2>5, SetInduction
  <2>7. Good(n)
    <3>1. n - 1 \in Nat /\ n - 1 + 1 = n /\ n \in 1..n BY <2>2
    <3>2. n - 1 \in T BY <2>6, <3>1
    <3> QED BY <3>1, <3>2 DEF T
  <2>8. Covers(f[n], in, 1..n)
    <3>1. Covers(f[n], s, 1..n) BY <2>7
    <3>2. ASSUME NEW m \in Nat
          PROVE  /\ (\E i \in 1..n : Touches(s[i], m)) <=> \E i \in 1..n : Touches(in[i], m)
                 /\ (\E i \in 1..n : Ends(s[i], m)) <=> \E i \in 1..n : Ends(in[i], m)
                 /\ (\E i \in 1..n : Begins(s[i], m)) <=> \E i \in 1..n : Begins(in[i], m)
      BY <2>2, Zenon
    <3> QED BY Zenon, <3>1, <3>2 DEF Covers
  <2> QED BY <2>1, <2>2, <2>7, <2>8
<1> QED BY <1>1, <1>2


\* The minutes of a day are what is left of it, and a day leaves nothing.
LEMMA MinuteFacts ==
  /\ \A m \in 0..(DayLen - 1) : m % DayLen = m
  /\ DayLen % DayLen = 0
  /\ \A t \in Nat : t % DayLen \in 0..(DayLen - 1)
<1>1. ASSUME NEW m \in 0..(DayLen - 1) PROVE m % DayLen = m BY CalendarAssumption
<1>2. DayLen % DayLen = 0 BY CalendarAssumption
<1>3. ASSUME NEW t \in Nat PROVE t % DayLen \in 0..(DayLen - 1) BY CalendarAssumption
<1> QED BY <1>1, <1>2, <1>3

\* A week has the days that Weekday tells.
LEMMA WeekdayFacts == \A t \in Nat : Weekday(t) \in Days
<1>1. ASSUME NEW t \in Nat PROVE t \div DayLen \in Nat BY CalendarAssumption
<1>2. ASSUME NEW q \in Nat PROVE q % WeekLen \in 0..(WeekLen - 1) BY CalendarAssumption
<1> QED BY <1>1, <1>2 DEF Weekday, Days

(* The gaps between the ranges.                                              *)

\* What the gaps are made of, the gap before range k of s (after the last of
\* them, for k = Len(s) + 1), and the number of gaps that are left out.
GapRanges == [start : 0..(DayLen - 1), end : 0..DayLen]
GapBefore(s, k) ==
    HourRange(IF k = 1 THEN 0 ELSE s[k - 1].end, IF k = Len(s) + 1 THEN DayLen ELSE s[k].start)
LeftOut(s) == IF s[1].start = 0 THEN 1 ELSE 0

\* The recursion of reverseRange has values.
LEMMA ReverseRuns ==
  ASSUME NEW s, s \in Seq(AnySlots), s # <<>>
  PROVE  \E f : /\ f[0] = [out |-> <<>>, from |-> 0]
                /\ \A i \in DOMAIN s : f[i] = Gap(f[i - 1], s[i])
                /\ LET last == f[Len(s)].from
                       from == IF IsMidnight(last) THEN last + DayLen ELSE last
                   IN  ReverseRange(s) = IF from = DayLen THEN f[Len(s)].out
                                         ELSE Append(f[Len(s)].out, HourRange(from, DayLen))
<1> DEFINE n == Len(s)
           S == [out : Seq(GapRanges), from : 0..(DayLen - 1)]
           a == [out |-> <<>>, from |-> 0]
           F == [i \in Nat |-> [x \in S |-> IF i \in DOMAIN s THEN Gap(x, s[i]) ELSE x]]
           Eq(h) == h = [i \in 0..Len(s) |-> IF i = 0 THEN [out |-> <<>>, from |-> 0] ELSE Gap(h[i - 1], s[i])]
           f == CHOOSE h : Eq(h)
<1>1. n \in Nat /\ n # 0 /\ DOMAIN s = 1..n OBVIOUS
<1>2. a \in S
  <2>1. <<>> \in Seq(GapRanges) /\ 0 \in 0..(DayLen - 1) BY CalendarAssumption
  <2> QED BY <2>1
<1>3. ASSUME NEW i \in DOMAIN s, NEW x \in S PROVE Gap(x, s[i]) \in S
  <2>1. s[i].start \in 0..(DayLen - 1) /\ s[i].end \in 0..(DayLen - 1)
    <3>1. s[i] \in AnySlots OBVIOUS
    <3> QED BY <3>1 DEF AnySlots
  <2>2. s[i].start \in 0..DayLen /\ s[i].end \in 0..DayLen BY <2>1, CalendarAssumption
  <2>3. HourRange(x.from, s[i].start) \in GapRanges BY <2>2 DEF HourRange, GapRanges
  <2>4. Append(x.out, HourRange(x.from, s[i].start)) \in Seq(GapRanges) BY <2>3
  <2> QED BY <2>1, <2>4 DEF Gap
<1>4. F \in [Nat -> [S -> S]]
  <2> HIDE DEF S
  <2> QED BY <1>3
<1>5. PICK g : g \in Runs(S, a, F, n)
  <2> HIDE DEF S, F, a, n
  <2>1. Runs(S, a, F, n) # {} BY <1>1, <1>2, <1>4, RunsExist
  <2> QED BY <2>1
<1>6. /\ g \in [0..n -> S] /\ g[0] = a
      /\ \A i \in 1..n : g[i] = F[i][g[i - 1]]
  <2> HIDE DEF S, F, a
  <2> QED BY <1>5 DEF Runs
<1>7. ASSUME NEW i \in 1..n PROVE g[i] = Gap(g[i - 1], s[i])
  <2>1. i \in Nat /\ i \in DOMAIN s /\ i - 1 \in 0..n BY <1>1
  <2>2. g[i - 1] \in S BY Zenon, <1>6, <2>1
  <2>3. F[i][g[i - 1]] = Gap(g[i - 1], s[i])
    <3> HIDE DEF S
    <3> QED BY <2>1, <2>2
  <2> HIDE DEF F
  <2> QED BY <1>6, <2>3
<1> HIDE DEF S, F
<1>8. Eq(g)
  <2>1. ASSUME NEW i \in 0..n
        PROVE  g[i] = IF i = 0 THEN [out |-> <<>>, from |-> 0] ELSE Gap(g[i - 1], s[i])
    <3>1. CASE i = 0 BY <1>6, <3>1
    <3>2. CASE i # 0
      <4>1. i \in 1..n BY <3>2
      <4> QED BY <1>7, <3>2, <4>1
    <3> QED BY <3>1, <3>2
  <2>2. g = [i \in 0..n |-> g[i]] BY <1>6
  <2> HIDE DEF n
  <2>3. g = [i \in 0..n |-> IF i = 0 THEN [out |-> <<>>, from |-> 0] ELSE Gap(g[i - 1], s[i])] BY Zenon, <2>1, <2>2
  <2> QED BY <2>3 DEF n
<1>9. Eq(f)
  <2> HIDE DEF Eq
  <2> QED BY <1>8
<1>10. LET last == f[Len(s)].from
           from == IF IsMidnight(last) THEN last + DayLen ELSE last
       IN  ReverseRange(s) = IF from = DayLen THEN f[Len(s)].out
                             ELSE Append(f[Len(s)].out, HourRange(from, DayLen))
  BY DEF ReverseRange
<1> HIDE DEF f
<1>11. \A i \in 0..Len(s) : f[i] = IF i = 0 THEN [out |-> <<>>, from |-> 0] ELSE Gap(f[i - 1], s[i]) BY Zenon, <1>9
<1>12. f[0] = [out |-> <<>>, from |-> 0] BY <1>1, <1>11
<1>13. ASSUME NEW i \in DOMAIN s PROVE f[i] = Gap(f[i - 1], s[i])
  <2>1. i \in 0..Len(s) /\ i # 0 BY <1>1
  <2> QED BY <1>11, <2>1
<1> QED BY <1>10, <1>12, <1>13

\* The gaps of ranges that are apart: all of them, but for the first if it is empty.
LEMMA ReverseFacts ==
  ASSUME NEW s, Disjoint(s)
  PROVE  /\ ReverseRange(s) \in Seq(GapRanges)
         /\ Len(ReverseRange(s)) = Len(s) + 1 - LeftOut(s)
         /\ \A k \in DOMAIN ReverseRange(s) : ReverseRange(s)[k] = GapBefore(s, k + LeftOut(s))
<1> DEFINE n == Len(s)
           z == LeftOut(s)
<1>1. /\ s \in Seq(Slots) /\ n \in Nat \ {0} /\ DOMAIN s = 1..n /\ s # <<>>
      /\ \A i \in 1..n : s[i] \in Slots /\ s[i].start <= s[i].end
      /\ \A i, j \in 1..n : i < j => s[i].end < s[j].start
  BY DEF Disjoint
<1>2. /\ \A i \in 1..n : s[i].start \in 0..(DayLen - 1) /\ s[i].end \in 1..(DayLen - 1)
      /\ z \in {0, 1} /\ DayLen \in Nat
  BY <1>1, CalendarAssumption DEF Slots, LeftOut
<1>3. s \in Seq(AnySlots)
  <2>1. Slots \subseteq AnySlots BY CalendarAssumption DEF Slots, AnySlots
  <2>2. s \in [1..n -> AnySlots] BY <1>1, <2>1
  <2> HIDE DEF n
  <2> QED BY <1>1, <2>2
<1>4. PICK f : /\ f[0] = [out |-> <<>>, from |-> 0]
               /\ \A i \in DOMAIN s : f[i] = Gap(f[i - 1], s[i])
               /\ LET last == f[n].from
                      from == IF IsMidnight(last) THEN last + DayLen ELSE last
                  IN  ReverseRange(s) = IF from = DayLen THEN f[n].out
                                        ELSE Append(f[n].out, HourRange(from, DayLen))
  BY <1>1, <1>3, ReverseRuns
<1> DEFINE Good(i) == /\ f[i].out \in Seq(GapRanges) /\ Len(f[i].out) = i - z
                      /\ \A k \in 1..(i - z) : f[i].out[k] = GapBefore(s, k + z)
                      /\ f[i].from = s[i].end
           T == {k \in Nat : k + 1 \in 1..n => Good(k + 1)}
<1>5. 0 \in T
  <2>1. 1 \in 1..n /\ 1 - 1 = 0 /\ <<>> \in Seq(GapRanges) /\ Len(<<>>) = 0 /\ 1 # n + 1 BY <1>1
  <2>2. f[1] = Gap([out |-> <<>>, from |-> 0], s[1]) BY <1>1, <1>4, <2>1
  <2>3. f[1].from = s[1].end BY <2>2 DEF Gap
  <2> HIDE DEF T
  <2>4. ASSUME s[1].start = 0 PROVE Good(1)
    <3>1. z = 1 /\ f[1].out = <<>> /\ 1 - z = 0 BY <2>2, <2>4 DEF Gap, LeftOut
    <3>2. \A k \in 1..(1 - z) : FALSE BY <3>1
    <3> QED BY <2>1, <2>3, <3>1, <3>2
  <2>5. ASSUME s[1].start # 0 PROVE Good(1)
    <3>1. z = 0 /\ f[1].out = Append(<<>>, HourRange(0, s[1].start)) BY <2>2, <2>5 DEF Gap, LeftOut
    <3>2. HourRange(0, s[1].start) \in GapRanges BY <1>2, <2>1 DEF HourRange, GapRanges
    <3>3. f[1].out = <<HourRange(0, s[1].start)>> BY <3>1
    <3>4. GapBefore(s, 1) = HourRange(0, s[1].start) BY <2>1 DEF GapBefore
    <3>5. f[1].out \in Seq(GapRanges) /\ Len(f[1].out) = 1 /\ f[1].out[1] = GapBefore(s, 1) BY <3>2, <3>3, <3>4
    <3>6. 1 - z = 1 /\ 1 + z = 1 /\ 1..1 = {1} BY <3>1
    <3> QED BY <2>3, <3>5, <3>6
  <2>6. Good(1) BY <2>4, <2>5
  <2>7. 0 + 1 = 1 OBVIOUS
  <2> QED BY <2>6, <2>7 DEF T
<1>6. ASSUME NEW k \in Nat, k \in T PROVE k + 1 \in T
  <2> SUFFICES ASSUME k + 1 + 1 \in 1..n PROVE Good(k + 1 + 1) OBVIOUS
  <2> DEFINE i == k + 1
             j == i + 1
             gap == GapBefore(s, j)
  <2>1. i \in Nat /\ j \in 1..n /\ i \in 1..n /\ j # 1 /\ j - 1 = i /\ i < j /\ j # n + 1 BY <1>1
  <2>2. Good(i) BY <1>6, <2>1
  <2> HIDE DEF T, i, j
  <2>3. f[j] = Gap(f[i], s[j])
    <3>1. f[j] = Gap(f[j - 1], s[j]) BY <1>1, <1>4, <2>1
    <3> QED BY <2>1, <3>1
  <2>4. s[i].end < s[j].start BY <1>1, <2>1
  <2>5. f[i].from # s[j].start BY <1>2, <2>1, <2>2, <2>4
  <2>6. gap = HourRange(s[i].end, s[j].start) BY <2>1 DEF GapBefore
  <2>7. f[j].from = s[j].end /\ f[j].out = Append(f[i].out, gap) BY <2>2, <2>3, <2>5, <2>6 DEF Gap
  <2>8. gap \in GapRanges BY <1>2, <2>1, <2>6 DEF HourRange, GapRanges
  <2> HIDE DEF gap
  <2>9. f[j].out \in Seq(GapRanges) /\ Len(f[j].out) = i - z + 1 BY <2>2, <2>7, <2>8
  <2>10. i - z + 1 = j - z BY <1>2, <2>1 DEF j
  <2>11. ASSUME NEW l \in 1..(j - z) PROVE f[j].out[l] = GapBefore(s, l + z)
    <3>1. CASE l \in 1..(i - z)
      <4>1. f[j].out[l] = f[i].out[l] BY <2>2, <2>7, <2>8, <3>1
      <4> QED BY <2>2, <3>1, <4>1
    <3>2. CASE l \notin 1..(i - z)
      <4>1. l = i - z + 1 BY <1>2, <2>1, <2>10, <3>2
      <4>2. f[j].out[i - z + 1] = gap BY SMTT(60), <2>2, <2>7, <2>8
      <4>3. l + z = j BY <1>2, <2>1, <2>10, <4>1
      <4> QED BY <4>1, <4>2, <4>3 DEF gap
    <3> QED BY <3>1, <3>2
  <2>12. Good(j) BY <2>7, <2>9, <2>10, <2>11
  <2> QED BY <2>12 DEF i, j
<1> HIDE DEF T
<1>7. Nat \subseteq T BY <1>5, <1>6, SetInduction
<1>8. Good(n)
  <2>1. n - 1 \in Nat /\ n - 1 + 1 = n /\ n \in 1..n BY <1>1
  <2>2. n - 1 \in T BY <1>7, <2>1
  <2> QED BY <2>1, <2>2 DEF T
<1> DEFINE gap == GapBefore(s, n + 1)
<1>9. ReverseRange(s) = Append(f[n].out, gap)
  <2>1. n \in 1..n /\ n + 1 # 1 /\ n + 1 - 1 = n BY <1>1
  <2>2. s[n].end \in 0..(DayLen - 1) /\ s[n].end # 0 /\ s[n].end # DayLen BY <1>2, <2>1
  <2>3. ~IsMidnight(s[n].end) BY <2>2, MinuteFacts DEF IsMidnight
  <2>4. gap = HourRange(s[n].end, DayLen) BY <2>1 DEF GapBefore
  <2> QED BY <1>4, <1>8, <2>2, <2>3, <2>4
<1>10. gap \in GapRanges BY <1>1, <1>2 DEF GapBefore, HourRange, GapRanges
<1> HIDE DEF gap
<1>11. ReverseRange(s) \in Seq(GapRanges) /\ Len(ReverseRange(s)) = n - z + 1 BY <1>8, <1>9, <1>10
<1>12. n - z + 1 = n + 1 - z BY <1>1, <1>2
<1>13. ASSUME NEW l \in 1..(n + 1 - z) PROVE ReverseRange(s)[l] = GapBefore(s, l + z)
  <2>1. CASE l \in 1..(n - z)
    <3>1. ReverseRange(s)[l] = f[n].out[l] BY <1>8, <1>9, <1>10, <2>1
    <3> QED BY <1>8, <2>1, <3>1
  <2>2. CASE l \notin 1..(n - z)
    <3>1. l = n - z + 1 BY <1>1, <1>2, <1>12, <2>2
    <3>2. ReverseRange(s)[n - z + 1] = gap BY <1>8, <1>9, <1>10
    <3>3. l + z = n + 1 BY <1>1, <1>2, <3>1
    <3> QED BY <3>1, <3>2, <3>3 DEF gap
  <2> QED BY <2>1, <2>2
<1>14. DOMAIN ReverseRange(s) = 1..(n + 1 - z) BY <1>11, <1>12
<1> QED BY <1>11, <1>12, <1>13, <1>14

(* The time that is left.                                                    *)

\* Slots in order, as the ranges and the gaps are.
InOrder(slots) ==
    /\ slots \in Seq(GapRanges)
    /\ \A i \in DOMAIN slots : slots[i].start <= slots[i].end \/ IsMidnight(slots[i].end)
    /\ \A i, j \in DOMAIN slots : i < j => slots[i].start <= slots[j].start

\* The minute m is in one of the slots.
InSlots(slots, m) ==
    \E i \in DOMAIN slots : slots[i].start <= m /\ (m <= slots[i].end \/ IsMidnight(slots[i].end))

\* tillNextSlotInCurrentDay is 0 exactly in the slots.
LEMMA TodayFacts ==
  ASSUME NEW slots, InOrder(slots), NEW t \in Nat
  PROVE  /\ TillNextSlotInCurrentDay(slots, t) \in Nat \cup {-1}
         /\ TillNextSlotInCurrentDay(slots, t) = 0 <=> InSlots(slots, TimeOfDay(t))
<1> DEFINE m == TimeOfDay(t)
           n == Len(slots)
           Test(s) == m <= s.start \/ m <= s.end \/ IsMidnight(s.end)
           I == {i \in 1..Len(slots) : Test(slots[i])}
           i == IF I # {} THEN Least(I) ELSE 0
<1>1. n \in Nat /\ DOMAIN slots = 1..n /\ \A k \in 1..n : slots[k] \in GapRanges BY DEF InOrder
<1>2. /\ \A k \in 1..n : slots[k].start \in Nat /\ slots[k].end \in Nat
      /\ m \in Nat
  <2>1. m \in Nat BY SMTT(60), MinuteFacts DEF TimeOfDay
  <2> QED BY <1>1, <2>1, CalendarAssumption DEF GapRanges
<1>3. TillNextSlotInCurrentDay(slots, t) =
        IF i = 0 THEN -1 ELSE IF slots[i].start < m THEN 0 ELSE slots[i].start - m
  BY DEF TillNextSlotInCurrentDay, FirstFit
<1>4. ASSUME NEW k \in 1..n, slots[k].start <= m, m <= slots[k].end \/ IsMidnight(slots[k].end)
      PROVE  k \in I
  BY <1>4
<1>5. CASE I = {}
  <2>1. ~InSlots(slots, m) BY Zenon, <1>1, <1>4, <1>5 DEF InSlots
  <2>2. TillNextSlotInCurrentDay(slots, t) = -1 BY <1>3, <1>5
  <2> QED BY <2>1, <2>2
<1>6. CASE I # {}
  <2>1. PICK least \in I : \A k \in I : least <= k
    <3>1. I \subseteq Nat OBVIOUS
    <3> HIDE DEF I
    <3> QED BY Zenon, <1>6, <3>1, LeastNumber
  <2>2. i \in I /\ \A k \in I : i <= k BY ZenonT(60), <1>6, <2>1 DEF Least
  <2>3. i \in 1..n /\ i # 0 /\ Test(slots[i]) BY SMTT(60), <2>2
  <2>4. TillNextSlotInCurrentDay(slots, t) = IF slots[i].start < m THEN 0 ELSE slots[i].start - m
    <3> HIDE DEF i
    <3> QED BY <1>3, <2>3
  <2> HIDE DEF i, I
  <2>5. TillNextSlotInCurrentDay(slots, t) \in Nat BY <1>2, <2>3, <2>4
  <2>6. TillNextSlotInCurrentDay(slots, t) = 0 <=> slots[i].start <= m BY <1>2, <2>3, <2>4
  <2>7. ASSUME slots[i].start <= m PROVE InSlots(slots, m)
    <3>1. m <= slots[i].end \/ IsMidnight(slots[i].end)
      <4>1. slots[i].start <= slots[i].end \/ IsMidnight(slots[i].end) BY <1>1, <2>3 DEF InOrder
      <4> QED BY <1>2, <2>3, <2>7, <4>1
    <3> QED BY <1>1, <2>3, <2>7, <3>1 DEF InSlots
  <2>8. ASSUME InSlots(slots, m) PROVE slots[i].start <= m
    <3>1. PICK k \in 1..n : slots[k].start <= m /\ (m <= slots[k].end \/ IsMidnight(slots[k].end))
      BY <1>1, <2>8 DEF InSlots
    <3>2. i <= k BY <1>4, <2>2, <3>1
    <3>3. slots[i].start <= slots[k].start
      <4>1. CASE i = k BY <1>2, <4>1
      <4>2. CASE i # k
        <5>1. i < k BY <2>3, <3>2, <4>2
        <5> QED BY <1>1, <2>3, <5>1 DEF InOrder
      <4> QED BY <4>1, <4>2
    <3> QED BY <1>2, <2>3, <3>1, <3>3
  <2> QED BY <2>5, <2>6, <2>7, <2>8
<1> QED BY <1>5, <1>6

\* From midnight the time to the next slot is not negative.
LEMMA FromMidnightFacts ==
  ASSUME NEW slots \in Seq(GapRanges), slots # <<>>
  PROVE  TillNextSlotFromMidnight(slots) \in Nat
<1> DEFINE n == Len(slots)
           Test(s) == 0 <= s.start \/ 0 <= s.end
           I == {i \in 1..Len(slots) : Test(slots[i])}
           i == IF I # {} THEN Least(I) ELSE 0
<1>1. n \in 1..n /\ \A k \in 1..n : slots[k].start \in Nat /\ slots[k].end \in Nat
  <2>1. n \in 1..n /\ \A k \in 1..n : slots[k] \in GapRanges OBVIOUS
  <2> QED BY <2>1, CalendarAssumption DEF GapRanges
<1>2. TimeOfDay(0) = 0 BY MinuteFacts, CalendarAssumption DEF TimeOfDay
<1>3. TillNextSlot(slots, 0) =
        IF slots[n].end < 0 THEN TillMidnight(0) + slots[1].start
        ELSE IF i = 0 \/ slots[i].start < 0 THEN 0 ELSE slots[i].start - 0
  BY Zenon, <1>2 DEF TillNextSlot, FirstFit
<1>4. ASSUME i # 0 PROVE i \in 1..n
  <2>1. PICK least \in I : \A k \in I : least <= k
    <3>1. I # {} /\ I \subseteq Nat BY <1>4
    <3> HIDE DEF I
    <3> QED BY Zenon, <3>1, LeastNumber
  <2>2. i \in I BY <1>4, <2>1 DEF Least
  <2> QED BY <2>2
<1> HIDE DEF i
<1>5. TillNextSlot(slots, 0) \in Nat BY <1>1, <1>3, <1>4
<1> QED BY <1>5 DEF TillNextSlotFromMidnight

\* tillNextSlot is 0 exactly in the ranges.
LEMMA NextSlotFacts ==
  ASSUME NEW slots, Disjoint(slots), NEW t \in Nat
  PROVE  TillNextSlot(slots, t) = 0 <=> \E i \in DOMAIN slots : Touches(slots[i], TimeOfDay(t))
<1> DEFINE m == TimeOfDay(t)
           n == Len(slots)
           Test(s) == m <= s.start \/ m <= s.end
           I == {i \in 1..Len(slots) : Test(slots[i])}
           i == IF I # {} THEN Least(I) ELSE 0
<1>1. /\ n \in 1..n /\ n \in Nat /\ DOMAIN slots = 1..n /\ 1 \in 1..n
      /\ \A k \in 1..n : slots[k] \in Slots /\ slots[k].start <= slots[k].end
      /\ \A k, l \in 1..n : k < l => slots[k].end < slots[l].start
  BY DEF Disjoint
<1>2. /\ \A k \in 1..n : slots[k].start \in Nat /\ slots[k].end \in Nat
      /\ m \in Nat /\ TillMidnight(t) \in Nat \ {0}
  <2>1. m \in 0..(DayLen - 1) BY MinuteFacts DEF TimeOfDay
  <2>2. TillMidnight(t) \in Nat \ {0} BY <2>1, CalendarAssumption DEF TillMidnight
  <2> QED BY <1>1, <2>1, <2>2, CalendarAssumption DEF Slots
<1>3. TillNextSlot(slots, t) =
        IF slots[n].end < m THEN TillMidnight(t) + slots[1].start
        ELSE IF i = 0 \/ slots[i].start < m THEN 0 ELSE slots[i].start - m
  BY DEF TillNextSlot, FirstFit
<1>4. ASSUME NEW k \in 1..n, NEW l \in 1..n, k <= l
      PROVE  slots[k].start <= slots[l].start /\ slots[k].end <= slots[l].end
  <2>1. CASE k = l BY <1>2, <2>1
  <2>2. CASE k # l
    <3>1. slots[k].end < slots[l].start BY <1>1, <1>4, <2>2
    <3> QED BY <1>1, <1>2, <3>1
  <2> QED BY <2>1, <2>2
<1>5. CASE slots[n].end < m
  <2>1. TillNextSlot(slots, t) # 0 BY <1>1, <1>2, <1>3, <1>5
  <2>2. ASSUME NEW k \in 1..n PROVE slots[k].end < m
    <3>1. k <= n BY <1>1
    <3>2. slots[k].end <= slots[n].end BY <1>1, <1>4, <3>1
    <3> QED BY <1>1, <1>2, <1>5, <3>2
  <2> QED BY SMTT(60), <1>1, <1>2, <2>1, <2>2 DEF Touches
<1>6. CASE ~(slots[n].end < m)
  <2>1. n \in I BY <1>1, <1>2, <1>6
  <2>2. PICK least \in I : \A k \in I : least <= k
    <3>1. I # {} /\ I \subseteq Nat BY <2>1
    <3> HIDE DEF I
    <3> QED BY Zenon, <3>1, LeastNumber
  <2>3. i \in I /\ \A k \in I : i <= k BY ZenonT(60), <2>2 DEF Least
  <2>4. i \in 1..n /\ i # 0 /\ Test(slots[i]) BY SMTT(60), <2>3
  <2>5. \A k \in 1..n : m <= slots[k].end => k \in I OBVIOUS
  <2> HIDE DEF i, I
  <2>6. TillNextSlot(slots, t) = 0 <=> slots[i].start <= m BY <1>2, <1>3, <1>6, <2>4
  <2>7. ASSUME slots[i].start <= m PROVE Touches(slots[i], m)
    <3>1. slots[i].start <= slots[i].end BY <1>1, <2>4
    <3> QED BY <1>2, <2>4, <2>7, <3>1 DEF Touches
  <2>8. ASSUME NEW k \in 1..n, Touches(slots[k], m) PROVE slots[i].start <= m
    <3>1. slots[k].start <= m /\ m <= slots[k].end BY <2>8 DEF Touches
    <3>2. i <= k BY <2>3, <2>5, <3>1
    <3>3. slots[i].start <= slots[k].start BY <1>4, <2>4, <3>2
    <3> QED BY <1>2, <2>4, <3>1, <3>3
  <2> QED BY <1>1, <2>4, <2>6, <2>7, <2>8
<1> QED BY <1>5, <1>6

\* The next day on which to run is a day ahead or more.
LEMMA AheadFacts ==
  ASSUME NEW days, days \subseteq Days, days # {}, NEW d \in Days
  PROVE  DaysAhead(days, d) \in Nat \ {0}
<1> DEFINE later == {e \in days : d < e}
<1>1. WeekLen \in Nat \ {0} /\ \A e \in days : e \in Nat /\ e < WeekLen BY CalendarAssumption DEF Days
<1>2. d \in Nat /\ d < WeekLen BY CalendarAssumption DEF Days
<1>3. ASSUME NEW s, s \subseteq days, s # {} PROVE Least(s) \in s
  <2>1. s \subseteq Nat BY <1>1, <1>3
  <2> QED BY Zenon, <1>3, <2>1, LeastNumber DEF Least
<1>4. DaysAhead(days, d) = IF later # {} THEN Least(later) - d
                           ELSE IF d \in days THEN WeekLen ELSE WeekLen - d + Least(days)
  BY DEF DaysAhead
<1>5. later # {} => Least(later) \in later BY Zenon, <1>3
<1>6. Least(days) \in days BY <1>3
<1>7. CASE later # {}
  <2>1. Least(later) \in Nat /\ d < Least(later) BY <1>1, <1>5, <1>7
  <2> HIDE DEF later
  <2> QED BY <1>2, <1>4, <1>7, <2>1
<1>8. CASE later = {}
  <2> HIDE DEF later
  <2>1. Least(days) \in Nat BY <1>1, <1>6
  <2> QED BY <1>1, <1>2, <1>4, <1>8, <2>1
<1> QED BY <1>7, <1>8

\* The days between are whole days.
LEMMA DurationFacts ==
  ASSUME NEW days, days \subseteq Days, NEW slots, NEW t \in Nat
  PROVE  DurationToNextRunnableWeekday(days, slots, t) \in Nat
<1>1. ASSUME NEW a \in Nat \ {0} PROVE (a - 1) * DayLen \in Nat
  <2>1. a - 1 \in Nat /\ DayLen \in Nat BY CalendarAssumption
  <2> QED BY <2>1
<1>2. Weekday(t) \in Days BY WeekdayFacts
<1>3. CASE days = {} BY <1>3 DEF DurationToNextRunnableWeekday
<1>4. CASE days # {}
  <2>1. (DaysAhead(days, Weekday(t)) - 1) * DayLen \in Nat BY <1>1, <1>2, <1>4, AheadFacts
  <2> QED BY <1>4, <2>1 DEF DurationToNextRunnableWeekday
<1> QED BY <1>3, <1>4

(* The slots of a window.                                                    *)

\* Ranges that are apart are in order, and their slots are the ranges.
LEMMA DisjointInOrder ==
  ASSUME NEW s, Disjoint(s), NEW m \in Nat
  PROVE  /\ InOrder(s)
         /\ InSlots(s, m) <=> \E i \in DOMAIN s : Touches(s[i], m)
<1> DEFINE n == Len(s)
<1>1. /\ s \in Seq(Slots) /\ n \in Nat /\ DOMAIN s = 1..n
      /\ \A i \in 1..n : s[i] \in Slots /\ s[i].start <= s[i].end
      /\ \A i, j \in 1..n : i < j => s[i].end < s[j].start
  BY DEF Disjoint
<1>2. \A i \in 1..n : s[i].start \in 0..(DayLen - 1) /\ s[i].end \in 1..(DayLen - 1) BY <1>1 DEF Slots
<1>3. \A i \in 1..n : ~IsMidnight(s[i].end)
  <2>1. \A e \in 1..(DayLen - 1) : e \in 0..(DayLen - 1) /\ e # 0 OBVIOUS
  <2> QED BY <1>2, <2>1, MinuteFacts DEF IsMidnight
<1>4. s \in Seq(GapRanges)
  <2>1. Slots \subseteq GapRanges BY CalendarAssumption DEF Slots, GapRanges
  <2>2. s \in [1..n -> GapRanges] BY <1>1, <2>1
  <2> HIDE DEF n
  <2> QED BY <1>1, <2>2
<1>5. ASSUME NEW i \in 1..n, NEW j \in 1..n, i < j PROVE s[i].start <= s[j].start
  <2>1. s[i].start <= s[i].end /\ s[i].end < s[j].start BY <1>1, <1>5
  <2> QED BY <1>2, <2>1
<1> HIDE DEF n
<1>6. InOrder(s) BY <1>1, <1>4, <1>5 DEF InOrder
<1>7. InSlots(s, m) <=> \E i \in DOMAIN s : Touches(s[i], m) BY <1>1, <1>3 DEF InSlots, Touches
<1> QED BY <1>6, <1>7

\* The gaps are in order too.  They hold the minutes that are not closed: the
\* ends of a range are in the gap beside it.
LEMMA GapsInOrder ==
  ASSUME NEW s, Disjoint(s), NEW m \in 0..(DayLen - 1)
  PROVE  /\ InOrder(ReverseRange(s)) /\ ReverseRange(s) # <<>>
         /\ InSlots(ReverseRange(s), m)
              <=> ~(/\ m = 0 \/ \E i \in DOMAIN s : Ends(s[i], m)
                    /\ \E i \in DOMAIN s : Begins(s[i], m))
<1> DEFINE n == Len(s)
           z == LeftOut(s)
           R == ReverseRange(s)
           G(k) == GapBefore(s, k)
           from(k) == IF k = 1 THEN 0 ELSE s[k - 1].end
           to(k) == IF k = n + 1 THEN DayLen ELSE s[k].start
<1>1. /\ s \in Seq(Slots) /\ n \in Nat /\ n >= 1 /\ DOMAIN s = 1..n
      /\ \A i \in 1..n : s[i] \in Slots /\ s[i].start <= s[i].end
      /\ \A i, j \in 1..n : i < j => s[i].end < s[j].start
  BY DEF Disjoint
<1>2. /\ \A i \in 1..n : s[i].start \in Nat /\ s[i].start < DayLen /\ s[i].end \in Nat /\ 1 <= s[i].end /\ s[i].end < DayLen
      /\ DayLen \in Nat /\ DayLen # 0 /\ m \in Nat /\ m < DayLen
      /\ z \in {0, 1} /\ (z = 1 <=> s[1].start = 0)
  BY <1>1, CalendarAssumption DEF Slots, LeftOut
<1>3. /\ R \in Seq(GapRanges) /\ Len(R) = n + 1 - z /\ DOMAIN R = 1..(n + 1 - z)
      /\ \A k \in 1..(n + 1 - z) : R[k] = G(k + z)
  <2>1. R \in Seq(GapRanges) /\ Len(R) = n + 1 - z /\ \A k \in DOMAIN R : R[k] = G(k + z) BY ReverseFacts
  <2>2. DOMAIN R = 1..(n + 1 - z) BY <2>1
  <2> QED BY <2>1, <2>2
<1>4. \A k \in 1..(n + 1) : G(k).start = from(k) /\ G(k).end = to(k) BY DEF GapBefore, HourRange
<1> HIDE DEF R, z, G, n
<1>5. R # <<>> BY <1>1, <1>2, <1>3
<1>6. \A k \in 1..(n + 1) : k # 1 => k - 1 \in 1..n BY <1>1
<1>7. \A k \in 1..(n + 1) : k # n + 1 => k \in 1..n BY <1>1
<1>8. ASSUME NEW k \in 1..(n + 1) PROVE from(k) \in Nat /\ to(k) \in Nat /\ from(k) <= to(k)
  <2>1. from(k) \in Nat /\ to(k) \in Nat BY <1>2, <1>6, <1>7
  <2>2. CASE k = 1 BY <2>1, <2>2
  <2>3. CASE k # 1 /\ k = n + 1 BY <1>2, <1>6, <2>3
  <2>4. CASE k # 1 /\ k # n + 1
    <3>1. k - 1 \in 1..n /\ k \in 1..n /\ k - 1 < k BY <1>1, <1>6, <1>7, <2>4
    <3>2. s[k - 1].end < s[k].start BY <1>1, <3>1
    <3> QED BY <1>2, <2>4, <3>1, <3>2
  <2> QED BY <2>1, <2>2, <2>3, <2>4
<1>9. ASSUME NEW i \in 1..n, NEW j \in 1..n, i <= j PROVE s[i].end <= s[j].end /\ s[i].start <= s[j].start
  <2>1. CASE i = j BY <1>2, <2>1
  <2>2. CASE i # j
    <3>1. i < j BY <1>9, <2>2
    <3>2. s[i].end < s[j].start BY <1>1, <3>1
    <3>3. s[i].start <= s[i].end /\ s[j].start <= s[j].end BY <1>1
    <3> QED BY <1>2, <3>2, <3>3
  <2> QED BY <2>1, <2>2
<1>10. ASSUME NEW k \in 1..(n + 1), NEW l \in 1..(n + 1), k < l PROVE from(k) <= from(l)
  <2>1. CASE k = 1 BY <1>8, <2>1
  <2>2. CASE k # 1
    <3>1. l # 1 /\ k - 1 \in 1..n /\ l - 1 \in 1..n /\ k - 1 <= l - 1 BY <1>1, <1>6, <1>10, <2>2
    <3>2. s[k - 1].end <= s[l - 1].end BY <1>9, <3>1
    <3> QED BY <2>2, <3>1, <3>2
  <2> QED BY <2>1, <2>2
<1>11. \A k \in 1..(n + 1 - z) : k + z \in 1..(n + 1) BY <1>1, <1>2
<1>12. InOrder(R)
  <2>1. ASSUME NEW k \in 1..(n + 1 - z) PROVE R[k].start <= R[k].end BY <1>3, <1>4, <1>8, <1>11
  <2>2. ASSUME NEW k \in 1..(n + 1 - z), NEW l \in 1..(n + 1 - z), k < l PROVE R[k].start <= R[l].start
    <3>1. k + z \in 1..(n + 1) /\ l + z \in 1..(n + 1) /\ k + z < l + z BY <1>1, <1>2, <1>11, <2>2
    <3>2. R[k].start = from(k + z) /\ R[l].start = from(l + z) BY <1>3, <1>4, <3>1
    <3> HIDE DEF from
    <3> QED BY <1>10, <3>1, <3>2
  <2> QED BY <1>3, <2>1, <2>2 DEF InOrder
<1> DEFINE Gapped == \E k \in 1..(n + 1) : k # z /\ from(k) <= m /\ m <= to(k)
<1>13. InSlots(R, m) <=> Gapped
  <2>1. ASSUME NEW k \in 1..(n + 1 - z), R[k].start <= m, m <= R[k].end \/ IsMidnight(R[k].end) PROVE Gapped
    <3> DEFINE j == k + z
    <3>1. j \in 1..(n + 1) /\ j # z /\ R[k].start = from(j) /\ R[k].end = to(j)
      <4>1. j \in 1..(n + 1) /\ j # z BY <1>1, <1>2, <1>11
      <4> QED BY <1>3, <1>4, <4>1
    <3> HIDE DEF j
    <3>2. m <= to(j)
      <4>1. CASE j = n + 1 BY <1>2, <4>1
      <4>2. CASE j # n + 1
        <5>1. j \in 1..n /\ 1 \in 1..n BY <1>1, <1>7, <3>1, <4>2
        <5>2. s[j].start # 0
          <6>1. CASE j = 1
            <7>1. z # 1 BY <3>1, <6>1
            <7> QED BY <1>2, <6>1, <7>1
          <6>2. CASE j # 1
            <7>1. 1 < j BY <5>1, <6>2
            <7>2. s[1].end < s[j].start BY <1>1, <5>1, <7>1
            <7> QED BY <1>2, <5>1, <7>2
          <6> QED BY <6>1, <6>2
        <5>3. s[j].start \in 0..(DayLen - 1) BY <1>2, <5>1
        <5>4. ~IsMidnight(s[j].start) BY <5>2, <5>3, MinuteFacts DEF IsMidnight
        <5> QED BY <2>1, <3>1, <4>2, <5>4
      <4> QED BY <4>1, <4>2
    <3> HIDE DEF from, to
    <3> QED BY <2>1, <3>1, <3>2
  <2>2. ASSUME NEW j \in 1..(n + 1), j # z, from(j) <= m, m <= to(j) PROVE InSlots(R, m)
    <3>1. j - z \in 1..(n + 1 - z) /\ j - z + z = j BY <1>1, <1>2, <2>2
    <3>2. R[j - z].start = from(j) /\ R[j - z].end = to(j) BY <1>3, <1>4, <3>1
    <3> HIDE DEF from, to
    <3> QED BY <1>3, <2>2, <3>1, <3>2 DEF InSlots
  <2>3. InSlots(R, m) => Gapped
    <3> HIDE DEF from, to, Gapped
    <3> QED BY <1>3, <2>1 DEF InSlots
  <2> HIDE DEF from, to
  <2> QED BY <2>2, <2>3
<1> DEFINE Closed == /\ m = 0 \/ \E i \in 1..n : Ends(s[i], m)
                     /\ \E i \in 1..n : Begins(s[i], m)
<1>14. ASSUME NEW k \in 1..(n + 1), k # z, from(k) <= m, m <= to(k) PROVE ~Closed
  <2> SUFFICES ASSUME Closed PROVE FALSE OBVIOUS
  <2>1. PICK i \in 1..n : s[i].start <= m /\ m < s[i].end BY DEF Begins
  <2>2. ~(i < k)
    <3> SUFFICES ASSUME i < k PROVE FALSE OBVIOUS
    <3>1. k # 1 /\ i <= k - 1 BY <1>1
    <3>2. k - 1 \in 1..n BY <1>6, <3>1
    <3>3. s[i].end <= s[k - 1].end BY <1>9, <3>1, <3>2
    <3> QED BY <1>2, <1>14, <2>1, <3>1, <3>2, <3>3
  <2>3. k \in 1..n /\ k <= i BY <1>1, <2>2
  <2>4. k # n + 1 /\ m <= s[k].start BY <1>1, <1>14, <2>3
  <2>5. s[k].start <= s[i].start BY <1>9, <2>3
  <2>6. m = s[k].start BY <1>2, <2>1, <2>3, <2>4, <2>5
  <2>7. CASE m = 0
    <3>1. k # 1 BY Zenon, <1>2, <1>14, <2>6, <2>7
    <3>2. 1 \in 1..n /\ 1 < k BY <1>1, <2>3, <3>1
    <3>3. s[1].end < s[k].start BY <1>1, <2>3, <3>2
    <3> QED BY <1>2, <2>6, <2>7, <3>2, <3>3
  <2>8. CASE m # 0
    <3>1. PICK l \in 1..n : s[l].start < m /\ m <= s[l].end BY <2>8 DEF Ends
    <3>2. CASE l < k
      <4>1. s[l].end < s[k].start BY Zenon, <1>1, <2>3, <3>2
      <4> QED BY <1>2, <2>3, <2>6, <3>1, <4>1
    <3>3. CASE ~(l < k)
      <4>1. k <= l BY <2>3, <3>3
      <4>2. s[k].start <= s[l].start BY <1>9, <2>3, <4>1
      <4> QED BY <1>2, <2>3, <2>6, <3>1, <4>2
    <3> QED BY <3>2, <3>3
  <2> QED BY <2>7, <2>8
<1>15. ASSUME ~Closed PROVE Gapped
  <2>1. CASE \A i \in 1..n : ~Begins(s[i], m)
    <3> DEFINE I == {k \in 1..(n + 1) : m <= to(k)}
    <3>1. n + 1 \in I BY <1>1, <1>2
    <3>2. I \subseteq Nat OBVIOUS
    <3> HIDE DEF I
    <3>3. PICK k \in I : \A l \in I : k <= l BY Zenon, <3>1, <3>2, LeastNumber
    <3>4. k \in 1..(n + 1) /\ m <= to(k) BY DEF I
    <3>5. from(k) <= m
      <4>1. CASE k = 1 BY <1>2, <4>1
      <4>2. CASE k # 1
        <5>1. k - 1 \in 1..n /\ k - 1 \in 1..(n + 1) /\ ~(k <= k - 1) /\ k - 1 # n + 1 BY <1>1, <1>6, <3>4, <4>2
        <5>2. k - 1 \notin I BY <3>3, <5>1
        <5>3. ~(m <= s[k - 1].start) BY <5>1, <5>2 DEF I
        <5>4. ~Begins(s[k - 1], m) BY <2>1, <5>1
        <5> QED BY <1>2, <4>2, <5>1, <5>3, <5>4 DEF Begins
      <4> QED BY <4>1, <4>2
    <3>6. k # z
      <4> SUFFICES ASSUME k = z PROVE FALSE OBVIOUS
      <4>1. k = 1 /\ s[1].start = 0 /\ 1 \in 1..n /\ 1 # n + 1 BY <1>1, <1>2, <3>4
      <4>2. m = 0 BY <1>2, <3>4, <4>1
      <4>3. Begins(s[1], m) BY <1>2, <4>1, <4>2 DEF Begins
      <4> QED BY <2>1, <4>1, <4>3
    <3> HIDE DEF from, to
    <3> QED BY <3>4, <3>5, <3>6
  <2>2. ASSUME NEW j \in 1..n, Begins(s[j], m) PROVE Gapped
    <3>1. m # 0 /\ ~Ends(s[j], m) BY <1>15, <2>2
    <3>2. m = s[j].start BY <1>2, <2>2, <3>1 DEF Begins, Ends
    <3>3. j \in 1..(n + 1) /\ j # n + 1 /\ m <= to(j) BY <1>1, <1>2, <3>2
    <3>4. from(j) <= m BY <1>8, <3>2, <3>3
    <3>5. j # z BY <1>2, <3>1, <3>2
    <3> HIDE DEF from, to
    <3> QED BY <3>3, <3>4, <3>5
  <2> HIDE DEF Gapped
  <2> QED BY <2>1, <2>2
<1>16. InSlots(R, m) <=> ~Closed
  <2> HIDE DEF Closed
  <2>1. Gapped => ~Closed
    <3> HIDE DEF from, to
    <3> QED BY <1>14
  <2> QED BY <1>13, <1>15, <2>1
<1> QED BY <1>1, <1>5, <1>12, <1>16 DEF R


\* The ranges of a window, turned around where they are written backwards.
Turned(hours) ==
    [i \in DOMAIN hours |->
        LET r == hours[i]
        IN  IF r.start < r.end \/ IsMidnight(r.end) THEN r ELSE HourRange(r.end, r.start)]

\* Of a window in which no range ends at midnight: its slots are apart and hold
\* the open minutes.
LEMMA PlainHours ==
  ASSUME NEW tw, tw.hours \in Seq(AnySlots), tw.hours # <<>>, ~EndsAtMidnight(tw), NEW m \in Nat
  PROVE  LET s == ValidateHourRange(tw.hours)
         IN  /\ Disjoint(s)
             /\ OpenHours(tw, m) <=> \E i \in DOMAIN s : Touches(s[i], m)
             /\ ClosedHours(tw, m) <=> /\ m = 0 \/ \E i \in DOMAIN s : Ends(s[i], m)
                                       /\ \E i \in DOMAIN s : Begins(s[i], m)
<1> DEFINE in == Turned(tw.hours)
           D == DOMAIN tw.hours
           s == MergeHourRanges(in)
           n == Len(tw.hours)
<1>1. n \in Nat /\ n # 0 /\ D = 1..n /\ \A i \in D : tw.hours[i] \in AnySlots OBVIOUS
<1>2. DOMAIN in = D /\ \A i \in D : in[i] = Ordered(tw.hours[i]) /\ in[i] \in Slots /\ in[i].start <= in[i].end
  <2>1. DOMAIN in = D BY DEF Turned
  <2>2. ASSUME NEW i \in D
        PROVE  in[i] = Ordered(tw.hours[i]) /\ in[i] \in Slots /\ in[i].start <= in[i].end
    <3> DEFINE r == tw.hours[i]
    <3>1. in[i] = IF r.start < r.end \/ IsMidnight(r.end) THEN r ELSE HourRange(r.end, r.start) BY DEF Turned
    <3>2. r \in AnySlots /\ r.end # 0 BY <1>1 DEF EndsAtMidnight
    <3>3. r.start \in 0..(DayLen - 1) /\ r.end \in 0..(DayLen - 1) BY <3>2 DEF AnySlots
    <3>4. ~IsMidnight(r.end) BY <3>2, <3>3, MinuteFacts DEF IsMidnight
    <3> HIDE DEF r
    <3>5. in[i] = Ordered(r) BY Zenon, <3>1, <3>2, <3>4 DEF Ordered
    <3>6. CASE r.start < r.end
      <4>1. in[i] = r BY <3>1, <3>6
      <4> QED BY <3>2, <3>3, <3>5, <3>6, <4>1 DEF Slots, AnySlots, r
    <3>7. CASE ~(r.start < r.end)
      <4>1. in[i] = HourRange(r.end, r.start) BY <3>1, <3>4, <3>7
      <4>2. HourRange(r.end, r.start) \in Slots BY <3>2, <3>3, <3>7 DEF HourRange, Slots
      <4>3. in[i].start = r.end /\ in[i].end = r.start BY <4>1 DEF HourRange
      <4> QED BY <3>3, <3>5, <3>7, <4>1, <4>2, <4>3 DEF r
    <3> QED BY <3>6, <3>7
  <2> QED BY <2>1, <2>2
<1>3. ValidateHourRange(tw.hours) = s BY DEF ValidateHourRange, Turned
<1> HIDE DEF in
<1>4. in \in Seq(Slots) /\ in # <<>>
  <2>1. in = [i \in D |-> in[i]] BY <1>2 DEF in, Turned
  <2>2. in \in [1..n -> Slots] BY Zenon, <1>1, <1>2, <2>1
  <2> HIDE DEF n
  <2>3. in \in Seq(Slots) BY <1>1, <2>2
  <2> QED BY SMTT(60), <1>1, <1>2, <2>3
<1>5. Disjoint(s) /\ Covers(s, in, D) BY <1>2, <1>4, MergedFacts
<1>6. Ranges(tw) = {in[i] : i \in D} BY <1>2 DEF Ranges
<1> HIDE DEF s, D
<1>7. OpenHours(tw, m) <=> \E i \in D : Touches(in[i], m) BY <1>6 DEF OpenHours, Touches
<1>8. ClosedHours(tw, m) <=> /\ m = 0 \/ \E i \in D : Ends(in[i], m)
                             /\ \E i \in D : Begins(in[i], m)
  BY <1>6 DEF ClosedHours, Ends, Begins
<1>9. /\ (\E i \in DOMAIN s : Touches(s[i], m)) <=> \E i \in D : Touches(in[i], m)
      /\ (\E i \in DOMAIN s : Ends(s[i], m)) <=> \E i \in D : Ends(in[i], m)
      /\ (\E i \in DOMAIN s : Begins(s[i], m)) <=> \E i \in D : Begins(in[i], m)
  BY Zenon, <1>5 DEF Covers
<1> QED BY Zenon, <1>3, <1>5, <1>7, <1>8, <1>9

\* Of a window whose only range ends at midnight.
LEMMA MidnightHours ==
  ASSUME NEW tw, tw.hours \in Seq(AnySlots), Len(tw.hours) = 1, EndsAtMidnight(tw),
         NEW m \in 0..(DayLen - 1)
  PROVE  LET s == ValidateHourRange(tw.hours)
             r == tw.hours[1]
         IN  /\ s = <<r>> /\ r.start \in 0..(DayLen - 1) /\ r.end = 0
             /\ ReverseRange(s) = IF r.start = 0 THEN <<>> ELSE <<HourRange(0, r.start)>>
             /\ OpenHours(tw, m) <=> r.start <= m
             /\ ClosedHours(tw, m) <=> r.start = 0 \/ r.start < m
<1> DEFINE r == tw.hours[1]
           s == <<r>>
<1>1. DOMAIN tw.hours = {1} /\ r \in AnySlots /\ tw.hours = <<r>> /\ tw.hours # <<>>
  <2>1. DOMAIN tw.hours = 1..1 /\ 1..1 = {1} OBVIOUS
  <2> QED BY <2>1
<1>2. r.start \in 0..(DayLen - 1) /\ r.end = 0
  <2>1. PICK i \in DOMAIN tw.hours : tw.hours[i].end = 0 BY DEF EndsAtMidnight
  <2>2. i = 1 BY <1>1
  <2> QED BY <1>1, <2>1, <2>2 DEF AnySlots
<1>3. IsMidnight(0) BY MinuteFacts, CalendarAssumption DEF IsMidnight
<1>4. ValidateHourRange(tw.hours) = s
  <2>1. ValidateHourRange(tw.hours) = MergeHourRanges(Turned(tw.hours)) BY Zenon DEF ValidateHourRange, Turned
  <2>2. Turned(tw.hours)[1] = r /\ DOMAIN Turned(tw.hours) = {1} BY Zenon, <1>1, <1>2, <1>3 DEF Turned
  <2>3. Turned(tw.hours) = [i \in {1} |-> r] BY <1>1, <2>2 DEF Turned
  <2>4. tw.hours = [i \in {1} |-> r] BY <1>1
  <2>5. Turned(tw.hours) = tw.hours BY <2>3, <2>4
  <2>6. MergeHourRanges(tw.hours) = tw.hours BY DEF MergeHourRanges
  <2> QED BY Zenon, <1>1, <2>1, <2>5, <2>6
<1>5. ReverseRange(s) = IF r.start = 0 THEN <<>> ELSE <<HourRange(0, r.start)>>
  <2>1. s \in Seq(AnySlots) /\ s # <<>> /\ Len(s) = 1 /\ DOMAIN s = {1} /\ s[1] = r BY Zenon, <1>1
  <2> HIDE DEF s
  <2>2. PICK f : /\ f[0] = [out |-> <<>>, from |-> 0]
                 /\ \A i \in DOMAIN s : f[i] = Gap(f[i - 1], s[i])
                 /\ LET last == f[Len(s)].from
                        from == IF IsMidnight(last) THEN last + DayLen ELSE last
                    IN  ReverseRange(s) = IF from = DayLen THEN f[Len(s)].out
                                          ELSE Append(f[Len(s)].out, HourRange(from, DayLen))
    BY Zenon, <2>1, ReverseRuns
  <2>3. f[1] = Gap([out |-> <<>>, from |-> 0], r)
    <3>1. f[1] = Gap(f[1 - 1], s[1]) BY <2>1, <2>2
    <3>2. 1 - 1 = 0 OBVIOUS
    <3> QED BY Zenon, <2>1, <2>2, <3>1, <3>2
  <2>4. f[1].from = 0 /\ f[1].out = IF r.start = 0 THEN <<>> ELSE Append(<<>>, HourRange(0, r.start))
    BY <1>2, <2>3 DEF Gap
  <2>5. 0 + DayLen = DayLen BY CalendarAssumption
  <2>6. ReverseRange(s) = f[1].out BY <1>3, <2>1, <2>2, <2>4, <2>5
  <2>7. Append(<<>>, HourRange(0, r.start)) = <<HourRange(0, r.start)>> OBVIOUS
  <2> QED BY <2>4, <2>6, <2>7
<1>6. Ranges(tw) = {HourRange(r.start, DayLen)} BY <1>1, <1>2 DEF Ranges, Ordered
<1>7. /\ HourRange(r.start, DayLen).start = r.start /\ HourRange(r.start, DayLen).end = DayLen
      /\ DayLen \in Nat /\ m \in Nat /\ m < DayLen /\ r.start \in Nat /\ r.start < DayLen
  BY <1>2, CalendarAssumption DEF HourRange
<1> HIDE DEF r
<1>8. OpenHours(tw, m) <=> r.start <= m
  <2>1. OpenHours(tw, m) <=> \E x \in {HourRange(r.start, DayLen)} : x.start <= m /\ m <= x.end
    BY <1>1, <1>6 DEF OpenHours
  <2> QED BY <1>7, <2>1
<1>9. ClosedHours(tw, m) <=> r.start = 0 \/ r.start < m
  <2>1. ClosedHours(tw, m) <=> /\ m = 0 \/ \E x \in {HourRange(r.start, DayLen)} : x.start < m /\ m <= x.end
                               /\ \E x \in {HourRange(r.start, DayLen)} : x.start <= m /\ m < x.end
    BY <1>1, <1>6 DEF ClosedHours
  <2>2. ClosedHours(tw, m) <=> (m = 0 \/ r.start < m) /\ r.start <= m BY <1>7, <2>1
  <2> QED BY <1>7, <2>2
<1> QED BY <1>2, <1>4, <1>5, <1>8, <1>9 DEF r

\* The slots of a window, whether it ends at midnight or not: those of an active
\* one hold the open minutes, the gaps of a blocked one the others.
LEMMA HoursFacts ==
  ASSUME NEW tw, tw.hours \in Seq(AnySlots), tw.hours # <<>>,
         EndsAtMidnight(tw) => Len(tw.hours) = 1,
         NEW m \in 0..(DayLen - 1)
  PROVE  LET s == ValidateHourRange(tw.hours)
         IN  /\ InOrder(s) /\ s # <<>> /\ (InSlots(s, m) <=> OpenHours(tw, m))
             /\ InOrder(ReverseRange(s)) /\ (InSlots(ReverseRange(s), m) <=> ~ClosedHours(tw, m))
<1> DEFINE s == ValidateHourRange(tw.hours)
<1>1. m \in Nat BY SMTT(60)
<1>2. CASE ~EndsAtMidnight(tw)
  <2>1. /\ Disjoint(s)
        /\ OpenHours(tw, m) <=> \E i \in DOMAIN s : Touches(s[i], m)
        /\ ClosedHours(tw, m) <=> /\ m = 0 \/ \E i \in DOMAIN s : Ends(s[i], m)
                                  /\ \E i \in DOMAIN s : Begins(s[i], m)
    BY Zenon, <1>1, <1>2, PlainHours
  <2> HIDE DEF s
  <2>2. InOrder(s) /\ (InSlots(s, m) <=> OpenHours(tw, m)) BY <1>1, <2>1, DisjointInOrder
  <2>3. InOrder(ReverseRange(s)) /\ (InSlots(ReverseRange(s), m) <=> ~ClosedHours(tw, m)) BY <2>1, GapsInOrder
  <2>4. s # <<>> BY Zenon, <2>1 DEF Disjoint
  <2> QED BY <2>2, <2>3, <2>4 DEF s
<1>3. CASE EndsAtMidnight(tw)
  <2> DEFINE r == tw.hours[1]
             g == HourRange(0, r.start)
  <2>1. /\ s = <<r>> /\ r.start \in 0..(DayLen - 1) /\ r.end = 0
        /\ ReverseRange(s) = IF r.start = 0 THEN <<>> ELSE <<g>>
        /\ OpenHours(tw, m) <=> r.start <= m
        /\ ClosedHours(tw, m) <=> r.start = 0 \/ r.start < m
    BY <1>3, MidnightHours
  <2>2. IsMidnight(0) BY MinuteFacts, CalendarAssumption DEF IsMidnight
  <2>3. r \in GapRanges
    <3>1. r \in AnySlots BY <1>3
    <3> QED BY <3>1, CalendarAssumption DEF AnySlots, GapRanges
  <2> HIDE DEF s, r
  <2>4. DOMAIN s = {1} /\ s[1] = r /\ s \in Seq(GapRanges) /\ s # <<>> BY <2>1, <2>3
  <2>5. InOrder(s) BY <2>1, <2>2, <2>4 DEF InOrder
  <2>6. InSlots(s, m) <=> OpenHours(tw, m) BY Zenon, <2>1, <2>2, <2>4 DEF InSlots
  <2>7. CASE r.start = 0
    <3>1. ReverseRange(s) = <<>> /\ DOMAIN ReverseRange(s) = {} /\ <<>> \in Seq(GapRanges) BY <2>1, <2>7
    <3>2. InOrder(ReverseRange(s)) BY <3>1 DEF InOrder
    <3>3. ~InSlots(ReverseRange(s), m) BY Zenon, <3>1 DEF InSlots
    <3> QED BY Zenon, <2>1, <2>4, <2>5, <2>6, <2>7, <3>2, <3>3 DEF s
  <2>8. CASE r.start # 0
    <3>1. g \in GapRanges /\ g.start = 0 /\ g.end = r.start BY <2>1, CalendarAssumption DEF HourRange, GapRanges
    <3>2. ~IsMidnight(g.end) BY <2>1, <2>8, <3>1, MinuteFacts DEF IsMidnight
    <3>3. ReverseRange(s) = <<g>> BY <2>1, <2>8
    <3> HIDE DEF g
    <3>4. DOMAIN ReverseRange(s) = {1} /\ ReverseRange(s)[1] = g /\ ReverseRange(s) \in Seq(GapRanges) BY <3>1, <3>3
    <3>5. InOrder(ReverseRange(s)) BY <2>1, <3>1, <3>4 DEF InOrder
    <3>6. InSlots(ReverseRange(s), m) <=> m <= r.start BY <2>1, <3>1, <3>2, <3>4 DEF InSlots
    <3> QED BY <2>1, <2>4, <2>5, <2>6, <2>8, <3>5, <3>6 DEF s
  <2> QED BY Zenon, <2>7, <2>8
<1> QED BY <1>2, <1>3

(* IsInWindow.                                                               *)

\* For an active window.
LEMMA ActiveRead ==
  ASSUME NEW tw, tw.type = "active", tw.hours \in Seq(AnySlots), ~Misread(tw), NEW t \in Nat
  PROVE  IsInWindow(tw, t) <=> Open(tw, t)
<1> DEFINE slots == ValidateHourRange(tw.hours)
           days == RunDays(tw)
           m == TimeOfDay(t)
           ahead == DurationToNextRunnableWeekday(days, slots, t)
           today == TillNextSlotInCurrentDay(slots, t)
           later == TillMidnight(t) + TillNextSlotFromMidnight(slots) + ahead
<1>1. IsInWindow(tw, t) <=> GenerateNextPoint(slots, days, t, FALSE) = 0 BY DEF IsInWindow, NextStartPoint
<1>2. Open(tw, t) <=> (days = {} \/ Weekday(t) \in days) /\ OpenHours(tw, m)
  <2>1. Weekday(t) \in Days BY WeekdayFacts
  <2>2. Weekday(t) \in tw.days <=> Weekday(t) \in days BY <2>1 DEF RunDays
  <2> QED BY <2>2 DEF Open
<1>3. m \in 0..(DayLen - 1) /\ TillMidnight(t) \in Nat \ {0}
  <2>1. m \in 0..(DayLen - 1) BY MinuteFacts DEF TimeOfDay
  <2> QED BY <2>1, CalendarAssumption DEF TillMidnight
<1>4. ahead \in Nat
  <2>1. days \subseteq Days BY DEF RunDays
  <2> QED BY <2>1, DurationFacts
<1>5. CASE tw.hours = <<>>
  <2>1. slots = <<>>
    <3>1. ValidateHourRange(tw.hours) = MergeHourRanges(Turned(tw.hours)) BY DEF ValidateHourRange, Turned
    <3>2. Turned(tw.hours) = <<>> BY <1>5 DEF Turned
    <3>3. MergeHourRanges(<<>>) = <<>> BY DEF MergeHourRanges
    <3> QED BY <3>1, <3>2, <3>3
  <2>2. OpenHours(tw, m) BY <1>5 DEF OpenHours
  <2> HIDE DEF slots, days, m
  <2>3. CASE days = {} BY <1>1, <1>2, <2>1, <2>2, <2>3 DEF GenerateNextPoint
  <2>4. CASE days # {}
    <3>1. GenerateNextPoint(slots, days, t, FALSE) = IF Weekday(t) \in days THEN 0 ELSE TillMidnight(t) + ahead
      BY <2>1, <2>4 DEF GenerateNextPoint, NextPointActive
    <3> HIDE DEF ahead
    <3>2. TillMidnight(t) + ahead # 0 BY <1>3, <1>4
    <3> QED BY Zenon, <1>1, <1>2, <2>2, <2>4, <3>1, <3>2
  <2> QED BY <2>3, <2>4
<1>6. CASE tw.hours # <<>>
  <2>1. EndsAtMidnight(tw) => Len(tw.hours) = 1 /\ days # {}
    <3>1. EndsAtMidnight(tw) => ~(Len(tw.hours) > 1) /\ days # {} BY DEF Misread
    <3> DEFINE n == Len(tw.hours)
    <3>2. n \in Nat /\ n # 0 BY <1>6
    <3> HIDE DEF n
    <3>3. ~(n > 1) => n = 1 BY SMTT(60), <3>2
    <3> QED BY <3>1, <3>3 DEF n
  <2>2. InOrder(slots) /\ slots # <<>> /\ (InSlots(slots, m) <=> OpenHours(tw, m)) BY <1>3, <1>6, <2>1, HoursFacts
  <2>3. today \in Nat \cup {-1} /\ (today = 0 <=> OpenHours(tw, m)) BY <2>2, TodayFacts
  <2>4. later # 0
    <3>1. slots \in Seq(GapRanges) BY <2>2 DEF InOrder
    <3>2. TillNextSlotFromMidnight(slots) \in Nat BY <2>2, <3>1, FromMidnightFacts
    <3> HIDE DEF ahead, slots
    <3> QED BY SMTT(60), <1>3, <1>4, <3>2
  <2>5. CASE days = {}
    <3>1. ~EndsAtMidnight(tw) BY <2>1, <2>5
    <3>2. Disjoint(slots) /\ (OpenHours(tw, m) <=> \E i \in DOMAIN slots : Touches(slots[i], m))
      <4>1. m \in Nat BY <1>3
      <4> HIDE DEF m
      <4> QED BY Zenon, <1>6, <3>1, <4>1, PlainHours
    <3>3. TillNextSlot(slots, t) = 0 <=> OpenHours(tw, m) BY <3>2, NextSlotFacts
    <3>4. GenerateNextPoint(slots, days, t, FALSE) = TillNextSlot(slots, t)
      BY <2>2, <2>5 DEF GenerateNextPoint, NextPointActive
    <3> QED BY Zenon, <1>1, <1>2, <2>5, <3>3, <3>4
  <2>6. CASE days # {}
    <3>1. GenerateNextPoint(slots, days, t, FALSE) =
            IF Weekday(t) \in days /\ ahead = 0 /\ today >= 0 THEN today ELSE later
      BY <2>2, <2>6 DEF GenerateNextPoint, NextPointActive
    <3>2. Weekday(t) \in days /\ today >= 0 => ahead = 0 BY <2>6 DEF DurationToNextRunnableWeekday
    <3> HIDE DEF later, today, ahead, slots, days
    <3>3. CASE Weekday(t) \in days /\ today >= 0 BY Zenon, <1>1, <1>2, <2>3, <3>1, <3>2, <3>3
    <3>4. CASE Weekday(t) \in days /\ ~(today >= 0)
      <4>1. today # 0 BY <2>3, <3>4
      <4> QED BY Zenon, <1>1, <1>2, <2>3, <2>4, <3>1, <3>4, <4>1
    <3>5. CASE Weekday(t) \notin days BY Zenon, <1>1, <1>2, <2>4, <2>6, <3>1, <3>5
    <3> QED BY <3>3, <3>4, <3>5
  <2> QED BY <2>5, <2>6
<1> QED BY <1>5, <1>6

\* For a blocked window.
LEMMA BlockedRead ==
  ASSUME NEW tw, tw.type = "blocked", tw.hours \in Seq(AnySlots), ~Misread(tw), NEW t \in Nat
  PROVE  IsInWindow(tw, t) <=> Open(tw, t)
<1> DEFINE slots == ReverseRange(ValidateHourRange(tw.hours))
           days == OtherDays(tw)
           m == TimeOfDay(t)
           ahead == DurationToNextRunnableWeekday(days, slots, t)
           today == TillNextSlotInCurrentDay(slots, t)
<1>1. IsInWindow(tw, t) <=> GenerateNextPoint(slots, days, t, TRUE) = 0 BY Zenon DEF IsInWindow, NextStartPoint
<1>2. ASSUME NEW u \in Nat
      PROVE  Open(tw, u) <=> \/ tw.days = {} /\ tw.hours = <<>>
                             \/ Weekday(u) \in days
                             \/ ~ClosedHours(tw, TimeOfDay(u))
  <2>1. Weekday(u) \in Days BY WeekdayFacts
  <2>2. Weekday(u) \in days <=> tw.days # {} /\ Weekday(u) \notin tw.days BY <2>1 DEF OtherDays
  <2> HIDE DEF days
  <2> QED BY <2>2 DEF Open
<1>3. \A u \in Nat : TimeOfDay(u) \in 0..(DayLen - 1) BY MinuteFacts DEF TimeOfDay
<1>4. TillMidnight(t) \in Nat \ {0}
  <2>1. m \in 0..(DayLen - 1) BY Zenon, <1>3
  <2> HIDE DEF m
  <2> QED BY <2>1, CalendarAssumption DEF TillMidnight, m
<1>5. days \subseteq Days /\ ahead \in Nat
  <2>1. days \subseteq Days BY DEF OtherDays
  <2> QED BY <2>1, DurationFacts
<1>6. \E u \in Nat : Open(tw, u)
  <2>1. \E u \in Minutes : Open(tw, u) BY DEF Misread, BlocksAlways
  <2>2. Minutes \subseteq Nat BY SMTT(60) DEF Minutes
  <2> QED BY <2>1, <2>2
<1>7. tw.hours # <<>> =>
        /\ InOrder(slots)
        /\ \A u \in Nat : InSlots(slots, TimeOfDay(u)) <=> ~ClosedHours(tw, TimeOfDay(u))
  <2> SUFFICES ASSUME tw.hours # <<>>
               PROVE  /\ InOrder(slots)
                      /\ \A u \in Nat : InSlots(slots, TimeOfDay(u)) <=> ~ClosedHours(tw, TimeOfDay(u))
    BY Zenon
  <2>1. EndsAtMidnight(tw) => Len(tw.hours) = 1
    <3>1. EndsAtMidnight(tw) => ~(Len(tw.hours) > 1) BY DEF Misread
    <3> DEFINE n == Len(tw.hours)
    <3>2. n \in Nat /\ n # 0 OBVIOUS
    <3> HIDE DEF n
    <3>3. ~(n > 1) => n = 1 BY SMTT(60), <3>2
    <3> QED BY <3>1, <3>3 DEF n
  <2>2. \A k \in 0..(DayLen - 1) : InOrder(slots) /\ (InSlots(slots, k) <=> ~ClosedHours(tw, k)) BY <2>1, HoursFacts
  <2> QED BY Zenon, <1>3, <2>2
<1>8. tw.hours = <<>> => slots = <<>> /\ \A u \in Nat : ClosedHours(tw, TimeOfDay(u))
  <2> SUFFICES ASSUME tw.hours = <<>> PROVE slots = <<>> /\ \A u \in Nat : ClosedHours(tw, TimeOfDay(u)) BY Zenon
  <2>1. ValidateHourRange(tw.hours) = MergeHourRanges(Turned(tw.hours)) BY DEF ValidateHourRange, Turned
  <2>2. Turned(tw.hours) = <<>> BY DEF Turned
  <2>3. MergeHourRanges(<<>>) = <<>> BY DEF MergeHourRanges
  <2>4. ReverseRange(<<>>) = <<>> BY DEF ReverseRange
  <2>5. \A u \in Nat : ClosedHours(tw, TimeOfDay(u)) BY DEF ClosedHours
  <2> QED BY <2>1, <2>2, <2>3, <2>4, <2>5
<1>9. slots = <<>> => \A u \in Nat : ClosedHours(tw, TimeOfDay(u))
  <2>1. slots = <<>> => \A u \in Nat : ~InSlots(slots, TimeOfDay(u)) BY DEF InSlots
  <2> HIDE DEF slots
  <2> QED BY <1>7, <1>8, <2>1
<1> HIDE DEF slots, days, m
<1>10. CASE slots = <<>> /\ days = {}
  <2>1. GenerateNextPoint(slots, days, t, TRUE) = 0 BY <1>10 DEF GenerateNextPoint
  <2>2. tw.days = {} /\ tw.hours = <<>> BY <1>2, <1>6, <1>9, <1>10
  <2> QED BY Zenon, <1>1, <1>2, <2>1, <2>2
<1>11. CASE ~(slots = <<>> /\ days = {}) /\ Weekday(t) \in days
  <2>1. GenerateNextPoint(slots, days, t, TRUE) = 0 BY <1>11 DEF GenerateNextPoint, NextPointBlocked
  <2> QED BY Zenon, <1>1, <1>2, <1>11, <2>1
<1>12. CASE slots = <<>> /\ days # {} /\ Weekday(t) \notin days
  <2>1. ~(-1 >= 0) OBVIOUS
  <2>2. GenerateNextPoint(slots, days, t, TRUE) = TillMidnight(t) + ahead
    BY <1>12, <2>1 DEF GenerateNextPoint, NextPointBlocked
  <2>3. tw.days # {} BY <1>12 DEF days, OtherDays
  <2>4. ~Open(tw, t) BY <1>2, <1>9, <1>12, <2>3
  <2> HIDE DEF ahead
  <2>5. TillMidnight(t) + ahead # 0 BY <1>4, <1>5
  <2> QED BY Zenon, <1>1, <2>2, <2>4, <2>5
<1>13. CASE slots # <<>> /\ Weekday(t) \notin days
  <2>1. tw.hours # <<>> BY <1>8, <1>13
  <2>2. InOrder(slots) /\ (InSlots(slots, TimeOfDay(t)) <=> ~ClosedHours(tw, TimeOfDay(t))) BY <1>7, <2>1
  <2>3. today \in Nat \cup {-1} /\ (today = 0 <=> ~ClosedHours(tw, TimeOfDay(t))) BY <2>2, TodayFacts
  <2>4. Open(tw, t) <=> today = 0 BY <1>2, <1>13, <2>1, <2>3
  <2> DEFINE rest == IF Weekday(t + DayLen) \in days THEN 0 ELSE TillNextSlotFromMidnight(slots)
  <2>5. GenerateNextPoint(slots, days, t, TRUE) = IF today >= 0 THEN today ELSE TillMidnight(t) + rest
    BY <1>13 DEF GenerateNextPoint, NextPointBlocked
  <2>6. rest \in Nat
    <3>1. slots \in Seq(GapRanges) BY <2>2 DEF InOrder
    <3>2. TillNextSlotFromMidnight(slots) \in Nat BY <1>13, <3>1, FromMidnightFacts
    <3> QED BY Zenon, <3>2
  <2> HIDE DEF rest, today
  <2>7. GenerateNextPoint(slots, days, t, TRUE) = 0 <=> today = 0 
    <3>1. CASE today >= 0 BY Zenon, <2>5, <3>1
    <3>2. CASE ~(today >= 0)
      <4>1. today # 0 BY <2>3, <3>2
      <4>2. TillMidnight(t) + rest # 0 BY <1>4, <2>6
      <4> QED BY Zenon, <2>5, <3>2, <4>1, <4>2
    <3> QED BY Zenon, <3>1, <3>2
  <2> QED BY Zenon, <1>1, <2>4, <2>7
<1> QED BY <1>10, <1>11, <1>12, <1>13

(* The calendar: a time is a day and a minute of it.                         *)

\* Whole parts and remainders are unique.
LEMMA Division ==
  ASSUME NEW d \in Nat \ {0}, NEW q \in Int, NEW r \in 0..(d - 1)
  PROVE  (d * q + r) \div d = q /\ (d * q + r) % d = r
<1> DEFINE a == d * q + r
           p == a \div d
           s == a % d
<1>1. a \in Int /\ p \in Int /\ s \in 0..(d - 1) /\ a = d * p + s OBVIOUS
<1>2. ASSUME NEW x \in Int, NEW y \in Int, x < y PROVE d * x + d <= d * y
  <2>1. y - x - 1 \in Nat BY <1>2
  <2>2. d * (y - x - 1) \in Nat BY <2>1
  <2>3. d * (y - x - 1) = d * y - d * x - d OBVIOUS
  <2> QED BY <2>2, <2>3
<1> HIDE DEF p, s
<1>3. d * q \in Int /\ d * p \in Int BY <1>1
<1>4. ~(p < q) BY <1>1, <1>2, <1>3
<1>5. ~(q < p) BY <1>1, <1>2, <1>3
<1>6. p = q BY <1>1, <1>4, <1>5
<1>7. s = r BY <1>1, <1>3, <1>6
<1> QED BY <1>6, <1>7 DEF p, s

\* Of two times of different days the one of the earlier day is the earlier.
LEMMA DayOrder ==
  ASSUME NEW i \in Int, NEW j \in Int, NEW a \in 0..(DayLen - 1), NEW b \in 0..(DayLen - 1)
  PROVE  DayLen * i + a < DayLen * j + b <=> i < j \/ (i = j /\ a < b)
<1>1. ASSUME NEW x \in Int, NEW y \in Int, x < y PROVE DayLen * x + DayLen <= DayLen * y
  <2>1. DayLen \in Nat /\ y - x - 1 \in Nat BY <1>1, CalendarAssumption
  <2>2. DayLen * (y - x - 1) \in Nat BY <2>1
  <2>3. DayLen * (y - x - 1) = DayLen * y - DayLen * x - DayLen BY <2>1
  <2> QED BY <2>1, <2>2, <2>3
<1>2. DayLen \in Nat /\ DayLen * i \in Int /\ DayLen * j \in Int BY CalendarAssumption
<1>3. CASE i < j BY <1>1, <1>2, <1>3
<1>4. CASE i = j BY <1>2, <1>4
<1>5. CASE j < i BY <1>1, <1>2, <1>5
<1> QED BY <1>3, <1>4, <1>5

\* The day that a time belongs to, counted from the first.
Day(t) == t \div DayLen

\* A time is made of its day and its time of the day.
LEMMA TimeFacts ==
  ASSUME NEW t \in Nat
  PROVE  /\ Day(t) \in Nat /\ TimeOfDay(t) \in 0..(DayLen - 1)
         /\ t = DayLen * Day(t) + TimeOfDay(t)
         /\ Weekday(t) = Day(t) % WeekLen
  BY CalendarAssumption DEF Day, TimeOfDay, Weekday

\* And these make a time.
LEMMA MadeOf ==
  ASSUME NEW q \in Nat, NEW m \in 0..(DayLen - 1)
  PROVE  /\ DayLen * q + m \in Nat
         /\ Day(DayLen * q + m) = q /\ TimeOfDay(DayLen * q + m) = m
         /\ Weekday(DayLen * q + m) = q % WeekLen
<1>1. DayLen * q \in Nat BY CalendarAssumption
<1>2. DayLen * q + m \in Nat BY <1>1
<1>3. Day(DayLen * q + m) = q /\ TimeOfDay(DayLen * q + m) = m
  BY CalendarAssumption, Division DEF Day, TimeOfDay
<1> QED BY <1>2, <1>3, TimeFacts

\* The weekday some days later.
LEMMA WeekdayLater ==
  ASSUME NEW q \in Nat, NEW j \in 0..WeekLen
  PROVE  (q + j) % WeekLen = LET d == q % WeekLen
                             IN  IF d + j < WeekLen THEN d + j ELSE d + j - WeekLen
<1> DEFINE w == q \div WeekLen
           d == q % WeekLen
<1>1. WeekLen \in Nat \ {0} /\ w \in Nat /\ d \in 0..(WeekLen - 1) /\ q = WeekLen * w + d BY CalendarAssumption
<1> HIDE DEF w, d
<1>2. WeekLen * w \in Nat /\ WeekLen * (w + 1) = WeekLen * w + WeekLen BY <1>1
<1>3. CASE d + j < WeekLen
  <2>1. q + j = WeekLen * w + (d + j) /\ d + j \in 0..(WeekLen - 1) BY <1>1, <1>2, <1>3
  <2>2. (q + j) % WeekLen = d + j BY <1>1, <2>1, Division
  <2> QED BY <1>3, <2>2 DEF d
<1>4. CASE ~(d + j < WeekLen)
  <2>1. q + j = WeekLen * (w + 1) + (d + j - WeekLen) /\ d + j - WeekLen \in 0..(WeekLen - 1) /\ w + 1 \in Int
    BY <1>1, <1>2, <1>4
  <2>2. (q + j) % WeekLen = d + j - WeekLen BY ZenonT(60), <1>1, <2>1, Division
  <2> QED BY <1>4, <2>2 DEF d
<1> QED BY <1>3, <1>4

\* A time that comes no earlier than t: some days later, and on the same day no
\* earlier in the day.
LEMMA LaterTime ==
  ASSUME NEW t \in Nat, NEW e \in Nat
  PROVE  \E j \in Nat :
           /\ e = DayLen * j + TimeOfDay(t + e) - TimeOfDay(t)
           /\ Weekday(t + e) = (Day(t) + j) % WeekLen
           /\ j = 0 => TimeOfDay(t) <= TimeOfDay(t + e)
<1> DEFINE u == t + e
           j == Day(u) - Day(t)
           m == TimeOfDay(t)
           n == TimeOfDay(u)
<1>1. u \in Nat OBVIOUS
<1>2. Day(t) \in Nat /\ m \in 0..(DayLen - 1) /\ t = DayLen * Day(t) + m BY TimeFacts
<1>3. Day(u) \in Nat /\ n \in 0..(DayLen - 1) /\ u = DayLen * Day(u) + n /\ Weekday(u) = Day(u) % WeekLen
  BY <1>1, TimeFacts
<1> HIDE DEF m, n
<1>4. DayLen \in Nat /\ DayLen * Day(t) \in Nat /\ DayLen * Day(u) \in Nat BY <1>2, <1>3, CalendarAssumption
<1>5. ~(u < t) /\ t \in Nat BY <1>1
<1>6. ~(DayLen * Day(u) + n < DayLen * Day(t) + m) BY <1>2, <1>3, <1>5
<1>7. ~(Day(u) < Day(t) \/ (Day(u) = Day(t) /\ n < m)) BY <1>2, <1>3, <1>6, DayOrder
<1>8. j \in Nat /\ (j = 0 => m <= n) BY <1>2, <1>3, <1>7
<1>9. DayLen * j = DayLen * Day(u) - DayLen * Day(t) BY <1>2, <1>3, <1>4
<1>10. e = u - t BY <1>1
<1>11. e = DayLen * j + n - m
  <2> DEFINE x == DayLen * Day(t)
             y == DayLen * Day(u)
             z == DayLen * j
  <2>1. x \in Nat /\ y \in Nat /\ z = y - x BY <1>4, <1>9
  <2>2. t = x + m /\ u = y + n BY <1>2, <1>3
  <2>3. m \in Int /\ n \in Int BY <1>2, <1>3
  <2> HIDE DEF x, y, z, u
  <2>4. u - t = z + n - m BY <2>1, <2>2, <2>3
  <2> QED BY <1>10, <2>4 DEF z
<1>12. Day(t) + j = Day(u) BY SMTT(60), <1>2, <1>3
<1> QED BY <1>3, <1>8, <1>11, <1>12 DEF m, n

(* The time to the next slot is the time to the very next minute of a slot.  *)

\* The minutes of the day that the slots hold.
SlotMinutes(slots) == {m \in 0..(DayLen - 1) : InSlots(slots, m)}

\* What the two loops over the slots find: the first slot that is not over.
LEMMA FirstSlot ==
  ASSUME NEW slots, InOrder(slots), NEW m \in 0..(DayLen - 1), NEW i \in DOMAIN slots,
         slots[i].start < m => m <= slots[i].end \/ IsMidnight(slots[i].end),
         \A k \in DOMAIN slots : m <= slots[k].end \/ IsMidnight(slots[k].end) => i <= k
  PROVE  LET d == IF slots[i].start < m THEN 0 ELSE slots[i].start - m
         IN  /\ d \in Nat /\ m + d \in SlotMinutes(slots)
             /\ \A e \in Nat : e < d => m + e \notin SlotMinutes(slots)
<1> DEFINE n == Len(slots)
<1>1. n \in Nat /\ DOMAIN slots = 1..n /\ \A k \in 1..n : slots[k] \in GapRanges BY DEF InOrder
<1>2. \A k \in 1..n : slots[k].start \in 0..(DayLen - 1) /\ slots[k].end \in Nat
  BY SMTT(60), <1>1, CalendarAssumption DEF GapRanges
<1> HIDE DEF n
<1>3. CASE slots[i].start < m
  <2>1. InSlots(slots, m) BY <1>1, <1>2, <1>3 DEF InSlots
  <2>2. m + 0 = m /\ \A e \in Nat : ~(e < 0) OBVIOUS
  <2> QED BY Zenon, <1>3, <2>1, <2>2 DEF SlotMinutes
<1>4. CASE ~(slots[i].start < m)
  <2> DEFINE d == slots[i].start - m
  <2>1. d \in Nat /\ m + d = slots[i].start BY <1>1, <1>2, <1>4
  <2>2. InSlots(slots, slots[i].start)
    <3>1. slots[i].start <= slots[i].end \/ IsMidnight(slots[i].end) BY DEF InOrder
    <3>2. slots[i].start <= slots[i].start BY SMTT(60), <1>1, <1>2
    <3> QED BY <3>1, <3>2 DEF InSlots
  <2>3. slots[i].start \in SlotMinutes(slots) BY Zenon, <1>1, <1>2, <2>2 DEF SlotMinutes
  <2>4. ASSUME NEW e \in Nat, e < d, m + e \in SlotMinutes(slots) PROVE FALSE
    <3>1. PICK k \in 1..n : slots[k].start <= m + e /\ (m + e <= slots[k].end \/ IsMidnight(slots[k].end))
      BY <1>1, <2>4 DEF SlotMinutes, InSlots
    <3>2. m <= slots[k].end \/ IsMidnight(slots[k].end) BY <1>2, <3>1
    <3>3. i <= k /\ i \in 1..n BY <1>1, <3>2
    <3>4. slots[i].start <= slots[k].start
      <4>1. CASE i = k BY <1>2, <4>1
      <4>2. CASE i # k
        <5>1. i < k BY SMTT(60), <3>3, <4>2
        <5> QED BY <1>1, <3>3, <5>1 DEF InOrder
      <4> QED BY <4>1, <4>2
    <3> QED BY SMTT(60), <1>2, <2>1, <2>4, <3>1, <3>3, <3>4
  <2> QED BY <1>4, <2>1, <2>3, <2>4
<1> QED BY Zenon, <1>3, <1>4

\* tillNextSlotInCurrentDay: to the next minute of a slot today, or -1 if there is none.
LEMMA TodayExact ==
  ASSUME NEW slots, InOrder(slots), NEW t \in Nat
  PROVE  LET d == TillNextSlotInCurrentDay(slots, t)
             m == TimeOfDay(t)
         IN  \/ /\ d \in Nat /\ m + d \in SlotMinutes(slots)
                /\ \A e \in Nat : e < d => m + e \notin SlotMinutes(slots)
             \/ d = -1 /\ \A a \in SlotMinutes(slots) : a < m
<1> DEFINE m == TimeOfDay(t)
           n == Len(slots)
           Test(s) == m <= s.start \/ m <= s.end \/ IsMidnight(s.end)
           I == {k \in 1..Len(slots) : Test(slots[k])}
           i == IF I # {} THEN Least(I) ELSE 0
           d == TillNextSlotInCurrentDay(slots, t)
<1>1. n \in Nat /\ DOMAIN slots = 1..n /\ \A k \in 1..n : slots[k] \in GapRanges BY DEF InOrder
<1>2. /\ \A k \in 1..n : slots[k].start \in Nat /\ slots[k].end \in Nat
      /\ m \in 0..(DayLen - 1)
  <2>1. m \in 0..(DayLen - 1) BY ZenonT(60), MinuteFacts DEF TimeOfDay
  <2> QED BY <1>1, <2>1, CalendarAssumption DEF GapRanges
<1>3. d = IF i = 0 THEN -1 ELSE IF slots[i].start < m THEN 0 ELSE slots[i].start - m
  BY DEF TillNextSlotInCurrentDay, FirstFit
<1> HIDE DEF d
<1>4. CASE I = {}
  <2>1. ASSUME NEW a \in SlotMinutes(slots) PROVE a < m
    <3>1. PICK k \in 1..n : slots[k].start <= a /\ (a <= slots[k].end \/ IsMidnight(slots[k].end))
      BY Zenon, <1>1 DEF SlotMinutes, InSlots
    <3>2. ~Test(slots[k]) BY <1>4
    <3>3. a \in Nat BY SMTT(60) DEF SlotMinutes
    <3> QED BY SMTT(60), <1>2, <3>1, <3>2, <3>3
  <2>2. d = -1 BY Zenon, <1>3, <1>4
  <2> QED BY <2>1, <2>2 DEF d
<1>5. CASE I # {}
  <2>1. PICK least \in I : \A k \in I : least <= k
    <3>1. I \subseteq Nat OBVIOUS
    <3> HIDE DEF I
    <3> QED BY Zenon, <1>5, <3>1, LeastNumber
  <2>2. i \in I /\ \A k \in I : i <= k BY Zenon, <1>5, <2>1 DEF Least
  <2>3. i \in 1..n /\ i # 0 /\ Test(slots[i]) BY <2>2
  <2>4. d = IF slots[i].start < m THEN 0 ELSE slots[i].start - m
    <3> HIDE DEF i
    <3> QED BY <1>3, <2>3
  <2>5. \A k \in 1..n : m <= slots[k].end \/ IsMidnight(slots[k].end) => k \in I OBVIOUS
  <2>6. slots[i].start < m => m <= slots[i].end \/ IsMidnight(slots[i].end)
    <3> HIDE DEF i, I
    <3> QED BY <1>2, <2>3
  <2> HIDE DEF i, I, m, n
  <2>7. \A k \in 1..n : m <= slots[k].end \/ IsMidnight(slots[k].end) => i <= k BY Zenon, <2>2, <2>5
  <2>8. /\ d \in Nat /\ m + d \in SlotMinutes(slots)
        /\ \A e \in Nat : e < d => m + e \notin SlotMinutes(slots)
    BY ZenonT(60), <1>1, <1>2, <2>3, <2>4, <2>6, <2>7, FirstSlot
  <2> QED BY Zenon, <2>8 DEF d, m
<1> QED BY <1>4, <1>5

\* tillNextSlotFromMidnight: to the first minute of a slot.
LEMMA FromMidnightExact ==
  ASSUME NEW slots, InOrder(slots), slots # <<>>
  PROVE  LET d == TillNextSlotFromMidnight(slots)
         IN  d \in SlotMinutes(slots) /\ \A e \in Nat : e < d => e \notin SlotMinutes(slots)
<1> DEFINE n == Len(slots)
           Test(s) == 0 <= s.start \/ 0 <= s.end
           I == {k \in 1..Len(slots) : Test(slots[k])}
           i == IF I # {} THEN Least(I) ELSE 0
           d == TillNextSlotFromMidnight(slots)
<1>1. n \in Nat /\ n \in 1..n /\ 1 \in 1..n /\ DOMAIN slots = 1..n /\ \A k \in 1..n : slots[k] \in GapRanges
  BY DEF InOrder
<1>2. \A k \in 1..n : slots[k].start \in Nat /\ slots[k].end \in Nat BY <1>1, CalendarAssumption DEF GapRanges
<1>3. TimeOfDay(0) = 0 /\ 0 \in 0..(DayLen - 1) BY MinuteFacts, CalendarAssumption DEF TimeOfDay
<1>4. d = IF slots[n].end < 0 THEN TillMidnight(0) + slots[1].start
          ELSE IF i = 0 \/ slots[i].start < 0 THEN 0 ELSE slots[i].start - 0
  BY Zenon, <1>3 DEF TillNextSlotFromMidnight, TillNextSlot, FirstFit
<1>5. I = 1..n BY <1>2
<1>6. i = 1
  <2>1. 1 \in I /\ \A k \in I : 1 <= k BY <1>1, <1>5
  <2>2. \A k \in I : k \in Nat BY <1>5
  <2> HIDE DEF I
  <2>3. Least(I) \in I /\ \A k \in I : Least(I) <= k BY <2>1 DEF Least
  <2>4. Least(I) = 1 BY <2>1, <2>2, <2>3
  <2> QED BY <2>1, <2>4
<1> HIDE DEF i, I, d
<1>7. d = slots[1].start - 0 /\ ~(slots[1].start < 0) BY <1>1, <1>2, <1>4, <1>6
<1>8. \A k \in 1..n : 0 <= slots[k].end \/ IsMidnight(slots[k].end) => 1 <= k BY <1>1
<1> HIDE DEF n
<1>9. LET x == IF slots[1].start < 0 THEN 0 ELSE slots[1].start - 0
      IN  /\ x \in Nat /\ 0 + x \in SlotMinutes(slots)
          /\ \A e \in Nat : e < x => 0 + e \notin SlotMinutes(slots)
  <2>1. slots[1].start < 0 => 0 <= slots[1].end \/ IsMidnight(slots[1].end) BY <1>7
  <2> QED BY <1>1, <1>3, <1>8, <2>1, FirstSlot
<1>10. /\ d \in Nat /\ 0 + d \in SlotMinutes(slots)
       /\ \A e \in Nat : e < d => 0 + e \notin SlotMinutes(slots)
  BY <1>7, <1>9
<1>11. 0 + d = d /\ \A e \in Nat : 0 + e = e BY <1>10
<1> QED BY <1>10, <1>11 DEF d

\* tillNextSlot: to the next minute of a slot, of today or of tomorrow.
LEMMA NextSlotExact ==
  ASSUME NEW slots, InOrder(slots), slots # <<>>, NEW t \in Nat,
         \A k \in DOMAIN slots : slots[k].end <= slots[Len(slots)].end,
         \A k \in DOMAIN slots : IsMidnight(slots[k].end) => slots[k].end = DayLen
  PROVE  LET m == TimeOfDay(t)
             today == TillNextSlotInCurrentDay(slots, t)
         IN  TillNextSlot(slots, t) =
                 IF today >= 0 THEN today ELSE TillMidnight(t) + TillNextSlotFromMidnight(slots)
<1> DEFINE m == TimeOfDay(t)
           n == Len(slots)
           I == {k \in 1..Len(slots) : m <= slots[k].start \/ m <= slots[k].end}
           i == IF I # {} THEN Least(I) ELSE 0
           J == {k \in 1..Len(slots) : m <= slots[k].start \/ m <= slots[k].end \/ IsMidnight(slots[k].end)}
           j == IF J # {} THEN Least(J) ELSE 0
           K == {k \in 1..Len(slots) : 0 <= slots[k].start \/ 0 <= slots[k].end}
<1>1. n \in Nat /\ n \in 1..n /\ 1 \in 1..n /\ DOMAIN slots = 1..n /\ \A k \in 1..n : slots[k] \in GapRanges
  BY DEF InOrder
<1>2. /\ \A k \in 1..n : slots[k].start \in Nat /\ slots[k].end \in Nat
      /\ m \in 0..(DayLen - 1)
  <2>1. m \in 0..(DayLen - 1) BY Zenon, MinuteFacts DEF TimeOfDay
  <2> QED BY <1>1, <2>1, CalendarAssumption DEF GapRanges
<1>3. TillNextSlot(slots, t) =
        IF slots[n].end < m THEN TillMidnight(t) + slots[1].start
        ELSE IF i = 0 \/ slots[i].start < m THEN 0 ELSE slots[i].start - m
  BY Zenon DEF TillNextSlot, FirstFit
<1>4. TillNextSlotInCurrentDay(slots, t) =
        IF j = 0 THEN -1 ELSE IF slots[j].start < m THEN 0 ELSE slots[j].start - m
  BY DEF TillNextSlotInCurrentDay, FirstFit
<1>5. I = J
  <2>1. ASSUME NEW k \in 1..n, IsMidnight(slots[k].end) PROVE m <= slots[k].end
    <3>1. slots[k].end = DayLen BY <1>1, <2>1
    <3> QED BY <1>2, <3>1, CalendarAssumption
  <2> QED BY <2>1
<1>6. i = j BY Zenon, <1>5
<1>7. TillNextSlotFromMidnight(slots) = slots[1].start
  <2>1. TimeOfDay(0) = 0 BY Zenon, MinuteFacts, CalendarAssumption DEF TimeOfDay
  <2>2. TillNextSlotFromMidnight(slots) =
          LET l == IF K # {} THEN Least(K) ELSE 0
          IN  IF slots[n].end < 0 THEN TillMidnight(0) + slots[1].start
              ELSE IF l = 0 \/ slots[l].start < 0 THEN 0 ELSE slots[l].start - 0
    BY Zenon, <2>1 DEF TillNextSlotFromMidnight, TillNextSlot, FirstFit
  <2>3. K = 1..n BY <1>2
  <2>4. 1 \in K /\ \A k \in K : 1 <= k /\ k \in Nat BY <1>1, <2>3
  <2> HIDE DEF K
  <2>5. Least(K) \in K /\ \A k \in K : Least(K) <= k BY <2>4 DEF Least
  <2>6. Least(K) = 1 BY SMTT(60), <2>4, <2>5
  <2> QED BY SMTT(60), <1>1, <1>2, <2>2, <2>4, <2>6
<1>8. CASE slots[n].end < m
  <2>1. J = {}
    <3>1. ASSUME NEW k \in 1..n PROVE ~(m <= slots[k].start) /\ ~(m <= slots[k].end)
      <4>1. slots[k].end <= slots[n].end BY <1>1
      <4>2. ~(m <= slots[k].end) BY <1>1, <1>2, <1>8, <4>1
      <4>3. ~IsMidnight(slots[k].end)
        <5> SUFFICES ASSUME IsMidnight(slots[k].end) PROVE FALSE OBVIOUS
        <5>1. slots[k].end = DayLen BY <1>1
        <5> QED BY <1>2, <4>2, <5>1, CalendarAssumption
      <4>4. slots[k].start <= slots[k].end BY <1>1, <4>3 DEF InOrder
      <4> QED BY <1>2, <4>2, <4>4
    <3> QED BY Zenon, <1>5, <3>1
  <2>2. j = 0 BY Zenon, <2>1
  <2>3. TillNextSlotInCurrentDay(slots, t) = -1 BY Zenon, <1>4, <2>2
  <2>4. ~(-1 >= 0) OBVIOUS
  <2> QED BY Zenon, <1>3, <1>7, <1>8, <2>3, <2>4
<1>9. CASE ~(slots[n].end < m)
  <2>1. n \in J BY <1>1, <1>2, <1>9
  <2>2. PICK least \in J : \A k \in J : least <= k
    <3>1. J # {} /\ J \subseteq Nat BY <2>1
    <3> HIDE DEF J
    <3> QED BY Zenon, <3>1, LeastNumber
  <2>3. j \in J BY Zenon, <2>2 DEF Least
  <2>4. j \in 1..n /\ j # 0 BY <2>3
  <2> HIDE DEF i, j, I, J
  <2>5. TillNextSlot(slots, t) = TillNextSlotInCurrentDay(slots, t) BY Zenon, <1>3, <1>4, <1>6, <1>9, <2>4
  <2>6. TillNextSlotInCurrentDay(slots, t) >= 0 BY <1>2, <1>4, <2>4
  <2> QED BY <2>5, <2>6
<1> QED BY <1>8, <1>9

============================================================================
