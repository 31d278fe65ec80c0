------------------------ MODULE MCSubscriptionStatus ------------------------
(* A small instance of SubscriptionStatus. *)
EXTENDS SubscriptionStatus

Types == {"active", "blocked"}

\* Ranges inside the day, backwards, from and to midnight, two apart and two that touch.
MCHours == {<<>>, <<HourRange(1, 3)>>, <<HourRange(3, 1)>>, <<HourRange(0, 2)>>, <<HourRange(2, 0)>>,
            <<HourRange(0, 1), HourRange(3, 4)>>, <<HourRange(3, 4), HourRange(1, 3)>>}
MCDays == {{}, {-1}, {0}, {0, 2}, {0, 1, 2}}
MCWindows == {Window(type, days, hours) : type \in Types, days \in MCDays, hours \in MCHours}

\* For the larger instances: every window with one range, or with two.
Single == {<<HourRange(s, e)>> : s, e \in 0..(DayLen - 1)}
Double == {h \o k : h, k \in Single}
MCAll == {Window(type, days, hours) : type \in Types, days \in SUBSET Days \cup {{-1}},
                                      hours \in {<<>>} \cup Single \cup Double}
MCOneRange == {w \in MCAll : Len(w.hours) <= 1}
=============================================================================
