------------------------------- MODULE MCPage ------------------------------
EXTENDS BookingPage

\* Two tabs of one browser and a phone beside it on the same network, and a
\* stranger whose address cannot be read.
Browsers == [t \in Tabs |-> IF t \in {"tab_1", "tab_2"} THEN "tab_1" ELSE t]
Networks == [t \in Tabs |-> IF t = "stranger" THEN None ELSE "home"]

\* Every evening, two sessions and the quiet time between them.
Evenings == [weekday : 0 .. 6, from : {12}, to : {15}]

\* At the first session's own time, between the two, and where the second one ends.
CoachsAppointments == {[from |-> x, to |-> x + 1] : x \in {8, 9, 11}}

\* The worlds of the run: each names the tabs that are used, the emails typed, and
\* what may happen beside the checkouts.
StaleList == {"tab_1", "tab_2", "details", "coach_takes", "calendar_fails", "minutes"}
TwoTabs == {"tab_1", "tab_2", "ann", "details"}
TwoPeople == {"tab_1", "ann", "bob", "details", "person_check", "outage", "back"}
TwoBrowsers == {"tab_1", "phone", "ann", "person_check", "outage", "back"}
NoCheck == {"tab_1", "phone", "ann", "back"}
Lapsing == {"tab_1", "phone", "ann", "minutes"}
Crowd == {"tab_1", "phone", "stranger", "ann"}
BusyCoach == {"tab_1", "ann", "coach_takes", "minutes"}

SmallWorlds == {StaleList, TwoTabs, TwoPeople, TwoBrowsers, NoCheck, Lapsing, Crowd,
                BusyCoach}
=============================================================================
