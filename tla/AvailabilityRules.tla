-------------------------- MODULE AvailabilityRules -------------------------
(***************************************************************************)
(* The rules that decide which times may be offered, and whether one time  *)
(* may be held: working hours, the grid, the buffer, the notice and the    *)
(* horizon.  They are asked twice, by two pieces of code: candidateSlots   *)
(* generates the list a customer chooses from, isBookableSlot looks at the *)
(* one time chosen.                                                        *)
(*                                                                         *)
(* An instant is a whole number of some unit.  An interval is half open,   *)
(* and named by where it begins and ends.                                  *)
(***************************************************************************)
EXTENDS Integers

CONSTANTS
    Day, GstOffset,             \* a day, and how far Dubai's clock is ahead of UTC
    Windows,                    \* the working hours of each weekday, by Dubai's clock
    Duration,                   \* how long a session is
    SlotInterval, Buffer,       \* the grid within a window, and the quiet time kept
    Notice, Horizon             \* how soon and how far ahead a session may be

ASSUME RulesAssumption ==
    /\ {Day, GstOffset, Duration, SlotInterval, Buffer, Notice, Horizon} \subseteq Nat
    /\ Day > 0 /\ Duration > 0 /\ SlotInterval > 0
    /\ Windows \subseteq [weekday : 0 .. 6, from : 0 .. Day, to : 0 .. Day]

\* The notice is hours and the buffer minutes: what is over stands in nobody's way.
ASSUME NoticeAssumption == Buffer <= Notice

Session(x) == [from |-> x, to |-> x + Duration]

Overlap(a, b) == a.from < b.to /\ b.from < a.to
Padded(i) == [from |-> i.from - Buffer, to |-> i.to + Buffer]

\* What a read of the calendar between two instants answers.
BusyBetween(events, i) == {e \in events : Overlap(e, i)}

ConflictsWithBusy(x, busy) == \E taken \in busy : Overlap(Session(x), Padded(taken))

\* Dubai's clock and calendar; day 0 of the computer's clock was a Thursday.
GstDayStart(t) == t - ((t + GstOffset) % Day)
MinutesOfDay(t) == (t + GstOffset) % Day
Weekday(t) == (((t + GstOffset) \div Day) + 4) % 7
WindowsFor(day) == {w \in Windows : w.weekday = Weekday(day)}

\* The grid of a window, up to the last session that ends within it.
Grid(w) == {m \in w.from .. w.to - Duration : (m - w.from) % SlotInterval = 0}

\* Day by day, from the first instant allowed to the last.  This is a booking's list:
\* a move's has a horizon of its own.
CandidateSlots(query, now, busy) ==
    LET earliest == IF query.from > now + Notice THEN query.from ELSE now + Notice
        latest == IF query.to < now + Horizon THEN query.to ELSE now + Horizon
        first == GstDayStart(earliest)
        days == {d \in first .. latest : (d - first) % Day = 0}
    IN  {x \in UNION {UNION {{d + m : m \in Grid(w)} : w \in WindowsFor(d)} : d \in days} :
           earliest <= x /\ x + Duration <= latest /\ ~ConflictsWithBusy(x, busy)}

FitsAWindow(x) ==
    \E w \in WindowsFor(x) :
      /\ MinutesOfDay(x) >= w.from /\ MinutesOfDay(x) + Duration <= w.to
      /\ (MinutesOfDay(x) - w.from) % SlotInterval = 0

IsBookableSlot(x, now, busy) ==
    /\ now + Notice <= x /\ x <= now + Horizon
    /\ FitsAWindow(x) /\ ~ConflictsWithBusy(x, busy)

\* A version that looks no wider than the session.
OnlyTheSession(x) == Session(x)

\* The read made as a time is held: the session and the buffer either side.
Around(x) == Padded(Session(x))
=============================================================================
