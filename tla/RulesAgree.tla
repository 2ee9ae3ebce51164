----------------------------- MODULE RulesAgree ----------------------------
(***************************************************************************)
(* The list of times is generated day by day on a grid; the check of one   *)
(* time looks at its own day.  For every choice of hours, grid, buffer,    *)
(* notice and horizon they draw the same line.  The argument is about the  *)
(* division of an instant by the length of a day: an instant is the start  *)
(* of its day and the minutes since, in one way only.                      *)
(***************************************************************************)
EXTENDS AvailabilityRules, TLAPS

LEMMA ConstantTypes ==
    /\ Day \in Nat /\ Day > 0 /\ GstOffset \in Nat /\ Duration \in Nat /\ Duration > 0
    /\ SlotInterval \in Nat /\ SlotInterval > 0 /\ Buffer \in Nat
    /\ Notice \in Nat /\ Horizon \in Nat
    /\ \A w \in Windows : w.weekday \in 0 .. 6 /\ w.from \in 0 .. Day /\ w.to \in 0 .. Day
  BY RulesAssumption DEF RulesAssumption

-----------------------------------------------------------------------------
(* Quotient and remainder. *)

LEMMA DivMod ==
    ASSUME NEW n \in Int, NEW d \in Nat, d > 0
    PROVE  /\ n = d * (n \div d) + (n % d)
           /\ n % d \in 0 .. (d - 1) /\ n \div d \in Int
  BY SMT

LEMMA AtLeastOne ==
    ASSUME NEW d \in Nat, d > 0, NEW k \in Int, k >= 1
    PROVE  d * k >= d
  BY SMT

LEMMA OneWayOnly ==
    ASSUME NEW d \in Nat, d > 0, NEW p \in Int, NEW q \in Int,
           NEW r \in 0 .. (d - 1), NEW s \in 0 .. (d - 1), d * p + r = d * q + s
    PROVE  p = q /\ r = s
  <1>1. d * (p - q) = s - r /\ d * (q - p) = r - s
    BY SMT
  <1>2. ~(p - q >= 1) /\ ~(q - p >= 1)
    BY <1>1, AtLeastOne
  <1>3. p = q
    BY <1>2
  <1>4. QED
    BY <1>1, <1>3

LEMMA Remainder ==
    ASSUME NEW d \in Nat, d > 0, NEW q \in Int, NEW r \in 0 .. (d - 1)
    PROVE  (d * q + r) \div d = q /\ (d * q + r) % d = r
  <1> DEFINE n == d * q + r
  <1>1. n \in Int
    OBVIOUS
  <1>2. n = d * (n \div d) + (n % d) /\ n % d \in 0 .. (d - 1) /\ n \div d \in Int
    BY <1>1, DivMod
  <1>3. d * q + r = d * (n \div d) + (n % d)
    BY <1>2
  <1> HIDE DEF n
  <1>4. n \div d = q /\ n % d = r
    BY <1>2, <1>3, OneWayOnly
  <1>5. QED
    BY <1>4 DEF n

-----------------------------------------------------------------------------
(* Days. *)

BeginsADay(d) == d \in Int /\ (d + GstOffset) % Day = 0

LEMMA OnTheDay ==
    ASSUME NEW d, BeginsADay(d), NEW m \in 0 .. (Day - 1)
    PROVE  MinutesOfDay(d + m) = m /\ Weekday(d + m) = Weekday(d)
  <1> DEFINE a == d + GstOffset
             b == d + m + GstOffset
  <1>1. Day \in Nat /\ Day > 0 /\ a \in Int /\ b \in Int /\ b = a + m
    BY ConstantTypes DEF BeginsADay
  <1>2. a = Day * (a \div Day) + 0 /\ a \div Day \in Int
    <2>1. a = Day * (a \div Day) + (a % Day) /\ a \div Day \in Int
      BY <1>1, DivMod
    <2>2. a % Day = 0
      BY DEF BeginsADay
    <2>3. QED
      BY <2>1, <2>2
  <1>3. b = Day * (a \div Day) + m
    BY <1>1, <1>2
  <1>4. b \div Day = a \div Day /\ b % Day = m
    <2>1. (Day * (a \div Day) + m) \div Day = a \div Day /\ (Day * (a \div Day) + m) % Day = m
      BY <1>1, <1>2, Remainder
    <2>2. QED
      BY <1>3, <2>1
  <1>5. QED
    BY <1>4 DEF MinutesOfDay, Weekday

\* Every instant is the start of its day and the minutes since.
LEMMA DayOf ==
    ASSUME NEW t \in Int
    PROVE  /\ BeginsADay(GstDayStart(t)) /\ MinutesOfDay(t) \in 0 .. (Day - 1)
           /\ t = GstDayStart(t) + MinutesOfDay(t)
  <1> DEFINE b == t + GstOffset
             a == GstDayStart(t) + GstOffset
  <1>1. Day \in Nat /\ Day > 0 /\ b \in Int /\ GstOffset \in Nat
    BY ConstantTypes
  <1>2. b = Day * (b \div Day) + (b % Day) /\ b % Day \in 0 .. (Day - 1) /\ b \div Day \in Int
    BY <1>1, DivMod
  <1>3. GstDayStart(t) \in Int /\ t = GstDayStart(t) + MinutesOfDay(t)
    BY <1>1, <1>2 DEF GstDayStart, MinutesOfDay
  <1>4. a = Day * (b \div Day) + 0 /\ a \in Int
    BY <1>1, <1>2, <1>3 DEF GstDayStart
  <1>5. a % Day = 0
    <2>1. 0 \in 0 .. (Day - 1)
      BY <1>1
    <2>2. (Day * (b \div Day) + 0) % Day = 0
      BY <1>1, <1>2, <2>1, Remainder
    <2>3. QED
      BY <1>4, <2>2
  <1>6. QED
    BY <1>2, <1>3, <1>5 DEF BeginsADay, MinutesOfDay

LEMMA SameWeekday ==
    ASSUME NEW t \in Int
    PROVE  Weekday(t) = Weekday(GstDayStart(t))
  <1>1. Weekday(GstDayStart(t) + MinutesOfDay(t)) = Weekday(GstDayStart(t))
    BY DayOf, OnTheDay
  <1>2. QED
    BY <1>1, DayOf

\* Days begin a whole number of days apart.
LEMMA DaysApart ==
    ASSUME NEW first, BeginsADay(first), NEW d \in Int
    PROVE  (d - first) % Day = 0 <=> BeginsADay(d)
  <1> DEFINE f == first + GstOffset
             a == d + GstOffset
             k == d - first
  <1>1. Day \in Nat /\ Day > 0 /\ f \in Int /\ a \in Int /\ k \in Int /\ a = f + k
        /\ 0 \in 0 .. (Day - 1)
    BY ConstantTypes DEF BeginsADay
  <1>2. f = Day * (f \div Day) + 0 /\ f \div Day \in Int
    <2>1. f = Day * (f \div Day) + (f % Day) /\ f \div Day \in Int
      BY <1>1, DivMod
    <2>2. f % Day = 0
      BY DEF BeginsADay
    <2>3. QED
      BY <2>1, <2>2
  <1>3. k = Day * (k \div Day) + (k % Day) /\ k % Day \in 0 .. (Day - 1) /\ k \div Day \in Int
    BY <1>1, DivMod
  <1> DEFINE both == (f \div Day) + (k \div Day)
  <1>4. both \in Int
    BY <1>2, <1>3
  <1>5. a = Day * both + (k % Day)
    BY <1>1, <1>2, <1>3
  <1>6. a % Day = k % Day
    <2>1. (Day * both + (k % Day)) % Day = k % Day
      BY <1>1, <1>3, <1>4, Remainder
    <2>2. QED
      BY <1>5, <2>1
  <1>7. QED
    BY <1>6 DEF BeginsADay

LEMMA DayStartsInOrder ==
    ASSUME NEW s \in Int, NEW t \in Int, s <= t
    PROVE  GstDayStart(s) <= GstDayStart(t)
  <1> DEFINE a == s + GstOffset
             b == t + GstOffset
             p == a \div Day
             q == b \div Day
  <1>1. Day \in Nat /\ Day > 0 /\ a \in Int /\ b \in Int /\ a <= b /\ GstOffset \in Nat
    BY ConstantTypes
  <1>2. a = Day * p + (a % Day) /\ a % Day \in 0 .. (Day - 1) /\ p \in Int
    BY <1>1, DivMod
  <1>3. b = Day * q + (b % Day) /\ b % Day \in 0 .. (Day - 1) /\ q \in Int
    BY <1>1, DivMod
  <1>4. Day * (p - q) < Day
    BY <1>1, <1>2, <1>3
  <1>5. ~(p - q >= 1)
    BY <1>1, <1>2, <1>3, <1>4, AtLeastOne
  <1>6. q - p >= 0 /\ q - p \in Int
    BY <1>2, <1>3, <1>5
  <1>7. Day * (q - p) >= 0
    BY <1>1, <1>6, AtLeastOne
  <1>8. Day * p <= Day * q
    BY <1>1, <1>2, <1>3, <1>7
  <1>9. GstDayStart(s) = Day * p - GstOffset /\ GstDayStart(t) = Day * q - GstOffset
    BY <1>1, <1>2, <1>3 DEF GstDayStart
  <1>10. QED
    BY <1>1, <1>2, <1>3, <1>8, <1>9

-----------------------------------------------------------------------------
(* The list and the check. *)

\* What the check asks of a time beside the notice, the horizon and the calendar is
\* what makes it one of the times the list is chosen from.
LEMMA OnTheGrid ==
    ASSUME NEW x \in Int, NEW d, BeginsADay(d), NEW w \in WindowsFor(d), NEW m \in Grid(w),
           x = d + m
    PROVE  FitsAWindow(x)
  <1>1. /\ m \in Int /\ w.from <= m /\ m + Duration <= w.to /\ (m - w.from) % SlotInterval = 0
        /\ w \in Windows /\ w.weekday = Weekday(d)
    BY ConstantTypes DEF Grid, WindowsFor
  <1>2. m \in 0 .. (Day - 1)
    BY <1>1, ConstantTypes
  <1>3. MinutesOfDay(x) = m /\ Weekday(x) = Weekday(d)
    BY <1>2, OnTheDay
  <1>4. QED
    BY <1>1, <1>3 DEF FitsAWindow, WindowsFor

LEMMA OfTheDay ==
    ASSUME NEW x \in Int, FitsAWindow(x)
    PROVE  \E w \in WindowsFor(GstDayStart(x)) : MinutesOfDay(x) \in Grid(w)
  <1>1. PICK w \in WindowsFor(x) :
          /\ MinutesOfDay(x) >= w.from /\ MinutesOfDay(x) + Duration <= w.to
          /\ (MinutesOfDay(x) - w.from) % SlotInterval = 0
    BY DEF FitsAWindow
  <1>2. w \in WindowsFor(GstDayStart(x)) /\ w \in Windows
    BY SameWeekday DEF WindowsFor
  <1>3. MinutesOfDay(x) \in Int
    BY DayOf
  <1>4. MinutesOfDay(x) \in w.from .. w.to - Duration
    BY <1>1, <1>2, <1>3, ConstantTypes
  <1>5. QED
    BY <1>1, <1>2, <1>4 DEF Grid

\* What is listed are instants.
LEMMA ListedAreInstants ==
    ASSUME NEW query, query.from \in Int, query.to \in Int, NEW now \in Int, NEW busy
    PROVE  CandidateSlots(query, now, busy) \subseteq Int
  <1> DEFINE earliest == IF query.from > now + Notice THEN query.from ELSE now + Notice
             latest == IF query.to < now + Horizon THEN query.to ELSE now + Horizon
             first == GstDayStart(earliest)
             days == {d \in first .. latest : (d - first) % Day = 0}
             generated == UNION {UNION {{d + m : m \in Grid(w)} : w \in WindowsFor(d)} : d \in days}
  <1>1. earliest \in Int /\ latest \in Int
    BY ConstantTypes
  <1>2. first \in Int
    <2>1. BeginsADay(first) /\ first \in Int
      BY <1>1, DayOf DEF BeginsADay
    <2>2. QED
      BY <2>1
  <1>3. ASSUME NEW d \in days, NEW w \in WindowsFor(d), NEW m \in Grid(w)
        PROVE  d + m \in Int
    <2>1. d \in Int
      BY <1>1, <1>2
    <2>2. m \in Int
      BY ConstantTypes DEF Grid, WindowsFor
    <2>3. QED
      BY <2>1, <2>2
  <1>4. generated \subseteq Int
    BY <1>3
  <1>5. CandidateSlots(query, now, busy) \subseteq generated
    BY DEF CandidateSlots
  <1>6. QED
    BY <1>4, <1>5

\* The list a query is answered with holds the times the check would pass, of those
\* that end by the horizon and lie within the query (candidateSlots, isBookableSlot).
THEOREM ListedIsChecked ==
    ASSUME NEW query, query.from \in Int, query.to \in Int, NEW now \in Int, NEW busy,
           NEW x \in Int
    PROVE  x \in CandidateSlots(query, now, busy) <=>
             /\ query.from <= x /\ x + Duration <= query.to
             /\ x + Duration <= now + Horizon
             /\ IsBookableSlot(x, now, busy)
  <1> DEFINE earliest == IF query.from > now + Notice THEN query.from ELSE now + Notice
             latest == IF query.to < now + Horizon THEN query.to ELSE now + Horizon
             first == GstDayStart(earliest)
             days == {d \in first .. latest : (d - first) % Day = 0}
             generated == UNION {UNION {{d + m : m \in Grid(w)} : w \in WindowsFor(d)} : d \in days}
             within == earliest <= x /\ x + Duration <= latest
  <1>1. /\ earliest \in Int /\ latest \in Int /\ Duration \in Nat /\ Duration > 0
        /\ Notice \in Nat /\ Horizon \in Nat
    BY ConstantTypes
  <1>2. x \in CandidateSlots(query, now, busy) <=>
          x \in generated /\ within /\ ~ConflictsWithBusy(x, busy)
    BY DEF CandidateSlots
  <1>3. within <=> /\ query.from <= x /\ now + Notice <= x
                   /\ x + Duration <= query.to /\ x + Duration <= now + Horizon
    BY <1>1
  <1>4. first \in Int /\ BeginsADay(first)
    BY <1>1, DayOf DEF BeginsADay
  <1>5. x \in generated => FitsAWindow(x)
    <2> SUFFICES ASSUME x \in generated PROVE FitsAWindow(x)
      OBVIOUS
    <2>1. PICK d \in days : \E w \in WindowsFor(d) : \E m \in Grid(w) : x = d + m
      OBVIOUS
    <2>2. d \in Int /\ (d - first) % Day = 0
      BY <1>1, <1>4
    <2>3. BeginsADay(d)
      BY <1>4, <2>2, DaysApart
    <2>4. QED
      BY <2>1, <2>3, OnTheGrid
  <1>6. within /\ FitsAWindow(x) => x \in generated
    <2> SUFFICES ASSUME within, FitsAWindow(x) PROVE x \in generated
      OBVIOUS
    <2> DEFINE d == GstDayStart(x)
    <2>1. BeginsADay(d) /\ d \in Int /\ x = d + MinutesOfDay(x) /\ MinutesOfDay(x) \in 0 .. (Day - 1)
      BY DayOf DEF BeginsADay
    <2>2. first <= d
      BY <1>1, DayStartsInOrder
    <2>3. d <= latest
      BY <1>1, <2>1, ConstantTypes
    <2>4. (d - first) % Day = 0
      BY <1>4, <2>1, DaysApart
    <2>5. d \in days
      BY <1>1, <1>4, <2>1, <2>2, <2>3, <2>4
    <2>6. PICK w \in WindowsFor(d) : MinutesOfDay(x) \in Grid(w)
      BY OfTheDay
    <2>7. QED
      BY <2>1, <2>5, <2>6
  <1>7. x + Duration <= now + Horizon => x <= now + Horizon
    BY <1>1
  <1>8. QED
    BY <1>2, <1>3, <1>5, <1>6, <1>7 DEF IsBookableSlot
=============================================================================
