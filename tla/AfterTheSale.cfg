SPECIFICATION Spec
CONSTANTS
    o1 = o1
    o2 = o2
    s1 = s1
    s2 = s2
    b1 = b1
    b2 = b2
    w1 = w1
    w2 = w2
    None = None
    Orders = {o1, o2}
    Browsers = {b1, b2}
    Owner <- SamePerson
    Slots = {s1}
    Overlaps <- OnlyItself
    Near <- EveryPair
    Holds = {1, 2, 3}
    Events = {1, 2, 3}
    Workers = {w1}
    Env = {"by_hand", "coach_deletes", "refund", "cancel", "time"}
\* Every order may be finished with, or every request dead.
CHECK_DEADLOCK FALSE
INVARIANTS
    BookingsDoNotOverlap
    NoHoleInDiary
    NoSessionUnpaid
    EventsAreOwned
PROPERTIES
    KeepsThePromise
