SPECIFICATION Spec
CONSTANTS
    o1 = o1
    o2 = o2
    s1 = s1
    s2 = s2
    b1 = b1
    b2 = b2
    w1 = w1
    w2 = w2
    None = None
    Orders = {o1}
    Browsers = {b1, b2}
    Owner <- OnePerson
    Slots = {s1, s2}
    Overlaps <- OnlyItself
    Near <- OnlyItself
    Holds = {1, 2, 3}
    Events = {1, 2, 3, 4}
    Workers = {w1}
    Env = {"coach_deletes", "cancel", "part_refund", "crash", "no_link", "calendar_down",
           "checkout_error", "coach_adds", "delayed_payment"}
\* Every order may be finished with, or every request dead.
CHECK_DEADLOCK FALSE
INVARIANTS
    TypeOK
    ScheduledIsBacked
    ConfirmedIsBacked
    SweepDeletesNoOpenSession
