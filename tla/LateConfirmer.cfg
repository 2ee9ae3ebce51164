SPECIFICATION Spec
CONSTANTS
    o1 = o1
    o2 = o2
    s1 = s1
    s2 = s2
    b1 = b1
    b2 = b2
    w1 = w1
    w2 = w2
    None = None
    Orders = {o1}
    Browsers = {b1, b2}
    Owner <- OnePerson
    Slots = {s1}
    Overlaps <- OnlyItself
    Near <- OnlyItself
    Holds = {1, 2}
    Events = {1, 2}
    Workers = {w1, w2}
    Env = {"calendar_down"}
\* Every order may be finished with, or every request dead.
CHECK_DEADLOCK FALSE
INVARIANTS
    ConfirmedIsBacked
