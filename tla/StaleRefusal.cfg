SPECIFICATION Spec
CONSTANTS
    w1 = w1
    w2 = w2
    None = None
    Rows = {1}
    StripeIds = {1, 2}
    Runs = {w1, w2}
    Gross = 1
    MaxAttempts = 3
    MaxNow = 0
    World = {"refusal", "slow"}
\* Everything may have been said and done.
CHECK_DEADLOCK FALSE
SYMMETRY AnyRun
PROPERTIES
    KeyMovesOnlyWhenRefused
