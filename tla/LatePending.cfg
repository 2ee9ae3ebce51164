SPECIFICATION Spec
CONSTANTS
    w1 = w1
    w2 = w2
    None = None
    Rows = {1}
    StripeIds = {1}
    Runs = {w1}
    Gross = 1
    MaxAttempts = 1
    MaxNow = 1
    World = {"refresh"}
\* Everything may have been said and done.
CHECK_DEADLOCK FALSE
PROPERTIES
    LatePendingUndoesNothing
