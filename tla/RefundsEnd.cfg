SPECIFICATION FairSpec
CONSTANTS
    w1 = w1
    w2 = w2
    None = None
    Rows = {1}
    StripeIds = {1, 2}
    Runs = {w1}
    Gross = 1
    MaxAttempts = 2
    MaxNow = 0
    World = {"unclear", "refusal", "crash", "old_keys", "refresh"}
\* Everything may have been said and done.
CHECK_DEADLOCK FALSE
INVARIANTS
    TypeOK
    OneRefundPerRow
PROPERTIES
    OwedIsAnswered
    PendingIsHeard
