SPECIFICATION Spec
CONSTANTS
    w1 = w1
    w2 = w2
    None = None
    Rows = {1, 2}
    StripeIds = {1, 2}
    Runs = {w1}
    Gross = 2
    MaxAttempts = 2
    MaxNow = 1
    World = {"dashboard", "bounce", "time", "unclear"}
\* Everything may have been said and done.
CHECK_DEADLOCK FALSE
INVARIANTS
    OneRowPerRefund
    WrittenOffOnlyWhenPaid
    OneFullRefundAtATime
    HeardIsRecorded
    NewsIsNeverLost
