SPECIFICATION FairSpec
CONSTANTS
    None = None
    Times = {2, 3}
    LastHour = 4
    Notice = 1
    MovesPerBooking = 1
    EventIds = {1, 2}
    Worlds <- SmallWorlds
    MaxMishaps = 1
    Senders = {"sender_1", "sender_2"}
    MaxSendAttempts = 2
    MaxAttempts = 2
    Movers = {"form", "sweep"}
    WithdrawalDays = 3
    DeskDecisionDays = 2
    Tabs = {"tab_1", "tab_2"}
    Handlers = {"webhook_1", "webhook_2"}
    FraudLead = 1
    Warnings = {"warned", "warned_again"}
    MaxUnheard = 2
    Subjects = {"alert_1", "alert_2"}
    Unwritable = {"alert_1"}
    Runs = {"run_1", "run_2"}
    SendsPerRun = 1
    MaxReasons <- ReasonsFor
    Work = {"booking_1", "booking_2", "event_1", "event_2", "order_1", "order_2"}
    StepOf <- StepFor
    Stuck = {"booking_1", "event_1", "order_1"}
    Batch <- Batches
    Sweeps = {"sweep_1", "sweep_2"}
    NoSweep = NoSweep
    NotRead = NotRead
CHECK_DEADLOCK FALSE
INVARIANTS
    TypeOK
    CopiesAreExplained
    LogTellsTheTruth
    CalendarFileIsCurrent
    WatchMissesNoChange
    DisputeKeepsUp
    NewsReachesTheOrder
    EveryAlertHasItsReason
PROPERTIES
    MailMatchesTheBooking
    EveryMessageIsDecided
    CalendarCatchesUp
    WaitingNoticeStaysListed
    LastingProblemIsTold
    WorkIsReached
