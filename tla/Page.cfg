SPECIFICATION Spec
CONSTANTS
    None = None
    Worlds <- SmallWorlds
    Tabs = {"tab_1", "tab_2", "phone", "stranger"}
    BrowserOf <- Browsers
    NetworkOf <- Networks
    Emails = {"ann", "bob"}
    Day = 24
    GstOffset = 4
    Windows <- Evenings
    Duration = 1
    SlotInterval = 2
    Buffer = 1
    Notice = 8
    Horizon = 11
    PageTimes = {8, 10}
    Appointments <- CoachsAppointments
    PageHolds = {1, 2, 3}
    HoldMinutes = 1
    PageLag = 1
    MaxPerAddress = 1
    MaxLive = 2
    NoTab = NoTab
    LastMinute = 1
CHECK_DEADLOCK FALSE
INVARIANTS
    TypeOK
    HoldCapsKept
    PaymentPageIsLive
    OffersAreAccepted
PROPERTIES
    PageLagIsBounded
