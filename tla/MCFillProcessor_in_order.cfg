SPECIFICATION Spec
CHECK_DEADLOCK FALSE
CONSTANTS
    Sync = Sync
    Handlers = {w1}
    Prices = {1, 50}
    Digit = 2
    Target = 4
    Steps = {1, 3}
    Unit = 3
    Scale = 10
    MaxReports = 4
    MaxFilled = 3
    Noise <- OtherReports
    Channels = {"webhook", "shuffled", "repeat", "reply"}
    Unordered = FALSE
INVARIANTS
    TypeOK
    FilledIsAnswered
    SettlementMatchesRow
    SettledValueIsExact
    AverageIsVWAP
    ReleasedWhenComplete
    OrderIsTruncated
    NoDoubleCount
PROPERTIES
    CompleteIsFinal
    ImplementsSettlement
