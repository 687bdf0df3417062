SPECIFICATION Spec
CHECK_DEADLOCK FALSE
CONSTANTS
    Sync = Sync
    Handlers = {w1}
    Prices = {1, 50}
    Digit = 2
    Target = 2
    Steps = {1}
    Unit = 1
    Scale = 10
    MaxReports = 2
    MaxFilled = 3
    Noise <- OtherReports
    Channels = {"webhook"}
    Unordered = FALSE
INVARIANT CancellationVoidsHold
