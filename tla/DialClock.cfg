SPECIFICATION Spec
CONSTANTS
    Day = 12
    Minute = 2
    LookAhead = 14
    Config <- MCConfig
    MaxSlot = 6
    Lag = 2
    PollSpan = 2
    Horizon = 84
    MaxEdits = 1
INVARIANTS
    TypeOK
    PolledSlotIsOpen
    DeferredOnce
    SlotsAreSpaced
    AttemptsKeepTheSchedule
CHECK_DEADLOCK FALSE
