SPECIFICATION Spec
CONSTANTS
    Null = Null
    AddressMax = 2
    SubaddressMax = 2
    BearerMax = 2
    Requests <- MCRequests
    LateRequests <- MCLateRequests
    MaxOpens = 2
    MaxTimers = 1
    USE_TI_COMMANDS = TRUE
    POLL_CALL_STATE = FALSE
INVARIANTS
    AnswersRight
    PollingAlive
    SessionsApart
