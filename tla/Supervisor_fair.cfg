SPECIFICATION FairSpec
CONSTANTS
    NoService = NoService
    NoPid = NoPid
    zygote = zygote
    media = media
    p1 = p1
    p2 = p2
    p3 = p3
    Services = {zygote, media}
    Pids = {p1, p2}
    Oneshot = {media}
    Critical = {}
    Console = {}
    InitiallyDisabled = {media}
    HaveConsole = FALSE
    Missing = {media}
    ForkMayFail = TRUE
    InitScript <- MCEmpty
    BootScript <- OptionBoot
    OnRestart <- NoCommands
    Trigger <- NoTriggers
    BootTriggers <- MCBootTriggers
    Requests <- OptionRequests
    RestartDelay = 1
    CrashThreshold = 1
    CrashWindow = 1
    MaxTime = 2
    ExitHorizon = 1
PROPERTIES
    RefinesLifecycle
    RestartHappens
    ExitsHandled
