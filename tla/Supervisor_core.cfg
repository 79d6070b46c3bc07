SPECIFICATION Spec
CONSTANTS
    NoService = NoService
    NoPid = NoPid
    zygote = zygote
    media = media
    p1 = p1
    p2 = p2
    p3 = p3
    Services = {zygote, media}
    Pids = {p1, p2}
    Oneshot = {}
    Critical = {zygote}
    Console = {}
    InitiallyDisabled = {}
    HaveConsole = FALSE
    Missing = {}
    ForkMayFail = FALSE
    InitScript <- MCEmpty
    BootScript <- CoreBoot
    OnRestart <- CoreOnRestart
    Trigger <- CoreTriggers
    BootTriggers <- MCBootTriggers
    Requests <- CoreRequests
    RestartDelay = 2
    CrashThreshold = 1
    CrashWindow = 1
    MaxTime = 2
    ExitHorizon = 2
SYMMETRY PidSymmetry
INVARIANTS
    Coherent
    NoForgottenInstance
    NoLostChild
    NoOversleep
    StatusTruthful
PROPERTIES
    StoppedStaysDown
