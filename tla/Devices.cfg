SPECIFICATION Spec
CHECK_DEADLOCK FALSE
CONSTANTS
    Null = Null
    Dirs <- MCDirs
    Parent <- MCParent
    Roots <- MCRoots
    Info <- MCInfo
    Numbers = {3, 7, 256}
    devperms <- MCdevperms
    MAX_QEMU_PERM = 1
    Default <- MCDefault
    Scenarios <- MCScenarios
INVARIANTS
    DevicesCurrent
    FirmwareWhole
PROPERTIES
    FirmwareAnswered
    DeviceNoded
