SPECIFICATION Spec
CONSTANTS
    W = 16
    EC = FALSE
    Gpr = {0, 1, 30}
    PageUnits = 4
    AluVal <- MCAluVal
    AluFlags <- MCAluFlags
    Bits = 4
    TextLo = 1
    DataLo = 10
    StackLo = 12
    KernelLo = 13
    Input = 6
    Programs <- DelayPrograms
    Outside <- MCOutside
    Uninit <- MCUninitMore
    AnyOrder = TRUE
    Cached = TRUE
    Delay = 3
    BlockUnits = 2
    CycleMax = 30
CHECK_DEADLOCK FALSE
INVARIANTS OperandsCurrent InFlightOwned Regular
PROPERTIES ImplementsMachine MissesStall
