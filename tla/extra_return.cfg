SPECIFICATION Spec
CONSTANTS
    W = 16
    EC = TRUE
    Gpr = {0, 1, 30}
    PageUnits = 4
    AluVal <- MCAluVal
    AluFlags <- MCAluFlags
    Bits = 4
    TextLo = 1
    DataLo = 10
    StackLo = 12
    KernelLo = 13
    Input = 6
    Programs <- ExtraRetPrograms
    Outside <- MCOutside
    Uninit <- MCUninit
    AnyOrder = FALSE
    Cached = FALSE
    Delay = 1
    BlockUnits = 2
    CycleMax = 20
CHECK_DEADLOCK FALSE
PROPERTIES MispredictSquashed
