SPECIFICATION Spec
CONSTANTS
    StageCount = 5
    CycleMax = 3
INVARIANTS TypeOK CorrectionAlone
PROPERTIES ImplementsCycleOrder Terminates
