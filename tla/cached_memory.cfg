SPECIFICATION Spec
CONSTANTS
    A = 2
    S = 2
    Blocks = {0, 1, 2, 4}
    Offsets = {0}
    Values = {0, 1}
    Zero = 0
    Images <- MCImages
    Delay = 2
INVARIANTS TypeOK NoDuplicates VictimLeastRecent CleanLinesMatch
PROPERTIES ImplementsFlatMemory ImplementsDelayedMemory
