SPECIFICATION Spec
CONSTANTS
    A = 3
    S = 2
    Blocks = {0, 1, 2, 4, 6}
    Offsets = {0}
    Values = {0}
    Zero = 0
    CommandLines <- MCCommandLines
    TraceMax = 5
CHECK_DEADLOCK FALSE
INVARIANTS MissesFillLines SummaryAccountsForTrace
PROPERTIES ImplementsLruCache ModifyHits
