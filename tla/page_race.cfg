SPECIFICATION Threads
CONSTANTS
    Pages <- MCPages
    Offsets = {0}
    Values = {0, 1}
    Zero = 0
    Buckets = {0}
    Hash <- MCHash
    Clients = {"Fetch", "Memory"}
    May <- MCMay
    PageMax = 4
CHECK_DEADLOCK FALSE
PROPERTIES NoReplacement
