SPECIFICATION Lifecycle
CONSTANTS
    Pages <- MCPages
    Offsets = {0, 1}
    Values = {0, 1, 2}
    Zero = 0
    Buckets = {0, 1}
    Hash <- MCHash
    Clients = {"main"}
    May <- MCMay
    PageMax = 10
    PageSize = 2
    Starts <- MCStarts
    CommandLines <- MCCommandLines
    Files <- MCFiles
    DefaultMax = 4
    Accesses <- MCAccesses
CHECK_DEADLOCK FALSE
INVARIANTS OptionsTakeEffect OutputLostOnlyUnopened
PROPERTIES PagesAreFlat NoReplacement FileBytesLoaded CheckpointTrue CheckpointShowsSegments MissesReported Exits
