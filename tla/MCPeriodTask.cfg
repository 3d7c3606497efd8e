SPECIFICATION FairSpec
CONSTANTS
    Task = {t1, t2}
    Node = {t1, t2, header, add, list}
    ListHeads = {header, add, list}
    g_lPrdTaskHeader = header
    g_lPrdTaskAdd = add
    list = list
    NoTask = none
    Timeouts = {0, 2}
    MaxWait = 1
    TickMax = 3
    MaxElapsed = 2
    MaxSignals = 1
INVARIANTS
    ListsComplete
    NoOversleep
PROPERTIES
    PicksOnlyArmed
    OncePerPass
    EarlyByPassAtMost
    NoStarvation
