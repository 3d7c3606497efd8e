CONSTANTS
    MsgFD = MsgFD
    Url = {u}
    Ddns = {d}
    MaxFD = 2
    MaxPending = 2
SPECIFICATION Spec
INVARIANTS WantedIsWatched NeverBad NoDangling
PROPERTY Handled
CHECK_DEADLOCK FALSE
