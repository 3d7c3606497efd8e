CONSTANTS
    Block = {b1, b2, b3}
    Caller = {c1, c2}
    None = None
SPECIFICATION Spec
INVARIANTS Accounted NothingAfterStop
PROPERTIES CallsReturn FrameIsRead
CHECK_DEADLOCK FALSE
