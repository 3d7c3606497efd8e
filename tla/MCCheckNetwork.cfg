CONSTANTS
    Codes = {1}
    Flicks = 1
    MaxDes = 5
SPECIFICATION NetSpec
INVARIANTS NeverBlank
PROPERTIES Settles StreamEndIsShown
CHECK_DEADLOCK FALSE
