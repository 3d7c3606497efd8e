CONSTANTS
    Client = {a, b}
    MAX_URLCGI = 2
    HTTPC_MAX_CONNECT_RETRY = 1
    Body = 1
    Half = 2
    MaxAnswer = 3
SPECIFICATION UrlSpec
INVARIANT Relayed
PROPERTY RequestEnds
CHECK_DEADLOCK FALSE
