SPECIFICATION FairSpec
CONSTANTS
    Caller = {http, usb}
    Prd = Prd
    NoThread = NoThread
    MaxCmd = 4
INVARIANTS
    NoCrashedLock
    TaskMatchesDebt
    AnswersOwnCommand
PROPERTIES
    AnswerIsRead
