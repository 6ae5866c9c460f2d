SPECIFICATION FairSpec
CONSTANTS
    a = a  b = b  NoCore = NoCore  e = e
    Cores = {a, b}
    NumKeys = 2  NumConns = 2
    Changes = {e}
    Limit <- LoginLimit
INVARIANTS OneSession PlaysLatest
PROPERTIES SavesGrow LogonEnds AlreadyEnds
CHECK_DEADLOCK FALSE
