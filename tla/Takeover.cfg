SPECIFICATION Spec
CONSTANTS
    a = a  b = b  NoCore = NoCore  e = e
    Cores = {a, b}
    NumKeys = 2  NumConns = 2
    Changes = {}
    Limit <- LoginLimit
PROPERTIES SameKeySameSession
CHECK_DEADLOCK FALSE
