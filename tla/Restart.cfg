SPECIFICATION Spec
CONSTANTS
    sword = sword  shield = shield  NoItem = NoItem
    host = host  mart = mart  off = off
    Items = {sword, shield}  Host = host  Mart = mart  Off = off
    SlowSQL = FALSE  AnyStop = FALSE
    Limit <- RestartLimit
INVARIANTS StorageTypeOK TakenOnce StopKeepsAll NoneLeftBehind MemoryIsCurrent
CHECK_DEADLOCK FALSE
