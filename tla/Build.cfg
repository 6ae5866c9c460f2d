SPECIFICATION FairSpec
CONSTANTS
    a = a  b = b  NoCore = NoCore
    sword = sword  bow = bow  Bundle = Bundle
    Cores = {a, b}
    Items = {sword, bow}  Bundles = 2
    Limit <- BuildLimit
INVARIANTS OnePlace HeldWhilePending CopiesAgree BundleKept
PROPERTIES BuildEnds
CHECK_DEADLOCK FALSE
