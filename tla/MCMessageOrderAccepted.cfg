SPECIFICATION IsaSpec
CONSTANTS
    Descriptors = {"i", "e", "g", "f", "d", "zca", "zcf", "zcd", "zk", "zvkng", "sha", "sstc"}
    KnownSizes <- MCKnownSizes
    Letters = {"i", "e", "g", "d", "2"}
    Names = {"zk", "zca", "zunknown"}
    MaxLetters = 3
    MaxPasses = 3
INVARIANT MessageOrderAccepted
CHECK_DEADLOCK FALSE
