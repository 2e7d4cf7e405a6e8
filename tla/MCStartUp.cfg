SPECIFICATION Spec
CONSTANTS
    None = None
    Word = {"lib.so", "a.elf", "0", "AtLabel", "rv32i"}
    Number <- MCNumber
    Rv32Isa = {"rv32i"}
    Rv64Isa = {}
    DefaultMemStart = 1
    DefaultMemSize = 2
    NoLibrary = NoLibrary
    Version = {37, 38, 294}
    File <- MCFile
    PC = {4, 8, 64}
    Wide = {64}
    Addr = {0, 1, 2}
    Byte = {0, 1, 2, 3, 4, 5, 6}
    Zero = 0
    NoFile = NoFile
    CommandLines <- MCCommandLines
INVARIANTS
    StartUpTypeOK
    LastOptionWins
    LibraryAsAsked
PROPERTY ImplementsLaunch
CHECK_DEADLOCK FALSE
