SPECIFICATION InterruptSpec
CONSTANTS
    XReg = {}
    FReg = {}
    VReg = {}
    Addr = {}
    Val = {0}
    Zero = 0
    PC = {2, 4}
    Cause = {13}
    MaxEffects = 0
    Unset = Unset
    MaxInstr = 4
    MaxInterrupts = 0
    max_step = 2
    MaxBefore = 3
    InterruptCause = 13
INVARIANTS
    InterruptTypeOK
    ClearingRunFinishes
    RecordsChainButAtRaise
PROPERTIES
    PendingForOneInstr
    ExceptionFails
    Termination
    ImplementsSimulatorRun
CHECK_DEADLOCK FALSE
