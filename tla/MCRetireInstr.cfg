SPECIFICATION Spec
CONSTANTS
    XReg = {x1}
    FReg = {f1}
    VReg = {v1}
    Addr = {a1}
    Val = {0, 1}
    Zero = 0
    PC = {2}
    Cause = {3}
    MaxEffects = 2
    Unset = Unset
    MaxInstr = 2
    MaxInterrupts = 2
INVARIANTS
    TypeOK
    ReplayMatches
    RecordFaithful
    LogShape
CHECK_DEADLOCK FALSE
