SPECIFICATION DriverSpec
CONSTANTS
    XReg = {x1}
    FReg = {}
    VReg = {}
    Addr = {}
    Val = {0, 1}
    Zero = 0
    PC = {2, 4}
    Cause = {2, 3}
    MaxEffects = 1
    Unset = Unset
    MaxInstr = 2
    MaxInterrupts = 0
    MAX_ALLOWED_STEPS = 2
INVARIANT NoSymbolTableIsHarmless
CHECK_DEADLOCK FALSE
