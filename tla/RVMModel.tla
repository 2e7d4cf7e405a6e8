------------------------------ MODULE RVMModel ------------------------------
(***************************************************************************)
(* The simulator behind the C interface, as the programs in src/ use it.   *)
(* It is a plugin, a shared library that is not part of the repository, so *)
(* this module is the contract of RVM.h and docs/implementation.md: one    *)
(* executeInstr is a sequence of architectural effects followed by a       *)
(* status, and any query may be answered with an error.                    *)
(*                                                                         *)
(* The effects are the actions of an instruction, one for every callback   *)
(* it invokes; a program that uses the model composes each of them with    *)
(* the callback it registered.  The order in which an instruction invokes  *)
(* its callbacks is "implementation-defined" (docs/implementation.md:183), *)
(* and matters only for a location the instruction updates twice: which    *)
(* of the two reports is the location's last, and so whether the callback  *)
(* of its final value is overtaken by that of an earlier one.  An action   *)
(* that is not "latest" is the late report of a value the location no      *)
(* longer has.  The callbacks only add to lists, so that nothing else      *)
(* depends on when they come.                                              *)
(***************************************************************************)
EXTENDS Naturals, Sequences

CONSTANTS
    XReg, FReg, VReg,   \* general purpose, floating point, vector registers
    Addr,               \* memory locations
    Val,                \* contents of a register or a memory location
    Zero,               \* the value a location has when the model is created
    PC,                 \* addresses of instructions
    Cause,              \* codes an exception leaves in MCAUSE
    MaxEffects          \* bound: architectural effects of one instruction

\* MCAUSE of a breakpoint exception, and of no exception at all.
Breakpoint == 3
NoCause == 0

\* The stop address of a program without a _sim_end label: no instruction
\* has an odd address.
NoStopPC == 1

ASSUME ValAssumption == Zero \in Val
ASSUME PCAssumption == NoStopPC \notin PC
ASSUME MaxEffectsAssumption == MaxEffects \in Nat

VARIABLES
    pc, xreg, freg, vreg, mem, fcsr, mcause,    \* the architectural state
    stopMode, stopPC,   \* rvm_setStopMode, rvm_setStopPC
    callbacks,          \* rvm_queryCallbackSupportPresent
    status,             \* what executeInstr last returned
    did,                \* history: what the current instruction has reported,
                        \* in the order of its callbacks
    overtakenV,         \* history: the vector registers and the memory
    overtakenMem        \* locations last reported with a value of the past

archVars == <<pc, xreg, freg, vreg, mem, fcsr, mcause>>
stopVars == <<stopMode, stopPC>>
orderVars == <<overtakenV, overtakenMem>>
modelVars == <<archVars, stopVars, callbacks, status, did, orderVars>>

StopModes == {"Never", "ByPC"}
Statuses == {"SUCCESS", "FINISH", "EXCEPTION"}
Access(K) == [key : K, data : Val]
Effects == [x : Seq(XReg), f : Seq(FReg), v : Seq(Access(VReg)),
            writes : Seq(Access(Addr)), reads : Seq(Access(Addr)), csr : Nat]
NoEffects == [x |-> <<>>, f |-> <<>>, v |-> <<>>,
              writes |-> <<>>, reads |-> <<>>, csr |-> 0]
EffectCount == Len(did.x) + Len(did.f) + Len(did.v)
                 + Len(did.writes) + Len(did.reads) + did.csr

ModelTypeOK ==
    /\ pc \in PC
    /\ xreg \in [XReg -> Val]
    /\ freg \in [FReg -> Val]
    /\ vreg \in [VReg -> Val]
    /\ mem \in [Addr -> Val]
    /\ fcsr \in Val
    /\ mcause \in Cause \cup {NoCause}
    /\ stopMode \in StopModes
    /\ stopPC \in PC \cup {NoStopPC}
    /\ callbacks \in BOOLEAN
    /\ status \in Statuses
    /\ did \in Effects
    /\ overtakenV \subseteq VReg
    /\ overtakenMem \subseteq Addr

\* rvm_modelCreate; whether the plugin implements callbacks is its choice.
ModelInit ==
    /\ pc \in PC
    /\ xreg = [r \in XReg |-> Zero]
    /\ freg = [r \in FReg |-> Zero]
    /\ vreg = [r \in VReg |-> Zero]
    /\ mem = [a \in Addr |-> Zero]
    /\ fcsr = Zero
    /\ mcause = NoCause
    /\ stopMode = "Never"
    /\ stopPC = NoStopPC
    /\ callbacks \in BOOLEAN
    /\ status = "SUCCESS"
    /\ did = NoEffects
    /\ overtakenV = {}
    /\ overtakenMem = {}

\* rvm_setPC, rvm_writeMem, rvm_setStopPC and rvm_setStopMode, called to load
\* a program and say where it ends.
LoadProgram(entry, image, stop, mode) ==
    /\ pc' = entry
    /\ mem' = image
    /\ stopPC' = stop
    /\ stopMode' = mode
    /\ UNCHANGED <<xreg, freg, vreg, fcsr, mcause, callbacks, status, did, orderVars>>

-----------------------------------------------------------------------------
(* The inside of rvm_executeInstr.                                         *)

\* The instruction at the stop address is not executed.
StopHit == stopMode = "ByPC" /\ pc = stopPC

FetchInstr ==
    /\ did' = NoEffects
    /\ UNCHANGED <<archVars, stopVars, callbacks, status, orderVars>>

MayHaveEffect == ~StopHit /\ EffectCount < MaxEffects

WriteXReg(r, val) ==
    /\ MayHaveEffect
    /\ xreg' = [xreg EXCEPT ![r] = val]
    /\ did' = [did EXCEPT !.x = Append(@, r)]
    /\ UNCHANGED <<pc, freg, vreg, mem, fcsr, mcause>>
    /\ UNCHANGED <<stopVars, callbacks, status, orderVars>>

WriteFReg(r, val) ==
    /\ MayHaveEffect
    /\ freg' = [freg EXCEPT ![r] = val]
    /\ did' = [did EXCEPT !.f = Append(@, r)]
    /\ UNCHANGED <<pc, xreg, vreg, mem, fcsr, mcause>>
    /\ UNCHANGED <<stopVars, callbacks, status, orderVars>>

\* Only an update of something already reported can be reported too late.
ReportedAlready(entries, key) == \E n \in DOMAIN entries : entries[n].key = key

Overtaken(locations, key, latest) ==
    IF latest THEN locations \ {key} ELSE locations \cup {key}

WriteVReg(r, val, latest) ==
    /\ MayHaveEffect
    /\ latest \/ ReportedAlready(did.v, r)
    /\ vreg' = IF latest THEN [vreg EXCEPT ![r] = val] ELSE vreg
    /\ overtakenV' = Overtaken(overtakenV, r, latest)
    /\ did' = [did EXCEPT !.v = Append(@, [key |-> r, data |-> val])]
    /\ UNCHANGED <<pc, xreg, freg, mem, fcsr, mcause>>
    /\ UNCHANGED <<stopVars, callbacks, status, overtakenMem>>

WriteMem(a, val, latest) ==
    /\ MayHaveEffect
    /\ latest \/ ReportedAlready(did.writes, a)
    /\ mem' = IF latest THEN [mem EXCEPT ![a] = val] ELSE mem
    /\ overtakenMem' = Overtaken(overtakenMem, a, latest)
    /\ did' = [did EXCEPT !.writes = Append(@, [key |-> a, data |-> val])]
    /\ UNCHANGED <<pc, xreg, freg, vreg, fcsr, mcause>>
    /\ UNCHANGED <<stopVars, callbacks, status, overtakenV>>

\* A load may be reported before or after the stores around it: the value it
\* read need not be the one the location has now.
ReadMem(a, val) ==
    /\ MayHaveEffect
    /\ did' = [did EXCEPT !.reads = Append(@, [key |-> a, data |-> val])]
    /\ UNCHANGED <<archVars, stopVars, callbacks, status, orderVars>>

WriteFCSR(val) ==
    /\ MayHaveEffect
    /\ fcsr' = val
    /\ did' = [did EXCEPT !.csr = @ + 1]
    /\ UNCHANGED <<pc, xreg, freg, vreg, mem, mcause>>
    /\ UNCHANGED <<stopVars, callbacks, status, orderVars>>

\* The instruction is complete and the next one is at address next.
EndSuccess(next) ==
    /\ ~StopHit
    /\ pc' = next
    /\ status' = "SUCCESS"
    /\ UNCHANGED <<xreg, freg, vreg, mem, fcsr, mcause>>
    /\ UNCHANGED <<stopVars, callbacks, did, orderVars>>

\* A stop condition: the stop address, or an ebreak.
EndFinish(next) ==
    /\ pc' = next
    /\ status' = "FINISH"
    /\ UNCHANGED <<xreg, freg, vreg, mem, fcsr, mcause>>
    /\ UNCHANGED <<stopVars, callbacks, did, orderVars>>

\* A trap: its cause is in MCAUSE and the handler is at address next.
EndException(next, cause) ==
    /\ ~StopHit
    /\ pc' = next
    /\ mcause' = cause
    /\ status' = "EXCEPTION"
    /\ UNCHANGED <<xreg, freg, vreg, mem, fcsr>>
    /\ UNCHANGED <<stopVars, callbacks, did, orderVars>>

-----------------------------------------------------------------------------
(* rvm_raiseInterrupt and rvm_clearInterrupt set MCAUSE; the trap of a     *)
(* raised interrupt may be taken at once.                                  *)

SetInterrupt(cause, next) ==
    /\ mcause' = cause
    /\ pc' = next
    /\ UNCHANGED <<xreg, freg, vreg, mem, fcsr>>
    /\ UNCHANGED <<stopVars, callbacks, status, did, orderVars>>
=============================================================================
