----------------------------- MODULE RetireInstr -----------------------------
(***************************************************************************)
(* retireInstr: one instruction of the model, between the two halves of    *)
(* the logger, with the callbacks running inside executeInstr.  The        *)
(* program around it is the most general one: it may stop retiring or      *)
(* touch the interrupts whenever no instruction is under way.  Driver and  *)
(* InterruptDriver are programs of this kind.                              *)
(*                                                                         *)
(* replay is a reader of the log: it starts from the state of the model    *)
(* when the program is loaded and applies every record written since.      *)
(***************************************************************************)
EXTENDS ExecutionLogger, FiniteSets

CONSTANTS
    MaxInstr,           \* bound: instructions retired in this program
    MaxInterrupts       \* bound: no interrupt once that many CSR updates are held

VARIABLES
    phase,              \* where the program is, see Phases
    retired,            \* history: instructions executed
    replay              \* history: the machine as the log tells it

retireVars == <<phase, retired, replay>>
vars == <<modelVars, loggerVars, retireVars>>

Phases == {"start",     \* no logger yet
           "setup",     \* the model is being built and loaded
           "idle",      \* between two instructions
           "exec",      \* inside executeInstr
           "executed",  \* after it, before logRetiredState
           "leaving",   \* returning, or unwinding an exception
           "end"}       \* the logger is destroyed

ArchState == [x : [XReg -> Val], f : [FReg -> Val], v : [VReg -> Val],
              mem : [Addr -> Val], fcsr : Val]
Machine == [x |-> xreg, f |-> freg, v |-> vreg, mem |-> mem, fcsr |-> fcsr]

TypeOK ==
    /\ ModelTypeOK
    /\ LoggerTypeOK
    /\ phase \in Phases
    /\ retired \in Nat
    /\ replay \in ArchState

Init ==
    /\ ModelInit
    /\ LoggerInit
    /\ phase = "start"
    /\ retired = 0
    /\ replay = Machine

-----------------------------------------------------------------------------
(* Reading the log.                                                        *)

IsLast(entries, i) ==
    \A j \in DOMAIN entries : j > i => entries[j].key # entries[i].key

\* What key holds after the accesses listed in entries, if it held old before.
Latest(entries, key, old) ==
    IF \E i \in DOMAIN entries : entries[i].key = key
    THEN LET i == CHOOSE i \in DOMAIN entries :
                    entries[i].key = key /\ IsLast(entries, i)
         IN  entries[i].data
    ELSE old

Apply(rec, state) ==
    [x |-> [r \in XReg |-> IF r \in DOMAIN rec.gpr THEN rec.gpr[r] ELSE state.x[r]],
     f |-> [r \in FReg |-> IF r \in DOMAIN rec.fpr THEN rec.fpr[r] ELSE state.f[r]],
     v |-> [r \in VReg |-> Latest(rec.vreg, r, state.v[r])],
     mem |-> [a \in Addr |-> Latest(rec.mem, a, state.mem[a])],
     fcsr |-> IF rec.fcsr = {} THEN state.fcsr ELSE fcsr]

-----------------------------------------------------------------------------
ConstructLogger(hasPath) ==
    /\ phase = "start"
    /\ Construct(hasPath)
    /\ phase' = "setup"
    /\ UNCHANGED <<modelVars, retired, replay>>

PrepareModel(entry, image, stop, mode) ==
    /\ phase = "setup"
    /\ LoadProgram(entry, image, stop, mode)
    /\ phase' = "idle"
    /\ replay' = [Machine EXCEPT !.mem = image]
    /\ UNCHANGED <<loggerVars, retired>>

\* The model cannot be built or loaded, or there is nothing to run.
LeaveSetup ==
    /\ phase = "setup"
    /\ phase' = "leaving"
    /\ UNCHANGED <<modelVars, loggerVars, retired, replay>>

BeginRetire ==
    /\ phase = "idle"
    /\ LogPreRetireState
    /\ FetchInstr
    /\ phase' = "exec"
    /\ UNCHANGED <<retired, replay>>

BeginRetireThrows ==
    /\ phase = "idle"
    /\ LogPreRetireStateThrows
    /\ phase' = "leaving"
    /\ UNCHANGED <<modelVars, retired, replay>>

ExecXReg == \E r \in XReg, val \in Val : WriteXReg(r, val) /\ AddXRegUpdate(r)
ExecFReg == \E r \in FReg, val \in Val : WriteFReg(r, val) /\ AddFRegUpdate(r)
ExecVReg == \E r \in VReg, val \in Val, latest \in BOOLEAN :
               WriteVReg(r, val, latest) /\ AddVRegUpdate(r, val)
ExecStore == \E a \in Addr, val \in Val, latest \in BOOLEAN :
                WriteMem(a, val, latest) /\ AddMemoryUpdate(a, val)
ExecLoad == \E a \in Addr, val \in Val : ReadMem(a, val) /\ AddMemoryRead(a, val)
ExecFCSR == \E val \in Val : WriteFCSR(val) /\ AddCSRUpdate

ExecEffect ==
    /\ phase = "exec"
    /\ \/ ExecXReg
       \/ ExecFReg
       \/ ExecVReg
       \/ ExecStore
       \/ ExecLoad
       \/ ExecFCSR
    /\ UNCHANGED retireVars

EndInstr ==
    /\ phase = "exec"
    /\ \E next \in PC :
          \/ EndSuccess(next) /\ UNCHANGED loggerVars
          \/ EndFinish(next) /\ UNCHANGED loggerVars
          \/ \E cause \in Cause : EndException(next, cause) /\ AddCSRUpdate
    /\ phase' = "executed"
    /\ retired' = retired + 1
    /\ UNCHANGED replay

EndRetire ==
    /\ phase = "executed"
    /\ LogRetiredState
    /\ phase' = "idle"
    /\ replay' = IF IsOpen THEN Apply(Record, replay) ELSE replay
    /\ UNCHANGED <<modelVars, retired>>

EndRetireThrows ==
    /\ phase = "executed"
    /\ LogRetiredStateThrows
    /\ phase' = "leaving"
    /\ UNCHANGED <<modelVars, retired, replay>>

\* raiseInterrupt and clearInterrupt, which update MCAUSE.
Interrupt(cause, next) ==
    /\ phase = "idle"
    /\ SetInterrupt(cause, next)
    /\ AddCSRUpdate
    /\ UNCHANGED retireVars

Leave ==
    /\ phase = "idle"
    /\ phase' = "leaving"
    /\ UNCHANGED <<modelVars, loggerVars, retired, replay>>

DestroyLogger ==
    /\ phase = "leaving"
    /\ Destruct
    /\ phase' = "end"
    /\ UNCHANGED <<modelVars, retired, replay>>

Next ==
    \/ \E hasPath \in BOOLEAN : ConstructLogger(hasPath)
    \/ \E entry \in PC, image \in [Addr -> Val], stop \in PC \cup {NoStopPC},
          mode \in StopModes : PrepareModel(entry, image, stop, mode)
    \/ LeaveSetup
    \/ retired < MaxInstr /\ BeginRetire
    \/ BeginRetireThrows
    \/ ExecEffect
    \/ EndInstr
    \/ EndRetire
    \/ EndRetireThrows
    \/ \E cause \in Cause \cup {NoCause}, next \in PC :
          update.CSR < MaxInterrupts /\ Interrupt(cause, next)
    \/ Leave
    \/ DestroyLogger

Spec == Init /\ [][Next]_vars

-----------------------------------------------------------------------------
(* What makes the log worth reading.                                       *)

\* Whoever replays the log has, between two instructions, the registers and
\* the memory of the model: no update of an earlier instruction is lost or
\* written again, although registers are read back after the instruction
\* (emitChangeXRegisters) and vectors and memory are what the callbacks were
\* given (addVRegUpdate, addMemoryUpdate).  The one exception is a vector or
\* a memory location whose last report was not its last update, which a model
\* may do to a location it updates twice in one instruction, since it calls
\* the callbacks in an order of its own (docs/implementation.md:183); such a
\* location is right again after the next update that is reported in order.
ReplayMatches ==
    IsOpen /\ phase = "idle" =>
        /\ callbacks => /\ replay.x = xreg
                        /\ replay.f = freg
                        /\ \A r \in VReg \ overtakenV : replay.v[r] = vreg[r]
                        /\ \A a \in Addr \ overtakenMem : replay.mem[a] = mem[a]
        /\ replay.fcsr = fcsr

\* The record about to be written lists exactly what this instruction
\* reported, its memory accesses in the order of the callbacks: nothing of
\* the instruction before it and nothing it did not do (logPreRetireState,
\* StateUpdate::clear).
RecordFaithful ==
    IsOpen /\ phase = "executed" /\ callbacks =>
        /\ Record.mem = did.writes
        /\ Record.memReads = did.reads
        /\ Record.vreg = did.v
        /\ DOMAIN Record.gpr = Range(did.x)
        /\ DOMAIN Record.fpr = Range(did.f)
        /\ Record.fcsr # {} <=> fcsr # replay.fcsr

\* The document is closed exactly when the logger is gone, on every way out,
\* and every instruction that was executed has its record, but for the one
\* whose logging threw; what such an instruction left behind of its record
\* is the last thing in the log (the ExecutionLogger destructor,
\* logRetiredState).
Records == Cardinality({i \in DOMAIN file : file[i] = "record"})
LogShape ==
    IsOpen =>
        /\ file[1] = "head"
        /\ \A i \in DOMAIN file :
              /\ file[i] = "head" <=> i = 1
              /\ file[i] = "tail" <=> i = Len(file) /\ phase = "end"
              /\ file[i] = "torn" =>
                    \A j \in DOMAIN file : j > i => file[j] = "tail"
        /\ phase \in {"idle", "exec"} => Records = retired
        /\ phase \in {"leaving", "end"} => Records \in {retired, retired - 1}
=============================================================================
