--------------------------- MODULE InterruptDriver ---------------------------
(***************************************************************************)
(* main of InterruptDriver.cpp: retire some instructions, raise an         *)
(* interrupt, retire more, and clear the interrupt after the first of them *)
(* if the option says so.                                                  *)
(*                                                                         *)
(* Both loops are line "loop", before and after the interrupt is raised.   *)
(* The test result < 0 of the loops compares an enumeration without        *)
(* negative members, so that no branch stands for it.                      *)
(***************************************************************************)
EXTENDS DriverMain

CONSTANTS
    max_step,
    MaxBefore,          \* bound: instructions before the interrupt
    InterruptCause

ASSUME StepsAssumption == max_step \in Nat /\ MaxBefore \in Nat
ASSUME InterruptAssumption == InterruptCause \in Cause

VARIABLES
    raised,             \* the program is past raiseInterrupt
    pending,            \* history: raised and not cleared
    raisedPC            \* history: the pc that raiseInterrupt left, or Unset

interruptVars == <<raised, pending, raisedPC>>
allVars == <<vars, mainVars, interruptVars>>

InterruptTypeOK ==
    /\ MainTypeOK(IF max_step > MaxBefore THEN max_step ELSE MaxBefore)
    /\ opts.before \in 0 .. MaxBefore
    /\ opts.clear \in BOOLEAN
    /\ raised \in BOOLEAN
    /\ pending \in BOOLEAN
    /\ raisedPC \in PC \cup {Unset}

\* RVM_NumStepsBeforeInt, RVM_ClearInterrupt, and whether the model is RV64:
\* the interrupt cause has its high bit set and does not fit MCAUSE of RV32.
InterruptInit ==
    /\ MainInit
    /\ \E common \in CommonOptions, before \in 0 .. MaxBefore,
          clear \in BOOLEAN, rv64 \in BOOLEAN :
          opts = [log |-> common.log, exec |-> common.exec, state |-> common.state,
                  stop |-> common.stop, before |-> before, clear |-> clear,
                  rv64 |-> rv64]
    /\ raised = FALSE
    /\ pending = FALSE
    /\ raisedPC = Unset

max_iter == IF opts.clear THEN max_step ELSE opts.before
Bound == IF raised THEN max_iter ELSE opts.before

-----------------------------------------------------------------------------
(* The two loops.                                                          *)

\* Mutation: a run that meets the stop condition early ends there.
AfterLoopUnlessStopped == IF raised \/ status = "FINISH" THEN "dump" ELSE "interrupt"

\* Where a loop is left to: the interrupt, or the state dump.
AfterLoop == IF raised THEN "dump" ELSE "interrupt"

\* Mutation: the clear waits for one more instruction.
ClearsLate == raised /\ i = 1 /\ opts.clear

\* The interrupt is cleared after the first instruction of the second loop.
ClearsNow == raised /\ i = 0 /\ opts.clear

\* The check that follows either loop.
CheckedSuccess == ExecSuccess /\ i # max_step

FinishLoop ==
    /\ line = "result"
    /\ status = "FINISH"
    /\ ExecSuccess' = CheckedSuccess
    /\ Goto(AfterLoop)
    /\ UNCHANGED <<vars, opts, i, Outputs, chainPC, interruptVars>>

ContinueLoop ==
    /\ line = "result"
    /\ status # "FINISH"
    /\ ~ClearsNow
    /\ i' = i + 1
    /\ Goto("loop")
    /\ UNCHANGED <<vars, opts, ExecSuccess, Outputs, chainPC, interruptVars>>

ClearInterrupt ==
    /\ line = "result"
    /\ status # "FINISH"
    /\ ClearsNow
    /\ Interrupt(NoCause, pc)
    /\ i' = i + 1
    /\ pending' = FALSE
    /\ Goto("loop")
    /\ UNCHANGED <<opts, ExecSuccess, Outputs, chainPC, raised, raisedPC>>

ClearInterruptThrows ==
    /\ status # "FINISH"
    /\ ClearsNow
    /\ Throws("result")
    /\ UNCHANGED interruptVars

\* Mutation: the second loop is never left for its bound.
EndFirstLoop ==
    /\ line = "loop" /\ i >= Bound /\ ~raised
    /\ ExecSuccess' = CheckedSuccess
    /\ Goto(AfterLoop)
    /\ UNCHANGED <<vars, opts, i, Outputs, chainPC, interruptVars>>

EndLoop ==
    /\ line = "loop" /\ i >= Bound
    /\ ExecSuccess' = CheckedSuccess
    /\ Goto(AfterLoop)
    /\ UNCHANGED <<vars, opts, i, Outputs, chainPC, interruptVars>>

-----------------------------------------------------------------------------
\* The model may take the trap at once.
RaiseInterrupt ==
    /\ line = "interrupt"
    /\ opts.rv64
    /\ \E next \in PC : Interrupt(InterruptCause, next) /\ raisedPC' = next
    /\ raised' = TRUE
    /\ pending' = TRUE
    /\ i' = 0
    /\ Goto("loop")
    /\ UNCHANGED <<opts, ExecSuccess, Outputs, chainPC>>

RaiseInterruptThrows ==
    /\ Throws("interrupt")
    /\ UNCHANGED interruptVars

CallsAndReturns ==
    \/ Prologue
    \/ CallRetireInstr(Bound)
    \/ ExecuteInstr
    \/ ReturnFromRetireInstr
    \/ RetireInstrThrows(Bound)
    \/ Epilogue

InterruptNext ==
    \/ CallsAndReturns /\ UNCHANGED interruptVars
    \/ FinishLoop
    \/ ContinueLoop
    \/ ClearInterrupt
    \/ ClearInterruptThrows
    \/ EndLoop
    \/ RaiseInterrupt
    \/ RaiseInterruptThrows

InterruptSpec ==
    InterruptInit /\ [][InterruptNext]_allVars /\ WF_allVars(InterruptNext)

-----------------------------------------------------------------------------
\* A run that is to clear its interrupt is successful only if it came to a
\* stop condition after the interrupt was raised, although the loop before it
\* may have ended on one already (InterruptDriver.cpp:108-133).
ClearingRunFinishes ==
    Succeeded /\ opts.exec /\ opts.clear => raised /\ status = "FINISH"

\* The interrupt is there for one instruction at most: the clear comes between
\* the first and the second instruction after the raise, whatever these
\* instructions return (InterruptDriver.cpp:125).
PendingForOneInstr ==
    [][phase = "idle" /\ phase' = "exec" /\ pending /\ opts.clear => i = 0]_allVars

\* The records form a path, pc_before of each is pc_after of the one before
\* it, with one jump a reader of the log can know: the first record after the
\* raise begins where the raise left the pc, in the trap handler if the model
\* took the trap at once (InterruptDriver.cpp:104-107, logPreRetireState).
RecordsChainButAtRaise ==
    IsOpen /\ phase = "executed" =>
        pcBefore = IF raised /\ i = 0 THEN raisedPC ELSE chainPC

\* A run that is asked to clear the interrupt has cleared it when it ends
\* (InterruptDriver.cpp:2 and 124).
InterruptCleared == Succeeded /\ opts.clear => ~pending
=============================================================================
