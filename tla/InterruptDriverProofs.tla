------------------------- MODULE InterruptDriverProofs -------------------------
(***************************************************************************)
(* What main of InterruptDriver.cpp guarantees for every machine, plugin,  *)
(* program, command line and step budget.                                  *)
(***************************************************************************)
EXTENDS InterruptDriver, DriverMainProofs

Budget == IF max_step > MaxBefore THEN max_step ELSE MaxBefore

OptionTypes ==
    /\ opts.before \in 0 .. MaxBefore
    /\ opts.clear \in BOOLEAN
    /\ raised \in BOOLEAN
    /\ pending \in BOOLEAN
    /\ raisedPC \in PC \cup {Unset}

\* No loop runs past its bound.
Counts ==
    /\ i \in 0 .. Budget
    /\ line = "loop" => i <= Bound
    /\ line \in {"retire", "result"} => i < Bound

\* Where main stands with respect to the interrupt.
Raised ==
    /\ line \in BeforeLoop \cup {"interrupt"} => ~raised
    /\ line \in {"dump", "return"} /\ opts.exec => raised
    /\ pending => raised
    /\ line \in {"loop", "retire", "result"} /\ pending /\ opts.clear => i = 0

\* A loop that ran out of steps with the interrupt to be cleared has failed.
Verdict ==
    /\ line \in {"dump", "return"} /\ ExecSuccess /\ opts.exec /\ opts.clear =>
          status = "FINISH"
    /\ Succeeded /\ opts.exec /\ opts.clear => raised /\ status = "FINISH"

\* The next instruction and its record begin where the last record ended, or
\* where the raise left the pc.
NextStart == IF raised /\ i = 0 THEN raisedPC ELSE chainPC
NextChains ==
    /\ line = "loop" => pc = NextStart
    /\ line = "retire" /\ IsOpen => pcBefore = NextStart

InterruptInv ==
    /\ MainInv
    /\ NextChains
    /\ OptionTypes
    /\ Counts
    /\ Raised
    /\ Verdict

\* The bounds of the loops are numbers within the budget.
LEMMA Bounds ==
    ASSUME OptionTypes
    PROVE  /\ Budget \in Nat
           /\ Bound \in 0 .. Budget
           /\ raised /\ opts.clear => Bound = max_step
BY StepsAssumption DEF OptionTypes, Bound, max_iter, Budget

\* The invariant holds before the first statement of main.
LEMMA InterruptInitInv == InterruptInit => InterruptInv
<1> SUFFICES ASSUME InterruptInit PROVE InterruptInv
  OBVIOUS
<1>1. /\ MainInit /\ opts.log \in BOOLEAN
      /\ OptionTypes /\ ~raised /\ ~pending
  <2>1. PICK common \in CommonOptions, before \in 0 .. MaxBefore, clear \in BOOLEAN,
             rv64 \in BOOLEAN :
          opts = [log |-> common.log, exec |-> common.exec, state |-> common.state,
                  stop |-> common.stop, before |-> before, clear |-> clear,
                  rv64 |-> rv64]
    BY DEF InterruptInit
  <2>2. opts.log = common.log /\ opts.before = before /\ opts.clear = clear
    BY <2>1
  <2>3. common.log \in BOOLEAN
    BY DEF CommonOptions
  <2>4. MainInit /\ raised = FALSE /\ pending = FALSE /\ raisedPC = Unset
    BY DEF InterruptInit
  <2> QED
    BY <2>2, <2>3, <2>4 DEF OptionTypes
<1>2. MainInv
  BY <1>1, MainInitInv
<1>3. Counts /\ Raised /\ Verdict /\ NextChains
  BY <1>1, Bounds DEF MainInit, Counts, Raised, Verdict, NextChains, Succeeded, Exited
<1> QED
  BY <1>1, <1>2, <1>3 DEF InterruptInv

\* The statements that both mains share.
LEMMA CommonKeepsInterrupt ==
    ASSUME InterruptInv, CommonNext(Bound), UNCHANGED interruptVars
    PROVE  InterruptInv'
<1> USE DEF Goto, Locals, Outputs, interruptVars
<1>0. MainInv /\ MainInv'
  BY CommonKeeps DEF InterruptInv
<1>c. NextChains'
  <2>1. line' = "loop" => pc' = NextStart'
    BY <1>0, CommonChains DEF InterruptInv, Raised, NextStart
  <2>2. line' = "retire" /\ IsOpen' => pcBefore' = NextStart'
    BY <1>0, CommonChains DEF InterruptInv, NextChains, NextStart, IsOpen
  <2> QED
    BY <2>1, <2>2 DEF NextChains
<1>1. OptionTypes /\ Budget \in Nat /\ Bound \in 0 .. Budget /\ i \in 0 .. Budget
  BY Bounds DEF InterruptInv, Counts
<1>2. ASSUME UNCHANGED opts PROVE OptionTypes' /\ Bound' = Bound
  BY <1>1, <1>2 DEF OptionTypes, Bound, max_iter
<1> SUFFICES UNCHANGED opts /\ Counts' /\ Raised' /\ Verdict'
  BY <1>0, <1>c, <1>2 DEF InterruptInv
<1>3. CASE Prologue
  <2>1. /\ line \in BeforeLoop
        /\ UNCHANGED <<opts, i, ExecSuccess, code>>
        /\ \/ line' \in BeforeLoop \cup {"loop", "unwind", "crashed"}
           \/ line' = "dump" /\ ~opts.exec
    <3>1. CASE OpenLog
      BY <3>1 DEF OpenLog, BeforeLoop
    <3>2. CASE ParseELFAndInit
      BY <3>2 DEF ParseELFAndInit, BeforeLoop
    <3>3. CASE \/ ParseCommandLine \/ LoadModelLibrary \/ BuildModel \/ NoSymbolTable
               \/ \E l \in BeforeLoop : Throws(l)
      BY <3>3 DEF ParseCommandLine, LoadModelLibrary, BuildModel, NoSymbolTable, Throws,
                  BeforeLoop
    <3> QED
      BY <1>3, <3>1, <3>2, <3>3 DEF Prologue, BeforeLoop
  <2>2. ~raised /\ ~pending /\ i = 0
    BY <1>0, <2>1 DEF InterruptInv, Raised, MainInv, Untouched
  <2>3. Counts'
    BY <1>1, <1>2, <2>1, <2>2 DEF Counts, BeforeLoop
  <2>4. Raised' /\ Verdict'
    BY <2>1, <2>2 DEF Raised, Verdict, Succeeded, Exited, BeforeLoop
  <2> QED
    BY <2>1, <2>3, <2>4
<1>4. CASE CallRetireInstr(Bound)
  <2>1. /\ line = "loop" /\ line' = "retire" /\ i < Bound
        /\ UNCHANGED <<opts, i, ExecSuccess, code>>
    BY <1>4 DEF CallRetireInstr
  <2> QED
    BY <1>1, <1>2, <2>1 DEF InterruptInv, Counts, Raised, Verdict, Succeeded, Exited, BeforeLoop
<1>5. CASE ExecuteInstr \/ ReturnFromRetireInstr
  <2>1. /\ line = "retire" /\ line' \in {"retire", "result"}
        /\ UNCHANGED <<opts, i, ExecSuccess, code>>
    BY <1>5 DEF ExecuteInstr, ReturnFromRetireInstr, mainVars
  <2> QED
    BY <1>1, <1>2, <2>1 DEF InterruptInv, Counts, Raised, Verdict, Succeeded, Exited, BeforeLoop
<1>6. CASE RetireInstrThrows(Bound)
  <2>1. line' = "unwind" /\ UNCHANGED <<opts, i, ExecSuccess, code>>
    BY <1>6 DEF RetireInstrThrows
  <2> QED
    BY <1>1, <1>2, <2>1 DEF InterruptInv, Counts, Raised, Verdict, Succeeded, Exited, BeforeLoop
<1>7. CASE Epilogue
  <2>1. /\ UNCHANGED <<opts, i, ExecSuccess, status>>
        /\ \/ line = "dump" /\ line' = "return"
           \/ line' = line /\ code' = code /\ line \in {"return", "unwind"}
           \/ line = "return" /\ line' = "exited" /\ code' = code
           \/ line' \in {"unwind", "aborted", "handler"}
           \/ line' = "exited" /\ code' = "EXIT_FAILURE"
    BY <1>7 DEF Epilogue, DumpState, DumpStateThrows, DumpStateAborts, Throws, LeaveMain, Leave,
                LeaveSetup, DestroyLogger, Handler, vars, modelVars
  <2>2. line = "return" /\ code = "EXIT_SUCCESS" => ExecSuccess
    BY <1>0 DEF MainInv, Outcome
  <2>3. Counts' /\ Raised'
    BY <1>1, <1>2, <2>1 DEF InterruptInv, Counts, Raised, BeforeLoop
  <2> QED
    BY <2>1, <2>2, <2>3 DEF InterruptInv, Raised, Verdict, Succeeded, Exited
<1> QED
  BY <1>3, <1>4, <1>5, <1>6, <1>7 DEF CommonNext

\* Raising and clearing happen between two instructions and leave the log
\* and what it tells alone.
LEMMA InterruptKeepsMain ==
    ASSUME MainInv, NEW cause \in Cause \cup {NoCause}, NEW next \in PC,
           Interrupt(cause, next), UNCHANGED <<opts, ExecSuccess, code, stateOut, chainPC>>,
           line \in {"result", "interrupt"}, line' = "loop"
    PROVE  MainInv' /\ pc' = next /\ UNCHANGED <<status, phase, Abstract!vars>>
<1> USE DEF MainInv
<1>1. [Step]_vars
  BY DEF Step
<1>2. LogInv' /\ ShapeInv'
  BY <1>1, LogStep, ShapeStep
<1>3. /\ UNCHANGED <<status, phase, retired, file>>
      /\ phase = "idle" /\ pc' = next
  BY DEF Interrupt, SetInterrupt, AddCSRUpdate, Notify, retireVars
<1>4. Control' /\ Outcome' /\ stateOut' = Unset
  BY <1>3 DEF Control, Outcome, Lines
<1>5. Untouched' /\ Accounts' /\ Chain'
  BY <1>3, <1>4 DEF Untouched, Accounts, Chain, BeforeLoop
<1>6. UNCHANGED Abstract!vars
  BY <1>3 DEF Abstract!vars, runLog, runSteps, runOutcome, Records, IsOpen, Succeeded, Exited
<1> QED
  BY <1>2, <1>3, <1>4, <1>5, <1>6

\* The loops and the interrupt.
LEMMA LoopKeepsInterrupt ==
    ASSUME InterruptInv,
           \/ FinishLoop \/ ContinueLoop \/ ClearInterrupt \/ ClearInterruptThrows
           \/ EndLoop \/ RaiseInterrupt \/ RaiseInterruptThrows
    PROVE  InterruptInv'
<1> USE DEF Goto, Locals, Outputs, interruptVars
<1>0. MainInv /\ OptionTypes /\ ExecSuccess \in BOOLEAN
  BY DEF InterruptInv, MainInv
<1>1. /\ Budget \in Nat /\ Bound \in 0 .. Budget /\ i \in 0 .. Budget
      /\ raised /\ opts.clear => Bound = max_step
  BY Bounds DEF InterruptInv, Counts
<1>2. ASSUME UNCHANGED <<opts, raised, raisedPC>>, pending' \in BOOLEAN
      PROVE  OptionTypes' /\ Bound' = Bound
  BY <1>0, <1>2 DEF OptionTypes, Bound, max_iter
<1>3. CASE FinishLoop \/ EndLoop
  <2>1. /\ UNCHANGED <<vars, opts, i, code, stateOut, chainPC>>
        /\ UNCHANGED interruptVars
        /\ line \in {"loop", "result"}
        /\ line' = IF raised THEN "dump" ELSE "interrupt"
        /\ ExecSuccess' = (ExecSuccess /\ i # max_step)
        /\ \/ status = "FINISH"
           \/ line = "loop" /\ i >= Bound
    BY <1>3 DEF FinishLoop, EndLoop, AfterLoop, CheckedSuccess
  <2>2. ExecSuccess' \in BOOLEAN
    BY <2>1, Zenon
  <2>3. MainInv'
    BY <1>0, <2>1, <2>2, DecisionKeeps
  <2>4. OptionTypes' /\ Bound' = Bound /\ status' = status
    BY <1>0, <1>2, <2>1, NothingHappened DEF OptionTypes
  <2>5. Counts' /\ Raised'
    BY <1>1, <2>1, <2>4 DEF InterruptInv, Counts, Raised, BeforeLoop
  <2>6. raised /\ opts.clear /\ ExecSuccess' => status = "FINISH"
    <3>1. ExecSuccess' => i # max_step
      BY <2>1, Zenon
    <3>2. line = "loop" => i <= Bound
      BY DEF InterruptInv, Counts
    <3> QED
      BY <1>1, <2>1, <3>1, <3>2
  <2>7. Verdict' /\ NextChains'
    BY <2>1, <2>4, <2>6 DEF Verdict, NextChains, Succeeded, Exited
  <2> QED
    BY <2>3, <2>4, <2>5, <2>7 DEF InterruptInv
<1>4. CASE ContinueLoop
  <2>1. /\ UNCHANGED <<vars, opts, ExecSuccess, code, stateOut, chainPC>>
        /\ UNCHANGED interruptVars
        /\ line = "result" /\ line' = "loop" /\ i' = i + 1
        /\ ~ClearsNow
    BY <1>4 DEF ContinueLoop
  <2>2. MainInv'
    BY <1>0, <2>1, DecisionKeeps
  <2>3. OptionTypes' /\ Bound' = Bound
    BY <1>0, <1>2, <2>1 DEF OptionTypes
  <2>4. pending /\ opts.clear => raised /\ i = 0
    BY <2>1 DEF InterruptInv, Raised
  <2>5. Counts' /\ Raised' /\ Verdict'
    BY <1>1, <2>1, <2>3, <2>4 DEF InterruptInv, Counts, Raised, Verdict, ClearsNow, Succeeded,
                                  Exited, BeforeLoop
  <2>6. NextChains'
    <3>1. pc' = pc /\ i' # 0
      BY <1>1, <2>1, NothingHappened
    <3> QED
      BY <1>0, <2>1, <3>1 DEF MainInv, Chain, NextChains, NextStart
  <2> QED
    BY <2>2, <2>3, <2>5, <2>6 DEF InterruptInv
<1>5. CASE ClearInterrupt
  <2>1. /\ Interrupt(NoCause, pc)
        /\ UNCHANGED <<opts, ExecSuccess, code, stateOut, chainPC, raised, raisedPC>>
        /\ line = "result" /\ line' = "loop" /\ i' = i + 1 /\ pending' = FALSE
    BY <1>5 DEF ClearInterrupt
  <2>2. chainPC = pc /\ pc \in PC
    BY <1>0, <2>1 DEF MainInv, Chain
  <2>3. MainInv' /\ pc' = pc
    BY <1>0, <2>1, <2>2, InterruptKeepsMain
  <2>4. OptionTypes' /\ Bound' = Bound
    BY <1>2, <2>1
  <2>6. NextChains'
    <3>1. i' # 0
      BY <1>1, <2>1
    <3> QED
      BY <2>1, <2>2, <2>3, <3>1 DEF NextChains, NextStart
  <2>5. Counts' /\ Raised' /\ Verdict'
    BY <1>1, <2>1, <2>4 DEF InterruptInv, Counts, Raised, Verdict, Succeeded, Exited, BeforeLoop
  <2> QED
    BY <2>3, <2>4, <2>5, <2>6 DEF InterruptInv
<1>6. CASE ClearInterruptThrows \/ RaiseInterruptThrows
  <2>1. /\ UNCHANGED <<vars, opts, i, ExecSuccess, code, stateOut, chainPC>>
        /\ UNCHANGED interruptVars
        /\ line \in {"result", "interrupt"} /\ line' = "unwind"
    BY <1>6 DEF ClearInterruptThrows, RaiseInterruptThrows, Throws
  <2>2. MainInv'
    BY <1>0, <2>1, DecisionKeeps
  <2>3. OptionTypes' /\ Bound' = Bound
    BY <1>0, <1>2, <2>1 DEF OptionTypes
  <2>4. Counts' /\ Raised' /\ Verdict' /\ NextChains'
    BY <1>1, <2>1, <2>3 DEF InterruptInv, Counts, Raised, Verdict, NextChains, Succeeded, Exited,
                            BeforeLoop
  <2> QED
    BY <2>2, <2>3, <2>4 DEF InterruptInv
<1>7. CASE RaiseInterrupt
  <2>1. PICK next \in PC : Interrupt(InterruptCause, next) /\ raisedPC' = next
    BY <1>7 DEF RaiseInterrupt
  <2>2. /\ UNCHANGED <<opts, ExecSuccess, code, stateOut, chainPC>>
        /\ line = "interrupt" /\ line' = "loop" /\ i' = 0
        /\ raised' = TRUE /\ pending' = TRUE
    BY <1>7 DEF RaiseInterrupt
  <2>3. MainInv' /\ pc' = next
    BY <1>0, <2>1, <2>2, InterruptAssumption, InterruptKeepsMain
  <2>4. OptionTypes' /\ Bound' \in 0 .. Budget
    <3>1. OptionTypes'
      BY <1>0, <2>1, <2>2 DEF OptionTypes
    <3> QED
      BY <3>1, StepsAssumption DEF OptionTypes, Bound, max_iter, Budget
  <2>5. Counts' /\ Raised' /\ Verdict' /\ NextChains'
    BY <1>1, <2>1, <2>2, <2>3, <2>4 DEF InterruptInv, Counts, Raised, Verdict, NextChains,
                                        NextStart, Succeeded, Exited, BeforeLoop
  <2> QED
    BY <2>3, <2>4, <2>5 DEF InterruptInv
<1> QED
  BY <1>3, <1>4, <1>5, <1>6, <1>7

\* Every step of main keeps the invariant: the shared statements, the loops and
\* the interrupt between them.
LEMMA InterruptStep == ASSUME InterruptInv, [InterruptNext]_allVars PROVE InterruptInv'
<1>1. CASE CommonNext(Bound) /\ UNCHANGED interruptVars
  BY <1>1, CommonKeepsInterrupt
<1>2. CASE \/ FinishLoop \/ ContinueLoop \/ ClearInterrupt \/ ClearInterruptThrows
           \/ EndLoop \/ RaiseInterrupt \/ RaiseInterruptThrows
  BY <1>2, LoopKeepsInterrupt
<1>3. CASE UNCHANGED allVars
  <2>1. UNCHANGED vars /\ UNCHANGED mainVars /\ UNCHANGED interruptVars
    BY <1>3 DEF allVars
  <2>2. MainInv'
    BY <2>1, MainStutters DEF InterruptInv
  <2> QED
    BY <2>1, <2>2, NothingHappened DEF InterruptInv, mainVars, interruptVars, NextChains,
          NextStart, OptionTypes, Counts, Bound,
          max_iter, Raised, Verdict, Succeeded, Exited
<1> QED
  BY <1>1, <1>2, <1>3 DEF InterruptNext, CallsAndReturns, CommonNext

\* The invariant holds throughout every run of the interrupt driver.
LEMMA InterruptInvariant == InterruptSpec => []InterruptInv
BY InterruptInitInv, InterruptStep, PTL DEF InterruptSpec

-----------------------------------------------------------------------------
(* The properties of the run.                                              *)

\* Every variable of the program keeps its type; the counter of either loop
\* stays within its bound.
THEOREM InterruptTypeCorrect == InterruptSpec => []InterruptTypeOK
<1>1. InterruptInv => InterruptTypeOK
  BY DEF InterruptInv, OptionTypes, Budget, MainInv, LogInv, TypeInv, Control, Outcome, Chain,
         Counts, InterruptTypeOK, MainTypeOK
<1> QED
  BY <1>1, InterruptInvariant, PTL

\* A run that is to clear its interrupt succeeds only with the stop condition
\* met after the raise.
THEOREM ClearingRunsFinish == InterruptSpec => []ClearingRunFinishes
<1>1. InterruptInv => ClearingRunFinishes
  BY DEF InterruptInv, Verdict, ClearingRunFinishes
<1> QED
  BY <1>1, InterruptInvariant, PTL

\* The records form a path, but that the first one after the raise begins where
\* the raise left the pc.
THEOREM InterruptRecordsChain == InterruptSpec => []RecordsChainButAtRaise
<1>1. InterruptInv => RecordsChainButAtRaise
  BY InInstr DEF InterruptInv, NextChains, NextStart, RecordsChainButAtRaise
<1> QED
  BY <1>1, InterruptInvariant, PTL

\* A run in which an exception was thrown, by the interrupt functions or by
\* anything else, does not end with success.
THEOREM InterruptExceptionFails == InterruptSpec => ExceptionFails
<1>1. ASSUME [InterruptNext]_allVars, Failing PROVE Failing'
  <2>1. CASE CommonNext(Bound)
    BY <1>1, <2>1, CommonKeepsFailing
  <2>2. CASE \/ FinishLoop \/ ContinueLoop \/ ClearInterrupt \/ ClearInterruptThrows
             \/ EndLoop \/ RaiseInterrupt \/ RaiseInterruptThrows
    BY <1>1, <2>2 DEF FinishLoop, ContinueLoop, ClearInterrupt, ClearInterruptThrows, EndLoop,
                      RaiseInterrupt, RaiseInterruptThrows, Throws, Failing, Exited
  <2>3. CASE UNCHANGED allVars
    BY <1>1, <2>3 DEF allVars, mainVars, Failing, Exited
  <2> QED
    BY <1>1, <2>1, <2>2, <2>3 DEF InterruptNext, CallsAndReturns, CommonNext
<1>2. line = "unwind" => Failing
  BY DEF Failing
<1>3. Failing => (Exited => code = "EXIT_FAILURE")
  BY DEF Failing, Exited
<1> QED
  BY <1>1, <1>2, <1>3, PTL DEF InterruptSpec, ExceptionFails

\* An interrupt that is to be cleared is there for one instruction.
THEOREM ClearedAfterOne == InterruptSpec => PendingForOneInstr
<1>1. ASSUME InterruptInv, [InterruptNext]_allVars
      PROVE  [phase = "idle" /\ phase' = "exec" /\ pending /\ opts.clear => i = 0]_allVars
  <2> SUFFICES ASSUME phase = "idle", phase' = "exec", pending, opts.clear PROVE i = 0
    OBVIOUS
  <2>1. line = "loop" => i = 0
    BY <1>1 DEF InterruptInv, Raised
  <2>2. line = "retire" => phase \in {"exec", "executed"}
    BY <1>1 DEF InterruptInv, MainInv, Control
  <2>3. line = "loop"
    BY <1>1, <2>2 DEF InterruptNext, CallsAndReturns, Prologue, Epilogue, ParseCommandLine,
          LoadModelLibrary, OpenLog, ConstructLogger, BuildModel, ParseELFAndInit, PrepareModel,
          NoSymbolTable, Throws, CallRetireInstr, ExecuteInstr, ReturnFromRetireInstr, EndRetire,
          RetireInstrThrows, BeginRetireThrows, EndRetireThrows, FinishLoop, ContinueLoop,
          ClearInterrupt, ClearInterruptThrows, EndLoop, RaiseInterrupt, RaiseInterruptThrows,
          Interrupt, DumpState, DumpStateThrows, DumpStateAborts, LeaveMain, Leave, LeaveSetup,
          DestroyLogger, Handler, allVars, vars, retireVars
  <2> QED
    BY <2>1, <2>3
<1> QED
  BY <1>1, InterruptInvariant, PTL DEF InterruptSpec, PendingForOneInstr

\* The program takes steps of SimulatorRun: what ImplementsSimulatorRun says
\* without fairness.
THEOREM InterruptDriverImplements == InterruptSpec => Abstract!Safety
<1>1. InterruptInit => Abstract!Init
  BY AbstractInit DEF InterruptInit
<1>2. ASSUME InterruptInv, [InterruptNext]_allVars PROVE [Abstract!Next]_Abstract!vars
  <2>0. MainInv
    BY <1>2 DEF InterruptInv
  <2>1. CASE CommonNext(Bound)
    BY <2>0, <2>1, CommonIsAbstract
  <2>2. CASE \/ FinishLoop \/ ContinueLoop \/ ClearInterruptThrows \/ EndLoop
             \/ RaiseInterruptThrows
    BY <2>2, SilentSteps DEF FinishLoop, ContinueLoop, ClearInterruptThrows, EndLoop,
                             RaiseInterruptThrows, Throws, Goto, AfterLoop
  <2>3. CASE ClearInterrupt
    <3>1. /\ Interrupt(NoCause, pc)
          /\ UNCHANGED <<opts, ExecSuccess, code, stateOut, chainPC>>
          /\ line = "result" /\ line' = "loop"
      BY <2>3 DEF ClearInterrupt, Goto, Outputs
    <3>2. pc \in PC
      BY <2>0, <3>1 DEF MainInv, Chain
    <3> QED
      BY <2>0, <3>1, <3>2, InterruptKeepsMain
  <2>4. CASE RaiseInterrupt
    <3>1. PICK next \in PC : Interrupt(InterruptCause, next)
      BY <2>4 DEF RaiseInterrupt
    <3>2. /\ UNCHANGED <<opts, ExecSuccess, code, stateOut, chainPC>>
          /\ line = "interrupt" /\ line' = "loop"
      BY <2>4 DEF RaiseInterrupt, Goto, Outputs
    <3> QED
      BY <2>0, <3>1, <3>2, InterruptAssumption, InterruptKeepsMain
  <2>5. CASE UNCHANGED allVars
    BY <2>5, NothingHappened DEF allVars, mainVars, Abstract!vars, runLog, runSteps,
                                 runOutcome, Succeeded, Exited
  <2> QED
    BY <1>2, <2>1, <2>2, <2>3, <2>4, <2>5 DEF InterruptNext, CallsAndReturns, CommonNext
<1> QED
  BY <1>1, <1>2, InterruptInvariant, PTL DEF InterruptSpec, Abstract!Safety
=============================================================================
