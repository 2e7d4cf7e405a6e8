------------------------------ MODULE DriverProofs ------------------------------
(***************************************************************************)
(* What main of Driver.cpp guarantees for every machine, plugin, program,  *)
(* command line and step budget.                                           *)
(***************************************************************************)
EXTENDS Driver, DriverMainProofs

\* The step counter is the number of instructions executed.
Counts ==
    /\ i \in 0 .. MAX_ALLOWED_STEPS
    /\ line \in {"retire", "result"} => i < MAX_ALLOWED_STEPS
    /\ line = "loop" => retired = i
    /\ line = "retire" => retired = IF phase = "exec" THEN i ELSE i + 1
    /\ line = "result" => retired = i + 1

\* ExecSuccess is given up on leaving the loop only, and kept only if the
\* last instruction was the stop condition.
Finished == status = "FINISH" /\ retired \in 1 .. MAX_ALLOWED_STEPS
Verdict ==
    /\ line = "loop" => MayStep
    /\ line \in {"loop", "retire", "result"} => ExecSuccess
    /\ line \in {"dump", "return"} /\ ExecSuccess /\ opts.exec => Finished
    /\ Succeeded /\ opts.exec => Finished

\* The next instruction and its record begin where the last record ended.
NextChains ==
    /\ line = "loop" => pc = chainPC
    /\ line = "retire" /\ IsOpen => pcBefore = chainPC

DriverInv ==
    /\ MainInv
    /\ NextChains
    /\ opts.allow \in AllowExceptions
    /\ Counts
    /\ Verdict

\* The invariant holds before the first statement of main.
LEMMA DriverInitInv == DriverInit => DriverInv
<1> SUFFICES ASSUME DriverInit PROVE DriverInv
  OBVIOUS
<1>1. MainInit /\ opts.log \in BOOLEAN /\ opts.allow \in AllowExceptions
  BY DEF DriverInit, CommonOptions
<1>2. MainInv
  BY <1>1, MainInitInv
<1>3. Counts
  BY <1>1, StepsAssumption DEF MainInit, Counts
<1>4. Verdict /\ NextChains
  BY <1>1 DEF MainInit, Verdict, NextChains, Succeeded, Exited
<1> QED
  BY <1>1, <1>2, <1>3, <1>4 DEF DriverInv

\* The statements that both mains share.
LEMMA CommonKeepsDriver ==
    ASSUME DriverInv, CommonNext(MAX_ALLOWED_STEPS) PROVE DriverInv'
<1> USE DEF Goto, Locals, Outputs
<1>0. MainInv /\ MainInv'
  BY CommonKeeps DEF DriverInv
<1>c. NextChains'
  BY <1>0, CommonChains DEF DriverInv, NextChains, IsOpen
<1>1. retired \in Nat /\ MAX_ALLOWED_STEPS \in Nat /\ i \in 0 .. MAX_ALLOWED_STEPS
  BY StepsAssumption DEF DriverInv, Counts, MainInv, LogInv, TypeInv, TypeOK
<1>2. CASE Prologue
  <2>1. /\ line \in BeforeLoop
        /\ UNCHANGED <<opts, i, ExecSuccess, code, status, retired>>
        /\ \/ line' \in BeforeLoop \cup {"loop", "unwind", "crashed"}
           \/ line' = "dump" /\ ~opts.exec
    <3>1. CASE OpenLog
      BY <3>1 DEF OpenLog, ConstructLogger, BeforeLoop, modelVars
    <3>2. CASE ParseELFAndInit
      BY <3>2 DEF ParseELFAndInit, PrepareModel, LoadProgram, BeforeLoop
    <3>3. CASE \/ ParseCommandLine \/ LoadModelLibrary \/ BuildModel \/ NoSymbolTable
               \/ \E l \in BeforeLoop : Throws(l)
      BY <3>3, NothingHappened DEF ParseCommandLine, LoadModelLibrary, BuildModel,
                                   NoSymbolTable, Throws, BeforeLoop
    <3> QED
      BY <1>2, <3>1, <3>2, <3>3 DEF Prologue, BeforeLoop
  <2>2. retired = 0 /\ i = 0 /\ status = "SUCCESS" /\ ExecSuccess
    BY <1>0, <2>1 DEF MainInv, Control, Untouched, ShapeInv, BeforeLoop
  <2>3. Counts'
    BY <1>1, <2>1, <2>2 DEF Counts, BeforeLoop
  <2>4. Verdict'
    BY <2>1, <2>2 DEF Verdict, MayStep, Succeeded, Exited, BeforeLoop
  <2> QED
    BY <1>0, <1>c, <2>1, <2>3, <2>4 DEF DriverInv
<1>3. CASE CallRetireInstr(MAX_ALLOWED_STEPS)
  <2>1. /\ line = "loop" /\ line' = "retire" /\ phase' = "exec"
        /\ i < MAX_ALLOWED_STEPS
        /\ UNCHANGED <<opts, i, ExecSuccess, code, status, retired>>
    BY <1>3 DEF CallRetireInstr, BeginRetire, FetchInstr
  <2> QED
    BY <1>0, <1>c, <1>1, <2>1 DEF DriverInv, Counts, Verdict, Succeeded, Exited
<1>4. CASE ExecuteInstr
  <2>1. /\ line = "retire" /\ line' = "retire"
        /\ UNCHANGED <<opts, i, ExecSuccess, code>>
        /\ phase = "exec"
        /\ \/ phase' = "exec" /\ retired' = retired
           \/ phase' = "executed" /\ retired' = retired + 1
    BY <1>4 DEF ExecuteInstr, mainVars, ExecEffect, EndInstr, retireVars
  <2> QED
    BY <1>0, <1>c, <1>1, <2>1 DEF DriverInv, Counts, Verdict, Succeeded, Exited
<1>5. CASE ReturnFromRetireInstr
  <2>1. /\ line = "retire" /\ line' = "result" /\ phase = "executed"
        /\ UNCHANGED <<opts, i, ExecSuccess, code, retired>>
    BY <1>5 DEF ReturnFromRetireInstr, EndRetire
  <2> QED
    BY <1>0, <1>c, <1>1, <2>1 DEF DriverInv, Counts, Verdict, Succeeded, Exited
<1>6. CASE RetireInstrThrows(MAX_ALLOWED_STEPS)
  <2>1. /\ line' = "unwind"
        /\ UNCHANGED <<opts, i, ExecSuccess, code>>
    BY <1>6 DEF RetireInstrThrows
  <2> QED
    BY <1>0, <1>c, <1>1, <2>1 DEF DriverInv, Counts, Verdict, Succeeded, Exited
<1>7. CASE Epilogue
  <2>1. /\ UNCHANGED <<opts, i, ExecSuccess, status, retired>>
        /\ \/ line = "dump" /\ line' = "return"
           \/ line' = line /\ code' = code /\ line \in {"return", "unwind"}
           \/ line = "return" /\ line' = "exited" /\ code' = code
           \/ line' \in {"unwind", "aborted", "handler"}
           \/ line' = "exited" /\ code' = "EXIT_FAILURE"
    BY <1>7 DEF Epilogue, DumpState, DumpStateThrows, DumpStateAborts, Throws, LeaveMain, Leave,
                LeaveSetup, DestroyLogger, Handler, vars, modelVars, retireVars
  <2>2. line = "return" /\ code = "EXIT_SUCCESS" => ExecSuccess
    BY <1>0 DEF MainInv, Outcome
  <2> QED
    BY <1>0, <1>c, <1>1, <2>1, <2>2 DEF DriverInv, Counts, Verdict, Finished, Succeeded, Exited
<1> QED
  BY <1>2, <1>3, <1>4, <1>5, <1>6, <1>7 DEF CommonNext

\* The loop.
LEMMA LoopKeepsDriver ==
    ASSUME DriverInv, ContinueLoop \/ BreakLoop \/ ResultThrows \/ MaxStepsExceeded
    PROVE  DriverInv'
<1> USE DEF Goto, Locals, Outputs
<1>0. /\ UNCHANGED vars
      /\ UNCHANGED <<opts, code, stateOut, chainPC>>
      /\ line \in {"loop", "result"} /\ line' \in {"loop", "dump", "unwind"}
      /\ ExecSuccess' \in BOOLEAN
      /\ MainInv
  BY DEF DriverInv, MainInv, ContinueLoop, BreakLoop, ResultThrows, MaxStepsExceeded, Throws
<1>1. MainInv'
  BY <1>0, DecisionKeeps
<1>2. UNCHANGED <<retired, status, mcause>>
  BY <1>0, NothingHappened
<1>c. NextChains'
  <2>1. line' = "loop" => line = "result"
    BY DEF ContinueLoop, BreakLoop, ResultThrows, MaxStepsExceeded, Throws
  <2>2. pc' = pc
    BY <1>0, NothingHappened
  <2> QED
    BY <1>0, <2>1, <2>2 DEF MainInv, Chain, NextChains
<1>3. i \in 0 .. MAX_ALLOWED_STEPS /\ MAX_ALLOWED_STEPS \in Nat /\ retired \in Nat
  BY StepsAssumption DEF DriverInv, Counts, MainInv, LogInv, TypeInv, TypeOK
<1>4. CASE ContinueLoop
  <2>1. /\ line = "result" /\ line' = "loop" /\ i' = i + 1 /\ ExecSuccess' = ExecSuccess
        /\ StepAgain
    BY <1>4 DEF ContinueLoop
  <2>2. MayStep'
    BY <1>0, <1>2, <2>1 DEF StepAgain, Allowed, MayStep
  <2> QED
    BY <1>0, <1>c, <1>1, <1>2, <1>3, <2>1, <2>2 DEF DriverInv, Counts, Verdict, Succeeded, Exited
<1>5. CASE BreakLoop
  <2>1. /\ line = "result" /\ line' = "dump" /\ i' = i
        /\ ExecSuccess' = (ExecSuccess /\ status = "FINISH")
    BY <1>5 DEF BreakLoop
  <2>2. ExecSuccess' => status = "FINISH"
    BY <2>1, Zenon
  <2>3. retired \in 1 .. MAX_ALLOWED_STEPS
    BY <1>3, <2>1 DEF DriverInv, Counts
  <2>4. ExecSuccess' => Finished'
    BY <1>2, <2>2, <2>3 DEF Finished
  <2> QED
    BY <1>0, <1>c, <1>1, <1>2, <1>3, <2>1, <2>4 DEF DriverInv, Counts, Verdict, Succeeded, Exited
<1>6. CASE ResultThrows
  <2>1. line' = "unwind" /\ i' = i
    BY <1>6 DEF ResultThrows, Throws
  <2> QED
    BY <1>0, <1>c, <1>1, <1>2, <1>3, <2>1 DEF DriverInv, Counts, Verdict, Succeeded, Exited
<1>7. CASE MaxStepsExceeded
  <2>1. line' = "dump" /\ i' = i /\ ExecSuccess' = FALSE
    BY <1>7 DEF MaxStepsExceeded
  <2> QED
    BY <1>0, <1>c, <1>1, <1>2, <1>3, <2>1 DEF DriverInv, Counts, Verdict, Succeeded, Exited
<1> QED
  BY <1>4, <1>5, <1>6, <1>7

\* Every step of main keeps the invariant: the shared statements and the loop.
LEMMA DriverStep == ASSUME DriverInv, [DriverNext]_allVars PROVE DriverInv'
<1>1. CASE CommonNext(MAX_ALLOWED_STEPS)
  BY <1>1, CommonKeepsDriver
<1>2. CASE ContinueLoop \/ BreakLoop \/ ResultThrows \/ MaxStepsExceeded
  BY <1>2, LoopKeepsDriver
<1>3. CASE UNCHANGED allVars
  <2>1. UNCHANGED vars /\ UNCHANGED mainVars
    BY <1>3 DEF allVars
  <2>2. MainInv'
    BY <2>1, MainStutters DEF DriverInv
  <2> QED
    BY <2>1, <2>2, NothingHappened DEF DriverInv, mainVars, NextChains, Counts, Verdict, MayStep,
                                       Finished, Succeeded, Exited
<1> QED
  BY <1>1, <1>2, <1>3 DEF DriverNext, CommonNext

\* The invariant holds throughout every run of the driver.
LEMMA DriverInvariant == DriverSpec => []DriverInv
BY DriverInitInv, DriverStep, PTL DEF DriverSpec

-----------------------------------------------------------------------------
(* The properties of the run.                                              *)

\* Every variable of the program keeps its type; the step counter does not
\* pass the budget.
THEOREM DriverTypeCorrect == DriverSpec => []DriverTypeOK
<1>1. DriverInv => DriverTypeOK
  BY DEF DriverInv, MainInv, LogInv, TypeInv, Control, Outcome, Chain, Counts,
         DriverTypeOK, MainTypeOK
<1> QED
  BY <1>1, DriverInvariant, PTL

\* Success of a run with an executable means that its last instruction was
\* the stop condition and came within the step budget.
THEOREM ExitCodeIsTrue == DriverSpec => []ExitCode
<1>1. DriverInv => ExitCode
  BY DEF DriverInv, Verdict, Finished, ExitCode
<1> QED
  BY <1>1, DriverInvariant, PTL

\* The state file shows the machine as main leaves it, and the log, if there is
\* one and the model calls the callbacks, tells of the same registers.
THEOREM DriverAccountsAgree == DriverSpec => []StateMatchesLog
BY DriverInvariant, AccountsAgree, PTL DEF DriverInv

\* The records form a path through the program.
THEOREM DriverRecordsChain == DriverSpec => []RecordsChain
<1>1. DriverInv => RecordsChain
  BY InInstr DEF DriverInv, NextChains, RecordsChain
<1> QED
  BY <1>1, DriverInvariant, PTL

\* A run in which an exception was thrown does not end with success.
THEOREM DriverExceptionFails == DriverSpec => ExceptionFails
<1>1. ASSUME [DriverNext]_allVars, Failing PROVE Failing'
  <2>1. CASE CommonNext(MAX_ALLOWED_STEPS)
    BY <1>1, <2>1, CommonKeepsFailing
  <2>2. CASE ContinueLoop \/ BreakLoop \/ ResultThrows \/ MaxStepsExceeded
    BY <1>1, <2>2 DEF ContinueLoop, BreakLoop, ResultThrows, MaxStepsExceeded, Throws, Failing,
                      Exited
  <2>3. CASE UNCHANGED allVars
    BY <1>1, <2>3 DEF allVars, mainVars, Failing, Exited
  <2> QED
    BY <1>1, <2>1, <2>2, <2>3 DEF DriverNext, CommonNext
<1>2. line = "unwind" => Failing
  BY DEF Failing
<1>3. Failing => (Exited => code = "EXIT_FAILURE")
  BY DEF Failing, Exited
<1> QED
  BY <1>1, <1>2, <1>3, PTL DEF DriverSpec, ExceptionFails

\* Nothing is executed after the stop condition or an exception that the
\* options do not allow.
THEOREM NothingAfterStop == DriverSpec => NoStepAfterStop
<1>1. ASSUME DriverInv, [DriverNext]_allVars
      PROVE  [phase = "idle" /\ phase' = "exec" => MayStep]_allVars
  <2> SUFFICES ASSUME phase = "idle", phase' = "exec" PROVE MayStep
    OBVIOUS
  <2>1. line = "loop" => MayStep
    BY <1>1 DEF DriverInv, Verdict
  <2>2. line \in {"retire"} => phase \in {"exec", "executed"}
    BY <1>1 DEF DriverInv, MainInv, Control
  <2>3. line = "loop"
    BY <1>1, <2>2 DEF DriverNext, Prologue, Epilogue, ParseCommandLine, LoadModelLibrary,
                      OpenLog, ConstructLogger, BuildModel, ParseELFAndInit, PrepareModel,
                      NoSymbolTable, Throws, CallRetireInstr, ExecuteInstr,
                      ReturnFromRetireInstr, EndRetire, RetireInstrThrows, BeginRetireThrows,
                      EndRetireThrows, ContinueLoop, BreakLoop, ResultThrows, MaxStepsExceeded,
                      DumpState, DumpStateThrows, DumpStateAborts, LeaveMain, Leave, LeaveSetup,
                      DestroyLogger, Handler, allVars, vars, retireVars
  <2> QED
    BY <2>1, <2>3
<1> QED
  BY <1>1, DriverInvariant, PTL DEF DriverSpec, NoStepAfterStop

\* The program takes steps of SimulatorRun: what ImplementsSimulatorRun says
\* without fairness.
THEOREM DriverImplements == DriverSpec => Abstract!Safety
<1>1. DriverInit => Abstract!Init
  BY AbstractInit DEF DriverInit
<1>2. ASSUME DriverInv, [DriverNext]_allVars PROVE [Abstract!Next]_Abstract!vars
  <2>1. CASE CommonNext(MAX_ALLOWED_STEPS)
    BY <1>2, <2>1, CommonIsAbstract DEF DriverInv
  <2>2. CASE ContinueLoop \/ BreakLoop \/ ResultThrows \/ MaxStepsExceeded
    BY <2>2, SilentSteps DEF ContinueLoop, BreakLoop, ResultThrows, MaxStepsExceeded, Throws,
                             Goto
  <2>3. CASE UNCHANGED allVars
    BY <2>3, NothingHappened DEF allVars, mainVars, Abstract!vars, runLog, runSteps,
                                 runOutcome, Succeeded, Exited
  <2> QED
    BY <1>2, <2>1, <2>2, <2>3 DEF DriverNext, CommonNext
<1> QED
  BY <1>1, <1>2, DriverInvariant, PTL DEF DriverSpec, Abstract!Safety
=============================================================================
