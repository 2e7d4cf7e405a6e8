--------------------------- MODULE DriverMainProofs ---------------------------
(***************************************************************************)
(* What the statements that both mains share keep true, and that they take *)
(* steps of SimulatorRun.                                                  *)
(***************************************************************************)
EXTENDS DriverMain, RetireInstrProofs

\* Where main is tells where it stands with respect to logger and model.
Control ==
    /\ line \in Lines
    /\ line \in {"options", "library", "logger"} => phase = "start"
    /\ line \in {"build", "load", "crashed"} => phase = "setup"
    /\ line \in {"loop", "result", "interrupt"} => phase = "idle"
    /\ line = "retire" => phase \in {"exec", "executed"}
    /\ line \in {"dump", "aborted"} => phase \in {"setup", "idle"}
    /\ line = "return" => phase \in {"setup", "idle", "leaving"}
    /\ line = "unwind" => phase \in {"start", "setup", "idle", "leaving"}
    /\ line \in {"handler", "exited"} => phase \in {"start", "end"}

\* The exit status is set once, at the end of main or by its handler.
Outcome ==
    /\ line \notin {"return", "exited"} => code = "none" /\ stateOut = Unset
    /\ line \in {"return", "exited"} => code \in {"EXIT_SUCCESS", "EXIT_FAILURE"}
    /\ code = "EXIT_SUCCESS" => ExecSuccess

\* Before the program is loaded nothing has happened to the machine.
BeforeLoop == {"options", "library", "logger", "build", "load"}
Untouched ==
    line \in BeforeLoop => Matches /\ status = "SUCCESS" /\ i = 0 /\ ExecSuccess

\* No record is missing when the state is dumped, and what is dumped is the
\* machine as main leaves it.
Accounts ==
    /\ line \in {"dump", "return"} /\ IsOpen => Matches /\ Records = retired
    /\ stateOut # Unset =>
          /\ stateOut = DumpedState
          /\ IsOpen => Matches

\* The last record ended where its instruction left the pc.
Chain ==
    /\ chainPC \in PC
    /\ line = "result" => chainPC = pc

MainInv ==
    /\ LogInv
    /\ ShapeInv
    /\ opts.log \in BOOLEAN
    /\ ExecSuccess \in BOOLEAN
    /\ stateOut \in Dump \cup {Unset}
    /\ Control
    /\ Outcome
    /\ Untouched
    /\ Accounts
    /\ Chain

\* The statements that both mains share, with the bound of a loop.
CommonNext(bound) ==
    \/ Prologue
    \/ CallRetireInstr(bound)
    \/ ExecuteInstr
    \/ ReturnFromRetireInstr
    \/ RetireInstrThrows(bound)
    \/ Epilogue

-----------------------------------------------------------------------------
(* The invariant of the shared statements.                                 *)

\* A statement that touches neither logger nor model leaves all that the
\* properties of main look at: they are written in the primes that a proof
\* needs.
LEMMA NothingHappened ==
    ASSUME UNCHANGED vars
    PROVE  /\ UNCHANGED <<pc, xreg, freg, vreg, mem, fcsr, mcause, callbacks, status>>
           /\ UNCHANGED <<file, pcBefore, phase, retired, replay, overtakenV, overtakenMem>>
           /\ IsOpen' <=> IsOpen
           /\ Matches' <=> Matches
           /\ DumpedState' = DumpedState
           /\ Records' = Records
BY DEF vars, modelVars, archVars, stopVars, orderVars, loggerVars, retireVars,
       IsOpen, Matches, DumpedState, Records

\* Whatever main does, it does to logger and model what RetireInstr does.
LEMMA CommonIsStep ==
    ASSUME opts.log \in BOOLEAN, NEW bound, CommonNext(bound)
    PROVE  [Step]_vars
<1>1. CASE Prologue
  <2>1. StopMode \in StopModes
    BY DEF StopMode, StopModes
  <2> QED
    BY <1>1, <2>1 DEF Prologue, ParseCommandLine, LoadModelLibrary, OpenLog, BuildModel,
                      ParseELFAndInit, NoSymbolTable, Throws, Step
<1>2. CASE CallRetireInstr(bound) \/ ExecuteInstr \/ ReturnFromRetireInstr
           \/ RetireInstrThrows(bound)
  BY <1>2 DEF CallRetireInstr, ExecuteInstr, ReturnFromRetireInstr, RetireInstrThrows, Step
<1>3. CASE Epilogue
  BY <1>3 DEF Epilogue, DumpState, DumpStateThrows, DumpStateAborts, Throws, LeaveMain,
              Handler, Step
<1> QED
  BY <1>1, <1>2, <1>3 DEF CommonNext

\* An instruction does not touch what its record starts from.
LEMMA ExecKeepsPC ==
    ASSUME ExecEffect \/ EndInstr
    PROVE  UNCHANGED <<file, pcBefore>>
BY DEF ExecEffect, ExecXReg, ExecFReg, ExecVReg, ExecStore, ExecLoad, ExecFCSR, EndInstr,
       AddXRegUpdate, AddFRegUpdate, AddVRegUpdate, AddMemoryUpdate, AddMemoryRead,
       AddCSRUpdate, Notify, loggerVars

\* The statements before the loop.
LEMMA PrologueKeeps ==
    ASSUME MainInv, LogInv', ShapeInv', Prologue
    PROVE  MainInv'
<1> USE DEF MainInv, Goto, Locals, Outputs
<1>1. CASE \/ ParseCommandLine \/ LoadModelLibrary \/ BuildModel \/ NoSymbolTable
           \/ \E l \in BeforeLoop : Throws(l)
  <2>1. /\ UNCHANGED <<opts, i, ExecSuccess, code, stateOut, chainPC>>
        /\ UNCHANGED vars
        /\ line \in BeforeLoop
    BY <1>1 DEF ParseCommandLine, LoadModelLibrary, BuildModel, NoSymbolTable, Throws,
                BeforeLoop
  <2>2. \/ line = "options" /\ line' = "library"
        \/ line = "library" /\ line' = "logger"
        \/ line = "build" /\ line' \in {"load", "dump"}
        \/ line = "load" /\ line' = "crashed"
        \/ line' = "unwind"
    BY <1>1 DEF ParseCommandLine, LoadModelLibrary, BuildModel, NoSymbolTable, Throws
  <2>3. Control'
    BY <2>1, <2>2, NothingHappened DEF Control, Lines, BeforeLoop
  <2>4. Outcome'
    BY <2>1, <2>2 DEF Outcome, BeforeLoop
  <2>5. Untouched'
    BY <2>1, <2>2, NothingHappened DEF Untouched, BeforeLoop
  <2>6. Accounts'
    <3>1. phase \in {"start", "setup"}
      BY <2>1 DEF Control, BeforeLoop
    <3>2. IsOpen => Records = retired
      BY <2>2, <3>1 DEF ShapeInv, Counted, Records, RecordsIn
    <3> QED
      BY <2>1, <2>2, <3>2, NothingHappened DEF Accounts, Untouched
  <2>7. Chain'
    BY <2>1, <2>2, NothingHappened DEF Chain
  <2> QED
    BY <2>1, <2>3, <2>4, <2>5, <2>6, <2>7
<1>2. CASE OpenLog
  <2>1. /\ UNCHANGED <<opts, i, ExecSuccess, code, stateOut, chainPC>>
        /\ line = "logger" /\ line' = "build" /\ phase' = "setup"
        /\ UNCHANGED <<pc, xreg, freg, vreg, mem, fcsr, mcause, callbacks, status, replay>>
        /\ UNCHANGED <<overtakenV, overtakenMem>>
    BY <1>2 DEF OpenLog, ConstructLogger, modelVars, archVars, orderVars
  <2>2. Control'
    BY <2>1 DEF Control, Lines
  <2>3. Outcome' /\ stateOut' = Unset
    BY <2>1 DEF Outcome
  <2>4. Untouched'
    BY <2>1 DEF Untouched, Matches, BeforeLoop
  <2> QED
    BY <2>1, <2>2, <2>3, <2>4 DEF Accounts, Chain
<1>3. CASE ParseELFAndInit
  <2>1. PICK entry \in PC, image \in [Addr -> Val], stop \in PC \cup {NoStopPC} :
          PrepareModel(entry, image, stop, StopMode) /\ chainPC' = entry
    BY <1>3 DEF ParseELFAndInit
  <2>2. /\ UNCHANGED <<opts, i, ExecSuccess, code, stateOut>>
        /\ line = "load" /\ line' = "loop" /\ phase' = "idle"
        /\ pc' = entry /\ chainPC' = entry
    BY <1>3, <2>1 DEF ParseELFAndInit, PrepareModel, LoadProgram
  <2>3. Control'
    BY <2>2 DEF Control, Lines
  <2>4. Outcome' /\ stateOut' = Unset
    BY <2>2 DEF Outcome
  <2> QED
    BY <2>2, <2>3, <2>4 DEF Untouched, Accounts, Chain, BeforeLoop
<1> QED
  BY <1>1, <1>2, <1>3 DEF Prologue, BeforeLoop

\* A call of retireInstr.
LEMMA RetireKeeps ==
    ASSUME MainInv, LogInv', ShapeInv', NEW bound,
           \/ CallRetireInstr(bound) \/ ExecuteInstr \/ ReturnFromRetireInstr
           \/ RetireInstrThrows(bound)
    PROVE  MainInv'
<1> USE DEF MainInv, Goto, Locals, Outputs
<1>1. CASE CallRetireInstr(bound)
  <2>1. /\ UNCHANGED <<opts, i, ExecSuccess, code, stateOut, chainPC, pc>>
        /\ line = "loop" /\ line' = "retire" /\ phase' = "exec"
        /\ IsOpen' => pcBefore' = pc
    BY <1>1 DEF CallRetireInstr, BeginRetire, FetchInstr, archVars, LogPreRetireState, IsOpen
  <2>2. Control' /\ Outcome' /\ stateOut' = Unset
    BY <2>1 DEF Control, Outcome, Lines
  <2> QED
    BY <2>1, <2>2 DEF Untouched, Accounts, Chain, BeforeLoop
<1>2. CASE ExecuteInstr
  <2>1. /\ UNCHANGED <<opts, line, i, ExecSuccess, code, stateOut, chainPC>>
        /\ line = "retire" /\ phase = "exec" /\ phase' \in {"exec", "executed"}
        /\ UNCHANGED <<file, pcBefore>>
    BY <1>2, ExecKeepsPC DEF ExecuteInstr, mainVars, ExecEffect, EndInstr, retireVars
  <2>2. Control' /\ Outcome' /\ stateOut' = Unset
    BY <2>1 DEF Control, Outcome
  <2> QED
    BY <2>1, <2>2 DEF Untouched, Accounts, Chain, BeforeLoop, IsOpen
<1>3. CASE ReturnFromRetireInstr
  <2>1. /\ UNCHANGED <<opts, i, ExecSuccess, code, stateOut, pc>>
        /\ line = "retire" /\ line' = "result" /\ phase' = "idle"
        /\ chainPC' = pc
    BY <1>3 DEF ReturnFromRetireInstr, EndRetire, modelVars, archVars
  <2>2. Control' /\ Outcome' /\ stateOut' = Unset
    BY <2>1 DEF Control, Outcome, Lines
  <2>3. pc \in PC
    BY DEF LogInv, TypeInv, TypeOK, ModelTypeOK
  <2> QED
    BY <2>1, <2>2, <2>3 DEF Untouched, Accounts, Chain, BeforeLoop
<1>4. CASE RetireInstrThrows(bound)
  <2>1. /\ UNCHANGED <<opts, i, ExecSuccess, code, stateOut, chainPC>>
        /\ line \in {"loop", "retire"} /\ line' = "unwind" /\ phase' = "leaving"
    BY <1>4 DEF RetireInstrThrows, BeginRetireThrows, EndRetireThrows
  <2>2. Control' /\ Outcome' /\ stateOut' = Unset
    BY <2>1 DEF Control, Outcome, Lines
  <2> QED
    BY <2>1, <2>2 DEF Untouched, Accounts, Chain, BeforeLoop
<1> QED
  BY <1>1, <1>2, <1>3, <1>4

\* The statements behind the loop.
LEMMA EpilogueKeeps ==
    ASSUME MainInv, LogInv', ShapeInv', Epilogue
    PROVE  MainInv'
<1> USE DEF MainInv, Goto, Locals, Outputs
<1>1. CASE DumpState
  <2>1. /\ UNCHANGED <<opts, i, ExecSuccess, chainPC>>
        /\ UNCHANGED vars
        /\ line = "dump" /\ line' = "return"
        /\ stateOut' \in {DumpedState, Unset}
        /\ code' = IF ExecSuccess THEN "EXIT_SUCCESS" ELSE "EXIT_FAILURE"
    BY <1>1 DEF DumpState
  <2>2. Control'
    BY <2>1, NothingHappened DEF Control, Lines
  <2>3. Outcome'
    BY <2>1 DEF Outcome
  <2>4. Accounts'
    BY <2>1, NothingHappened DEF Accounts
  <2>5. stateOut' \in Dump \cup {Unset}
    BY <2>1 DEF Dump, DumpedState, LogInv, TypeInv, TypeOK, ModelTypeOK
  <2> QED
    BY <2>1, <2>2, <2>3, <2>4, <2>5, NothingHappened DEF Untouched, Chain, BeforeLoop
<1>2. CASE DumpStateThrows \/ DumpStateAborts
  <2>1. /\ UNCHANGED <<opts, i, ExecSuccess, code, stateOut, chainPC>>
        /\ UNCHANGED vars
        /\ line = "dump" /\ line' \in {"unwind", "aborted"}
    BY <1>2 DEF DumpStateThrows, DumpStateAborts, Throws
  <2>2. Control'
    BY <2>1, NothingHappened DEF Control, Lines
  <2>3. Outcome' /\ stateOut' = Unset
    BY <2>1 DEF Outcome
  <2> QED
    BY <2>1, <2>2, <2>3, NothingHappened DEF Untouched, Accounts, Chain, BeforeLoop
<1>3. ASSUME NEW from, NEW to, LeaveMain(from, to),
             \/ from = "return" /\ to = "exited"
             \/ from = "unwind" /\ to = "handler"
      PROVE  MainInv'
  <2>1. /\ UNCHANGED <<opts, i, ExecSuccess, code, stateOut, chainPC>>
        /\ UNCHANGED <<pc, xreg, freg, vreg, mem, fcsr, mcause, callbacks, replay, retired>>
        /\ UNCHANGED <<overtakenV, overtakenMem>>
        /\ line = from
        /\ \/ phase \in {"idle", "setup"} /\ phase' = "leaving" /\ line' = line /\ file' = file
           \/ phase = "leaving" /\ phase' = "end" /\ line' = to
           \/ phase = "start" /\ phase' = "start" /\ line' = to /\ file' = file
    BY <1>3 DEF LeaveMain, Leave, LeaveSetup, DestroyLogger, Destruct, vars, modelVars,
                archVars, orderVars, loggerVars, retireVars
  <2>2. IsOpen' <=> IsOpen
    <3>1. CASE file' = file
      BY <3>1 DEF IsOpen
    <3>2. CASE DestroyLogger
      <4>1. file \in Seq(Chunks)
        BY DEF LogInv, TypeInv, TypeOK, LoggerTypeOK
      <4>2. file' = IF IsOpen THEN Append(file, "tail") ELSE file
        BY <3>2 DEF DestroyLogger, Destruct
      <4> QED
        BY <4>1, <4>2 DEF IsOpen
    <3> QED
      BY <1>3, <3>1, <3>2 DEF LeaveMain, Leave, LeaveSetup, vars, loggerVars
  <2>3. Control'
    BY <1>3, <2>1 DEF Control, Lines
  <2>4. Outcome'
    BY <1>3, <2>1 DEF Outcome
  <2>5. Matches' <=> Matches
    BY <2>1 DEF Matches
  <2>6. DumpedState' = DumpedState
    BY <2>1 DEF DumpedState
  <2>7. Accounts'
    <3>1. line' = "return" => UNCHANGED <<Records, retired>>
      BY <1>3, <2>1 DEF Records
    <3>2. line' \in {"dump", "return"} => line = "return" /\ line' = line
      BY <1>3, <2>1
    <3> QED
      BY <2>1, <2>2, <2>5, <2>6, <3>1, <3>2 DEF Accounts
  <2>8. line' \in {"return", "exited", "unwind", "handler"}
    BY <1>3, <2>1
  <2>9. phase' \notin {"exec", "executed"}
    BY <2>1
  <2> QED
    BY <2>1, <2>3, <2>4, <2>7, <2>8, <2>9 DEF Untouched, Chain, BeforeLoop
<1>4. CASE Handler
  <2>1. /\ UNCHANGED <<opts, i, ExecSuccess, stateOut, chainPC>>
        /\ UNCHANGED vars
        /\ line = "handler" /\ line' = "exited" /\ code' = "EXIT_FAILURE"
    BY <1>4 DEF Handler
  <2>2. Control'
    BY <2>1, NothingHappened DEF Control, Lines
  <2>3. Outcome' /\ stateOut' = Unset
    BY <2>1 DEF Outcome
  <2> QED
    BY <2>1, <2>2, <2>3, NothingHappened DEF Untouched, Accounts, Chain, BeforeLoop
<1> QED
  BY <1>1, <1>2, <1>3, <1>4 DEF Epilogue

\* The shared statements.
LEMMA CommonKeeps ==
    ASSUME MainInv, NEW bound, CommonNext(bound) PROVE MainInv'
<1>1. LogInv' /\ ShapeInv'
  BY CommonIsStep, LogStep, ShapeStep DEF MainInv
<1> QED
  BY <1>1, PrologueKeeps, RetireKeeps, EpilogueKeeps DEF CommonNext

\* Whatever a main decides between two instructions.
LEMMA DecisionKeeps ==
    ASSUME MainInv, UNCHANGED <<vars, opts, code, stateOut, chainPC>>,
           line \in {"loop", "result", "interrupt"},
           line' \in {"loop", "interrupt", "dump", "unwind"},
           ExecSuccess' \in BOOLEAN
    PROVE  MainInv'
<1> USE DEF MainInv
<1>1. LogInv' /\ ShapeInv'
  BY LogStep, ShapeStep
<1>2. Control'
  BY NothingHappened DEF Control, Lines
<1>3. Outcome' /\ stateOut' = Unset
  BY DEF Outcome
<1>4. phase = "idle"
  BY DEF Control
<1>5. IsOpen => Matches /\ Records = retired
  BY <1>4 DEF LogInv, ShapeInv, Counted, Records, RecordsIn
<1>6. Untouched' /\ Chain'
  BY NothingHappened DEF Untouched, Chain, BeforeLoop
<1> QED
  BY <1>1, <1>2, <1>3, <1>5, <1>6, NothingHappened DEF Accounts

\* What the mains share holds before the first statement.
LEMMA MainInitInv ==
    ASSUME MainInit, opts.log \in BOOLEAN PROVE MainInv
<1>1. LogInv /\ ShapeInv
  BY LogInit, ShapeInit DEF MainInit
<1>2. Matches /\ pc \in PC /\ ~IsOpen
  BY DEF MainInit, Init, ModelInit, LoggerInit, Matches, Machine, IsOpen
<1> QED
  BY <1>1, <1>2 DEF MainInit, Init, ModelInit, MainInv, Control, Outcome, Untouched,
                    Accounts, Chain, Lines, BeforeLoop

\* What the mains share is about the variables that allVars lists.
LEMMA MainStutters ==
    ASSUME MainInv, UNCHANGED vars, UNCHANGED mainVars PROVE MainInv'
<1> USE DEF MainInv, mainVars
<1>1. LogInv' /\ ShapeInv'
  BY LogStep, ShapeStep
<1> QED
  BY <1>1, NothingHappened DEF Control, Outcome, Untouched, Accounts, Chain

-----------------------------------------------------------------------------
(* What the invariant means for the properties of both mains.              *)

\* A dumped state is the machine, and the log before the dump tells the same.
LEMMA AccountsAgree == MainInv => StateMatchesLog
BY DEF MainInv, Accounts, Matches, DumpedState, StateMatchesLog

\* A loop is entered for the first time at the entry point, an instruction
\* is called for at the pc of the model, and its record begins there.
LEMMA CommonChains ==
    ASSUME MainInv, NEW bound, CommonNext(bound)
    PROVE  /\ line' = "loop" => line \in BeforeLoop /\ chainPC' = pc'
           /\ line' = "retire" =>
                 /\ UNCHANGED <<chainPC, i>>
                 /\ \/ line = "loop" /\ (IsOpen' => pcBefore' = pc)
                    \/ line = "retire" /\ UNCHANGED <<file, pcBefore>>
<1> USE DEF Goto, Locals
<1>1. CASE Prologue
  BY <1>1 DEF Prologue, ParseCommandLine, LoadModelLibrary, OpenLog, BuildModel, NoSymbolTable,
              Throws, ParseELFAndInit, PrepareModel, LoadProgram, BeforeLoop
<1>2. CASE CallRetireInstr(bound)
  BY <1>2 DEF CallRetireInstr, BeginRetire, LogPreRetireState, IsOpen
<1>3. CASE ExecuteInstr
  BY <1>3, ExecKeepsPC DEF ExecuteInstr, mainVars
<1>4. CASE ReturnFromRetireInstr \/ RetireInstrThrows(bound)
  BY <1>4 DEF ReturnFromRetireInstr, RetireInstrThrows
<1>5. CASE Epilogue
  BY <1>5 DEF Epilogue, DumpState, DumpStateThrows, DumpStateAborts, Throws, LeaveMain, Handler
<1> QED
  BY <1>1, <1>2, <1>3, <1>4, <1>5 DEF CommonNext

\* An instruction is under way in retireInstr only.
LEMMA InInstr == MainInv /\ phase \in {"exec", "executed"} => line = "retire"
BY DEF MainInv, Control, Lines

\* An exception is on its way, or has ended the process.
Failing == line \in {"unwind", "handler"} \/ (Exited /\ code = "EXIT_FAILURE")

\* The shared statements do not catch an exception but in the handler of main.
LEMMA CommonKeepsFailing ==
    ASSUME NEW bound, CommonNext(bound), Failing PROVE Failing'
<1> USE DEF Goto, Outputs, Failing, Exited
<1>1. CASE Prologue
  BY <1>1 DEF Prologue, ParseCommandLine, LoadModelLibrary, OpenLog, BuildModel, NoSymbolTable,
              Throws, ParseELFAndInit
<1>2. CASE CallRetireInstr(bound) \/ ExecuteInstr \/ ReturnFromRetireInstr
           \/ RetireInstrThrows(bound)
  BY <1>2 DEF CallRetireInstr, ExecuteInstr, ReturnFromRetireInstr, RetireInstrThrows
<1>3. CASE Epilogue
  BY <1>3 DEF Epilogue, DumpState, DumpStateThrows, DumpStateAborts, Throws, LeaveMain, Handler
<1> QED
  BY <1>1, <1>2, <1>3 DEF CommonNext

-----------------------------------------------------------------------------
(* The steps of main as steps of SimulatorRun.                             *)

\* A main that starts is a SimulatorRun that has not begun.
LEMMA AbstractInit == ASSUME MainInit PROVE Abstract!Init
<1>1. ~IsOpen /\ phase = "start" /\ retired = 0 /\ line = "options" /\ file = <<>>
  BY DEF MainInit, Init, LoggerInit, IsOpen
<1>2. DOMAIN file = {}
  BY <1>1
<1>3. Records = 0
  BY <1>2, FS_EmptySet DEF Records
<1> QED
  BY <1>1, <1>3 DEF Abstract!Init, runLog, runSteps, runOutcome, Succeeded, Exited

\* Statements that touch neither the logger nor the outcome.
LEMMA SilentSteps ==
    ASSUME UNCHANGED vars,
           {line, line'} \cap {"crashed", "aborted", "exited"} = {}
    PROVE  UNCHANGED Abstract!vars
BY NothingHappened DEF Abstract!vars, runLog, runSteps, runOutcome, Succeeded, Exited

\* The shared statements.
LEMMA CommonIsAbstract ==
    ASSUME MainInv, NEW bound, CommonNext(bound)
    PROVE  [Abstract!Next]_Abstract!vars
<1> USE DEF MainInv, Goto, Locals, Outputs
<1>m. MainInv'
  BY CommonKeeps
<1>r. RecordsIn(file) = Records /\ RecordsIn(file)' = Records'
  BY DEF RecordsIn, Records
<1>t. retired \in Nat /\ Records \in Nat
  <2>1. retired \in Nat /\ file \in Seq(Chunks) /\ "tail" \in Chunks
    BY DEF LogInv, TypeInv, TypeOK, LoggerTypeOK, Chunks
  <2> QED
    BY <2>1, <1>r, RecordsAppend
<1>1. CASE \/ ParseCommandLine \/ LoadModelLibrary \/ BuildModel
           \/ \E l \in {"options", "library", "logger", "build", "load"} : Throws(l)
           \/ DumpState \/ DumpStateThrows
  BY <1>1, SilentSteps DEF ParseCommandLine, LoadModelLibrary, BuildModel, Throws,
                           DumpState, DumpStateThrows
<1>2. CASE OpenLog
  <2>1. /\ line = "logger" /\ line' = "build"
        /\ phase = "start" /\ phase' = "setup"
        /\ retired = 0 /\ retired' = 0 /\ ~IsOpen
    BY <1>2 DEF OpenLog, ConstructLogger, Control, ShapeInv
  <2>2. runLog = "none" /\ runSteps = 0 /\ runSteps' = 0
        /\ runOutcome = "running" /\ runOutcome' = "running"
    BY <2>1 DEF runLog, runSteps, runOutcome, Succeeded, Exited
  <2>3. Records = 0
    <3>1. file = <<>> /\ DOMAIN <<>> = {}
      BY <2>1 DEF IsOpen
    <3> QED
      BY <3>1, FS_EmptySet DEF Records
  <2>4. IsOpen' => Records' = 0 /\ runLog' = "open"
    BY <1>m, <1>r, <2>1 DEF ShapeInv, Counted, runLog
  <2>5. ~IsOpen' => Records' = 0 /\ runLog' = "none"
    <3>1. ~IsOpen' => file' = <<>> /\ DOMAIN <<>> = {}
      BY DEF IsOpen
    <3> QED
      BY <3>1, FS_EmptySet DEF Records, runLog
  <2>6. CASE IsOpen'
    BY <2>2, <2>3, <2>4, <2>6 DEF Abstract!Next, Abstract!OpenLog
  <2>7. CASE ~IsOpen'
    BY <2>2, <2>3, <2>5, <2>7 DEF Abstract!vars
  <2> QED
    BY <2>6, <2>7
<1>3. CASE NoSymbolTable \/ DumpStateAborts
  <2>1. UNCHANGED vars /\ line \in {"load", "dump"} /\ line' \in {"crashed", "aborted"}
    BY <1>3 DEF NoSymbolTable, DumpStateAborts
  <2>2. runOutcome = "running" /\ runOutcome' = "crashed"
    BY <2>1 DEF runOutcome, Succeeded, Exited
  <2>3. UNCHANGED <<runLog, runSteps, Records>>
    BY <2>1, NothingHappened DEF runLog, runSteps
  <2> QED
    BY <2>2, <2>3 DEF Abstract!Next, Abstract!Crash
<1>4. CASE ParseELFAndInit \/ CallRetireInstr(bound)
           \/ (line = "loop" /\ BeginRetireThrows /\ Goto("unwind"))
  <2>1. /\ UNCHANGED <<file, retired>>
        /\ phase \in {"setup", "idle"} /\ phase' \in {"idle", "exec", "leaving"}
        /\ line \in {"load", "loop"} /\ line' \in {"loop", "retire", "unwind"}
    BY <1>4 DEF ParseELFAndInit, PrepareModel, CallRetireInstr, BeginRetire,
                BeginRetireThrows, LogPreRetireState, LogPreRetireStateThrows, loggerVars
  <2> QED
    BY <2>1 DEF Abstract!vars, runLog, runSteps, runOutcome, Records, IsOpen, Succeeded, Exited
<1>5. CASE ExecuteInstr
  <2>1. /\ line = "retire" /\ line' = "retire" /\ code' = code /\ file' = file
        /\ phase = "exec"
        /\ \/ phase' = "exec" /\ retired' = retired
           \/ phase' = "executed" /\ retired' = retired + 1
    BY <1>5, ExecKeepsPC DEF ExecuteInstr, mainVars, ExecEffect, EndInstr, retireVars
  <2>2. runSteps' = runSteps
    BY <1>t, <2>1 DEF runSteps
  <2> QED
    BY <2>1, <2>2 DEF Abstract!vars, runLog, runOutcome, Records, IsOpen, Succeeded, Exited
<1>6. CASE ReturnFromRetireInstr \/ (line = "retire" /\ EndRetireThrows /\ Goto("unwind"))
  <2>1. /\ line = "retire" /\ line' \in {"result", "unwind"}
        /\ phase = "executed" /\ phase' \in {"idle", "leaving"}
        /\ retired' = retired
        /\ phase' = "leaving" => IsOpen
    BY <1>6 DEF ReturnFromRetireInstr, EndRetire, EndRetireThrows, LogRetiredStateThrows
  <2>2. IsOpen' <=> IsOpen
    <3>1. /\ file \in Seq(Chunks) /\ "record" \in Chunks /\ "torn" \in Chunks
      BY DEF LogInv, TypeInv, TypeOK, LoggerTypeOK, Chunks
    <3>2. \/ file' = file
          \/ IsOpen /\ \E chunk \in Chunks : file' = Append(file, chunk)
      BY <1>6, <3>1 DEF ReturnFromRetireInstr, EndRetire, LogRetiredState, EndRetireThrows,
                        LogRetiredStateThrows
    <3> QED
      BY <3>1, <3>2 DEF IsOpen
  <2>3. runSteps = retired - 1 /\ runSteps' = runSteps + 1
    BY <1>t, <2>1 DEF runSteps
  <2>4. CASE IsOpen
    <3>1. Records = retired - 1
      BY <1>r, <2>1, <2>4 DEF ShapeInv, Counted
    <3>2. Records' \in {retired, retired - 1}
      BY <1>m, <1>r, <2>1, <2>2, <2>4 DEF ShapeInv, Counted
    <3>3. Records' \in {Records, Records + 1}
      BY <1>t, <3>1, <3>2
    <3>4. runLog = "open" /\ runLog' = "open"
      BY <2>1, <2>2, <2>4 DEF runLog
    <3> QED
      BY <2>1, <2>3, <3>1, <3>3, <3>4 DEF Abstract!Next, Abstract!Step, Abstract!Complete,
                                          runOutcome, Succeeded, Exited
  <2>5. CASE ~IsOpen
    <3>1. runLog = "none" /\ runLog' = "none"
      BY <2>2, <2>5 DEF runLog
    <3>2. Records' = Records
      BY <2>2, <2>5 DEF Records, IsOpen
    <3> QED
      BY <2>1, <2>3, <3>1, <3>2 DEF Abstract!Next, Abstract!Step, Abstract!Complete,
                                    runOutcome, Succeeded, Exited
  <2> QED
    BY <2>4, <2>5
<1>7. ASSUME NEW from, NEW to, LeaveMain(from, to),
             \/ from = "return" /\ to = "exited"
             \/ from = "unwind" /\ to = "handler"
      PROVE  [Abstract!Next]_Abstract!vars
  <2>1. line = from /\ code' = code /\ UNCHANGED retired
    BY <1>7 DEF LeaveMain, Leave, LeaveSetup, DestroyLogger, vars, retireVars
  <2>2. CASE Leave \/ LeaveSetup
    <3>1. phase' = "leaving" /\ phase \in {"idle", "setup"} /\ file' = file
      BY <2>2 DEF Leave, LeaveSetup, loggerVars
    <3>2. line' = from
      BY <1>7, <2>1, <2>2 DEF LeaveMain, Leave, LeaveSetup, DestroyLogger
    <3> QED
      BY <1>7, <2>1, <3>1, <3>2 DEF Abstract!vars, runLog, runSteps, runOutcome, Records,
                                    IsOpen, Succeeded, Exited
  <2>3. CASE DestroyLogger
    <3>1. phase = "leaving" /\ phase' = "end" /\ line' = to
      BY <1>7, <2>3 DEF LeaveMain, Leave, LeaveSetup, DestroyLogger
    <3>2. (IsOpen' <=> IsOpen) /\ Records' = Records
      <4>1. file \in Seq(Chunks) /\ "tail" \in Chunks
        BY DEF LogInv, TypeInv, TypeOK, LoggerTypeOK, Chunks
      <4>2. file' = IF IsOpen THEN Append(file, "tail") ELSE file
        BY <2>3 DEF DestroyLogger, Destruct
      <4>3. IsOpen' <=> IsOpen
        BY <4>1, <4>2 DEF IsOpen
      <4>4. RecordsIn(Append(file, "tail")) = RecordsIn(file)
        BY <4>1, RecordsAppend
      <4> QED
        BY <1>r, <4>2, <4>3, <4>4 DEF RecordsIn, Records
    <3>3. runSteps = retired /\ runSteps' = retired
      BY <2>1, <3>1 DEF runSteps
    <3>4. /\ runLog = IF IsOpen THEN "open" ELSE "none"
          /\ runLog' = IF IsOpen THEN "sealed" ELSE "none"
      BY <3>1, <3>2 DEF runLog
    <3>5. runLog' = Abstract!Sealed
      BY <3>4 DEF Abstract!Sealed
    <3>6. CASE from = "return" /\ to = "exited"
      <4>1. runOutcome = "running"
        BY <2>1, <3>6 DEF runOutcome, Succeeded, Exited
      <4>2. Abstract!Complete
        BY <2>1, <3>3, <3>4, <3>6 DEF Abstract!Complete, Accounts
      <4>3. runOutcome' \in {"success", "failure"}
        BY <3>1, <3>6 DEF runOutcome, Succeeded, Exited
      <4> QED
        BY <3>2, <3>3, <3>5, <4>1, <4>2, <4>3 DEF Abstract!Next, Abstract!Succeed, Abstract!Fail
    <3>7. CASE from = "unwind" /\ to = "handler"
      <4>1. runOutcome = "running" /\ runOutcome' = "running"
        BY <2>1, <3>1, <3>7 DEF runOutcome, Succeeded, Exited
      <4> QED
        BY <3>2, <3>3, <3>5, <4>1 DEF Abstract!Next, Abstract!Seal
    <3> QED
      BY <1>7, <3>6, <3>7
  <2>4. CASE phase = "start" /\ Goto(to) /\ UNCHANGED vars
    <3>1. from = "unwind" /\ to = "handler"
      BY <1>7, <2>1, <2>4 DEF Control
    <3> QED
      BY <2>1, <2>4, <3>1, SilentSteps
  <2> QED
    BY <1>7, <2>2, <2>3, <2>4 DEF LeaveMain
<1>8. CASE Handler
  <2>1. UNCHANGED vars /\ line = "handler" /\ line' = "exited" /\ code' = "EXIT_FAILURE"
    BY <1>8 DEF Handler
  <2>2. phase \in {"start", "end"}
    BY <2>1 DEF Control
  <2>3. runLog' = Abstract!Sealed
    BY <2>1, <2>2, NothingHappened DEF runLog, Abstract!Sealed, ShapeInv
  <2>4. runOutcome = "running" /\ runOutcome' = "failure"
    BY <2>1 DEF runOutcome, Succeeded, Exited
  <2>5. UNCHANGED <<runSteps, Records>>
    BY <2>1, NothingHappened DEF runSteps
  <2> QED
    BY <2>3, <2>4, <2>5 DEF Abstract!Next, Abstract!Fail
<1> QED
  BY <1>1, <1>2, <1>3, <1>4, <1>5, <1>6, <1>7, <1>8
     DEF CommonNext, Prologue, Epilogue, RetireInstrThrows
=============================================================================
