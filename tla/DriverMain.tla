----------------------------- MODULE DriverMain -----------------------------
(***************************************************************************)
(* What main of Driver.cpp and main of InterruptDriver.cpp have in common: *)
(* everything before and after their loops, and a call of retireInstr.     *)
(*                                                                         *)
(* line is the statement main is about to execute.  An exception goes to   *)
(* "unwind", where the local variables, the logger among them, are         *)
(* destroyed before the handler of main runs.                              *)
(***************************************************************************)
EXTENDS RetireInstr

VARIABLES
    opts,               \* the command line
    line,               \* control state of main
    i, ExecSuccess,     \* its local variables
    code,               \* exit status of the process
    stateOut,           \* the state written out: a Dump, or Unset
    chainPC             \* history: pc_after of the last record, or where the
                        \* program was loaded

mainVars == <<opts, line, i, ExecSuccess, code, stateOut, chainPC>>

\* JsonExecLog, RVM_ExecutableFile and StateFile are given or empty; a stop
\* mode other than "AtLabel" and an AllowExceptions other than "all" and
\* "ebreak" are all alike.
CommonOptions == [log : BOOLEAN, exec : BOOLEAN, state : BOOLEAN,
                  stop : {"AtLabel", "other"}]

Lines == {"options", "library", "logger", "build", "load", "loop", "retire",
          "result", "interrupt", "dump", "return", "unwind", "handler",
          "exited", "crashed", "aborted"}

\* What the state file shows of the machine.
Dump == [x : [XReg -> Val], f : [FReg -> Val], v : [VReg -> Val],
         mcause : Cause \cup {NoCause}]
DumpedState == [x |-> xreg, f |-> freg, v |-> vreg, mcause |-> mcause]

MainTypeOK(maxSteps) ==
    /\ TypeOK
    /\ line \in Lines
    /\ i \in 0 .. maxSteps
    /\ ExecSuccess \in BOOLEAN
    /\ code \in {"none", "EXIT_SUCCESS", "EXIT_FAILURE"}
    /\ stateOut \in Dump \cup {Unset}
    /\ chainPC \in PC

MainInit ==
    /\ Init
    /\ line = "options"
    /\ i = 0
    /\ ExecSuccess = TRUE
    /\ code = "none"
    /\ stateOut = Unset
    /\ chainPC = pc

Goto(l) == line' = l
Locals == <<i, ExecSuccess>>
Outputs == <<code, stateOut>>

-----------------------------------------------------------------------------
(* Before the first instruction.                                           *)

\* The command line cannot be parsed, or the library cannot be used.
Throws(l) ==
    /\ line = l
    /\ Goto("unwind")
    /\ UNCHANGED <<vars, opts, Locals, Outputs, chainPC>>

ParseCommandLine ==
    /\ line = "options"
    /\ Goto("library")
    /\ UNCHANGED <<vars, opts, Locals, Outputs, chainPC>>

LoadModelLibrary ==
    /\ line = "library"
    /\ Goto("logger")
    /\ UNCHANGED <<vars, opts, Locals, Outputs, chainPC>>

OpenLog ==
    /\ line = "logger"
    /\ ConstructLogger(opts.log)
    /\ Goto("build")
    /\ UNCHANGED <<opts, Locals, Outputs, chainPC>>

\* The ISA string and the configuration; without an executable the model is
\* built only to be dumped.
BuildModel ==
    /\ line = "build"
    /\ Goto(IF opts.exec THEN "load" ELSE "dump")
    /\ UNCHANGED <<vars, opts, Locals, Outputs, chainPC>>

StopMode == IF opts.stop = "AtLabel" THEN "ByPC" ELSE "Never"

\* An executable with a symbol table stops at its _sim_end label, if any.
ParseELFAndInit ==
    /\ line = "load"
    /\ \E entry \in PC, image \in [Addr -> Val], stop \in PC \cup {NoStopPC} :
          /\ PrepareModel(entry, image, stop, StopMode)
          /\ chainPC' = entry
    /\ Goto("loop")
    /\ UNCHANGED <<opts, Locals, Outputs>>

\* Without one, the iterator past the last section is dereferenced.
NoSymbolTable ==
    /\ line = "load"
    /\ Goto("crashed")
    /\ UNCHANGED <<vars, opts, Locals, Outputs, chainPC>>

-----------------------------------------------------------------------------
(* One call of retireInstr.                                                *)

\* Mutation: the loop runs once more.
CallRetireInstrInclusive(bound) ==
    /\ line = "loop" /\ i <= bound
    /\ BeginRetire
    /\ Goto("retire")
    /\ UNCHANGED <<opts, Locals, Outputs, chainPC>>

CallRetireInstr(bound) ==
    /\ line = "loop" /\ i < bound
    /\ BeginRetire
    /\ Goto("retire")
    /\ UNCHANGED <<opts, Locals, Outputs, chainPC>>

ExecuteInstr ==
    /\ line = "retire"
    /\ ExecEffect \/ EndInstr
    /\ UNCHANGED mainVars

ReturnFromRetireInstr ==
    /\ line = "retire"
    /\ EndRetire
    /\ chainPC' = pc
    /\ Goto("result")
    /\ UNCHANGED <<opts, Locals, Outputs>>

\* A query of either half of the logger fails.
RetireInstrThrows(bound) ==
    /\ \/ line = "loop" /\ i < bound /\ BeginRetireThrows
       \/ line = "retire" /\ EndRetireThrows
    /\ Goto("unwind")
    /\ UNCHANGED <<opts, Locals, Outputs, chainPC>>

-----------------------------------------------------------------------------
(* After the last instruction.                                             *)

\* The state file may fail to open, which nobody notices.
DumpState ==
    /\ line = "dump"
    /\ stateOut' \in IF opts.state THEN {DumpedState, Unset} ELSE {Unset}
    /\ code' = IF ExecSuccess THEN "EXIT_SUCCESS" ELSE "EXIT_FAILURE"
    /\ Goto("return")
    /\ UNCHANGED <<vars, opts, Locals, chainPC>>

\* A register of the state cannot be read.
DumpStateThrows ==
    /\ opts.state
    /\ Throws("dump")

\* The size of a vector register cannot be read, in a build with assertions.
DumpStateAborts ==
    /\ line = "dump"
    /\ opts.state
    /\ Goto("aborted")
    /\ UNCHANGED <<vars, opts, Locals, Outputs, chainPC>>

\* Leaving main destroys the model, and then the logger, if they exist.
LeaveMain(from, to) ==
    /\ line = from
    /\ \/ Leave /\ UNCHANGED line
       \/ LeaveSetup /\ UNCHANGED line
       \/ DestroyLogger /\ Goto(to)
       \/ phase = "start" /\ Goto(to) /\ UNCHANGED vars
    /\ UNCHANGED <<opts, Locals, Outputs, chainPC>>

\* Mutation: the handler reports the error and main ends without a return
\* statement, which is a return of 0, ...
HandlerFallsThrough ==
    /\ line = "handler"
    /\ code' = "EXIT_SUCCESS"
    /\ Goto("exited")
    /\ UNCHANGED <<vars, opts, Locals, stateOut, chainPC>>

\* ... or main is tried again after an error.
HandlerRetries ==
    /\ line = "handler"
    /\ Goto("options")
    /\ UNCHANGED <<vars, opts, Locals, Outputs, chainPC>>

Handler ==
    /\ line = "handler"
    /\ code' = "EXIT_FAILURE"
    /\ Goto("exited")
    /\ UNCHANGED <<vars, opts, Locals, stateOut, chainPC>>

Prologue ==
    \/ ParseCommandLine
    \/ LoadModelLibrary
    \/ OpenLog
    \/ BuildModel
    \/ ParseELFAndInit
    \/ NoSymbolTable
    \/ \E l \in {"options", "library", "logger", "build", "load"} : Throws(l)

Epilogue ==
    \/ DumpState
    \/ DumpStateThrows
    \/ DumpStateAborts
    \/ LeaveMain("return", "exited")
    \/ LeaveMain("unwind", "handler")
    \/ Handler

-----------------------------------------------------------------------------
(* What both programs promise.                                             *)

Exited == line = "exited"
Succeeded == Exited /\ code = "EXIT_SUCCESS"

\* The log and the state file are two accounts of the same run, one written
\* as it goes and the other at its end.  The state file shows the machine as
\* main left it, and replaying the log gives the same registers, but for
\* vectors whose last report was not their last update (dumpState,
\* logRetiredState).
StateMatchesLog ==
    Exited /\ stateOut # Unset =>
        /\ stateOut = DumpedState
        /\ IsOpen /\ callbacks =>
              /\ stateOut.x = replay.x
              /\ stateOut.f = replay.f
              /\ \A r \in VReg \ overtakenV : stateOut.v[r] = replay.v[r]

\* An exception, wherever it is thrown and whatever was written before, ends
\* the process with a failure: nothing between the throw and the exit, and no
\* exit status decided earlier, turns it into a success (the function try
\* block and handler of main; dumpState, raiseInterrupt and every query of the
\* logger may throw).
ExceptionFails == [](line = "unwind" => [](Exited => code = "EXIT_FAILURE"))

\* Every run ends, by the step budget if nothing else stops it.
Termination == <>(line \in {"exited", "crashed", "aborted"})

\* A missing symbol table is reported by a warning saying that default
\* addresses will be used (DriverUtils.cpp:431); the run goes on.
NoSymbolTableIsHarmless == line # "crashed"

\* Either driver is a SimulatorRun: whatever happens on the way, it does not
\* report success with an instruction missing from its log, execute anything
\* after it lost a record, or end with its log unfinished, short of a crash.
runLog == IF ~IsOpen THEN "none" ELSE IF phase = "end" THEN "sealed" ELSE "open"
runSteps == IF phase = "executed" THEN retired - 1 ELSE retired
runOutcome == CASE line \in {"crashed", "aborted"} -> "crashed"
                [] Succeeded -> "success"
                [] Exited /\ code # "EXIT_SUCCESS" -> "failure"
                [] OTHER -> "running"

Abstract == INSTANCE SimulatorRun WITH
    log <- runLog, steps <- runSteps, records <- Records, outcome <- runOutcome
ImplementsSimulatorRun == Abstract!Spec
=============================================================================
