------------------------------- MODULE Driver -------------------------------
(***************************************************************************)
(* main of Driver.cpp, the program that loads a model and an executable,   *)
(* retires instructions until one of the stop conditions, writes the log   *)
(* and the final state, and reports success or failure.                    *)
(***************************************************************************)
EXTENDS DriverMain

CONSTANT MAX_ALLOWED_STEPS

ASSUME StepsAssumption == MAX_ALLOWED_STEPS \in Nat

allVars == <<vars, mainVars>>

AllowExceptions == {"all", "ebreak", "none"}

DriverTypeOK ==
    /\ MainTypeOK(MAX_ALLOWED_STEPS)
    /\ opts.allow \in AllowExceptions

DriverInit ==
    /\ MainInit
    /\ \E common \in CommonOptions, allow \in AllowExceptions :
          opts = [log |-> common.log, exec |-> common.exec, state |-> common.state,
                  stop |-> common.stop, allow |-> allow]

-----------------------------------------------------------------------------
(* The loop.                                                               *)

\* Mutation: the option value is not compared with the cause.
AllowedByOption == opts.allow \in {"all", "ebreak"}

Allowed ==
    \/ opts.allow = "all"
    \/ opts.allow = "ebreak" /\ mcause = Breakpoint

StepAgain == status = "SUCCESS" \/ (status = "EXCEPTION" /\ Allowed)

ContinueLoop ==
    /\ line = "result"
    /\ StepAgain
    /\ i' = i + 1
    /\ Goto("loop")
    /\ UNCHANGED <<vars, opts, ExecSuccess, Outputs, chainPC>>

BreakLoop ==
    /\ line = "result"
    /\ ~StepAgain
    /\ ExecSuccess' = (ExecSuccess /\ status = "FINISH")
    /\ Goto("dump")
    /\ UNCHANGED <<vars, opts, i, Outputs, chainPC>>

\* MCAUSE cannot be read.
ResultThrows ==
    /\ status = "EXCEPTION"
    /\ Throws("result")

\* Mutation: running out of steps goes unnoticed.
MaxStepsIgnored ==
    /\ line = "loop" /\ i = MAX_ALLOWED_STEPS
    /\ Goto("dump")
    /\ UNCHANGED <<vars, opts, Locals, Outputs, chainPC>>

MaxStepsExceeded ==
    /\ line = "loop" /\ i = MAX_ALLOWED_STEPS
    /\ ExecSuccess' = FALSE
    /\ Goto("dump")
    /\ UNCHANGED <<vars, opts, i, Outputs, chainPC>>

DriverNext ==
    \/ Prologue
    \/ CallRetireInstr(MAX_ALLOWED_STEPS)
    \/ ExecuteInstr
    \/ ReturnFromRetireInstr
    \/ RetireInstrThrows(MAX_ALLOWED_STEPS)
    \/ ContinueLoop
    \/ BreakLoop
    \/ ResultThrows
    \/ MaxStepsExceeded
    \/ Epilogue

\* A sequential program: it goes on as long as it can, and so does the model,
\* every instruction of which ends.
DriverSpec == DriverInit /\ [][DriverNext]_allVars /\ WF_allVars(DriverNext)

-----------------------------------------------------------------------------
\* The exit status tells a run that reached its end from every other one:
\* success means that the last instruction was the stop condition and within
\* the step budget (Driver.cpp:81-114).
ExitCode ==
    Succeeded /\ opts.exec => status = "FINISH" /\ retired \in 1 .. MAX_ALLOWED_STEPS

\* Nothing is executed after the stop condition or an exception the options
\* do not allow (Driver.cpp:83-108).
MayStep ==
    \/ status = "SUCCESS"
    \/ status = "EXCEPTION" /\ opts.allow = "all"
    \/ status = "EXCEPTION" /\ opts.allow = "ebreak" /\ mcause = Breakpoint
NoStepAfterStop == [][phase = "idle" /\ phase' = "exec" => MayStep]_allVars

\* The records form a path: pc_before of each is pc_after of the one before
\* it, and of the first the entry point (logPreRetireState, logRetiredState).
RecordsChain == IsOpen /\ phase = "executed" => pcBefore = chainPC
=============================================================================
