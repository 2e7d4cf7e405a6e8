---------------------------- MODULE SimulatorRun ----------------------------
(***************************************************************************)
(* What a driver of this repository promises whoever started it, whatever  *)
(* its options and its model: instructions are executed and recorded one   *)
(* by one, the log is closed before the process reports its outcome, and a *)
(* successful run has a record of every instruction.  An instruction whose *)
(* record is lost is the last one, and the run fails.                      *)
(***************************************************************************)
EXTENDS Naturals

VARIABLES
    log,                \* the execution log: "none", "open" or "sealed"
    steps,              \* instructions executed
    records,            \* instructions recorded
    outcome             \* the exit status, or "running"

vars == <<log, steps, records, outcome>>

Init ==
    /\ log = "none"
    /\ steps = 0
    /\ records = 0
    /\ outcome = "running"

OpenLog ==
    /\ outcome = "running"
    /\ log = "none" /\ steps = 0
    /\ log' = "open"
    /\ UNCHANGED <<steps, records, outcome>>

Complete == log = "none" \/ records = steps

Step ==
    /\ outcome = "running"
    /\ log # "sealed"
    /\ Complete
    /\ steps' = steps + 1
    /\ records' \in IF log = "open" THEN {records, records + 1} ELSE {records}
    /\ UNCHANGED <<log, outcome>>

Sealed == IF log = "open" THEN "sealed" ELSE log

Seal ==
    /\ outcome = "running"
    /\ log' = Sealed
    /\ UNCHANGED <<steps, records, outcome>>

\* The log is sealed by now, or at the latest when the process ends.
Succeed ==
    /\ outcome = "running"
    /\ Complete
    /\ outcome' = "success"
    /\ log' = Sealed
    /\ UNCHANGED <<steps, records>>

Fail ==
    /\ outcome = "running"
    /\ outcome' = "failure"
    /\ log' = Sealed
    /\ UNCHANGED <<steps, records>>

\* Undefined behaviour or a failed assertion: the log is left as it is.
Crash ==
    /\ outcome = "running"
    /\ outcome' = "crashed"
    /\ UNCHANGED <<log, steps, records>>

Next == OpenLog \/ Step \/ Seal \/ Succeed \/ Fail \/ Crash

Safety == Init /\ [][Next]_vars
Spec == Safety /\ WF_vars(Next)
=============================================================================
