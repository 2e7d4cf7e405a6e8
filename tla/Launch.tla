------------------------------- MODULE Launch -------------------------------
(***************************************************************************)
(* What a driver promises to do with its command line before the first     *)
(* instruction, without saying how: the options mean what a user reads in  *)
(* the whole line, and a program is run from a complete image or not at    *)
(* all.  StartUp implements it.                                            *)
(***************************************************************************)
EXTENDS DriverOptions, ElfFile, FiniteSetsExt

CONSTANTS
    Addr, Zero,     \* the memory of the model, and what it holds at first
    CommandLines    \* the command lines that are considered

VARIABLES
    argv,           \* the command line
    outcome,        \* "starting", or how it ended
    machine         \* the machine that begins to execute, and its executable

vars == <<argv, outcome, machine>>

NoMachine == "none"

\* Just n elements in a row before element k want the one behind them as
\* their value.  The first gets it, so that the second wants nothing; and so on:
\* element k is a value if their number is odd.
Row(line, k, n) ==
    /\ \A j \in k - n .. k - 1 : TakesNext(line[j])
    /\ n < k - 1 => ~TakesNext(line[k - n - 1])
IsValue(line, k) == \E n \in 1 .. k - 1 : n % 2 = 1 /\ Row(line, k, n)

\* What is neither a value nor behind a separator.
Examined(line) ==
    {k \in DOMAIN line :
        ~IsValue(line, k) /\ \A j \in 1 .. k - 1 : IsSeparator(line[j]) => IsValue(line, j)}

\* Every option is known and has a value, and that is a number if need be.
ValueAt(line, k) == IF TakesNext(line[k]) THEN TextOf(line[k + 1]) ELSE line[k].value
Readable(line) ==
    \A k \in Examined(line) :
        /\ line[k].name # Odd
        /\ TakesNext(line[k]) => k < Len(line)
        /\ line[k].name \in NumberOption => ValueAt(line, k) \in DOMAIN Number

\* What a readable command line gives an option, None if it does not name it: of
\* several values the last.
Given(line, option) ==
    LET places == {k \in Examined(line) : line[k].name = option}
    IN  IF places = {} THEN None ELSE ValueAt(line, Max(places))

\* What a value says about an option.
Meaning(option, value) ==
    IF option \in NumberOption THEN Number[value]
    ELSE IF option = "ClearInterrupt" THEN TRUE ELSE value

Asked(line, option) ==
    LET value == Given(line, option)
    IN  IF value = None THEN DriverOptions[option] ELSE Meaning(option, value)

Accessible(line) ==
    Region(Asked(line, "RomStart"), Asked(line, "RomSize"))
        \cup Region(Asked(line, "RamStart"), Asked(line, "RamSize"))

\* 64 bits, unless the ISA string says otherwise.
RV64(line) == Asked(line, "IsaStringOverride") \notin Rv32Isa

\* Every byte is that of the last segment with one for its address.
Image(file) ==
    [a \in Addr |->
        LET over == {k \in DOMAIN file.segments :
                        Writes(file.segments[k]) /\ a \in Bytes(file.segments[k])}
            last == file.segments[Max(over)]
        IN  IF over = {} THEN Zero ELSE last.data[a - last.paddr + 1]]

\* A table of symbols of either kind, and the one with none before it.
HasSymbols(section) == section.type = "SHT_SYMTAB" \/ section.type = "SHT_DYNSYM"
IsLabelTable(file, k) ==
    HasSymbols(file.sections[k]) /\ \A j \in 1 .. k - 1 : ~HasSymbols(file.sections[j])
LabelTable(file) == {k \in DOMAIN file.sections : IsLabelTable(file, k)}

\* The first label of that name in this table ends the program.
End(file) ==
    LET symbols == file.sections[CHOOSE k \in LabelTable(file) : TRUE].symbols
        ends == {k \in DOMAIN symbols : symbols[k].name = "_sim_end"}
    IN  IF ends = {} THEN NoStopPC ELSE symbols[Min(ends)].value

-----------------------------------------------------------------------------

Init ==
    /\ argv \in CommandLines
    /\ outcome = "starting"
    /\ machine = NoMachine

\* Every segment is sound and lies in the memory that was asked for.
Fitting(file, line) ==
    /\ Loadable(file) /\ LabelTable(file) # {}
    /\ \A k \in DOMAIN file.segments :
          LET segment == file.segments[k]
          IN  /\ ~Invalid(segment)
              /\ Writes(segment) => Bytes(segment) \subseteq Accessible(line)
    /\ {file.entry, End(file)} \cap Wide # {} => RV64(line)

\* The program of an executable is ready to run.
Run ==
    /\ outcome = "starting" /\ outcome' = "running"
    /\ Readable(argv) /\ Asked(argv, "ExecFile") # None
    /\ \E file \in File :
          /\ Fitting(file, argv)
          /\ machine' = [file |-> file, pc |-> file.entry, mem |-> Image(file),
                         stopPC |-> End(file),
                         stopMode |-> IF Asked(argv, "StopMode") = "AtLabel"
                                      THEN "ByPC" ELSE "Never"]
    /\ UNCHANGED argv

\* Without an executable there is nothing to run.
DumpOnly ==
    /\ outcome = "starting" /\ outcome' = "dump"
    /\ Readable(argv) /\ Asked(argv, "ExecFile") = None
    /\ UNCHANGED <<argv, machine>>

Fail ==
    /\ outcome = "starting" /\ outcome' = "failed"
    /\ UNCHANGED <<argv, machine>>

\* An executable without a symbol table.
Crash ==
    /\ outcome = "starting" /\ outcome' = "crashed"
    /\ Readable(argv) /\ Asked(argv, "ExecFile") # None
    /\ UNCHANGED <<argv, machine>>

Next == Run \/ DumpOnly \/ Fail \/ Crash

\* Something comes of every command line.
Progress == <>(outcome # "starting")

Safety == Init /\ [][Next]_vars
Spec == Safety /\ Progress
=============================================================================
