------------------------------- MODULE StartUp -------------------------------
(***************************************************************************)
(* The way of either driver from its command line to its first             *)
(* instruction: the options, the plugin, the ISA string, the memory        *)
(* regions, the executable and the stop mode.                              *)
(***************************************************************************)
EXTENDS CommandLine, ModelLibrary, ElfLoader

CONSTANT CommandLines   \* the command lines that are considered

ASSUME LineAssumption == CommandLines \subseteq Seq(Element)

VARIABLES
    line,           \* the statement main is about to execute
    IsRV64, stopMode

mainVars == <<line, IsRV64, stopMode>>
vars == <<commandLineVars, libraryVars, loaderVars, modelVars, mainVars>>

Lines == {"options", "library", "isa", "build", "load", "mode",
          "running", "dump", "failed", "crashed"}

FileName == Text \cup DefaultPath

ASSUME LibraryAssumption == NoLibrary \notin FileName

StartUpTypeOK ==
    /\ CommandLineTypeOK
    /\ LibraryTypeOK(FileName)
    /\ LoaderTypeOK
    /\ line \in Lines
    /\ IsRV64 \in BOOLEAN
    /\ stopMode \in {"Never", "ByPC"}

StartUpInit ==
    /\ CommandLineInit(CommandLines)
    /\ LibraryInit
    /\ LoaderInit
    /\ line = "options"
    /\ IsRV64 = TRUE
    /\ stopMode = "Never"

Goto(l) == line' = l

\* An exception: main is left by its handler.
Throws == Goto("failed") /\ UNCHANGED <<IsRV64, stopMode>>

-----------------------------------------------------------------------------

ParseCommandLine ==
    /\ line = "options"
    /\ \/ SkipWord /\ UNCHANGED mainVars
       \/ ReadOption /\ UNCHANGED mainVars
       \/ AtEnd /\ Goto("library") /\ UNCHANGED <<commandLineVars, IsRV64, stopMode>>
       \/ ParseThrows /\ Throws
    /\ UNCHANGED <<libraryVars, loaderVars, modelVars>>

LoadModelLibrary ==
    LET path == Options["ModelLib"]
    IN  /\ line = "library"
        /\ \/ findModelLibrary(path) /\ UNCHANGED mainVars
           \/ ReadVersion(path) /\ UNCHANGED mainVars
           \/ GetVTable /\ Goto("isa") /\ UNCHANGED <<IsRV64, stopMode>>
           \/ LibraryThrows(path) /\ Throws
        /\ UNCHANGED <<commandLineVars, loaderVars, modelVars>>

\* parse_isa_string gives the bitness, or rejects the string.
ParseIsaString ==
    LET isa == Options["IsaStringOverride"]
    IN  /\ line = "isa"
        /\ IF isa \in {None} \cup Rv32Isa \cup Rv64Isa
           THEN IsRV64' = (isa \notin Rv32Isa) /\ Goto("build") /\ UNCHANGED stopMode
           ELSE Throws
        /\ UNCHANGED <<commandLineVars, libraryVars, loaderVars, modelVars>>

\* The model is created or not; there is something to execute or not.
BuildModel ==
    /\ line = "build"
    /\ \/ Goto(IF Options["ExecFile"] = None THEN "dump" ELSE "load")
       \/ Goto("failed")
    /\ UNCHANGED <<commandLineVars, libraryVars, loaderVars, modelVars, IsRV64, stopMode>>

accessible == Region(Options["RomStart"], Options["RomSize"])
                \cup Region(Options["RamStart"], Options["RamSize"])

ParseELFAndInit ==
    /\ line = "load"
    /\ \/ Load(IsRV64) /\ UNCHANGED mainVars
       \/ WriteSegment(accessible) /\ UNCHANGED mainVars
       \/ SetStopPC(IsRV64) /\ Goto("mode") /\ UNCHANGED <<IsRV64, stopMode>>
       \/ NoTable /\ Goto("crashed") /\ UNCHANGED <<IsRV64, stopMode>>
       \/ LoadThrows(IsRV64) /\ Throws
       \/ WriteSegmentThrows(accessible) /\ Throws
       \/ SetStopPCThrows(IsRV64) /\ Throws
    /\ UNCHANGED <<commandLineVars, libraryVars>>

SetStopMode ==
    /\ line = "mode"
    /\ stopMode' = IF Options["StopMode"] = "AtLabel" THEN "ByPC" ELSE "Never"
    /\ Goto("running")
    /\ UNCHANGED <<commandLineVars, libraryVars, loaderVars, modelVars, IsRV64>>

Next ==
    \/ ParseCommandLine
    \/ LoadModelLibrary
    \/ ParseIsaString
    \/ BuildModel
    \/ ParseELFAndInit
    \/ SetStopMode

\* main goes on while it can.
Safety == StartUpInit /\ [][Next]_vars
Spec == Safety /\ WF_vars(Next)

-----------------------------------------------------------------------------
(* Properties.                                                             *)

Ended == line \in {"running", "dump", "failed", "crashed"}

\* However the options are read, a program is started with the machine that
\* its command line and its executable call for, or not at all, and main gets
\* that far (parseCommandLine, addMemoryRegion, parseELFAndInit).
Promise == INSTANCE Launch WITH
    outcome <- IF Ended THEN line ELSE "starting",
    machine <- IF line = "running"
               THEN [file |-> Reader, pc |-> pc, mem |-> mem,
                     stopPC |-> stopPC, stopMode |-> stopMode]
               ELSE "none"
ImplementsLaunch == Promise!Spec

\* Every member of the options has the value that the line gives it last, and
\* its default if there is none, whatever other options, words and values
\* stand before, between and behind (getopt_long, long_options, option_index).
LastOptionWins ==
    line \notin {"options", "failed"} =>
        \A option \in OptionName : Options[option] = Promise!Asked(argv, option)

\* The functions of the model come from the file that the user named and from
\* no other; from the one in the current directory only if the default cannot
\* be opened; from the program itself only if no file can be.  Of the versions
\* that fit into a byte none but the current one gets that far; of larger ones
\* the check sees the last byte only and lets some through, which is not
\* claimed to be right (findModelLibrary, loadModelLibrary).
LibraryAsAsked ==
    table # NoLibrary =>
        LET path == Promise!Asked(argv, "ModelLib")
            tried == IF path = Dash THEN DefaultPath ELSE {path}
        IN  /\ InterfaceVersion < 256 => InterfaceVersion = CurrentVersion
            /\ \/ table = Program /\ failed = tried
               \/ path # Dash /\ table = path /\ failed = {}
               \/ path = Dash /\ table = "MODEL_PATH" /\ failed = {}
               \/ path = Dash /\ table = "./MODEL_PATH" /\ failed = {"MODEL_PATH"}
=============================================================================
