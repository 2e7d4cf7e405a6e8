---------------------------- MODULE DriverOptions ----------------------------
(***************************************************************************)
(* The options of the drivers: their names, their default values, and the  *)
(* elements of a command line.                                             *)
(*                                                                         *)
(* An element is "--name=value", "--name", a plain word or the separator   *)
(* "--"; which one shows in the fields that are not None.  A name may be   *)
(* abbreviated; one that is unknown or ambiguous is Odd.  A member of      *)
(* DriverOptions has the name of its option.  Values are texts; Number     *)
(* gives those that std::stoull accepts the number they stand for.         *)
(***************************************************************************)
EXTENDS Naturals, Sequences, SequencesExt, FiniteSetsExt

CONSTANTS
    None,           \* no name, no value, or an empty option
    Word,           \* values and plain words of the command line
    Number,         \* [a subset of Word -> Nat]
    Rv32Isa, Rv64Isa,   \* the words that are ISA strings of either bitness
    DefaultMemStart, DefaultMemSize     \* kDefaultMemStart, kDefaultMemSize

ASSUME NumberAssumption ==
    /\ DOMAIN Number \subseteq Word
    /\ \A word \in DOMAIN Number : Number[word] \in Nat
ASSUME IsaAssumption == Rv32Isa \subseteq Word /\ Rv64Isa \subseteq Word
ASSUME DefaultAssumption == DefaultMemStart \in Nat /\ DefaultMemSize \in Nat

\* An unknown option; and the text of an element that begins with --, which is
\* an odd value for any option.
Odd == "--..."
Dash == "-"

\* What an option that is neither a number nor a flag may hold.
Text == Word \cup {None, Odd, Dash, "none", "rvm.log"}

SimOptions == <<"DebugLogPath", "ModelLogPath", "ExecFile", "IsaStringOverride",
                "StopMode">>
ExtOpts == <<"ModelLib", "AllowExceptions", "OutputState", "JsonExecLog",
             "RomStart", "RomSize", "RamStart", "RamSize",
             "ClearInterrupt", "NumStepsBeforeInt">>

\* The rows of D_RVM_OPTIONS come first.
long_options == SimOptions \o ExtOpts
OptionName == ToSet(long_options)
NumberOption == {"RomStart", "RomSize", "RamStart", "RamSize", "NumStepsBeforeInt"}

DriverOptions ==
    [option \in OptionName |->
        CASE option \in {"RomStart", "RamStart"} -> DefaultMemStart
          [] option \in {"RomSize", "RamSize"} -> DefaultMemSize
          [] option = "NumStepsBeforeInt" -> 9
          [] option \in {"ModelLib", "OutputState"} -> Dash
          [] option = "AllowExceptions" -> "none"
          [] option = "ModelLogPath" -> "rvm.log"
          [] option = "ClearInterrupt" -> FALSE
          [] OTHER -> None]

\* No text is the absence of one, and none is unknown and known.
ASSUME NameAssumption == None \notin OptionName \cup {Odd}

Element == [name : OptionName \cup {None, Odd}, value : Word \cup {None}]
IsWord(e) == e.name = None /\ e.value # None
IsSeparator(e) == e.name = None /\ e.value = None
TakesNext(e) == e.name \in OptionName /\ e.value = None
TextOf(e) == IF IsWord(e) THEN e.value ELSE Odd

\* What addMemoryRegion makes of start and size; the model merges regions that
\* intersect.
Region(start, size) == start .. start + size - 1
=============================================================================
