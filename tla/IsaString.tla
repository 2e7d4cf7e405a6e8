------------------------------ MODULE IsaString ------------------------------
(***************************************************************************)
(* The way of an ISA configuration through a program and its model: a      *)
(* driver parses the string it is given into a descriptor and adds the     *)
(* translation modes, or a program fills in a descriptor by itself; the    *)
(* model makes a string of it for its own use, and the string may be       *)
(* parsed again, as the unit tests do.                                     *)
(***************************************************************************)
EXTENDS ExtDescriptor

CONSTANTS
    Descriptors,        \* the extensions a program enables, one by one
    KnownSizes,         \* the sizes it gives, by the interface it was built with
    Letters, Names,     \* of the strings a user gives
    MaxLetters,         \* bound: their length
    MaxPasses           \* bound: strings made of one descriptor

ASSUME DescriptorsAssumption ==
    Descriptors \subseteq Extensions /\ KnownSizes \subseteq Sizes

ASSUME MaxPassesAssumption == MaxPasses \in Nat

VARIABLES
    form,               \* what there is: see Forms
    ext, sizes, rv64,   \* Exts, IsRV64
    isa,                \* the string made or given last
    passes              \* history: strings made so far

vars == <<form, ext, sizes, rv64, isa, passes>>

Forms == {"descriptor", "string", "rejected", "undefined"}

Strings == [bits : {32, 64, 0},     \* 0: none, or not supported
            letters : SeqOf(Letters, MaxLetters),
            names : SeqOf(Names, 1)]
NoString == [bits |-> 0, letters |-> <<>>, names |-> <<>>]

IsaTypeOK ==
    /\ form \in Forms
    /\ ext \subseteq Extensions
    /\ sizes \in Sizes
    /\ rv64 \in BOOLEAN
    /\ isa.bits \in {32, 64, 0}
    /\ form = "descriptor" /\ passes > 0 => isa.bits = IF rv64 THEN 64 ELSE 32
    /\ passes \in 0 .. MaxPasses

IsaInit ==
    /\ passes = 0
    /\ \/ /\ form = "descriptor"
          /\ ext \in SUBSET Descriptors
          /\ sizes \in KnownSizes
          /\ rv64 \in BOOLEAN
          /\ isa = NoString
       \/ /\ form = "string"
          /\ ext = {}
          /\ sizes = InitSizes
          /\ rv64 = TRUE
          /\ isa \in Strings

-----------------------------------------------------------------------------
Create ==
    /\ form = "descriptor"
    /\ passes < MaxPasses
    /\ form' = "string"
    /\ isa' = create_isa_string(ext, sizes, rv64)
    /\ passes' = passes + 1
    /\ UNCHANGED <<ext, sizes, rv64>>

\* Mutation: the bitness of the string is not looked at.
ParseAs64 ==
    /\ form = "string"
    /\ Accepts(isa)
    /\ form' = "descriptor"
    /\ ext' = parse_isa_string(isa)
    /\ sizes' = InitSizes
    /\ rv64' = TRUE
    /\ UNCHANGED <<isa, passes>>

Parse ==
    /\ form = "string"
    /\ Accepts(isa)
    /\ form' = "descriptor"
    /\ ext' = parse_isa_string(isa)
    /\ sizes' = InitSizes
    /\ rv64' = (isa.bits = 64)
    /\ UNCHANGED <<isa, passes>>

ParseThrows ==
    /\ form = "string"
    /\ ~Accepts(isa)
    /\ form' = "rejected"
    /\ UNCHANGED <<ext, sizes, rv64, isa, passes>>

\* A checked string view stops the program.
ParseAborts ==
    /\ form = "string"
    /\ ParsesPastEnd(isa)
    /\ form' = "undefined"
    /\ UNCHANGED <<ext, sizes, rv64, isa, passes>>

\* What both drivers enable, whatever the string said.
AddTranslation ==
    /\ form = "descriptor"
    /\ LET modes == IF rv64 THEN {"sv39", "sv48", "sv57"} ELSE {"sv32"}
       IN  ext' = (ext \ {"sv32", "sv39", "sv48", "sv57"}) \cup modes \cup {"s"}
    /\ UNCHANGED <<form, sizes, rv64, isa, passes>>

IsaNext == Create \/ Parse \/ ParseThrows \/ ParseAborts \/ AddTranslation

IsaSpec == IsaInit /\ [][IsaNext]_vars

-----------------------------------------------------------------------------
(* What a set of extensions means, whatever way it is written.             *)

Wholes == {Composites[k].whole : k \in DOMAIN Composites}
PartsOf(e) ==
    UNION {Composites[k].parts : k \in {j \in DOMAIN Composites : Composites[j].whole = e}}
Opened(s) == (s \ Wholes) \cup UNION {PartsOf(e) : e \in s \cap Wholes}

\* No composite is nested deeper than two.
Meaning(s, wide) == WithC(SelectI(Opened(Opened(s))), wide) \ Unwritten

\* What is set beyond the sizes is not enabled.
Enabled == ext \cap (ToSet(Misa) \cup Within(sizes))

Subject == IF form = "descriptor" THEN Meaning(Enabled, rv64)
           ELSE Meaning(Listed(isa) \cap Extensions, isa.bits = 64)

\* The sizes do not part a composite from its parts, and nothing is set beyond
\* them that a rule looks at.
Uncut ==
    /\ Opened(Opened(Enabled)) \subseteq ToSet(Misa) \cup Within(sizes)
    /\ (ext \ Enabled) \cap (Wholes \cup {"zca", "zcf", "zcd"}) = {}

\* However often a configuration is turned into a string and back, and
\* whatever composites are left in it on the way, it goes on to mean the same
\* set of basic extensions, of which none is set beyond the sizes
\* (normalize_extensions, create_isa_string, parse_isa_string).
MeaningKept == [][Uncut => Subject' = Subject]_vars

\* From the second string on, a string is made that has been made before: the
\* composites a pass leaves behind are gone after one more.
Settles == [][passes >= 2 /\ passes' # passes => isa' = isa]_vars

\* A string the library made of a descriptor with a base is one the drivers
\* accept: letters in order, nothing unknown, I or E among them.
CreatedIsAccepted ==
    form \in {"rejected", "undefined"} /\ passes > 0 =>
        {"i", "e", "g"} \cap ext = {}

-----------------------------------------------------------------------------
(* What the documentation, a comment and a message of the code say.        *)

\* Composite extensions are automatically expanded by create_isa_string
\* (docs/using.md:193): no string it made names one.
NoCompositesLeft == form = "string" /\ passes > 0 => Listed(isa) \cap Wholes = {}

\* I is selected over E if both are available (RVM.hpp:45): no parsed
\* descriptor and no string has both.
IOverE ==
    /\ form = "descriptor" /\ passes > 0 => ~({"i", "e"} \subseteq ext)
    /\ form = "string" /\ passes > 0 => ~({"i", "e"} \subseteq Listed(isa))

\* The order that the message about misplaced letters asks for
\* (DriverUtils.hpp:333).
MessageOrder == <<"i", "m", "a", "f", "d", "g", "q", "c", "b", "p", "v", "h">>

\* A string whose letters are in that order is not rejected.
MessageOrderAccepted ==
    form = "rejected" /\ ToSet(isa.letters) \subseteq ToSet(MessageOrder)
      /\ isa.bits \in {32, 64} /\ isa.names = <<>> /\ "i" \in ToSet(isa.letters)
      => isa.letters # InOrder(MessageOrder, ToSet(isa.letters))
=============================================================================
