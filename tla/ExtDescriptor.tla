---------------------------- MODULE ExtDescriptor ----------------------------
(***************************************************************************)
(* RVMExtDescriptor and the functions on it: normalize_extensions and      *)
(* create_isa_string of RVM.hpp, parse_isa_string of DriverUtils.hpp.      *)
(*                                                                         *)
(* A descriptor is the set of the extensions that are set in its arrays,   *)
(* by their lowercase names, and the sizes that say how much of the arrays *)
(* whoever filled it in knows of.  An ISA string is what its text says:    *)
(* the bitness, the single letters and the names between underscores, in   *)
(* their order; its case is lost when it is parsed.                        *)
(***************************************************************************)
EXTENDS Integers, SequencesExt

\* RVM_FOR_EACH_MISA_EXT, in its order.
Misa == <<"i", "e", "g", "m", "a", "f", "d", "q", "l", "c", "b", "t", "p",
          "v", "h", "j", "k", "n", "o", "r", "s", "u", "w", "x", "y", "z">>

\* RVM_FOR_EACH_ZEXT, _SEXT and _XEXT in their order, without most of the
\* extensions that no rule is about ("zawrs" and "sstc" stand for those).
Standard == <<"zicsr", "zifencei", "zawrs", "zca", "zcf", "zcd", "zba", "zbb",
              "zbc", "zbs", "zbitmanip", "zbkb", "zbkc", "zbkx", "zvkb", "zvbc",
              "zvkned", "zvknhb", "zvkg", "zvksed", "zvksh", "zvkt", "zvkn",
              "zvknc", "zvkng", "zvks", "zvksc", "zvksg", "zknd", "zkne", "zknh",
              "zksed", "zksh", "zkr", "zkn", "zks", "zk", "zkt">>
Privileged == <<"sha", "shcounterenw", "shgatpa", "shtvala", "shvsatpa",
                "shvstvala", "shvstvecd", "sstc", "svrsw60t59b", "svbare", "sv32",
                "sv39", "sv48", "sv57", "ssstateen">>
Custom == <<"xempty">>
Multi == Standard \o Privileged \o Custom
Extensions == ToSet(Misa) \cup ToSet(Multi)

\* The sizes of RVM_INIT_EXT_DESCRIPTOR: all that there is at present.
Sizes == [ZExtSize : 0 .. Len(Standard), SExtSize : 0 .. Len(Privileged),
          XExtSize : 0 .. Len(Custom)]
InitSizes == [ZExtSize |-> Len(Standard), SExtSize |-> Len(Privileged),
              XExtSize |-> Len(Custom)]

\* The names within the sizes; the letters have no size.
Within(sizes) == ToSet(SubSeq(Standard, 1, sizes.ZExtSize))
                   \cup ToSet(SubSeq(Privileged, 1, sizes.SExtSize))
                   \cup ToSet(SubSeq(Custom, 1, sizes.XExtSize))

-----------------------------------------------------------------------------
(* normalize_extensions: it copies the sizes and does not look at them.    *)

Composite(whole, parts) == [whole |-> whole, parts |-> parts]

\* In the order in which they are replaced.
Composites ==
    <<Composite("g", {"i", "m", "a", "f", "d", "zifencei", "zicsr"}),
      Composite("zkn", {"zbkb", "zbkc", "zbkx", "zkne", "zknd", "zknh"}),
      Composite("zks", {"zbkb", "zbkc", "zbkx", "zksed", "zksh"}),
      Composite("zk", {"zkn", "zkr", "zkt"}),
      Composite("zbitmanip", {"zba", "zbb", "zbc", "zbs"}),
      Composite("zvkn", {"zvkned", "zvknhb", "zvkb", "zvkt"}),
      Composite("zvknc", {"zvkn", "zvbc"}),
      Composite("zvkng", {"zvkn", "zvkg"}),
      Composite("zvks", {"zvksed", "zvksh", "zvkb", "zvkt"}),
      Composite("zvksc", {"zvks", "zvbc"}),
      Composite("zvksg", {"zvks", "zvkg"}),
      Composite("sha", {"h", "ssstateen", "shcounterenw", "shvstvala", "shtvala",
                        "shvstvecd", "shvsatpa", "shgatpa"})>>

Expand(ext, c) == IF c.whole \in ext THEN (ext \ {c.whole}) \cup c.parts ELSE ext

\* I is selected over E.
SelectI(ext) == IF "i" \in ext THEN ext \ {"e"} ELSE ext

\* The subsets of C that make up the whole of it.
ImpliesC(ext, rv64) ==
    /\ "zca" \in ext
    /\ \/ "f" \notin ext
       \/ {"zcf", "f"} \subseteq ext /\ ~rv64
       \/ {"zcf", "zcd", "d"} \subseteq ext /\ ~rv64
       \/ {"zcd", "d"} \subseteq ext /\ rv64
WithC(ext, rv64) == IF ImpliesC(ext, rv64) THEN ext \cup {"c"} ELSE ext

\* Mutation: only the first composite is replaced.
NormalizeElseIf(ext, rv64) ==
    LET k == SelectInSeq(Composites, LAMBDA c : c.whole \in ext)
        chosen == SelectI(ext)
    IN  WithC(IF k = 0 THEN chosen ELSE Expand(chosen, Composites[k]), rv64)

normalize_extensions(ext, rv64) ==
    WithC(FoldLeft(Expand, SelectI(ext), Composites), rv64)

-----------------------------------------------------------------------------
(* create_isa_string                                                       *)

ReservedLetters == {"s", "x", "z"}
TranslationModes == {"svbare", "sv32", "sv39", "sv48", "sv57", "svrsw60t59b"}
Unwritten == ReservedLetters \cup TranslationModes

\* Every extension of a list in turn is appended if it is set.
InOrder(order, ext) ==
    LET upTo[k \in 0 .. Len(order)] ==
            IF k = 0 THEN <<>>
            ELSE IF order[k] \in ext THEN Append(upTo[k - 1], order[k])
            ELSE upTo[k - 1]
    IN  upTo[Len(order)]

\* Mutation: the reserved letters are written as well.
CreateWithReserved(ext, sizes, rv64) ==
    LET norm == normalize_extensions(ext, rv64)
    IN  [bits |-> IF rv64 THEN 64 ELSE 32,
         letters |-> InOrder(Misa, norm),
         names |-> InOrder(Multi, (norm \ TranslationModes) \cap Within(sizes))]

\* Mutation: the sizes are not looked at.
CreateBeyondSizes(ext, sizes, rv64) ==
    LET norm == normalize_extensions(ext, rv64) \ Unwritten
    IN  [bits |-> IF rv64 THEN 64 ELSE 32,
         letters |-> InOrder(Misa, norm),
         names |-> InOrder(Multi, norm)]

create_isa_string(ext, sizes, rv64) ==
    LET norm == normalize_extensions(ext, rv64) \ Unwritten
    IN  [bits |-> IF rv64 THEN 64 ELSE 32,
         letters |-> InOrder(Misa, norm),
         names |-> InOrder(Multi, norm \cap Within(sizes))]

-----------------------------------------------------------------------------
(* parse_isa_string                                                        *)

Listed(isa) == ToSet(isa.letters) \cup ToSet(isa.names)

\* The letters are strictly in the order of the enumeration.  A character
\* that is no letter, as the digits of a version, is passed over.
Ordered(letters) ==
    LET Rank(e) == SelectInSeq(Misa, LAMBDA m : m = e)
    IN  \A j, k \in DOMAIN letters :
            j < k /\ {letters[j], letters[k]} \subseteq ToSet(Misa) =>
                Rank(letters[j]) < Rank(letters[k])

\* A reserved letter starts a name, one that is not in any list.
WellFormed(isa) ==
    /\ isa.bits \in {32, 64}
    /\ Ordered(isa.letters)
    /\ ToSet(isa.letters) \cap ReservedLetters = {}
    /\ ToSet(isa.names) \subseteq ToSet(Multi)

\* With nothing after the bitness, more is removed from the string view than
\* it holds.
ParsesPastEnd(isa) == isa.bits \in {32, 64} /\ isa.letters = <<>> /\ isa.names = <<>>

parse_isa_string(isa) ==
    normalize_extensions(Listed(isa) \cap Extensions, isa.bits = 64)

Accepts(isa) ==
    /\ WellFormed(isa)
    /\ ~ParsesPastEnd(isa)
    /\ {"i", "e"} \cap parse_isa_string(isa) # {}
=============================================================================
