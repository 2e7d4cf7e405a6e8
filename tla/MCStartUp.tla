------------------------------ MODULE MCStartUp ------------------------------
(* StartUp for TLC: command lines and executables. *)
EXTENDS StartUp

Option(name, value) == [name |-> name, value |-> value]

\* Options with and without a value in the same element, words that may be
\* such a value or not, the separator, and an option there is not.
MCElements ==
    {Option("ModelLib", None), Option("ModelLib", "lib.so"),
     Option("ExecFile", "a.elf"), Option("ExecFile", None),
     Option("RomStart", "0"), Option("RomSize", "a.elf"),
     Option("StopMode", "AtLabel"), Option("IsaStringOverride", "rv32i"),
     Option("ClearInterrupt", None),
     Option(None, "lib.so"), Option(None, None), Option(Odd, None)}
MCCommandLines == UNION {[1 .. n -> MCElements] : n \in 0 .. 3}

MCNumber == [word \in {"0"} |-> 0]

Segment(type, paddr, data, memsz) ==
    [type |-> type, paddr |-> paddr, data |-> data, memsz |-> memsz]
MCSegments ==
    {Segment("PT_LOAD", 1, <<1>>, 1), Segment("PT_LOAD", 1, <<2, 3>>, 3),
     Segment("PT_LOAD", 0, <<4, 4>>, 2), Segment("PT_NOTE", 1, <<5>>, 1)}
OddSegments ==
    {Segment("PT_LOAD", 0, <<>>, 2), Segment("PT_LOAD", 1, <<6, 6>>, 1)}

Table(type, symbols) == [type |-> type, symbols |-> symbols]
Symbol(name, value) == [name |-> name, value |-> value]
End == <<Table("SHT_SYMTAB", <<Symbol("other", 8), Symbol("_sim_end", 4)>>)>>
MCSections ==
    {<<>>, <<Table("SHT_SYMTAB", <<>>)>>,
     <<Table("other", <<>>),
       Table("SHT_SYMTAB", <<Symbol("_sim_end", 8), Symbol("_sim_end", 4)>>)>>,
     <<Table("SHT_DYNSYM", <<Symbol("other", 4)>>),
       Table("SHT_SYMTAB", <<Symbol("_sim_end", 8)>>)>>,
     <<Table("SHT_SYMTAB", <<Symbol("_sim_end", 64)>>)>>}

Executable(class, entry, segments, sections) ==
    [readable |-> TRUE, machine |-> "EM_RISCV", class |-> class, entry |-> entry,
     segments |-> segments, sections |-> sections]
Plain == Executable("ELFCLASS64", 4, <<>>, End)
MCFile ==
    {[Plain EXCEPT !.segments = segments] :
        segments \in UNION {[1 .. n -> MCSegments] : n \in 0 .. 2}
                       \cup {<<segment>> : segment \in OddSegments}}
      \cup {[Plain EXCEPT !.sections = sections] : sections \in MCSections}
      \cup {Executable("ELFCLASS32", 64, <<>>, End),
            [Plain EXCEPT !.readable = FALSE], [Plain EXCEPT !.machine = "EM_386"],
            [Plain EXCEPT !.class = "ELFCLASSNONE"]}
=============================================================================
