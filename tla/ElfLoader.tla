------------------------------ MODULE ElfLoader ------------------------------
(***************************************************************************)
(* parseELFAndInit: an ELF file is read, the segments are written into the *)
(* memory of the model one by one, and the address of the symbol _sim_end  *)
(* becomes the stop address.                                               *)
(*                                                                         *)
(* Reader is the file as ELFIO (a library) shows it.                       *)
(***************************************************************************)
EXTENDS ElfFile, FiniteSetsExt

CONSTANTS
    Addr, Byte, Zero,   \* the memory of the model, and what it holds at first
    NoFile

ASSUME ByteAssumption == Zero \in Byte
ASSUME FileAssumption ==
    /\ NoFile \notin File
    /\ \A file \in File :
          /\ file.entry \in PC
          /\ file.segments \in Seq(AnySegment(Byte))
          /\ file.sections \in Seq(AnySection)

\* Where the program counter of a new model is does not matter.
ResetPC == 0

VARIABLES
    Reader,         \* the file, NoFile before it was read
    seg,            \* the segment to be looked at next
    pc, mem, stopPC \* of the model

loaderVars == <<Reader, seg>>
modelVars == <<pc, mem, stopPC>>

LoaderTypeOK ==
    /\ Reader \in File \cup {NoFile}
    /\ seg \in Nat
    /\ pc \in PC \cup {ResetPC}
    /\ mem \in [Addr -> Byte]
    /\ stopPC \in PC \cup {ResetPC, NoStopPC}

LoaderInit ==
    /\ Reader = NoFile
    /\ seg = 1
    /\ pc = ResetPC
    /\ mem = [a \in Addr |-> Zero]
    /\ stopPC = ResetPC

Load(rv64) ==
    /\ Reader = NoFile
    /\ \E file \in File :
          /\ Loadable(file) /\ Fits(file.entry, rv64)
          /\ Reader' = file
          /\ pc' = file.entry
    /\ UNCHANGED <<seg, mem, stopPC>>

LoadThrows(rv64) ==
    /\ Reader = NoFile
    /\ \E file \in File : ~Loadable(file) \/ ~Fits(file.entry, rv64)
    /\ UNCHANGED <<loaderVars, modelVars>>

-----------------------------------------------------------------------------
(* One round of the loop over the segments.                                *)

InSegments == Reader # NoFile /\ seg <= Len(Reader.segments)
Seg == Reader.segments[seg]

\* rvm_writeMem of the first count bytes of a segment.
Written(segment, count) ==
    [a \in Addr |-> IF a \in segment.paddr .. segment.paddr + count - 1
                    THEN segment.data[a - segment.paddr + 1] ELSE mem[a]]

WriteSegment(accessible) ==
    /\ InSegments /\ ~Invalid(Seg)
    /\ Writes(Seg) => Bytes(Seg) \subseteq accessible
    /\ mem' = IF Writes(Seg) THEN Written(Seg, Len(Seg.data)) ELSE mem
    /\ seg' = seg + 1
    /\ UNCHANGED <<Reader, pc, stopPC>>

\* A segment outside the regions of the model may be written in part.
WriteSegmentThrows(accessible) ==
    /\ InSegments
    /\ \/ Invalid(Seg) /\ UNCHANGED mem
       \/ /\ ~Invalid(Seg) /\ Writes(Seg) /\ ~(Bytes(Seg) \subseteq accessible)
          /\ \E count \in 0 .. Len(Seg.data) - 1 :
                /\ Bytes([Seg EXCEPT !.data = SubSeq(@, 1, count)]) \subseteq accessible
                /\ mem' = Written(Seg, count)
    /\ UNCHANGED <<loaderVars, pc, stopPC>>

-----------------------------------------------------------------------------
(* The search for _sim_end in the first symbol table of either kind.       *)

SegmentsDone == Reader # NoFile /\ seg > Len(Reader.segments)

\* The sections that the search for a table stops at.
Tables(file) ==
    {k \in DOMAIN file.sections : file.sections[k].type \in {"SHT_SYMTAB", "SHT_DYNSYM"}}

\* Mutation: the search goes on to the last of them.
LastSymbolTable(file) == file.sections[Max(Tables(file))]

SymbolTable(file) == file.sections[Min(Tables(file))]

\* The loop over the symbols is left at the first of that name.
LeftAt(symbols, k) ==
    symbols[k].name = "_sim_end" /\ \A j \in 1 .. k - 1 : symbols[j].name # "_sim_end"
FirstEnd(symbols) ==
    IF \E k \in DOMAIN symbols : LeftAt(symbols, k)
    THEN symbols[CHOOSE k \in DOMAIN symbols : LeftAt(symbols, k)].value
    ELSE NoStopPC

SetStopPC(rv64) ==
    /\ SegmentsDone
    /\ Tables(Reader) # {}
    /\ LET StopPC == FirstEnd(SymbolTable(Reader).symbols)
       IN  Fits(StopPC, rv64) /\ stopPC' = StopPC
    /\ UNCHANGED <<loaderVars, pc, mem>>

SetStopPCThrows(rv64) ==
    /\ SegmentsDone
    /\ Tables(Reader) # {}
    /\ ~Fits(FirstEnd(SymbolTable(Reader).symbols), rv64)
    /\ UNCHANGED <<loaderVars, modelVars>>

\* Without a table the end iterator is dereferenced.
NoTable ==
    /\ SegmentsDone
    /\ Tables(Reader) = {}
    /\ UNCHANGED <<loaderVars, modelVars>>
=============================================================================
