------------------------------- MODULE ElfFile -------------------------------
(***************************************************************************)
(* An executable as ELFIO, a library, shows it to parseELFAndInit.         *)
(***************************************************************************)
EXTENDS Naturals, Sequences

CONSTANTS
    File,           \* executables
    PC, Wide        \* addresses of instructions; those of more than 32 bits

\* StopPC of a program without a _sim_end label.
NoStopPC == 1

\* The parts that parseELFAndInit asks for.
AnySegment(Byte) == [type : STRING, paddr : Nat, data : Seq(Byte), memsz : Nat]
AnySection == [type : STRING, symbols : Seq([name : STRING, value : PC])]

ASSUME AddressAssumption == Wide \subseteq PC /\ NoStopPC \notin PC

\* The file can be read, is for RISC-V, and of either class.
Loadable(file) ==
    file.readable /\ file.machine = "EM_RISCV" /\ file.class \in {"ELFCLASS32", "ELFCLASS64"}

\* Of a segment, its data as far as the file holds it is written to memory.
Writes(segment) == segment.type = "PT_LOAD" /\ segment.data # <<>>
Invalid(segment) == segment.type = "PT_LOAD" /\ Len(segment.data) > segment.memsz
Bytes(segment) == {segment.paddr + k - 1 : k \in DOMAIN segment.data}

\* rvm_setPC and rvm_setStopPC refuse an address wider than the registers.
Fits(address, rv64) == rv64 \/ address \notin Wide
=============================================================================
