--------------------------- MODULE ExecutionLogger ---------------------------
(***************************************************************************)
(* ExecutionLogger and StateUpdate of DriverUtils: the buffers the plugin's *)
(* callbacks fill while an instruction runs, and the JSON log written from *)
(* them when it has retired.                                               *)
(*                                                                         *)
(* The log file is the sequence of the chunks written to it: the "head" of *)
(* the document, a "record" per retired instruction, a "torn" record that  *)
(* an exception cut short, and the "tail".  What a record says is the      *)
(* operator Record, evaluated when it is written.                          *)
(***************************************************************************)
EXTENDS RVMModel, Functions

CONSTANT Unset          \* kUninitializedValue

VARIABLES
    file,               \* OS: <<>> as long as no log file is open
    pcBefore, fcsrBefore,
    update              \* Update, a StateUpdate

loggerVars == <<file, pcBefore, fcsrBefore, update>>

Chunks == {"head", "record", "torn", "tail"}

StateUpdate == [GPR : Seq(XReg), FPR : Seq(FReg), VReg : Seq(Access(VReg)),
                MemWrites : Seq(Access(Addr)), MemReads : Seq(Access(Addr)),
                CSR : Nat]      \* the CSR list is never read: its length

EmptyUpdate == [GPR |-> <<>>, FPR |-> <<>>, VReg |-> <<>>,
                MemWrites |-> <<>>, MemReads |-> <<>>, CSR |-> 0]

LoggerTypeOK ==
    /\ file \in Seq(Chunks)
    /\ pcBefore \in PC \cup {Unset}
    /\ fcsrBefore \in Val \cup {Unset}
    /\ update \in StateUpdate

LoggerInit ==
    /\ file = <<>>
    /\ pcBefore = Unset
    /\ fcsrBefore = Unset
    /\ update = EmptyUpdate

IsOpen == file # <<>>

-----------------------------------------------------------------------------
(* Construction, with and without a log path, and destruction.             *)

Construct(hasPath) ==
    /\ file' = IF hasPath THEN <<"head">> ELSE <<>>
    /\ UNCHANGED <<pcBefore, fcsrBefore, update>>

\* Mutation: a log without records is left as it is.
DestructIfUsed ==
    /\ file' = IF Len(file) > 1 THEN Append(file, "tail") ELSE file
    /\ UNCHANGED <<pcBefore, fcsrBefore, update>>

Destruct ==
    /\ file' = IF IsOpen THEN Append(file, "tail") ELSE file
    /\ UNCHANGED <<pcBefore, fcsrBefore, update>>

-----------------------------------------------------------------------------
(* The callbacks.  A plugin without callback support calls none of them.   *)

Notify(newUpdate) ==
    /\ update' = IF callbacks THEN newUpdate ELSE update
    /\ UNCHANGED <<file, pcBefore, fcsrBefore>>

AddXRegUpdate(r) == Notify([update EXCEPT !.GPR = Append(@, r)])

\* Mutation: the floating point callback fills the list of the other file.
AddFRegUpdateToGPR(r) == Notify([update EXCEPT !.GPR = Append(@, r)])
AddFRegUpdate(r) == Notify([update EXCEPT !.FPR = Append(@, r)])
AddVRegUpdate(r, val) ==
    Notify([update EXCEPT !.VReg = Append(@, [key |-> r, data |-> val])])

\* Mutation: an address already in the list is not listed again.
AddMemoryUpdateOnce(a, val) ==
    Notify(IF \E j \in DOMAIN update.MemWrites : update.MemWrites[j].key = a
           THEN update
           ELSE [update EXCEPT !.MemWrites = Append(@, [key |-> a, data |-> val])])
AddMemoryUpdate(a, val) ==
    Notify([update EXCEPT !.MemWrites = Append(@, [key |-> a, data |-> val])])
AddMemoryRead(a, val) ==
    Notify([update EXCEPT !.MemReads = Append(@, [key |-> a, data |-> val])])
AddCSRUpdate == Notify([update EXCEPT !.CSR = @ + 1])

-----------------------------------------------------------------------------
(* Before and after an instruction.  Either stops at the first query the   *)
(* model answers with an error, which is thrown at the caller.             *)

\* Mutation: the memory accesses are not cleared.
ClearedRegisters ==
    [EmptyUpdate EXCEPT !.CSR = update.CSR, !.MemReads = update.MemReads,
                        !.MemWrites = update.MemWrites]

\* StateUpdate::clear forgets everything but the CSR list.
Cleared == [EmptyUpdate EXCEPT !.CSR = update.CSR]

\* Mutation: only the first instruction sets the PC.
LogPreRetireStateOnce ==
    /\ IF IsOpen THEN /\ pcBefore' = IF pcBefore = Unset THEN pc ELSE pcBefore
                      /\ fcsrBefore' = fcsr
                      /\ update' = Cleared
                 ELSE UNCHANGED <<pcBefore, fcsrBefore, update>>
    /\ UNCHANGED file

LogPreRetireState ==
    /\ IF IsOpen THEN /\ pcBefore' = pc
                      /\ fcsrBefore' = fcsr
                      /\ update' = Cleared
                 ELSE UNCHANGED <<pcBefore, fcsrBefore, update>>
    /\ UNCHANGED file

LogPreRetireStateThrows ==
    /\ IsOpen
    /\ pcBefore' = pc
    /\ UNCHANGED <<file, fcsrBefore, update>>

\* Mutation: the registers a trapping instruction wrote are left out.
RecordUnlessTrapped ==
    [pcBefore |-> pcBefore,
     pcAfter  |-> pc,
     gpr      |-> IF status = "EXCEPTION" THEN <<>>
                  ELSE [r \in Range(update.GPR) |-> xreg[r]],
     fpr      |-> [r \in Range(update.FPR) |-> freg[r]],
     vreg     |-> update.VReg,
     mem      |-> update.MemWrites,
     memReads |-> update.MemReads,
     fcsr     |-> IF fcsrBefore # fcsr THEN {fcsr} ELSE {}]

\* Registers are listed by the callbacks and read back from the model;
\* vectors and memory are what the callbacks were given.
Record ==
    [pcBefore |-> pcBefore,
     pcAfter  |-> pc,
     gpr      |-> [r \in Range(update.GPR) |-> xreg[r]],
     fpr      |-> [r \in Range(update.FPR) |-> freg[r]],
     vreg     |-> update.VReg,
     mem      |-> update.MemWrites,
     memReads |-> update.MemReads,
     fcsr     |-> IF fcsrBefore # fcsr THEN {fcsr} ELSE {}]

\* Mutation: an instruction without updates has no record.
LogRetiredStateIfUpdated ==
    /\ file' = IF IsOpen /\ update.GPR # <<>> THEN Append(file, "record") ELSE file
    /\ UNCHANGED <<pcBefore, fcsrBefore, update>>

LogRetiredState ==
    /\ file' = IF IsOpen THEN Append(file, "record") ELSE file
    /\ UNCHANGED <<pcBefore, fcsrBefore, update>>

\* FCSR is read before the record is begun, registers in the middle of it.
LogRetiredStateThrows ==
    /\ IsOpen
    /\ \/ UNCHANGED file
       \/ /\ update.GPR # <<>> \/ update.FPR # <<>>
          /\ file' = Append(file, "torn")
    /\ UNCHANGED <<pcBefore, fcsrBefore, update>>
=============================================================================
