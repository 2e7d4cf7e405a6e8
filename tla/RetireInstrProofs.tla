-------------------------- MODULE RetireInstrProofs --------------------------
(***************************************************************************)
(* For every machine and every bound, the log of RetireInstr is the story  *)
(* of the machine and a complete document: theorems ReplayIsCorrect,       *)
(* RecordIsCorrect and LogIsWellFormed.                                    *)
(***************************************************************************)
EXTENDS RetireInstr, FiniteSetTheorems, TLAPS

\* What a program of this kind may do, without the bounds of Next.  The steps
\* of the two drivers, which have bounds of their own, are such steps, too.
Step ==
    \/ \E hasPath \in BOOLEAN : ConstructLogger(hasPath)
    \/ \E entry \in PC, image \in [Addr -> Val], stop \in PC \cup {NoStopPC},
          mode \in StopModes : PrepareModel(entry, image, stop, mode)
    \/ LeaveSetup
    \/ BeginRetire
    \/ BeginRetireThrows
    \/ ExecEffect
    \/ EndInstr
    \/ EndRetire
    \/ EndRetireThrows
    \/ \E cause \in Cause \cup {NoCause}, next \in PC : Interrupt(cause, next)
    \/ Leave
    \/ DestroyLogger

\* The bounds only restrict Next.
LEMMA NextIsStep == [Next]_vars => [Step]_vars
BY DEF Next, Step

\* Every key of a list of accesses has a last access.  The list is finite;
\* carrying the fact through the appends that build it spares an induction.
HasLast(entries) ==
    \A k \in DOMAIN entries :
        \E j \in DOMAIN entries : entries[j].key = entries[k].key /\ IsLast(entries, j)

\* Appending an access keeps every key's last access, but for the new one's.
LEMMA HasLastAppend ==
    ASSUME NEW S, NEW entries \in Seq(S), NEW e, HasLast(entries)
    PROVE  HasLast(Append(entries, e))
<1> DEFINE longer == Append(entries, e)
<1>0. /\ Len(entries) \in Nat
      /\ DOMAIN entries = 1 .. Len(entries)
      /\ DOMAIN longer = 1 .. (Len(entries) + 1)
      /\ \A j \in 1 .. Len(entries) : longer[j] = entries[j]
      /\ longer[Len(entries) + 1] = e
  OBVIOUS
<1>1. IsLast(longer, Len(entries) + 1)
  BY <1>0 DEF IsLast
<1>2. ASSUME NEW k \in DOMAIN longer
      PROVE  \E j \in DOMAIN longer : longer[j].key = longer[k].key /\ IsLast(longer, j)
  <2>1. CASE longer[k].key = e.key
    BY <2>1, <1>0, <1>1
  <2>2. CASE longer[k].key # e.key
    <3>1. k \in DOMAIN entries /\ longer[k] = entries[k]
      BY <2>2, <1>0
    <3>2. PICK j \in DOMAIN entries : entries[j].key = entries[k].key /\ IsLast(entries, j)
      BY <3>1 DEF HasLast
    <3>3. IsLast(longer, j)
      BY <3>1, <3>2, <2>2, <1>0 DEF IsLast
    <3> QED
      BY <3>1, <3>2, <3>3, <1>0
  <2> QED
    BY <2>1, <2>2
<1> QED
  BY <1>2 DEF HasLast

\* Latest is one of the listed values or the old one, and the last access
\* decides which.
LEMMA LatestIsLast ==
    ASSUME NEW entries, HasLast(entries), NEW key, NEW old
    PROVE  \/ /\ \A j \in DOMAIN entries : entries[j].key # key
              /\ Latest(entries, key, old) = old
           \/ \E j \in DOMAIN entries : /\ entries[j].key = key
                                        /\ IsLast(entries, j)
                                        /\ Latest(entries, key, old) = entries[j].data
<1>1. CASE \E k \in DOMAIN entries : entries[k].key = key
  <2>1. \E j \in DOMAIN entries : entries[j].key = key /\ IsLast(entries, j)
    BY <1>1 DEF HasLast
  <2> DEFINE last == CHOOSE j \in DOMAIN entries : entries[j].key = key /\ IsLast(entries, j)
  <2>2. last \in DOMAIN entries /\ entries[last].key = key /\ IsLast(entries, last)
    BY <2>1
  <2>3. Latest(entries, key, old) = entries[last].data
    BY <1>1 DEF Latest
  <2> QED
    BY <2>2, <2>3
<1>2. CASE ~ \E k \in DOMAIN entries : entries[k].key = key
  BY <1>2 DEF Latest
<1> QED
  BY <1>1, <1>2

-----------------------------------------------------------------------------
(* Type correctness.  Applying a record reads the last access of a list,   *)
(* so the lists' last accesses are part of the invariant.                  *)

TypeInv ==
    /\ TypeOK
    /\ HasLast(update.VReg)
    /\ HasLast(update.MemWrites)

\* The fields of the buffers and of the effects, and their elements.
LEMMA AppendType ==
    ASSUME NEW S, NEW s \in Seq(S), NEW e \in S PROVE Append(s, e) \in Seq(S)
OBVIOUS

\* What a well typed access consists of.
LEMMA AccessType ==
    ASSUME NEW K, NEW s \in Seq(Access(K))
    PROVE  \A j \in DOMAIN s : s[j].key \in K /\ s[j].data \in Val
<1> SUFFICES ASSUME NEW j \in DOMAIN s PROVE s[j].key \in K /\ s[j].data \in Val
  OBVIOUS
<1>1. s[j] \in Access(K)
  OBVIOUS
<1> QED
  BY <1>1 DEF Access

\* What a well typed StateUpdate consists of.
LEMMA UpdateFields ==
    ASSUME LoggerTypeOK
    PROVE  /\ update.GPR \in Seq(XReg)
           /\ update.FPR \in Seq(FReg)
           /\ update.VReg \in Seq(Access(VReg))
           /\ update.MemWrites \in Seq(Access(Addr))
           /\ update.MemReads \in Seq(Access(Addr))
           /\ update.CSR \in Nat
BY DEF LoggerTypeOK, StateUpdate

\* What well typed effects of an instruction consist of.
LEMMA DidFields ==
    ASSUME ModelTypeOK
    PROVE  /\ did.x \in Seq(XReg)
           /\ did.f \in Seq(FReg)
           /\ did.v \in Seq(Access(VReg))
           /\ did.writes \in Seq(Access(Addr))
           /\ did.reads \in Seq(Access(Addr))
           /\ did.csr \in Nat
BY DEF ModelTypeOK, Effects

\* A key and a value make a well typed access.
LEMMA MakeAccess ==
    ASSUME NEW K, NEW k \in K, NEW d \in Val PROVE [key |-> k, data |-> d] \in Access(K)
BY DEF Access

\* Adding to a buffer keeps it a buffer.
LEMMA NotifyTypes ==
    ASSUME TypeInv, NEW new \in StateUpdate, HasLast(new.VReg), HasLast(new.MemWrites),
           Notify(new)
    PROVE  LoggerTypeOK' /\ HasLast(update.VReg)' /\ HasLast(update.MemWrites)'
<1>1. CASE callbacks
  <2>1. update' = new /\ UNCHANGED <<file, pcBefore, fcsrBefore>>
    BY <1>1 DEF Notify
  <2> QED
    BY <2>1 DEF TypeInv, TypeOK, LoggerTypeOK
<1>2. CASE ~callbacks
  <2>1. UNCHANGED <<update, file, pcBefore, fcsrBefore>>
    BY <1>2 DEF Notify
  <2> QED
    BY <2>1 DEF TypeInv, TypeOK, LoggerTypeOK
<1> QED
  BY <1>1, <1>2

\* Cleared buffers are well typed.
LEMMA EmptyTypes == EmptyUpdate \in StateUpdate /\ NoEffects \in Effects /\ HasLast(<<>>)
BY DEF EmptyUpdate, StateUpdate, NoEffects, Effects, HasLast, Access

\* The types hold before anything is called.
LEMMA TypeInit == Init => TypeInv
<1> SUFFICES ASSUME Init PROVE TypeInv
  OBVIOUS
<1> USE DEF Init
<1>1. ModelTypeOK
  BY ValAssumption, EmptyTypes DEF ModelInit, ModelTypeOK, StopModes, Statuses
<1>2. LoggerTypeOK
  BY EmptyTypes DEF LoggerInit, LoggerTypeOK, Chunks
<1>3. replay \in ArchState
  BY <1>1 DEF ModelTypeOK, Machine, ArchState
<1>4. HasLast(update.VReg) /\ HasLast(update.MemWrites)
  BY EmptyTypes DEF LoggerInit, EmptyUpdate
<1> QED
  BY <1>1, <1>2, <1>3, <1>4 DEF TypeInv, TypeOK, Phases

\* What the log tells of a machine is a state of the machine.
LEMMA ApplyType == ASSUME TypeInv PROVE Apply(Record, replay) \in ArchState
<1> USE DEF TypeInv, TypeOK
<1>1. replay \in ArchState
  OBVIOUS
<1>2. \A r \in XReg : (IF r \in DOMAIN Record.gpr THEN Record.gpr[r] ELSE replay.x[r]) \in Val
  BY DEF Record, ArchState, ModelTypeOK
<1>3. \A r \in FReg : (IF r \in DOMAIN Record.fpr THEN Record.fpr[r] ELSE replay.f[r]) \in Val
  BY DEF Record, ArchState, ModelTypeOK
<1>4. \A r \in VReg : Latest(Record.vreg, r, replay.v[r]) \in Val
  <2> TAKE r \in VReg
  <2>1. \A j \in DOMAIN update.VReg : update.VReg[j].data \in Val
    BY UpdateFields, AccessType
  <2> QED
    BY <1>1, <2>1, LatestIsLast DEF Record, ArchState
<1>5. \A a \in Addr : Latest(Record.mem, a, replay.mem[a]) \in Val
  <2> TAKE a \in Addr
  <2>1. \A j \in DOMAIN update.MemWrites : update.MemWrites[j].data \in Val
    BY UpdateFields, AccessType
  <2> QED
    BY <1>1, <2>1, LatestIsLast DEF Record, ArchState
<1>6. (IF Record.fcsr = {} THEN replay.fcsr ELSE fcsr) \in Val
  BY DEF ArchState, ModelTypeOK
<1> QED
  BY <1>2, <1>3, <1>4, <1>5, <1>6 DEF Apply, ArchState

\* The CSR list grows, nothing else.
LEMMA CSRTypes ==
    ASSUME TypeInv, AddCSRUpdate
    PROVE  LoggerTypeOK' /\ HasLast(update.VReg)' /\ HasLast(update.MemWrites)'
<1> DEFINE n == update.CSR + 1
           new == [update EXCEPT !.CSR = n]
<1>1. update \in StateUpdate /\ HasLast(update.VReg) /\ HasLast(update.MemWrites)
  BY DEF TypeInv, TypeOK, LoggerTypeOK
<1>n. n \in Nat
  BY UpdateFields DEF TypeInv, TypeOK
<1>3. Notify(new)
  BY DEF AddCSRUpdate
<1> HIDE DEF n
<1>2. new \in StateUpdate /\ new.VReg = update.VReg /\ new.MemWrites = update.MemWrites
  BY <1>1, <1>n DEF StateUpdate
<1> HIDE DEF new
<1> QED
  BY <1>1, <1>2, <1>3, NotifyTypes

\* An effect of an instruction and its callback.
LEMMA EffectTypes == ASSUME TypeInv, ExecEffect PROVE TypeInv'
<1> USE DEF TypeInv, TypeOK, MayHaveEffect
<1>0. UNCHANGED retireVars
  BY DEF ExecEffect
<1>a. /\ update \in StateUpdate
      /\ did \in Effects
  BY DEF LoggerTypeOK, ModelTypeOK
<1>1. CASE ExecXReg
  <2>1. PICK r \in XReg, val \in Val : WriteXReg(r, val) /\ AddXRegUpdate(r)
    BY <1>1 DEF ExecXReg
  <2> DEFINE e == r
             new == [update EXCEPT !.GPR = Append(@, e)]
             doing == [did EXCEPT !.x = Append(@, e)]
  <2>2. e \in XReg
    BY <2>1, MakeAccess DEF ModelTypeOK
  <2>3. Append(update.GPR, e) \in Seq(XReg) /\ Append(did.x, e) \in Seq(XReg)
    BY <2>2, UpdateFields, DidFields, AppendType
  <2> HIDE DEF e
  <2>4. new \in StateUpdate
    BY <1>a, <2>3 DEF StateUpdate
  <2>5. doing \in Effects
    BY <1>a, <2>3 DEF Effects
  <2>6. did' = doing
    BY <2>1 DEF WriteXReg, e
  <2>7. ModelTypeOK'
    BY <2>1, <2>5, <2>6 DEF WriteXReg, ModelTypeOK, archVars, stopVars, orderVars
  <2>8. HasLast(new.VReg) /\ HasLast(new.MemWrites)
    BY <1>a DEF StateUpdate
  <2>9. Notify(new)
    BY <2>1 DEF AddXRegUpdate, e
  <2> HIDE DEF new
  <2> QED
    BY <1>0, <2>4, <2>7, <2>8, <2>9, NotifyTypes DEF retireVars
<1>2. CASE ExecFReg
  <2>1. PICK r \in FReg, val \in Val : WriteFReg(r, val) /\ AddFRegUpdate(r)
    BY <1>2 DEF ExecFReg
  <2> DEFINE e == r
             new == [update EXCEPT !.FPR = Append(@, e)]
             doing == [did EXCEPT !.f = Append(@, e)]
  <2>2. e \in FReg
    BY <2>1, MakeAccess DEF ModelTypeOK
  <2>3. Append(update.FPR, e) \in Seq(FReg) /\ Append(did.f, e) \in Seq(FReg)
    BY <2>2, UpdateFields, DidFields, AppendType
  <2> HIDE DEF e
  <2>4. new \in StateUpdate
    BY <1>a, <2>3 DEF StateUpdate
  <2>5. doing \in Effects
    BY <1>a, <2>3 DEF Effects
  <2>6. did' = doing
    BY <2>1 DEF WriteFReg, e
  <2>7. ModelTypeOK'
    BY <2>1, <2>5, <2>6 DEF WriteFReg, ModelTypeOK, archVars, stopVars, orderVars
  <2>8. HasLast(new.VReg) /\ HasLast(new.MemWrites)
    BY <1>a DEF StateUpdate
  <2>9. Notify(new)
    BY <2>1 DEF AddFRegUpdate, e
  <2> HIDE DEF new
  <2> QED
    BY <1>0, <2>4, <2>7, <2>8, <2>9, NotifyTypes DEF retireVars
<1>3. CASE ExecVReg
  <2>1. PICK r \in VReg, val \in Val, latest \in BOOLEAN :
             WriteVReg(r, val, latest) /\ AddVRegUpdate(r, val)
    BY <1>3 DEF ExecVReg
  <2> DEFINE e == [key |-> r, data |-> val]
             new == [update EXCEPT !.VReg = Append(@, e)]
             doing == [did EXCEPT !.v = Append(@, e)]
  <2>2. e \in Access(VReg)
    BY <2>1, MakeAccess DEF ModelTypeOK
  <2>3. Append(update.VReg, e) \in Seq(Access(VReg)) /\ Append(did.v, e) \in Seq(Access(VReg))
    BY <2>2, UpdateFields, DidFields, AppendType
  <2> HIDE DEF e
  <2>4. new \in StateUpdate
    BY <1>a, <2>3 DEF StateUpdate
  <2>5. doing \in Effects
    BY <1>a, <2>3 DEF Effects
  <2>6. did' = doing
    BY <2>1 DEF WriteVReg, e
  <2>7. ModelTypeOK'
    BY <2>1, <2>5, <2>6 DEF WriteVReg, Overtaken, ModelTypeOK, stopVars
  <2>8. HasLast(new.VReg) /\ HasLast(new.MemWrites)
    BY <1>a, UpdateFields, HasLastAppend DEF StateUpdate
  <2>9. Notify(new)
    BY <2>1 DEF AddVRegUpdate, e
  <2> HIDE DEF new
  <2> QED
    BY <1>0, <2>4, <2>7, <2>8, <2>9, NotifyTypes DEF retireVars
<1>4. CASE ExecStore
  <2>1. PICK a \in Addr, val \in Val, latest \in BOOLEAN :
             WriteMem(a, val, latest) /\ AddMemoryUpdate(a, val)
    BY <1>4 DEF ExecStore
  <2> DEFINE e == [key |-> a, data |-> val]
             new == [update EXCEPT !.MemWrites = Append(@, e)]
             doing == [did EXCEPT !.writes = Append(@, e)]
  <2>2. e \in Access(Addr)
    BY <2>1, MakeAccess DEF ModelTypeOK
  <2>3. Append(update.MemWrites, e) \in Seq(Access(Addr)) /\ Append(did.writes, e) \in Seq(Access(Addr))
    BY <2>2, UpdateFields, DidFields, AppendType
  <2> HIDE DEF e
  <2>4. new \in StateUpdate
    BY <1>a, <2>3 DEF StateUpdate
  <2>5. doing \in Effects
    BY <1>a, <2>3 DEF Effects
  <2>6. did' = doing
    BY <2>1 DEF WriteMem, e
  <2>7. ModelTypeOK'
    BY <2>1, <2>5, <2>6 DEF WriteMem, Overtaken, ModelTypeOK, stopVars
  <2>8. HasLast(new.VReg) /\ HasLast(new.MemWrites)
    BY <1>a, UpdateFields, HasLastAppend DEF StateUpdate
  <2>9. Notify(new)
    BY <2>1 DEF AddMemoryUpdate, e
  <2> HIDE DEF new
  <2> QED
    BY <1>0, <2>4, <2>7, <2>8, <2>9, NotifyTypes DEF retireVars
<1>5. CASE ExecLoad
  <2>1. PICK a \in Addr, val \in Val : ReadMem(a, val) /\ AddMemoryRead(a, val)
    BY <1>5 DEF ExecLoad
  <2> DEFINE e == [key |-> a, data |-> val]
             new == [update EXCEPT !.MemReads = Append(@, e)]
             doing == [did EXCEPT !.reads = Append(@, e)]
  <2>2. e \in Access(Addr)
    BY <2>1, MakeAccess DEF ModelTypeOK
  <2>3. Append(update.MemReads, e) \in Seq(Access(Addr)) /\ Append(did.reads, e) \in Seq(Access(Addr))
    BY <2>2, UpdateFields, DidFields, AppendType
  <2> HIDE DEF e
  <2>4. new \in StateUpdate
    BY <1>a, <2>3 DEF StateUpdate
  <2>5. doing \in Effects
    BY <1>a, <2>3 DEF Effects
  <2>6. did' = doing
    BY <2>1 DEF ReadMem, e
  <2>7. ModelTypeOK'
    BY <2>1, <2>5, <2>6 DEF ReadMem, ModelTypeOK, archVars, stopVars, orderVars
  <2>8. HasLast(new.VReg) /\ HasLast(new.MemWrites)
    BY <1>a DEF StateUpdate
  <2>9. Notify(new)
    BY <2>1 DEF AddMemoryRead, e
  <2> HIDE DEF new
  <2> QED
    BY <1>0, <2>4, <2>7, <2>8, <2>9, NotifyTypes DEF retireVars
<1>6. CASE ExecFCSR
  <2>1. PICK val \in Val : WriteFCSR(val) /\ AddCSRUpdate
    BY <1>6 DEF ExecFCSR
  <2> DEFINE n == did.csr + 1
  <2>2. n \in Nat /\ did' = [did EXCEPT !.csr = n]
    BY <2>1, DidFields DEF WriteFCSR
  <2> HIDE DEF n
  <2>3. did' \in Effects
    BY <1>a, <2>2 DEF Effects
  <2>4. ModelTypeOK'
    BY <2>1, <2>3 DEF WriteFCSR, ModelTypeOK, stopVars, orderVars
  <2> QED
    BY <1>0, <2>1, <2>4, CSRTypes DEF retireVars
<1> QED
  BY <1>1, <1>2, <1>3, <1>4, <1>5, <1>6 DEF ExecEffect

\* Every step keeps the types.
LEMMA TypeStep == ASSUME TypeInv, [Step]_vars PROVE TypeInv'
<1> USE DEF TypeInv, TypeOK
<1>1. ASSUME NEW hasPath \in BOOLEAN, ConstructLogger(hasPath) PROVE TypeInv'
  <2>1. "head" \in Chunks
    BY DEF Chunks
  <2>2. <<"head">> \in Seq(Chunks) /\ <<>> \in Seq(Chunks)
    BY <2>1
  <2>3. LoggerTypeOK'
    BY <1>1, <2>2 DEF ConstructLogger, Construct, LoggerTypeOK
  <2> QED
    BY <1>1, <2>3 DEF ConstructLogger, Construct, ModelTypeOK, Phases,
                      modelVars, archVars, stopVars, orderVars
<1>2. ASSUME NEW entry \in PC, NEW image \in [Addr -> Val], NEW stop \in PC \cup {NoStopPC},
             NEW mode \in StopModes, PrepareModel(entry, image, stop, mode)
      PROVE  TypeInv'
  <2>1. ModelTypeOK'
    BY <1>2 DEF PrepareModel, LoadProgram, ModelTypeOK, orderVars
  <2>2. replay' \in ArchState
    BY <1>2 DEF PrepareModel, Machine, ArchState, ModelTypeOK
  <2> QED
    BY <1>2, <2>1, <2>2 DEF PrepareModel, LoggerTypeOK, Phases, loggerVars
<1>3. CASE LeaveSetup \/ Leave
  BY <1>3 DEF LeaveSetup, Leave, ModelTypeOK, LoggerTypeOK, Phases,
              modelVars, archVars, stopVars, orderVars, loggerVars
<1>4. CASE BeginRetire
  <2>1. ModelTypeOK'
    BY <1>4, EmptyTypes DEF BeginRetire, FetchInstr, ModelTypeOK, archVars, stopVars,
                                 orderVars
  <2>2. Cleared \in StateUpdate /\ HasLast(Cleared.VReg) /\ HasLast(Cleared.MemWrites)
    BY UpdateFields, EmptyTypes DEF Cleared, EmptyUpdate, StateUpdate
  <2>3. LoggerTypeOK' /\ HasLast(update.VReg)' /\ HasLast(update.MemWrites)'
    BY <1>4, <2>2 DEF BeginRetire, LogPreRetireState, LoggerTypeOK, ModelTypeOK
  <2> QED
    BY <1>4, <2>1, <2>3 DEF BeginRetire, Phases
<1>5. CASE BeginRetireThrows
  BY <1>5 DEF BeginRetireThrows, LogPreRetireStateThrows, ModelTypeOK, LoggerTypeOK, Phases,
              modelVars, archVars, stopVars, orderVars
<1>6. CASE ExecEffect
  BY <1>6, EffectTypes
<1>7. CASE EndInstr
  <2>1. PICK next \in PC :
          \/ EndSuccess(next) /\ UNCHANGED loggerVars
          \/ EndFinish(next) /\ UNCHANGED loggerVars
          \/ \E cause \in Cause : EndException(next, cause) /\ AddCSRUpdate
    BY <1>7 DEF EndInstr
  <2>2. ModelTypeOK'
    BY <2>1 DEF EndSuccess, EndFinish, EndException, ModelTypeOK, Statuses, stopVars,
                 orderVars
  <2>3. LoggerTypeOK' /\ HasLast(update.VReg)' /\ HasLast(update.MemWrites)'
    <3>1. CASE UNCHANGED loggerVars
      BY <3>1 DEF LoggerTypeOK, loggerVars
    <3>2. CASE AddCSRUpdate
      BY <3>2, CSRTypes
    <3> QED
      BY <2>1, <3>1, <3>2
  <2> QED
    BY <1>7, <2>2, <2>3 DEF EndInstr, Phases
<1>8. CASE EndRetire
  <2>1. LoggerTypeOK'
    BY <1>8 DEF EndRetire, LogRetiredState, LoggerTypeOK, Chunks
  <2>2. replay' \in ArchState
    BY <1>8, ApplyType DEF EndRetire
  <2> QED
    BY <1>8, <2>1, <2>2 DEF EndRetire, LogRetiredState, ModelTypeOK, Phases,
                            modelVars, archVars, stopVars, orderVars
<1>9. CASE EndRetireThrows
  <2>1. LoggerTypeOK'
    BY <1>9 DEF EndRetireThrows, LogRetiredStateThrows, LoggerTypeOK, Chunks
  <2> QED
    BY <1>9, <2>1 DEF EndRetireThrows, LogRetiredStateThrows, ModelTypeOK, Phases,
                      modelVars, archVars, stopVars, orderVars
<1>10. ASSUME NEW cause \in Cause \cup {NoCause}, NEW next \in PC, Interrupt(cause, next)
       PROVE  TypeInv'
  <2>1. ModelTypeOK'
    BY <1>10 DEF Interrupt, SetInterrupt, ModelTypeOK, stopVars, orderVars
  <2> QED
    BY <1>10, <2>1, CSRTypes DEF Interrupt, retireVars
<1>11. CASE DestroyLogger
  <2>1. LoggerTypeOK'
    BY <1>11 DEF DestroyLogger, Destruct, LoggerTypeOK, Chunks
  <2> QED
    BY <1>11, <2>1 DEF DestroyLogger, Destruct, ModelTypeOK, Phases,
                       modelVars, archVars, stopVars, orderVars
<1>12. CASE UNCHANGED vars
  BY <1>12 DEF vars, ModelTypeOK, LoggerTypeOK, modelVars, archVars, stopVars, orderVars,
               loggerVars, retireVars
<1> QED
  BY <1>1, <1>2, <1>3, <1>4, <1>5, <1>6, <1>7, <1>8, <1>9, <1>10, <1>11, <1>12 DEF Step

\* Every variable of the logger and of the machine keeps its type, whatever
\* the instructions do and wherever a query of the model fails.
THEOREM TypeCorrect == Spec => []TypeOK
<1>1. Spec => []TypeInv
  BY TypeInit, TypeStep, NextIsStep, PTL DEF Spec
<1>2. TypeInv => TypeOK
  BY DEF TypeInv
<1> QED
  BY <1>1, <1>2, PTL

-----------------------------------------------------------------------------
(* The log.  While an instruction runs, the machine is what a reader of    *)
(* the log has, changed as the buffers say.                                *)

\* The access appended last decides what its key holds.
LEMMA LatestAppend ==
    ASSUME NEW S, NEW entries \in Seq(S), NEW e, HasLast(entries), NEW key, NEW old
    PROVE  Latest(Append(entries, e), key, old) =
              IF e.key = key THEN e.data ELSE Latest(entries, key, old)
<1> DEFINE longer == Append(entries, e)
<1>0. /\ Len(entries) \in Nat
      /\ DOMAIN entries = 1 .. Len(entries)
      /\ DOMAIN longer = 1 .. (Len(entries) + 1)
      /\ \A j \in 1 .. Len(entries) : longer[j] = entries[j]
      /\ longer[Len(entries) + 1] = e
  OBVIOUS
<1>1. HasLast(longer)
  BY HasLastAppend
<1> HIDE DEF longer
<1>2. \/ /\ \A j \in DOMAIN longer : longer[j].key # key
         /\ Latest(longer, key, old) = old
      \/ \E j \in DOMAIN longer : /\ longer[j].key = key
                                  /\ IsLast(longer, j)
                                  /\ Latest(longer, key, old) = longer[j].data
  BY <1>1, LatestIsLast
<1>3. CASE e.key = key
  BY <1>0, <1>2, <1>3 DEF IsLast, longer
<1>4. CASE e.key # key
  <2>1. CASE \A j \in DOMAIN entries : entries[j].key # key
    <3>1. Latest(entries, key, old) = old
      BY <2>1 DEF Latest
    <3>2. \A j \in DOMAIN longer : longer[j].key # key
      BY <1>0, <1>4, <2>1
    <3> QED
      BY <1>2, <1>4, <3>1, <3>2 DEF longer
  <2>2. CASE \E j \in DOMAIN entries : entries[j].key = key
    <3>1. PICK j \in DOMAIN entries : /\ entries[j].key = key
                                      /\ IsLast(entries, j)
                                      /\ Latest(entries, key, old) = entries[j].data
      BY <2>2, LatestIsLast
    <3>2. j \in DOMAIN longer /\ longer[j].key = key
      BY <1>0, <3>1
    <3>3. PICK k \in DOMAIN longer : /\ longer[k].key = key
                                     /\ IsLast(longer, k)
                                     /\ Latest(longer, key, old) = longer[k].data
      BY <1>2, <3>2
    <3>4. k \in DOMAIN entries /\ entries[k].key = key
      BY <1>0, <1>4, <3>3
    <3>5. ~(k > j) /\ ~(j > k)
      BY <3>1, <3>2, <3>3, <3>4 DEF IsLast
    <3>6. k = j
      BY <1>0, <3>4, <3>5
    <3> QED
      BY <1>0, <1>4, <3>1, <3>3, <3>6 DEF longer
  <2> QED
    BY <2>1, <2>2
<1> QED
  BY <1>3, <1>4

\* What a list holds after something is appended to it.
LEMMA RangeAppend ==
    ASSUME NEW S, NEW s \in Seq(S), NEW e
    PROVE  Range(Append(s, e)) = Range(s) \cup {e}
<1> DEFINE longer == Append(s, e)
<1>1. /\ Len(s) \in Nat
      /\ DOMAIN s = 1 .. Len(s)
      /\ DOMAIN longer = 1 .. (Len(s) + 1)
      /\ \A j \in 1 .. Len(s) : longer[j] = s[j]
      /\ longer[Len(s) + 1] = e
  OBVIOUS
<1>2. \A j \in DOMAIN longer : j \in DOMAIN s \/ j = Len(s) + 1
  BY <1>1
<1> HIDE DEF longer
<1> QED
  BY <1>1, <1>2 DEF Range, longer

Matches ==
    /\ callbacks => /\ replay.x = xreg
                    /\ replay.f = freg
                    /\ \A r \in VReg \ overtakenV : replay.v[r] = vreg[r]
                    /\ \A a \in Addr \ overtakenMem : replay.mem[a] = mem[a]
    /\ replay.fcsr = fcsr

\* The buffers hold what the instruction did, ...
Listed ==
    /\ update.GPR = did.x
    /\ update.FPR = did.f
    /\ update.VReg = did.v
    /\ update.MemWrites = did.writes
    /\ update.MemReads = did.reads

\* ... which is all the machine differs by from what the log has told so far,
\* but for the locations whose last report was overtaken.
XFollows == \A r \in XReg : r \notin Range(update.GPR) => xreg[r] = replay.x[r]
FFollows == \A r \in FReg : r \notin Range(update.FPR) => freg[r] = replay.f[r]
VFollows == \A r \in VReg \ overtakenV : vreg[r] = Latest(update.VReg, r, replay.v[r])
MemFollows == \A a \in Addr \ overtakenMem : mem[a] = Latest(update.MemWrites, a, replay.mem[a])

Tracks ==
    /\ fcsrBefore = replay.fcsr
    /\ callbacks => Listed /\ XFollows /\ FFollows /\ VFollows /\ MemFollows

LogInv ==
    /\ TypeInv
    /\ IsOpen /\ phase = "idle" => Matches
    /\ IsOpen /\ phase \in {"exec", "executed"} => Tracks

\* An effect and its callback keep track.
LEMMA EffectTracks ==
    ASSUME TypeInv, Tracks, ExecEffect PROVE Tracks'
<1> USE DEF MayHaveEffect, Notify
<1>0. UNCHANGED <<retireVars, file, fcsrBefore, callbacks>>
  <2>1. UNCHANGED retireVars
    BY DEF ExecEffect
  <2>2. UNCHANGED <<file, fcsrBefore, callbacks>>
    BY DEF ExecEffect, ExecXReg, ExecFReg, ExecVReg, ExecStore, ExecLoad, ExecFCSR,
           WriteXReg, WriteFReg, WriteVReg, WriteMem, ReadMem, WriteFCSR,
           AddXRegUpdate, AddFRegUpdate, AddVRegUpdate, AddMemoryUpdate, AddMemoryRead,
           AddCSRUpdate
  <2> QED
    BY <2>1, <2>2
<1>r. fcsrBefore' = replay'.fcsr
  BY <1>0 DEF Tracks, retireVars
<1>c. CASE ~callbacks
  BY <1>0, <1>c, <1>r DEF Tracks
<1>d. CASE callbacks
  <2> USE <1>d
  <2>0. /\ update \in StateUpdate /\ did \in Effects /\ replay' = replay
        /\ Listed /\ XFollows /\ FFollows /\ VFollows /\ MemFollows
        /\ ModelTypeOK /\ LoggerTypeOK
        /\ HasLast(update.VReg) /\ HasLast(update.MemWrites)
    BY <1>0 DEF Tracks, TypeInv, TypeOK, LoggerTypeOK, ModelTypeOK, retireVars
  <2> SUFFICES Listed' /\ XFollows' /\ FFollows' /\ VFollows' /\ MemFollows'
    BY <1>r DEF Tracks
  <2>1. CASE ExecXReg
    <3>1. PICK r \in XReg, val \in Val : WriteXReg(r, val) /\ AddXRegUpdate(r)
      BY <2>1 DEF ExecXReg
    <3>2. /\ update' = [update EXCEPT !.GPR = Append(@, r)]
          /\ did' = [did EXCEPT !.x = Append(@, r)]
          /\ xreg' = [xreg EXCEPT ![r] = val]
          /\ UNCHANGED <<freg, vreg, mem, overtakenV, overtakenMem>>
      BY <3>1 DEF WriteXReg, AddXRegUpdate, orderVars
    <3>3. /\ update'.GPR = Append(update.GPR, r)
          /\ update'.FPR = update.FPR
          /\ update'.VReg = update.VReg
          /\ update'.MemWrites = update.MemWrites
          /\ update'.MemReads = update.MemReads
      BY <2>0, <3>2 DEF StateUpdate
    <3>4. Listed'
      BY <2>0, <3>2, <3>3 DEF Listed, Effects
    <3>5. Range(update'.GPR) = Range(update.GPR) \cup {r}
      BY <2>0, <3>3, UpdateFields, RangeAppend
    <3>6. XFollows'
      BY <2>0, <3>2, <3>5 DEF XFollows, ModelTypeOK
    <3> QED
      BY <2>0, <3>2, <3>3, <3>4, <3>6 DEF FFollows, VFollows, MemFollows
  <2>2. CASE ExecFReg
    <3>1. PICK r \in FReg, val \in Val : WriteFReg(r, val) /\ AddFRegUpdate(r)
      BY <2>2 DEF ExecFReg
    <3>2. /\ update' = [update EXCEPT !.FPR = Append(@, r)]
          /\ did' = [did EXCEPT !.f = Append(@, r)]
          /\ freg' = [freg EXCEPT ![r] = val]
          /\ UNCHANGED <<xreg, vreg, mem, overtakenV, overtakenMem>>
      BY <3>1 DEF WriteFReg, AddFRegUpdate, orderVars
    <3>3. /\ update'.FPR = Append(update.FPR, r)
          /\ update'.GPR = update.GPR
          /\ update'.VReg = update.VReg
          /\ update'.MemWrites = update.MemWrites
          /\ update'.MemReads = update.MemReads
      BY <2>0, <3>2 DEF StateUpdate
    <3>4. Listed'
      BY <2>0, <3>2, <3>3 DEF Listed, Effects
    <3>5. Range(update'.FPR) = Range(update.FPR) \cup {r}
      BY <2>0, <3>3, UpdateFields, RangeAppend
    <3>6. FFollows'
      BY <2>0, <3>2, <3>5 DEF FFollows, ModelTypeOK
    <3> QED
      BY <2>0, <3>2, <3>3, <3>4, <3>6 DEF XFollows, VFollows, MemFollows
  <2>3. CASE ExecVReg
    <3>1. PICK r \in VReg, val \in Val, latest \in BOOLEAN :
             WriteVReg(r, val, latest) /\ AddVRegUpdate(r, val)
      BY <2>3 DEF ExecVReg
    <3> DEFINE e == [key |-> r, data |-> val]
    <3>2. /\ update' = [update EXCEPT !.VReg = Append(@, e)]
          /\ did' = [did EXCEPT !.v = Append(@, e)]
          /\ vreg' = IF latest THEN [vreg EXCEPT ![r] = val] ELSE vreg
          /\ overtakenV' = Overtaken(overtakenV, r, latest)
          /\ UNCHANGED <<xreg, freg, mem, overtakenMem>>
      BY <3>1 DEF WriteVReg, AddVRegUpdate
    <3>e. e.key = r /\ e.data = val
      OBVIOUS
    <3> HIDE DEF e
    <3>3. /\ update'.VReg = Append(update.VReg, e)
          /\ update'.GPR = update.GPR
          /\ update'.FPR = update.FPR
          /\ update'.MemWrites = update.MemWrites
          /\ update'.MemReads = update.MemReads
      BY <2>0, <3>2 DEF StateUpdate
    <3>4. Listed'
      BY <2>0, <3>2, <3>3 DEF Listed, Effects
    <3>5. \A k \in VReg : Latest(update'.VReg, k, replay.v[k]) =
                          IF e.key = k THEN e.data ELSE Latest(update.VReg, k, replay.v[k])
      BY <2>0, <3>3, UpdateFields, LatestAppend
    <3>6. ASSUME NEW k \in VReg, k \notin overtakenV'
          PROVE  vreg'[k] = Latest(update'.VReg, k, replay.v[k])
      <4>1. CASE latest
        <5>1. k = r \/ k \notin overtakenV
          BY <3>2, <3>6, <4>1 DEF Overtaken
        <5>2. vreg' = [vreg EXCEPT ![r] = val]
          BY <3>2, <4>1
        <5> QED
          BY <2>0, <3>5, <3>6, <3>e, <5>1, <5>2 DEF VFollows, ModelTypeOK
      <4>2. CASE ~latest
        <5>1. k # r /\ k \notin overtakenV /\ vreg' = vreg
          BY <3>2, <3>6, <4>2 DEF Overtaken
        <5> QED
          BY <2>0, <3>5, <3>6, <3>e, <5>1 DEF VFollows
      <4> QED
        BY <4>1, <4>2
    <3>7. VFollows'
      BY <2>0, <3>6 DEF VFollows
    <3> QED
      BY <2>0, <3>2, <3>3, <3>4, <3>7 DEF XFollows, FFollows, MemFollows
  <2>4. CASE ExecStore
    <3>1. PICK a \in Addr, val \in Val, latest \in BOOLEAN :
             WriteMem(a, val, latest) /\ AddMemoryUpdate(a, val)
      BY <2>4 DEF ExecStore
    <3> DEFINE e == [key |-> a, data |-> val]
    <3>2. /\ update' = [update EXCEPT !.MemWrites = Append(@, e)]
          /\ did' = [did EXCEPT !.writes = Append(@, e)]
          /\ mem' = IF latest THEN [mem EXCEPT ![a] = val] ELSE mem
          /\ overtakenMem' = Overtaken(overtakenMem, a, latest)
          /\ UNCHANGED <<xreg, freg, vreg, overtakenV>>
      BY <3>1 DEF WriteMem, AddMemoryUpdate
    <3>e. e.key = a /\ e.data = val
      OBVIOUS
    <3> HIDE DEF e
    <3>3. /\ update'.MemWrites = Append(update.MemWrites, e)
          /\ update'.GPR = update.GPR
          /\ update'.FPR = update.FPR
          /\ update'.VReg = update.VReg
          /\ update'.MemReads = update.MemReads
      BY <2>0, <3>2 DEF StateUpdate
    <3>4. Listed'
      BY <2>0, <3>2, <3>3 DEF Listed, Effects
    <3>5. \A k \in Addr : Latest(update'.MemWrites, k, replay.mem[k]) =
                          IF e.key = k THEN e.data ELSE Latest(update.MemWrites, k, replay.mem[k])
      BY <2>0, <3>3, UpdateFields, LatestAppend
    <3>6. ASSUME NEW k \in Addr, k \notin overtakenMem'
          PROVE  mem'[k] = Latest(update'.MemWrites, k, replay.mem[k])
      <4>1. CASE latest
        <5>1. k = a \/ k \notin overtakenMem
          BY <3>2, <3>6, <4>1 DEF Overtaken
        <5>2. mem' = [mem EXCEPT ![a] = val]
          BY <3>2, <4>1
        <5> QED
          BY <2>0, <3>5, <3>6, <3>e, <5>1, <5>2 DEF MemFollows, ModelTypeOK
      <4>2. CASE ~latest
        <5>1. k # a /\ k \notin overtakenMem /\ mem' = mem
          BY <3>2, <3>6, <4>2 DEF Overtaken
        <5> QED
          BY <2>0, <3>5, <3>6, <3>e, <5>1 DEF MemFollows
      <4> QED
        BY <4>1, <4>2
    <3>7. MemFollows'
      BY <2>0, <3>6 DEF MemFollows
    <3> QED
      BY <2>0, <3>2, <3>3, <3>4, <3>7 DEF XFollows, FFollows, VFollows
  <2>5. CASE ExecLoad
    <3>1. PICK a \in Addr, val \in Val : ReadMem(a, val) /\ AddMemoryRead(a, val)
      BY <2>5 DEF ExecLoad
    <3> DEFINE e == [key |-> a, data |-> val]
    <3>2. /\ update' = [update EXCEPT !.MemReads = Append(@, e)]
          /\ did' = [did EXCEPT !.reads = Append(@, e)]
          /\ UNCHANGED <<xreg, freg, vreg, mem, overtakenV, overtakenMem>>
      BY <3>1 DEF ReadMem, AddMemoryRead, archVars, orderVars
    <3> HIDE DEF e
    <3>3. /\ update'.MemReads = Append(update.MemReads, e)
          /\ update'.GPR = update.GPR
          /\ update'.FPR = update.FPR
          /\ update'.VReg = update.VReg
          /\ update'.MemWrites = update.MemWrites
      BY <2>0, <3>2 DEF StateUpdate
    <3>4. Listed'
      BY <2>0, <3>2, <3>3 DEF Listed, Effects
    <3> QED
      BY <2>0, <3>2, <3>3, <3>4 DEF XFollows, FFollows, VFollows, MemFollows
  <2>6. CASE ExecFCSR
    <3>1. PICK val \in Val : WriteFCSR(val) /\ AddCSRUpdate
      BY <2>6 DEF ExecFCSR
    <3>2. /\ update' = [update EXCEPT !.CSR = @ + 1]
          /\ did' = [did EXCEPT !.csr = @ + 1]
          /\ UNCHANGED <<xreg, freg, vreg, mem, overtakenV, overtakenMem>>
      BY <3>1 DEF WriteFCSR, AddCSRUpdate, orderVars
    <3>3. /\ update'.GPR = update.GPR
          /\ update'.FPR = update.FPR
          /\ update'.VReg = update.VReg
          /\ update'.MemWrites = update.MemWrites
          /\ update'.MemReads = update.MemReads
      BY <2>0, <3>2 DEF StateUpdate
    <3>4. Listed'
      BY <2>0, <3>2, <3>3 DEF Listed, Effects
    <3> QED
      BY <2>0, <3>2, <3>3, <3>4 DEF XFollows, FFollows, VFollows, MemFollows
  <2> QED
    BY <2>1, <2>2, <2>3, <2>4, <2>5, <2>6 DEF ExecEffect
<1> QED
  BY <1>c, <1>d

\* Applying the record of a tracked instruction gives the machine.
LEMMA ApplyMatches ==
    ASSUME TypeInv, Tracks
    PROVE  LET after == Apply(Record, replay) IN
           /\ callbacks => /\ after.x = xreg
                           /\ after.f = freg
                           /\ \A r \in VReg \ overtakenV : after.v[r] = vreg[r]
                           /\ \A a \in Addr \ overtakenMem : after.mem[a] = mem[a]
           /\ after.fcsr = fcsr
<1> DEFINE after == Apply(Record, replay)
<1>0. ModelTypeOK
  BY DEF TypeInv, TypeOK
<1>1. after.fcsr = fcsr
  <2>1. after.fcsr = IF Record.fcsr = {} THEN replay.fcsr ELSE fcsr
    BY DEF Apply
  <2>2. Record.fcsr = IF fcsrBefore # fcsr THEN {fcsr} ELSE {}
    BY DEF Record
  <2> QED
    BY <2>1, <2>2 DEF Tracks
<1>2. ASSUME callbacks
      PROVE  /\ after.x = xreg
             /\ after.f = freg
             /\ \A r \in VReg \ overtakenV : after.v[r] = vreg[r]
             /\ \A a \in Addr \ overtakenMem : after.mem[a] = mem[a]
  <2>1. after.x = xreg
    <3>1. after.x = [r \in XReg |-> IF r \in Range(update.GPR) THEN xreg[r] ELSE replay.x[r]]
      BY DEF Apply, Record
    <3>2. \A r \in XReg : (IF r \in Range(update.GPR) THEN xreg[r] ELSE replay.x[r]) = xreg[r]
      BY <1>2 DEF Tracks, XFollows
    <3> QED
      BY <1>0, <3>1, <3>2 DEF ModelTypeOK
  <2>2. after.f = freg
    <3>1. after.f = [r \in FReg |-> IF r \in Range(update.FPR) THEN freg[r] ELSE replay.f[r]]
      BY DEF Apply, Record
    <3>2. \A r \in FReg : (IF r \in Range(update.FPR) THEN freg[r] ELSE replay.f[r]) = freg[r]
      BY <1>2 DEF Tracks, FFollows
    <3> QED
      BY <1>0, <3>1, <3>2 DEF ModelTypeOK
  <2>3. \A r \in VReg \ overtakenV : after.v[r] = vreg[r]
    <3>1. after.v = [r \in VReg |-> Latest(update.VReg, r, replay.v[r])]
      BY DEF Apply, Record
    <3> QED
      BY <1>0, <1>2, <3>1 DEF Tracks, VFollows
  <2>4. \A a \in Addr \ overtakenMem : after.mem[a] = mem[a]
    <3>1. after.mem = [a \in Addr |-> Latest(update.MemWrites, a, replay.mem[a])]
      BY DEF Apply, Record
    <3> QED
      BY <1>0, <1>2, <3>1 DEF Tracks, MemFollows
  <2> QED
    BY <2>1, <2>2, <2>3, <2>4
<1> QED
  BY <1>1, <1>2

\* A trap adds to the CSR list and to nothing a record is made of.
LEMMA CSRTracks ==
    ASSUME TypeInv, AddCSRUpdate
    PROVE  /\ update'.GPR = update.GPR /\ update'.FPR = update.FPR
           /\ update'.VReg = update.VReg /\ update'.MemWrites = update.MemWrites
           /\ update'.MemReads = update.MemReads
           /\ UNCHANGED <<file, fcsrBefore>>
<1>1. update \in StateUpdate
  BY DEF TypeInv, TypeOK, LoggerTypeOK
<1>2. update' = [update EXCEPT !.CSR = @ + 1] \/ update' = update
  BY DEF AddCSRUpdate, Notify
<1>3. UNCHANGED <<file, fcsrBefore>>
  BY DEF AddCSRUpdate, Notify
<1> QED
  BY <1>1, <1>2, <1>3 DEF StateUpdate

\* The invariant holds before the first call: no log is open.
LEMMA LogInit == Init => LogInv
<1> SUFFICES ASSUME Init PROVE LogInv
  OBVIOUS
<1>1. TypeInv
  BY TypeInit
<1>2. ~IsOpen
  BY DEF Init, LoggerInit, IsOpen
<1> QED
  BY <1>1, <1>2 DEF LogInv

\* Every call and every effect of an instruction keeps the invariant.
LEMMA LogStep == ASSUME LogInv, [Step]_vars PROVE LogInv'
<1>0. TypeInv /\ TypeInv'
  BY TypeStep DEF LogInv
<1> SUFFICES /\ (IsOpen /\ phase = "idle" => Matches)'
             /\ (IsOpen /\ phase \in {"exec", "executed"} => Tracks)'
  BY <1>0 DEF LogInv
<1>1. ASSUME NEW hasPath \in BOOLEAN, ConstructLogger(hasPath)
      PROVE  phase' = "setup"
  BY <1>1 DEF ConstructLogger
<1>2. ASSUME NEW entry \in PC, NEW image \in [Addr -> Val], NEW stop \in PC \cup {NoStopPC},
             NEW mode \in StopModes, PrepareModel(entry, image, stop, mode)
      PROVE  Matches' /\ phase' = "idle"
  BY <1>2 DEF PrepareModel, LoadProgram, Machine, Matches
<1>3. CASE LeaveSetup \/ Leave \/ BeginRetireThrows \/ EndRetireThrows
  BY <1>3 DEF LeaveSetup, Leave, BeginRetireThrows, EndRetireThrows
<1>4. CASE BeginRetire
  <2>1. phase' = "exec"
    BY <1>4 DEF BeginRetire
  <2>2. SUFFICES ASSUME IsOpen' PROVE Tracks'
    BY <2>1
  <2>3. IsOpen /\ phase = "idle" /\ Matches
    BY <1>4, <2>2 DEF BeginRetire, LogPreRetireState, IsOpen, LogInv
  <2>4. /\ fcsrBefore' = fcsr
        /\ update' = Cleared
        /\ did' = NoEffects
        /\ UNCHANGED <<replay, xreg, freg, vreg, mem, callbacks, overtakenV, overtakenMem>>
    BY <1>4, <2>3 DEF BeginRetire, LogPreRetireState, FetchInstr, archVars, orderVars
  <2>5. /\ update'.GPR = <<>> /\ update'.FPR = <<>> /\ update'.VReg = <<>>
        /\ update'.MemWrites = <<>> /\ update'.MemReads = <<>>
    BY <2>4 DEF Cleared, EmptyUpdate
  <2>6. Listed'
    BY <2>4, <2>5 DEF Listed, NoEffects
  <2>7. \A key, old : Latest(<<>>, key, old) = old
    BY DEF Latest
  <2>8. callbacks => XFollows' /\ FFollows' /\ VFollows' /\ MemFollows'
    BY <2>3, <2>4, <2>5, <2>7 DEF Matches, XFollows, FFollows, VFollows, MemFollows
  <2> QED
    BY <2>3, <2>4, <2>6, <2>8 DEF Tracks, Matches
<1>5. CASE ExecEffect
  <2>1. phase = "exec" /\ phase' = phase
    BY <1>5 DEF ExecEffect, retireVars
  <2>2. file' = file
    BY <1>5 DEF ExecEffect, ExecXReg, ExecFReg, ExecVReg, ExecStore, ExecLoad, ExecFCSR,
                AddXRegUpdate, AddFRegUpdate, AddVRegUpdate, AddMemoryUpdate,
                AddMemoryRead, AddCSRUpdate, Notify
  <2> QED
    BY <1>0, <1>5, <2>1, <2>2, EffectTracks DEF LogInv, IsOpen
<1>6. CASE EndInstr
  <2>1. PICK next \in PC :
          \/ EndSuccess(next) /\ UNCHANGED loggerVars
          \/ EndFinish(next) /\ UNCHANGED loggerVars
          \/ \E cause \in Cause : EndException(next, cause) /\ AddCSRUpdate
    BY <1>6 DEF EndInstr
  <2>2. phase = "exec" /\ phase' = "executed" /\ replay' = replay
    BY <1>6 DEF EndInstr
  <2>3. UNCHANGED <<xreg, freg, vreg, mem, did, callbacks, overtakenV, overtakenMem>>
    BY <2>1 DEF EndSuccess, EndFinish, EndException, orderVars
  <2>4. /\ update'.GPR = update.GPR /\ update'.FPR = update.FPR
        /\ update'.VReg = update.VReg /\ update'.MemWrites = update.MemWrites
        /\ update'.MemReads = update.MemReads
        /\ UNCHANGED <<file, fcsrBefore>>
    BY <1>0, <2>1, CSRTracks DEF loggerVars
  <2>5. IsOpen => Tracks
    BY <2>2 DEF LogInv
  <2>6. Tracks => Tracks'
    BY <2>2, <2>3, <2>4 DEF Tracks, Listed, XFollows, FFollows, VFollows, MemFollows
  <2> QED
    BY <2>2, <2>4, <2>5, <2>6 DEF IsOpen
<1>7. CASE EndRetire
  <2>1. phase = "executed" /\ phase' = "idle"
    BY <1>7 DEF EndRetire
  <2>2. SUFFICES ASSUME IsOpen' PROVE Matches'
    BY <2>1
  <2>3. IsOpen
    BY <1>7, <2>2 DEF EndRetire, LogRetiredState, IsOpen
  <2>4. Tracks
    BY <2>1, <2>3 DEF LogInv
  <2>5. /\ replay' = Apply(Record, replay)
        /\ UNCHANGED <<xreg, freg, vreg, mem, fcsr, callbacks, overtakenV, overtakenMem>>
    BY <1>7, <2>3 DEF EndRetire, modelVars, archVars, orderVars
  <2> QED
    BY <1>0, <2>4, <2>5, ApplyMatches DEF Matches
<1>8. ASSUME NEW cause \in Cause \cup {NoCause}, NEW next \in PC, Interrupt(cause, next)
      PROVE  (IsOpen => Matches)' /\ phase' = "idle"
  <2>1. /\ phase = "idle" /\ UNCHANGED <<phase, replay>>
        /\ UNCHANGED <<xreg, freg, vreg, mem, fcsr, callbacks, overtakenV, overtakenMem>>
    BY <1>8 DEF Interrupt, SetInterrupt, retireVars, orderVars
  <2>2. file' = file
    BY <1>0, <1>8, CSRTracks DEF Interrupt
  <2> QED
    BY <2>1, <2>2 DEF LogInv, IsOpen, Matches
<1>9. CASE DestroyLogger
  BY <1>9 DEF DestroyLogger
<1>10. CASE UNCHANGED vars
  <2>1. UNCHANGED <<phase, replay, file, fcsrBefore, update, xreg, freg, vreg, mem, fcsr,
                    did, callbacks, overtakenV, overtakenMem>>
    BY <1>10 DEF vars, modelVars, archVars, orderVars, loggerVars, retireVars
  <2> QED
    BY <2>1 DEF LogInv, IsOpen, Matches, Tracks, Listed, XFollows, FFollows, VFollows, MemFollows
<1> QED
  BY <1>1, <1>2, <1>3, <1>4, <1>5, <1>6, <1>7, <1>8, <1>9, <1>10 DEF Step

\* The invariant holds throughout, whatever the program around retireInstr does.
LEMMA LogInvariant == Spec => []LogInv
BY LogInit, LogStep, NextIsStep, PTL DEF Spec

\* Between two instructions a reader of the log has the registers and the
\* memory of the model, whatever the instructions were, however many, and in
\* whatever order they called the callbacks, except for the vectors and the
\* memory locations whose last report was not their last update.
THEOREM ReplayIsCorrect == Spec => []ReplayMatches
<1>1. LogInv => ReplayMatches
  BY DEF LogInv, ReplayMatches, Matches
<1> QED
  BY <1>1, LogInvariant, PTL

\* A record lists what its own instruction reported, all of it and in the order
\* of the callbacks, and nothing else.
THEOREM RecordIsCorrect == Spec => []RecordFaithful
<1>1. ASSUME LogInv PROVE RecordFaithful
  <2> SUFFICES ASSUME IsOpen, phase = "executed", callbacks
               PROVE  /\ Record.mem = did.writes
                      /\ Record.memReads = did.reads
                      /\ Record.vreg = did.v
                      /\ DOMAIN Record.gpr = Range(did.x)
                      /\ DOMAIN Record.fpr = Range(did.f)
                      /\ Record.fcsr # {} <=> fcsr # replay.fcsr
    BY DEF RecordFaithful
  <2>1. Listed /\ fcsrBefore = replay.fcsr
    BY <1>1 DEF LogInv, Tracks
  <2>2. Record.fcsr # {} <=> fcsr # replay.fcsr
    <3>1. Record.fcsr = IF fcsrBefore # fcsr THEN {fcsr} ELSE {}
      BY DEF Record
    <3> QED
      BY <2>1, <3>1
  <2> QED
    BY <2>1, <2>2 DEF Listed, Record
<1> QED
  BY <1>1, LogInvariant, PTL

-----------------------------------------------------------------------------
(* The shape of the log.                                                   *)

\* How many records the document log holds.
RecordsIn(log) == Cardinality({k \in DOMAIN log : log[k] = "record"})

\* Appending a chunk leaves the others where they are and counts one record
\* more if it is one.
LEMMA RecordsAppend ==
    ASSUME NEW log \in Seq(Chunks), NEW chunk \in Chunks
    PROVE  /\ RecordsIn(log) \in Nat
           /\ RecordsIn(Append(log, chunk)) =
                 IF chunk = "record" THEN RecordsIn(log) + 1 ELSE RecordsIn(log)
<1> DEFINE at(s) == {k \in DOMAIN s : s[k] = "record"}
           longer == Append(log, chunk)
           n == Len(log) + 1
<1>1. /\ Len(log) \in Nat
      /\ DOMAIN log = 1 .. Len(log)
      /\ DOMAIN longer = 1 .. n
      /\ \A k \in 1 .. Len(log) : longer[k] = log[k]
      /\ longer[n] = chunk
  OBVIOUS
<1>2. IsFiniteSet(1 .. Len(log))
  BY <1>1, FS_Interval
<1>3. IsFiniteSet(at(log)) /\ Cardinality(at(log)) \in Nat
  <2>1. at(log) \in SUBSET (1 .. Len(log))
    BY <1>1
  <2> QED
    BY <1>2, <2>1, FS_Subset, FS_CardinalityType
<1>4. at(longer) = IF chunk = "record" THEN at(log) \cup {n} ELSE at(log)
  <2>1. \A k : k \in 1 .. n <=> k \in 1 .. Len(log) \/ k = n
    BY <1>1
  <2> HIDE DEF longer, n
  <2> QED
    BY <1>1, <2>1
<1>5. n \notin at(log)
  BY <1>1
<1> HIDE DEF at, n, longer
<1>6. /\ RecordsIn(log) = Cardinality(at(log))
      /\ RecordsIn(longer) = Cardinality(at(longer))
  BY DEF RecordsIn, at
<1>7. Cardinality(at(log) \cup {n}) = Cardinality(at(log)) + 1
  BY <1>3, <1>5, FS_AddElement
<1> QED
  BY <1>3, <1>4, <1>6, <1>7 DEF longer

\* The first chunk is the head, and there is one record for each instruction
\* that was logged.  Inside an instruction its record is not there yet; after
\* the program left, one may be missing.
Counted ==
    /\ phase \in {"setup", "idle", "exec"} => RecordsIn(file) = retired
    /\ phase = "executed" => RecordsIn(file) = retired - 1
    /\ phase \in {"leaving", "end"} => RecordsIn(file) \in {retired, retired - 1}

\* Torn chunks and the tail are written by those who leave.
Ordered ==
    /\ file[1] = "head"
    /\ \A k \in DOMAIN file :
          /\ file[k] = "head" <=> k = 1
          /\ file[k] = "tail" <=> k = Len(file) /\ phase = "end"
          /\ file[k] = "torn" => /\ phase \in {"leaving", "end"}
                                 /\ \A j \in DOMAIN file : j > k => file[j] = "tail"

ShapeInv ==
    /\ TypeInv
    /\ phase \in {"start", "setup"} => retired = 0
    /\ phase = "start" => ~IsOpen
    /\ IsOpen => Ordered /\ Counted

\* Before the constructor of the logger there is no file to have a shape.
LEMMA ShapeInit == Init => ShapeInv
BY TypeInit DEF Init, LoggerInit, IsOpen, ShapeInv

\* Writing a chunk at the end, in a phase where it may come.
LEMMA OrderedAppend ==
    ASSUME TypeInv, IsOpen, Ordered, NEW chunk \in Chunks, file' = Append(file, chunk),
           phase # "end", chunk # "head",
           \A k \in DOMAIN file : file[k] = "torn" => chunk = "tail",
           chunk = "torn" => phase' = "leaving",
           chunk = "tail" <=> phase' = "end",
           phase = "leaving" => phase' \in {"leaving", "end"}
    PROVE  IsOpen' /\ Ordered'
<1> DEFINE n == Len(file) + 1
<1>1. /\ Len(file) \in Nat \ {0}
      /\ DOMAIN file = 1 .. Len(file)
      /\ DOMAIN file' = 1 .. n
      /\ Len(file') = n
      /\ \A k \in 1 .. Len(file) : file'[k] = file[k]
      /\ file'[n] = chunk
  BY DEF TypeInv, TypeOK, LoggerTypeOK, IsOpen
<1>2. \A k \in 1 .. n : k \in 1 .. Len(file) \/ k = n
  BY <1>1
<1>3. IsOpen' /\ file'[1] = "head"
  BY <1>1 DEF IsOpen, Ordered
<1>4. ASSUME NEW k \in 1 .. n
      PROVE  /\ file'[k] = "head" <=> k = 1
             /\ file'[k] = "tail" <=> k = n /\ phase' = "end"
             /\ file'[k] = "torn" => /\ phase' \in {"leaving", "end"}
                                     /\ \A j \in 1 .. n : j > k => file'[j] = "tail"
  <2>1. CASE k = n
    BY <1>1, <2>1
  <2>2. CASE k \in 1 .. Len(file)
    <3>1. k \in DOMAIN file /\ file'[k] = file[k] /\ k # n
      BY <1>1, <2>2
    <3>2. /\ file[k] = "head" <=> k = 1
          /\ file[k] # "tail"
          /\ file[k] = "torn" => /\ phase = "leaving"
                                 /\ \A j \in DOMAIN file : j > k => file[j] = "tail"
      BY <3>1 DEF Ordered
    <3>3. ASSUME file[k] = "torn", NEW j \in 1 .. n, j > k PROVE file'[j] = "tail"
      BY <1>1, <1>2, <3>1, <3>2, <3>3
    <3> QED
      BY <3>1, <3>2, <3>3
  <2> QED
    BY <1>2, <2>1, <2>2
<1> QED
  BY <1>1, <1>3, <1>4 DEF Ordered

\* Every step keeps the shape.
LEMMA ShapeStep == ASSUME ShapeInv, [Step]_vars PROVE ShapeInv'
<1>0. TypeInv /\ TypeInv'
  BY TypeStep DEF ShapeInv
<1>t. /\ file \in Seq(Chunks) /\ retired \in Nat /\ phase \in Phases
      /\ {"head", "record", "torn", "tail"} = Chunks
  BY <1>0 DEF TypeInv, TypeOK, LoggerTypeOK, Chunks
<1>r. RecordsIn(file) \in Nat /\ \A chunk \in Chunks :
         RecordsIn(Append(file, chunk)) =
            IF chunk = "record" THEN RecordsIn(file) + 1 ELSE RecordsIn(file)
  BY <1>t, RecordsAppend
<1>s. phase' = "start" => phase = "start" /\ file' = file
  BY DEF Step, vars, retireVars, loggerVars, ConstructLogger, PrepareModel, LeaveSetup,
         BeginRetire, BeginRetireThrows, ExecEffect, EndInstr, EndRetire, EndRetireThrows,
         Interrupt, Leave, DestroyLogger
<1> SUFFICES /\ phase' \in {"start", "setup"} => retired' = 0
             /\ IsOpen' => Ordered' /\ Counted'
  BY <1>0, <1>s DEF ShapeInv, IsOpen
<1>1. ASSUME NEW hasPath \in BOOLEAN, ConstructLogger(hasPath)
      PROVE  retired' = 0 /\ (IsOpen' => Ordered' /\ Counted')
  <2>1. retired' = 0 /\ phase' = "setup"
    BY <1>1 DEF ConstructLogger, ShapeInv
  <2>2. SUFFICES ASSUME IsOpen' PROVE Ordered' /\ Counted'
    BY <2>1
  <2>3. file' = <<"head">>
    BY <1>1, <2>2 DEF ConstructLogger, Construct, IsOpen
  <2>4. DOMAIN file' = {1} /\ Len(file') = 1 /\ file'[1] = "head"
    BY <2>3
  <2>5. {k \in DOMAIN file' : file'[k] = "record"} = {}
    BY <2>4
  <2>6. RecordsIn(file') = 0
    BY <2>5, FS_EmptySet DEF RecordsIn
  <2> QED
    BY <2>1, <2>4, <2>6 DEF Ordered, Counted
<1>2. ASSUME NEW entry \in PC, NEW image \in [Addr -> Val], NEW stop \in PC \cup {NoStopPC},
             NEW mode \in StopModes, PrepareModel(entry, image, stop, mode)
      PROVE  phase' = "idle" /\ (IsOpen' => Ordered' /\ Counted')
  BY <1>2 DEF PrepareModel, loggerVars, ShapeInv, IsOpen, Ordered, Counted
<1>3. CASE LeaveSetup \/ Leave
  BY <1>3 DEF LeaveSetup, Leave, loggerVars, ShapeInv, IsOpen, Ordered, Counted
<1>4. CASE BeginRetire \/ BeginRetireThrows
  BY <1>4 DEF BeginRetire, BeginRetireThrows, LogPreRetireState, LogPreRetireStateThrows,
              ShapeInv, IsOpen, Ordered, Counted
<1>5. CASE ExecEffect
  <2>1. UNCHANGED <<phase, retired>>
    BY <1>5 DEF ExecEffect, retireVars
  <2>2. file' = file
    BY <1>5 DEF ExecEffect, ExecXReg, ExecFReg, ExecVReg, ExecStore, ExecLoad, ExecFCSR,
                AddXRegUpdate, AddFRegUpdate, AddVRegUpdate, AddMemoryUpdate,
                AddMemoryRead, AddCSRUpdate, Notify
  <2> QED
    BY <2>1, <2>2 DEF ShapeInv, IsOpen, Ordered, Counted
<1>6. CASE EndInstr
  <2>1. phase = "exec" /\ phase' = "executed" /\ retired' = retired + 1
    BY <1>6 DEF EndInstr
  <2>2. file' = file
    BY <1>6 DEF EndInstr, AddCSRUpdate, Notify, loggerVars
  <2> QED
    BY <1>t, <2>1, <2>2 DEF ShapeInv, IsOpen, Ordered, Counted
<1>7. CASE EndRetire
  <2>1. phase = "executed" /\ phase' = "idle" /\ retired' = retired
    BY <1>7 DEF EndRetire
  <2>2. SUFFICES ASSUME IsOpen' PROVE Ordered' /\ Counted'
    BY <2>1
  <2>3. IsOpen /\ file' = Append(file, "record")
    BY <1>7, <2>2 DEF EndRetire, LogRetiredState, IsOpen
  <2>4. Ordered /\ Counted
    BY <2>3 DEF ShapeInv
  <2>5. \A k \in DOMAIN file : file[k] # "torn"
    BY <2>1, <2>4 DEF Ordered
  <2>6. Ordered'
    BY <1>0, <1>t, <2>1, <2>3, <2>4, <2>5, OrderedAppend
  <2> QED
    BY <1>t, <1>r, <2>1, <2>3, <2>4, <2>6 DEF Counted
<1>8. CASE EndRetireThrows
  <2>1. /\ phase = "executed" /\ phase' = "leaving" /\ retired' = retired
        /\ IsOpen
        /\ file' = file \/ file' = Append(file, "torn")
    BY <1>8 DEF EndRetireThrows, LogRetiredStateThrows
  <2>2. Ordered /\ Counted
    BY <2>1 DEF ShapeInv
  <2>3. CASE file' = file
    BY <2>1, <2>2, <2>3 DEF Ordered, Counted
  <2>4. CASE file' = Append(file, "torn")
    <3>1. \A k \in DOMAIN file : file[k] # "torn"
      BY <2>1, <2>2 DEF Ordered
    <3>2. Ordered'
      BY <1>0, <1>t, <2>1, <2>2, <2>4, <3>1, OrderedAppend
    <3> QED
      BY <1>t, <1>r, <2>1, <2>2, <2>4, <3>2 DEF Counted
  <2> QED
    BY <2>1, <2>3, <2>4
<1>9. ASSUME NEW cause \in Cause \cup {NoCause}, NEW next \in PC, Interrupt(cause, next)
      PROVE  phase' = "idle" /\ (IsOpen' => Ordered' /\ Counted')
  <2>1. phase = "idle" /\ UNCHANGED <<phase, retired, file>>
    BY <1>9 DEF Interrupt, AddCSRUpdate, Notify, retireVars
  <2> QED
    BY <2>1 DEF ShapeInv, IsOpen, Ordered, Counted
<1>10. CASE DestroyLogger
  <2>1. phase = "leaving" /\ phase' = "end" /\ retired' = retired
    BY <1>10 DEF DestroyLogger
  <2>2. SUFFICES ASSUME IsOpen' PROVE Ordered' /\ Counted'
    BY <2>1
  <2>3. IsOpen /\ file' = Append(file, "tail")
    BY <1>10, <2>2 DEF DestroyLogger, Destruct, IsOpen
  <2>4. Ordered /\ Counted
    BY <2>3 DEF ShapeInv
  <2>5. Ordered'
    BY <1>0, <1>t, <2>1, <2>3, <2>4, OrderedAppend
  <2> QED
    BY <1>t, <1>r, <2>1, <2>3, <2>4, <2>5 DEF Counted
<1>11. CASE UNCHANGED vars
  BY <1>11 DEF vars, loggerVars, retireVars, ShapeInv, IsOpen, Ordered, Counted
<1> QED
  BY <1>1, <1>2, <1>3, <1>4, <1>5, <1>6, <1>7, <1>8, <1>9, <1>10, <1>11 DEF Step

\* The parts of the invariant that a reader of the log sees.
LEMMA ShapeOfLog == ShapeInv => LogShape
BY DEF ShapeInv, Ordered, Counted, LogShape, Records, RecordsIn

\* Whatever happens on the way, the log is one document with a head, a record
\* for each instruction but for one whose logging threw, and a tail as soon as
\* the logger is gone, with nothing but the tail behind a torn record.
THEOREM LogIsWellFormed == Spec => []LogShape
BY ShapeInit, ShapeStep, NextIsStep, ShapeOfLog, PTL DEF Spec
=============================================================================
