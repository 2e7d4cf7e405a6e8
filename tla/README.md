# RVM in TLA+

RVM is an interface between a program and a RISC-V simulator: a C header
(`RVM.h`, `VTable.h`) that a plugin implements, a C++ wrapper (`RVM.hpp`), and two
drivers, `Driver.cpp` and `InterruptDriver.cpp`, that load a plugin, load an ELF
file, retire instructions one by one while callbacks fill a log, and report the
result by a log, a state file and an exit status. This directory holds TLA+
specifications of the parts with behaviour, the TLC configurations that check
them on small instances, and proofs for TLAPS. Paths below are relative to the
repository.

## Inventory

| Part | State | Operations | Interacts with |
|---|---|---|---|
| Simulator (plugin, outside the repository) | registers, memory, CSRs, stop mode and address | executeInstr, reads and writes, raise and clear of interrupts, create, destroy | calls the callbacks from inside executeInstr |
| `ExecutionLogger`, `StateUpdate` (`src/DriverUtils.*`) | output file, `PCBefore`, `FCSRBefore`, the buffers of one instruction | constructor, `logPreRetireState`, the six `add...` callbacks, `logRetiredState`, destructor | queries the model before and after an instruction; both halves may throw |
| `retireInstr` | none of its own | pre-retire, executeInstr, post-retire | joins logger and model |
| `Driver.cpp` | options, step counter, `ExecSuccess` | options, library, log, build, load, loop, dump, return, handler | all of the above |
| `InterruptDriver.cpp` | the same, without an exception policy | two loops with a raise between them and a clear in the second | all of the above |
| `parseELFAndInit` | memory, PC and stop address of the model, segment by segment | reads the file, writes segments, looks for `_sim_end` | model, ELFIO |
| `dumpState` | none | reads every register | model |
| `RVMExtDescriptor` and ISA strings (`RVM.hpp`, `DriverUtils.hpp`) | the enabled extensions and the sizes of their arrays | `normalize_extensions`, `create_isa_string`, `parse_isa_string` | the drivers parse, the plugin creates |
| `State`, `State::Builder` (`RVM.hpp`) | the configuration and the strings it points to | setters, moves, build, error context | plugin |
| `parseCommandLine` (`DriverUtils.*`, `SimulatorOptions.hpp`) | the options, the place in `argv` | one round per element | `getopt_long`, both drivers |
| `loadModelLibrary` | handle, version, table of functions | search with fallback, version check, lookup | dynamic linker |
| `rvm_strerror`, `PrintUtils.hpp`, `Utils.hpp` | none | tables and formatting | |

Nothing in the repository runs concurrently. What makes the code hard is the
order of things inside one thread: callbacks that run inside `executeInstr` and
fill buffers that are read after it, queries that fail between any two of these
steps, objects destroyed by unwinding, a counter that tells budget from stop
condition, conversions that are applied on both sides of an interface, a program
that is written into memory piece by piece, and a configuration made of pointers
into objects that move.
PROJECT.json lists each of these hazards at its line, with the property that
would show it going wrong or the reason why there is none.

What makes each part correct:

* logger: whoever applies the records one after the other has the registers and
  memory of the model, as far as the model reports its updates in order; a record tells of its own instruction only; the document is
  closed on every way out;
* drivers: the exit status tells a run that ended properly from any other, and an
  exception always shows in it; nothing
  is executed after a stop; every run ends; the log and the state file agree;
* interrupt driver: a pending interrupt is seen by one instruction if it is to be
  cleared, and a successful run has seen the end of the program after the raise;
* extensions: conversions keep the meaning of a configuration, are accepted by the
  other side, and settle;
* start-up: options mean what the whole command line says, the plugin is the one the
  user named, and a program is run from a complete image or not at all;
* builder: what a model is created with is what the setters were asked for, through
  every growth, move and destruction of the objects the configuration points into.

## Modules

| Module | Models |
|---|---|
| `RVMModel` | the contract of the plugin, as the drivers use it (external) |
| `ExecutionLogger` | `StateUpdate`, `ExecutionLogger`, the callbacks |
| `RetireInstr` | `retireInstr` and the most general program around it |
| `DriverMain` | what both mains share: before, after and one call of `retireInstr` |
| `Driver`, `InterruptDriver` | the two mains |
| `SimulatorRun` | abstract specification: what a run promises its user |
| `ExtDescriptor` | the three functions on extension descriptors |
| `IsaString` | the way of a configuration through parse, create and the drivers |
| `DriverOptions` | the options, their defaults, the elements of a command line |
| `CommandLine` | `parseCommandLine` |
| `ModelLibrary` | `loadLibrary`, `findModelLibrary`, `loadModelLibrary` |
| `ElfFile`, `ElfLoader` | executables, `parseELFAndInit` |
| `StartUp` | either main from its command line to its first instruction |
| `Launch` | abstract specification: what a command line promises its user |
| `StateBuilder` | `State::Builder` and the heap its members share |
| `RetireInstrProofs` | theorems about `RetireInstr`: replay, records and the shape of the log |
| `DriverMainProofs` | what the statements shared by both mains keep, and that they take steps of `SimulatorRun` |
| `DriverProofs`, `InterruptDriverProofs` | theorems about the two mains |
| `StartUpProofs` | what the loop of `parseCommandLine` keeps; theorems about `StartUp` |
| `ExtensionProofs` | what a pass of `normalize_extensions` does, what a string holds |
| `IsaStringProofs` | theorems about `IsaString` |
| `StateBuilderProofs` | theorems about `StateBuilder` |
| `MC...` | instances for TLC |

`ExecutionLogger` extends `RVMModel`; `RetireInstr` extends that and joins, in each
`Exec...` action, an effect of the instruction with the callback registered for it.
`DriverMain` extends `RetireInstr` with the locals of main, and the two mains extend
`DriverMain`. `DriverMain` instantiates `SimulatorRun` with the refinement mapping
`Abstract`. `StartUp` extends `CommandLine` (with `DriverOptions`), `ModelLibrary` and
`ElfLoader` (with `ElfFile`) and instantiates `Launch`, which shares with it the
two modules of constants only: which symbol table and which label count, what is a value, and what
the image is, `Launch` says by itself, and of the very file that was read. `DriverMain` takes all of `StartUp` in four steps; that
it may do so, with any program in memory or none, is what `StartUp` implementing `Launch` shows.
`StateBuilder` stands alone.

State and actions against the code:

* `line` is the statement main is about to execute, `phase` where it stands with
  respect to logger and model. `Throws(l)` is any exception a statement can raise; it leads to
  `"unwind"`, where `LeaveMain` destroys model and logger, and then to the handler.
* `file` is the JSON document as a sequence of chunks: the head the constructor
  writes, a record per instruction, a torn record where a register query threw in
  the middle of one, the tail the destructor writes. What a record says is the
  operator `Record`, evaluated as it is written: registers are read back from the
  model, vectors and memory are what the callbacks were given.
* The order of callbacks is "implementation-defined" (`docs/implementation.md:183`). The logger's
  callbacks append to lists and do nothing else, so that their order matters in one case: an
  instruction that updates a vector register or memory location twice may report the earlier
  update last. `ExecVReg` and `ExecStore` therefore have both kinds of report, the `latest` one
  and the late one of a value of the past (general registers are read back and are not
  concerned), and a load may report any value. The history variables `overtakenV` and
  `overtakenMem` hold the locations whose last report is of the second kind; `ReplayMatches` and
  `StateMatchesLog` exclude them, since no reader of the log can know better.
* `update` is `StateUpdate`. The CSR list, which nothing reads and
  `clear` forgets to clear, is kept as its length; `Update.PC` and `Update.FCSR` are
  written and read within `logRetiredState` and left out.
* Every query of the model may fail. Where several queries are indistinguishable
  afterwards (all of `dumpState`, say) they are one action.
* History variables, named as such: `did` (what the current instruction has reported),
  `overtakenV`, `overtakenMem`,
  `replay` (the machine as a reader of the log has it), `retired`, `chainPC` (`pc_after` of the
  last record), `raisedPC` (where `raiseInterrupt` left the pc), `pending`, `passes`.
* A descriptor is the set of extensions set in its arrays and the three sizes that say how
  much of the arrays counts; a string is its bitness, its sequence of letters and
  its sequence of names. Extensions no rule mentions are represented by `zawrs` and `sstc`.
* An element of a command line is a name with or without a value, a word, or `--`.
  `optind` and `Options` are those of the code. `getopt_long` goes on behind words, as it
  does unless `POSIXLY_CORRECT` is set.
* The version symbol is read as one byte (`DriverUtils.cpp:139`), so that a plugin with version 294 passes the
  check against 38; the run has that version, and the plugin is taken. `docs/implementation.md:266` says that the value serves to "verify ABI
  compatibility", but nothing declares the type of the symbol. `LibraryAsAsked` therefore claims of versions no more
  than that none but 38 passes among those of one byte.
* Whether a file can be opened and which symbols and version it has is chosen when the
  dynamic linker is asked, so that one file may fail and the next succeed.
* An executable is what ELFIO shows: whether it can be read, machine, class, entry,
  segments, sections with their symbols. `seg` is the iterator over the segments.
  A segment outside the memory of the model fails after any accessible part of it was written.
* A pointer of the builder's configuration is a block of the heap, the buffer inside a builder,
  or null. Blocks belong to the member that owns them, are of three sizes (list
  node, array, long text), and a freed one is the first to be handed out again, so that a
  dangling pointer may find somebody else's data. Of every size there is one block more than all
  builders can own (`Slot` counts the members of a builder that may own one), so that an
  allocation always succeeds. Strings and their moves are those of
  libstdc++: short texts lie in the object, long ones in a block. An array that grows
  may stay or move. `asked` is a history variable: what the setters were asked for.
  An object that was moved from is only assigned to or destroyed.

Simplifications that a reader should know of: state the plugin does
not show through the calls the drivers make is not modelled; the status values are
those of the enumeration, so the branch for an unknown status in `Driver.cpp:105-108` and the
test `result < 0` of `InterruptDriver.cpp` have no action; the text of log, state
file and messages is not modelled.

## Runs

| Run | Checks | Bounds |
|---|---|---|
| `retire_instr` | `TypeOK`, `ReplayMatches`, `RecordFaithful`, `LogShape` | one location of every kind, two values, two instructions of up to two effects |
| `driver` | `ExitCode`, `StateMatchesLog`, `RecordsChain`, `NoStepAfterStop`, `ExceptionFails`, `Termination`, `ImplementsSimulatorRun` | one register, two values, two addresses, two causes (one of them a breakpoint), a budget of two steps |
| `interrupt_driver` | `ClearingRunFinishes`, `RecordsChainButAtRaise`, `PendingForOneInstr`, `ExceptionFails`, `Termination`, `ImplementsSimulatorRun` | `max_step` 2, up to 3 steps before the interrupt, no effects |
| `isa_string` | `CreatedIsAccepted`, `MeaningKept`, `Settles` | all subsets of 12 extensions, two interface versions, strings of up to three letters and a name, three passes |
| `start_up` | `LastOptionWins`, `LibraryAsAsked`, `ImplementsLaunch` | command lines of up to 3 of 12 elements, some 30 executables of up to two segments and two symbol tables, three bytes of memory, versions 37, 38 and 294 |
| `state_builder` | `RegionsAsAsked`, `PathUnlessShortMoved` | two builders, up to two regions each, one short and one long path |
| `no_symbol_table`, `interrupt_not_cleared`, `composites_left`, `i_over_e`, `message_order`, `moved_short_path` | one statement of a comment, a doc or a message each, which TLC finds violated | those of the run of the same module |

Why the bounds are enough. The logger carries something from one instruction to
the next only through its buffers, so the second instruction shows whatever the
first one may do to it; two effects make one location be written twice or two
kinds be written. Kinds of locations do not interact, so one location of each does.
The mains distinguish the first step, a later one and the one that uses up the
budget; the budget is a parameter. In `interrupt_driver` the number of steps before the
interrupt reaches `max_step` and passes it, which in the code takes an option of a million or more, so
that the equality test after the loops is met from both sides. Composites nest two
deep, so that three passes show a change after the second. The lists of the older
interface version end before `zk` and in the middle of the parts of `sha`. What one element
of a command line does to the next ends with that one, so that three elements show an
option, what it swallows, and what is read after it; the elements are chosen so that an
executable and an ISA string, or a region, can be given together. Segments overlap in whole
and in part and lie inside, across and outside the regions. Two builders are the source and the target of a move,
with the source in any state after it.

`MaxInstr`, `MaxInterrupts`, `MaxEffects`, `MaxBefore`, `MaxLetters`, `MaxPasses`, `MaxRegions` and the
length of `CommandLines` are bounds of the models. `MAX_ALLOWED_STEPS` and `max_step` are constants of the code with smaller values.
Deadlock is checked for `state_builder`; every other one of these programs stops.

Fairness. Both mains are sequential programs, and the scheduler runs them:
`WF(DriverNext)` says that main goes on while it can. It includes the steps inside
`executeInstr`, each of which has at most `MaxEffects` effects: a plugin whose
`executeInstr` never returned would refute `Termination`, and no driver could help it.
`WF(Next)` of `StartUp` says the same of the part before, where every loop runs over something
finite, and lets it implement `Progress` of `Launch`. `RetireInstr`, `IsaString` and `StateBuilder` state
safety only: nothing obliges their callers to go on.

### What the violated statements show

* `NoSymbolTableIsHarmless`: `parseELFAndInit` warns about a missing symbol table and
  then dereferences the end iterator (`DriverUtils.cpp:430-433`).
* `InterruptCleared`: a run with the clear option whose first instruction after the raise
  is the stop condition succeeds with the interrupt raised (`InterruptDriver.cpp:120`).
* `NoCompositesLeft`: `create_isa_string` of Zk contains zkn, of Zvkng zvkn.
* `IOverE`: a descriptor with E and G gives a string with both I and E.
* `MessageOrderAccepted`: `rv32idg` follows the order that the error message asks for and is
  rejected, because the enumeration has G third.
* `PathAsAsked`: a builder whose short log path is set before it is moved creates a model with the
  empty path, which means stdout, or with whatever is in the memory of the object that is gone
  (`RVM.hpp:309`). Both drivers set the path and build in place and are not concerned.

## Proofs

Every theorem holds for all values of the constants that meet the named assumptions of
the modules, which TLC evaluates on the instances of the runs: any sets of registers,
addresses, values, words, builders and files, any command lines, descriptors, sizes and strings, any bounds. The proofs
are inductive: an invariant that holds initially, is kept by every
action, and implies the property.

| Theorem | Of | States |
|---|---|---|
| `TypeCorrect`, `ReplayIsCorrect`, `RecordIsCorrect` | `RetireInstr` | `TypeOK`, `ReplayMatches`, `RecordFaithful` |
| `LogIsWellFormed` | `RetireInstr` | `LogShape` |
| `DriverTypeCorrect`, `ExitCodeIsTrue`, `DriverAccountsAgree`, `DriverRecordsChain`, `NothingAfterStop`, `DriverExceptionFails` | `Driver` | `DriverTypeOK`, `ExitCode`, `StateMatchesLog`, `RecordsChain`, `NoStepAfterStop`, `ExceptionFails` |
| `InterruptTypeCorrect`, `ClearingRunsFinish`, `InterruptRecordsChain`, `ClearedAfterOne`, `InterruptExceptionFails` | `InterruptDriver` | `InterruptTypeOK`, `ClearingRunFinishes`, `RecordsChainButAtRaise`, `PendingForOneInstr`, `ExceptionFails` |
| `DriverImplements`, `InterruptDriverImplements` | both mains | `Abstract!Safety`: they take only steps of `SimulatorRun` |
| `StartUpTypeCorrect`, `OptionsAreAsAsked`, `LibraryIsAsAsked` | `StartUp` | `StartUpTypeOK`, `LastOptionWins`, `LibraryAsAsked` |
| `StartUpImplements` | `StartUp` | `Promise!Safety`: it takes only steps of `Launch` |
| `IsaTypeCorrect`, `CreatedIsTaken`, `NothingLostOrGained`, `StringsSettle` | `IsaString` | `IsaTypeOK`, `CreatedIsAccepted`, `MeaningKept`, `Settles` |
| `BuilderTypeCorrect`, `RegionsAreAsAsked`, `PathsAreAsAsked` | `StateBuilder` | `TypeOK`, `RegionsAsAsked`, `PathUnlessShortMoved` |

The assumptions are few: `Zero` is a value, no instruction is at the stop address that
means none, the bound on effects is a number; the absence of a text, of a file or of a library is
none; numbers, ISA strings and elements are made of words; executables have segments,
sections and symbols of their types; the extensions a program enables are those of the lists, and the bound on passes
is a number; builders are finitely many and their own storage is no
block, and the absence of a text, a block or an object is none of them.

**Replay and records.** `TypeOK` is proved through `TypeInv`, which adds that every register and address in a
list of accesses has a last access in it. That follows from the list being finite, but
by an induction over its length; carried through the appends
that build the list it needs none. `Apply`, which reads the last access, is then well
typed. The two others follow from one inductive invariant, `LogInv`. Of an open log it
says that between two instructions `replay` is the machine outside the overtaken locations (`Matches`), and that inside an
instruction (`Tracks`) the buffers are the effects (`update.GPR = did.x` and so on), the
saved `fcsr` is the replayed one, and the machine is `replay` with those effects applied:
a register that is not listed still has its old value, a vector register or memory
location that is not overtaken has its old value or that of its last listed access. Without registered
callbacks only the part about `fcsr` is claimed. `ReplayMatches` speaks of the
moments between instructions only and could not be carried through one. The lemmas
on `Latest` say what appending an access does to the last one of a key.

**Shape of the log.** `LogShape` compares the number of records with that of instructions at
moments where they agree; `ShapeInv` says for every phase how they differ
(`Counted`: inside an instruction one record is outstanding, after a failure it may stay so) and where heads, torn
records and tails may be (`Ordered`). `RecordsAppend` counts a chunk more by cardinality, without recursion.

**The mains.** `MainInv` joins both invariants with what the shared statements keep: where main is
fixes the phase of the logger (`Control`), the exit status is set once (`Outcome`), nothing
happens to the machine before the program is loaded (`Untouched`), no record is missing at
the dump (`Accounts`). Each main then adds where the next record begins (`NextChains`): at the end of the
last one, or, in `InterruptDriver` before the first instruction after the raise, where that left the pc.
`ExceptionFails` is proved in its temporal form: `Failing` holds once main unwinds, is kept by
every step of either main, and leaves no exit but the failure.
Each main adds its counter and what its loop is left with: in `Driver`, `ExecSuccess` survives the loop
only with the status of the stop condition (`Verdict`); in `InterruptDriver`, a run that clears
can leave its second loop with success only through that status, and a pending interrupt that
is to be cleared is that of the first round (`Raised`). The properties mention the end of
main only; what makes them true is decided lines before and has to be carried there. The step
relation of `RetireInstr` has its bound on instructions as a parameter (`Step`), so that its
lemmas serve under the budgets of both mains. The refinements follow from
`Accounts` and `Counted`, which tell whether the abstract step is one that keeps, or loses, a record.

**Start-up.** A round of the loop of `parseCommandLine` starts where an even number of elements in
a row want the next one (`Starts`): from that it follows that what `getopt_long` looks at is
what Launch calls `Examined`, which speaks of the line as a whole, has no order of evaluation, and would
be circular if it were stated element by element. `Parsing` adds that each option holds the value at the last of
the examined places so far. `Searching` lists the places of the search for the plugin, each with
the files that failed before. `Loading` says that the memory holds, for every address, the byte of the last
segment so far that covers it, which is `Image` when the segments are used up. The first symbol that stops the
loop is `Min` of the ends since numbers are well ordered.

**The builder.** That a block has one owner (`Apart`) is what keeps a reallocation, a move or a
destruction from changing what another member shows; that it is kept needs `Sound`, which
says of what size each member's block is, and that names have nodes of their own. That there is a free block
at all is the pigeonhole principle over the members of all builders. `Faithful` relates the configuration to what was
asked for through the owners: `Named` looks a pointer up among the nodes of its builder instead of in the
heap. The exception in `PathFaithful`, a short path in a builder moved since, is the one
that the run `moved_short_path` shows to be real.

**ISA strings.** The lists and the table of rules are those of the code, so what is proved is about any
descriptor over them. `normalize_extensions` folds over a table; `FoldInSteps` turns the fold into the sets of
extensions left after each rule, and `FoldOpens` says what they come to: every composite that was set is
gone and its parts are there, those included that are composites themselves, whose rules are past (`Opened`). That needs of the table that
a rule has a composite of its own (`OneRule`), that G and the nested composites come before those that name them
(`PartsFirst`), and that parts of parts are basic (`TwoDeep`). A pass is then three facts about sets (`NormIs`), from which it follows
that it keeps `Meaning` (`NormMeans`), that two passes leave nothing for a third (`TwoPasses`), and that what strings do not hold
makes no difference (`Carried`). `InOrder`, which writes a list, is a recursive function:
`InOrderPicks` says that it picks what is set, once, in the order of the list, by induction on the
length (`Induction`, which speaks of a set of numbers instead of a predicate and follows from every set of numbers having
a least element, since the prover cannot instantiate the theorem of the library). `NestedWithin` says that sizes which hold a composite hold the composites
among its parts, since those come earlier in the list: without it, `Uncut` would not reach inside a
nested composite. `CreateMeans`, `CreateAccepted` and `CreateSettles` put these together for a string. The
inductive invariant, `IsaInv`, remembers where what there is comes from: a string from the descriptor that is still
there (`Made`), a descriptor from the last string but for what strings do not hold (`Parsed`), and every string
after the first from a set that a pass has been over (`Passed`). `Settles` compares two strings with a parse
and any number of additions of translation modes between them and needs all three.

Model-checked only:

* `Termination`, and the fairness part of `ImplementsSimulatorRun` and `ImplementsLaunch`: liveness is
  beyond the prover.
* The statements of the violated runs, which hold of no instance.

## Plan

Done: the logger and `retireInstr`, both mains, `SimulatorRun`, start-up with `Launch`, the builder, and the extension
functions with the sizes of descriptors. Every invariant and action property of their runs is proved; liveness is checked.

Next: `PrintUtils.hpp` and the layout of a vector register in the log, if a property can be stated that is not its definition.

## Not modelled

* The text of the log, the state file and the messages; `rvm_strerror` (`RVM.cpp`), a table in which
  `RVM_ERRC_UNRECOVERABLE_ERROR` is missing; `PrintUtils.hpp` and `Utils.hpp`, which format and keep no state.
* `getopt_long`, ELFIO, the dynamic linker and the standard library are external: the modules have
  as much of them as the code relies on. Which texts `std::stoull` takes for numbers is a constant.
* `rvm::State`: each method forwards to the plugin, and the model is owned by a `std::unique_ptr`.
  `getErrorContext` asks twice for a text that only messages use. Setters of `State::Builder` that assign
  one plain field are left out: no order of calls makes a difference to them.
* A composite set beyond the sizes of its descriptor, or with parts beyond them, is outside the
  condition `Uncut` of `MeaningKept`: `normalize_extensions` does not look at the sizes, so that the first
  takes effect and the second loses the parts.
