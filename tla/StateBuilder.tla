---------------------------- MODULE StateBuilder ----------------------------
(***************************************************************************)
(* rvm::State::Builder: the builders of a program that uses RVM.hpp, the   *)
(* memory they own and the pointers that their RVMConfig holds into it.    *)
(*                                                                         *)
(* A pointer is None, a block of the heap, or a Builder, which stands for  *)
(* the buffer inside that object where its path is kept if it is short.    *)
(* What a block holds is the member that owns it; a block that no object   *)
(* owns is free and may be handed out again.  The standard library is that *)
(* of GCC, whose strings keep short texts in the object.                   *)
(*                                                                         *)
(* LogFilePath and DebugLogFilePath are treated alike: one is modelled.    *)
(***************************************************************************)
EXTENDS Naturals, Sequences, SequencesExt, FiniteSets

CONSTANTS
    Builder,        \* storage for objects of class State::Builder
    Region, Name,   \* Start and Size of a memory region; its name
    ShortText, LongText,    \* paths that fit into a string object, or do not
    None, Garbage,  \* the null pointer; what a dangling one leads to
    Dead, Unspecified,  \* no object here; an object that was moved from
    MaxRegions      \* bound: memory regions of a builder

\* The heap keeps blocks of different sizes apart: list nodes, arrays, texts.
\* There are more of each than all members together can own: a builder owns a
\* node for each name and one block of another kind at most.
Kind == {"node", "array", "text"}
Slot == Builder \X (0 .. MaxRegions)
Block == Kind \X (1 .. Cardinality(Slot) + 1)

VARIABLES
    object,     \* the members of each builder, or Dead
    asked,      \* history: what its setters were asked for
    created     \* what the call of build that just returned gave modelCreate

vars == <<object, asked, created>>

EmptyText == "empty"
Text == {EmptyText} \cup ShortText \cup LongText
Pointer == {None} \cup Block \cup Builder

\* A string object by where its text is kept.
StringIn(places, texts) == [at : places, text : texts]
String(p, text) == [at |-> p, text |-> text]

Config == [regions : Pointer, count : 0 .. MaxRegions, logPath : Pointer]
Regions == [at : {None} \cup Block, items : Seq([region : Region, name : Pointer])]
Names == Seq(StringIn(Block, Name))
Path == {None} \cup StringIn(Block \cup Builder, Text)
Object == [config : Config, regions : Regions, names : Names, path : Path]

PathText == ShortText \cup LongText \cup {None}
Request ==
    [regions : Seq([region : Region, name : Name \cup {None}]),
     logPath : PathText,
     pathMoved : BOOLEAN]

ASSUME MaxRegionsAssumption == MaxRegions \in Nat

ASSUME StorageAssumption ==
    /\ IsFiniteSet(Builder)
    /\ Builder \cap (Block \cup {None}) = {}
    /\ None \notin Block

ASSUME ValuesAssumption ==
    /\ Dead \notin Object
    /\ Unspecified \notin Request
    /\ None \notin StringIn(Pointer, Text)
    /\ None \notin ShortText \cup LongText

NewBuilder == [config |-> [regions |-> None, count |-> 0, logPath |-> None],
               regions |-> [at |-> None, items |-> <<>>],
               names |-> <<>>,
               path |-> None]
NothingAsked == [regions |-> <<>>, logPath |-> None, pathMoved |-> FALSE]

Live == {b \in Builder : object[b] # Dead}

\* The strings and the blocks that the members of an object own.
StringsOf(o) == ToSet(o.names) \cup ({o.path} \ {None})
BlocksOf(o) == ({s.at : s \in StringsOf(o)} \cup {o.regions.at}) \cap Block

\* Which free block the heap hands out makes no difference to the properties.
\* TLC takes the first, so that memory is soon used again.
Free == Block \ UNION {BlocksOf(object[b]) : b \in Live}
Fresh(kind) == CHOOSE p \in Free : p[1] = kind

TypeOK ==
    /\ object \in [Builder -> Object \cup {Dead}]
    /\ asked \in [Builder -> Request \cup {Unspecified}]
    /\ \A b \in Builder : object[b] = Dead => asked[b] = Unspecified
    /\ created # None => created.by \in Live

Init ==
    /\ object = [b \in Builder |-> Dead]
    /\ asked = [b \in Builder |-> Unspecified]
    /\ created = None

-----------------------------------------------------------------------------
(* What modelCreate finds when it follows the pointers of a configuration. *)

TextAt(p) ==
    LET strings == {s \in UNION {StringsOf(object[b]) : b \in Live} : s.at = p}
    IN  IF p = None THEN None
        ELSE IF strings = {} THEN Garbage
        ELSE (CHOOSE s \in strings : TRUE).text

RegionsAt(p, count) ==
    LET arrays == {r \in {object[b].regions : b \in Live} :
                      r.at = p /\ Len(r.items) >= count}
    IN  IF arrays = {} THEN Garbage
        ELSE [k \in 1 .. count |->
                 LET item == (CHOOSE r \in arrays : TRUE).items[k]
                 IN  [region |-> item.region, name |-> TextAt(item.name)]]

FoundRegions(b) ==
    LET config == object[b].config
    IN  IF config.count = 0 THEN <<>> ELSE RegionsAt(config.regions, config.count)
FoundLogPath(b) == TextAt(object[b].config.logPath)

-----------------------------------------------------------------------------
(* The members of Builder.  An object that was moved from is not used but  *)
(* to be destroyed or assigned to.                                         *)

Usable(b) == asked[b] # Unspecified
Record(b, request) == asked' = [asked EXCEPT ![b] = request]

Construct(b) ==
    /\ object[b] = Dead
    /\ object' = [object EXCEPT ![b] = NewBuilder]
    /\ asked' = [asked EXCEPT ![b] = NothingAsked]
    /\ created' = None

\* Mutation: the array is taken for good when its first element is added.
PointToFirstArray(config, array, count) ==
    [config EXCEPT !.regions = IF @ = None THEN array ELSE @, !.count = count]

\* Mutation: the size is added to the count instead of replacing it.
AddCount(config, array, count) ==
    [config EXCEPT !.regions = array, !.count = @ + count]

PointToRegions(config, array, count) ==
    [config EXCEPT !.regions = array, !.count = count]

\* A name is the text of a new list node, which never moves; the array of
\* regions may be moved to a larger block.
addMemoryRegion(b, region, name) ==
    LET o == object[b]
        items(p) == Append(o.regions.items, [region |-> region, name |-> p])
        node == IF name = None THEN None ELSE Fresh("node")
    IN  /\ Usable(b)
        /\ Len(o.regions.items) < MaxRegions
        /\ \E array \in {Fresh("array"), o.regions.at} \ {None} :
              object' = [object EXCEPT ![b] =
                    [o EXCEPT !.regions = [at |-> array, items |-> items(node)],
                              !.names = IF name = None THEN @
                                        ELSE Append(@, String(node, name)),
                              !.config = PointToRegions(@, array, Len(items(node)))]]
        /\ Record(b, [asked[b] EXCEPT
              !.regions = Append(@, [region |-> region, name |-> name])])
        /\ created' = None

\* std::string(std::move(s)) and to = std::move(s): a block changes hands, a
\* text inside s is copied into the buffer that the target has.
MovedString(to, s, inside) ==
    CASE s = None -> None
      [] s # None /\ s.at \in Block -> s
      [] OTHER -> String(IF to = None THEN inside ELSE to.at, s.text)

\* What is left of s: the empty text, in the block the target gave up if any.
LeftString(to, s, inside) ==
    CASE s = None -> None
      [] s # None /\ s.at \in Block /\ to # None /\ to.at \in Block ->
            String(to.at, EmptyText)
      [] OTHER -> String(inside, EmptyText)

\* The argument of setLogPath is an object of its own, gone after the call.
Argument(text) ==
    String(IF text \in ShortText THEN None ELSE Fresh("text"), text)

\* The two members that the path is about.
WithPath(o, path, pointer) == [o EXCEPT !.path = path, !.config.logPath = pointer]

setLogPath(b, text) ==
    /\ Usable(b)
    /\ LET path == MovedString(object[b].path, Argument(text), b)
       IN  object' = [object EXCEPT ![b] = WithPath(@, path, path.at)]
    /\ Record(b, [asked[b] EXCEPT !.logPath = text, !.pathMoved = FALSE])
    /\ created' = None

\* Mutation: only the string is dropped.
disableLogsKeepingPointer(b) ==
    /\ Usable(b)
    /\ object' = [object EXCEPT ![b].path = None]
    /\ Record(b, [asked[b] EXCEPT !.logPath = None, !.pathMoved = FALSE])
    /\ created' = None

disableLogs(b) ==
    /\ Usable(b)
    /\ object' = [object EXCEPT ![b] = WithPath(@, None, None)]
    /\ Record(b, [asked[b] EXCEPT !.logPath = None, !.pathMoved = FALSE])
    /\ created' = None

\* The defaulted moves, member by member: Config is copied as it is.
MoveMembers(src, dst, old) ==
    LET o == object[src]
    IN  /\ object' = [object EXCEPT
              ![dst] = [o EXCEPT !.path = MovedString(old, o.path, dst)],
              ![src] = [o EXCEPT !.regions = NewBuilder.regions,
                                 !.names = <<>>,
                                 !.path = LeftString(old, o.path, src)]]
        /\ asked' = [asked EXCEPT
              ![dst] = [asked[src] EXCEPT !.pathMoved = asked[src].logPath # None],
              ![src] = Unspecified]
        /\ created' = None

MoveConstruct(src, dst) ==
    /\ Usable(src) /\ dst \notin Live
    /\ MoveMembers(src, dst, None)

MoveAssign(src, dst) ==
    /\ Usable(src) /\ dst \in Live /\ src # dst
    /\ MoveMembers(src, dst, object[dst].path)

Destroy(b) ==
    /\ b \in Live
    /\ object' = [object EXCEPT ![b] = Dead]
    /\ asked' = [asked EXCEPT ![b] = Unspecified]
    /\ created' = None

\* The model copies the configuration while it is created.
build(b) ==
    /\ Usable(b)
    /\ object[b].config.regions # None
    /\ created' = [by |-> b, regions |-> FoundRegions(b), logPath |-> FoundLogPath(b)]
    /\ UNCHANGED <<object, asked>>

\* It refuses a configuration without memory regions, and may refuse any; the
\* builder can be used again.
buildFails(b) ==
    /\ Usable(b)
    /\ created' = None
    /\ UNCHANGED <<object, asked>>

Next ==
    \/ \E b \in Builder :
          \/ Construct(b)
          \/ \E region \in Region, name \in Name \cup {None} :
                addMemoryRegion(b, region, name)
          \/ \E text \in ShortText \cup LongText : setLogPath(b, text)
          \/ disableLogs(b)
          \/ \E other \in Builder : MoveConstruct(b, other) \/ MoveAssign(b, other)
          \/ Destroy(b)
          \/ build(b)
          \/ buildFails(b)

Spec == Init /\ [][Next]_vars

-----------------------------------------------------------------------------
(* Properties.                                                             *)

\* A model is created with the memory regions that the builder was asked for,
\* in their order and with their names, through every growth of the array and
\* every move of the builder, and whatever became of the objects it was moved
\* from (addMemoryRegion, the list of names, the defaulted moves).
RegionsAsAsked == created # None => created.regions = asked[created.by].regions

\* A model is created with the log path that setLogPath or disableLogs was
\* asked for last, unless that is short and the builder was moved since.
PathUnlessShortMoved ==
    created # None =>
        LET request == asked[created.by]
        IN  \/ created.logPath = request.logPath
            \/ request.pathMoved /\ request.logPath \in ShortText

\* The same without exception: the path of setLogPath is the file the logs go
\* to, and the empty one is stdout (RVM.hpp:410-412).
PathAsAsked == created # None => created.logPath = asked[created.by].logPath
=============================================================================
