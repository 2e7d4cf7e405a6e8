--------------------------- MODULE StateBuilderProofs ---------------------------
(***************************************************************************)
(* What build hands to modelCreate, for any number of builders, regions,   *)
(* names and paths.                                                        *)
(***************************************************************************)
EXTENDS StateBuilder, FiniteSetTheorems, TLAPS

\* The blocks a builder owns, member by member.
Owns(o, p) ==
    \/ \E k \in DOMAIN o.names : o.names[k].at = p
    \/ o.path # None /\ o.path.at = p
    \/ o.regions.at = p

\* A builder keeps each name in a node of its own, and its path in a block
\* of text or in itself.
Sound(b, o) ==
    /\ Len(o.names) <= Len(o.regions.items)
    /\ Len(o.regions.items) <= MaxRegions
    /\ \A k \in DOMAIN o.names :
          /\ o.names[k].at[1] = "node"
          /\ \A j \in DOMAIN o.names : o.names[j].at = o.names[k].at => j = k
    /\ o.regions.at # None => o.regions.at[1] = "array"
    /\ o.path # None => \/ o.path.at = b
                        \/ o.path.at \in Block /\ o.path.at[1] = "text"

\* No block has two owners.
Apart == \A a, b \in Live : \A p \in Block : Owns(object[a], p) /\ Owns(object[b], p) => a = b

\* What a builder remembers of a name: the node that holds it.
Named(o, p, name) ==
    \/ p = None /\ name = None
    \/ \E j \in DOMAIN o.names : o.names[j].at = p /\ o.names[j].text = name

\* Array, count and nodes hold the regions that were asked for.
RegionsFaithful(o, q) ==
    /\ o.config.count = Len(q.regions)
    /\ Len(o.regions.items) = Len(q.regions)
    /\ q.regions # <<>> => o.regions.at # None /\ o.config.regions = o.regions.at
    /\ \A k \in DOMAIN q.regions :
          /\ o.regions.items[k].region = q.regions[k].region
          /\ Named(o, o.regions.items[k].name, q.regions[k].name)

\* The path is the one that was asked for, and the configuration points to
\* it unless its text was inside an object it was moved out of.
PathFaithful(b, o, q) ==
    /\ q.logPath = None => o.path = None /\ o.config.logPath = None
    /\ q.logPath # None =>
          /\ o.path # None /\ o.path.text = q.logPath
          /\ o.path.at = b => q.logPath \in ShortText
          /\ \/ o.config.logPath = o.path.at
             \/ q.pathMoved /\ q.logPath \in ShortText

Faithful(b, o, q) == RegionsFaithful(o, q) /\ PathFaithful(b, o, q)

BuilderInv ==
    /\ TypeOK
    /\ \A b \in Live : Sound(b, object[b])
    /\ Apart
    /\ \A b \in Builder : Usable(b) => Faithful(b, object[b], asked[b])

-----------------------------------------------------------------------------
(* The heap.                                                               *)

\* A block of an object is one of a name, of the path or of the array.
LEMMA OwnedBlocks ==
    ASSUME NEW o
    PROVE  \A p : p \in BlocksOf(o) <=> p \in Block /\ Owns(o, p)
BY DEF BlocksOf, StringsOf, ToSet, Owns

\* A live builder is a well typed object.
LEMMA LiveObject ==
    ASSUME TypeOK, NEW b \in Live PROVE b \in Builder /\ object[b] \in Object
BY DEF TypeOK, Live

\* The place of an owned block among the members of its builder.
Holds(slot, p) ==
    /\ slot[1] \in Live
    /\ LET o == object[slot[1]]
       IN  \/ p[1] = "node" /\ slot[2] \in DOMAIN o.names /\ o.names[slot[2]].at = p
           \/ p[1] = "array" /\ o.regions.at = p
           \/ p[1] = "text" /\ o.path # None /\ o.path.at = p

LEMMA OwnedHasSlot ==
    ASSUME BuilderInv, NEW b \in Live, NEW p \in Block, Owns(object[b], p)
    PROVE  \E slot \in Slot : Holds(slot, p)
<1> DEFINE o == object[b]
<1>1. b \in Builder /\ o \in Object /\ Sound(b, o)
  BY LiveObject DEF BuilderInv
<1>2. p # None /\ b # p /\ p[1] \in Kind
  BY <1>1, StorageAssumption DEF Block
<1>3. CASE \E k \in DOMAIN o.names : o.names[k].at = p
  <2>1. PICK k \in DOMAIN o.names : o.names[k].at = p
    BY <1>3
  <2>2. /\ Len(o.names) \in Nat /\ DOMAIN o.names = 1 .. Len(o.names)
        /\ Len(o.regions.items) \in Nat
    BY <1>1 DEF Object, Config, Regions, Names, Path
  <2>3. k \in 0 .. MaxRegions
    BY <1>1, <2>1, <2>2, MaxRegionsAssumption DEF Sound
  <2>4. p[1] = "node"
    BY <1>1, <2>1 DEF Sound
  <2>5. <<b, k>> \in Slot /\ Holds(<<b, k>>, p)
    BY <1>1, <2>1, <2>3, <2>4 DEF Slot, Holds
  <2> QED
    BY <2>5
<1>4. 0 \in 0 .. MaxRegions
  BY MaxRegionsAssumption
<1>5. CASE o.path # None /\ o.path.at = p
  <2>1. p[1] = "text"
    BY <1>1, <1>2, <1>5 DEF Sound
  <2>2. <<b, 0>> \in Slot /\ Holds(<<b, 0>>, p)
    BY <1>1, <1>4, <1>5, <2>1 DEF Slot, Holds
  <2> QED
    BY <2>2
<1>6. CASE o.regions.at = p
  <2>1. p[1] = "array"
    BY <1>1, <1>2, <1>6 DEF Sound
  <2>2. <<b, 0>> \in Slot /\ Holds(<<b, 0>>, p)
    BY <1>1, <1>4, <1>6, <2>1 DEF Slot, Holds
  <2> QED
    BY <2>2
<1> QED
  BY <1>3, <1>5, <1>6 DEF Owns

\* One place holds one block of a kind.
LEMMA SlotHoldsOne ==
    ASSUME NEW slot, NEW p, NEW q, p[1] = q[1],
           Holds(slot, p), Holds(slot, q)
    PROVE  p = q
BY DEF Holds

\* The heap is never out of blocks: there are more of a kind than places.
LEMMA FreshIsFree ==
    ASSUME BuilderInv, NEW kind \in Kind
    PROVE  /\ Fresh(kind) \in Block /\ Fresh(kind)[1] = kind
           /\ \A b \in Live : ~Owns(object[b], Fresh(kind))
<1> DEFINE N == Cardinality(Slot) + 1
           block(n) == <<kind, n>>
<1>1. IsFiniteSet(Slot) /\ Cardinality(Slot) \in Nat
  <2>1. 0 \in Int /\ MaxRegions \in Int
    BY MaxRegionsAssumption
  <2>2. IsFiniteSet(0 .. MaxRegions)
    BY <2>1, FS_Interval
  <2>3. IsFiniteSet(Builder)
    BY StorageAssumption
  <2>4. IsFiniteSet(Slot)
    BY <2>2, <2>3, FS_Product DEF Slot
  <2> QED
    BY <2>4, FS_CardinalityType
<1>2. IsFiniteSet(1 .. N) /\ Cardinality(1 .. N) = N
  <2>1. 1 \in Int /\ N \in Int /\ ~(1 > N) /\ N - 1 + 1 = N
    BY <1>1
  <2> HIDE DEF N
  <2> QED
    BY <2>1, FS_Interval
<1>3. \A n \in 1 .. N : block(n) \in Block /\ block(n)[1] = kind /\ block(n)[2] = n
  BY <1>1 DEF Block
<1>4. \E n \in 1 .. N : block(n) \in Free
  <2> SUFFICES ASSUME \A n \in 1 .. N : block(n) \notin Free PROVE FALSE
    OBVIOUS
  <2>1. \A n \in 1 .. N : \E slot \in Slot : Holds(slot, block(n))
    <3> TAKE n \in 1 .. N
    <3>1. PICK b \in Live : block(n) \in BlocksOf(object[b])
      BY <1>3 DEF Free
    <3>2. Owns(object[b], block(n)) /\ block(n) \in Block
      BY <3>1, OwnedBlocks
    <3> QED
      BY <3>2, OwnedHasSlot
  <2> DEFINE g == [n \in 1 .. N |-> CHOOSE slot \in Slot : Holds(slot, block(n))]
  <2>2. \A n \in 1 .. N : g[n] \in Slot /\ Holds(g[n], block(n))
    BY <2>1
  <2>3. g \in [1 .. N -> Slot]
    BY <2>2
  <2>4. Cardinality(Slot) < Cardinality(1 .. N)
    BY <1>1, <1>2
  <2> HIDE DEF g, N
  <2>5. PICK x, y \in 1 .. N : x # y /\ g[x] = g[y]
    BY <1>1, <1>2, <2>3, <2>4, FS_PigeonHole
  <2>6. block(x) = block(y)
    BY <1>3, <2>2, <2>5, SlotHoldsOne
  <2> QED
    BY <1>3, <2>5, <2>6
<1>5. Fresh(kind) \in Free /\ Fresh(kind)[1] = kind
  BY <1>3, <1>4 DEF Fresh
<1>6. \A b \in Live : Fresh(kind) \notin BlocksOf(object[b])
  BY <1>5 DEF Free
<1>7. Fresh(kind) \in Block
  BY <1>5 DEF Free
<1> QED
  BY <1>5, <1>6, <1>7, OwnedBlocks

\* An element of a sequence is one of the set the sequence is over.
LEMMA ElementType ==
    ASSUME NEW S, NEW s \in Seq(S), NEW k \in 1 .. Len(s) PROVE s[k] \in S
OBVIOUS

-----------------------------------------------------------------------------
(* What modelCreate finds.                                                 *)

\* A pointer to a string of a live builder leads to the text of that string.
LEMMA TextFound ==
    ASSUME BuilderInv, NEW b \in Live, NEW s \in StringsOf(object[b])
    PROVE  TextAt(s.at) = s.text
<1> DEFINE strings == {r \in UNION {StringsOf(object[a]) : a \in Live} : r.at = s.at}
<1>1. ASSUME NEW a \in Live, NEW r \in StringsOf(object[a])
      PROVE  /\ \/ \E k \in DOMAIN object[a].names :
                      r = object[a].names[k] /\ r.at \in Block /\ r.at[1] = "node"
                \/ r = object[a].path /\ r # None /\ r.at = a
                \/ r = object[a].path /\ r # None /\ r.at \in Block /\ r.at[1] = "text"
             /\ r.at \in Block => Owns(object[a], r.at)
  <2> DEFINE o == object[a]
  <2>1. a \in Builder /\ o \in Object /\ Sound(a, o)
    BY LiveObject DEF BuilderInv
  <2>2. CASE \E k \in DOMAIN o.names : r = o.names[k]
    <3>1. PICK k \in DOMAIN o.names : r = o.names[k]
      BY <2>2
    <3>2. o.names \in Seq(StringIn(Block, Name))
      BY <2>1 DEF Object, Config, Regions, Names, Path
    <3>3. o.names[k] \in StringIn(Block, Name)
      BY <3>2
    <3>4. r.at \in Block
      BY <3>1, <3>3 DEF StringIn
    <3> QED
      BY <2>1, <3>1, <3>4 DEF Sound, Owns
  <2>3. CASE r = o.path /\ r # None
    BY <2>1, <2>3 DEF Sound, Owns
  <2> QED
    BY <2>2, <2>3 DEF StringsOf, ToSet
<1>2. ASSUME NEW r \in strings PROVE r = s
  <2>1. PICK a \in Live : r \in StringsOf(object[a])
    OBVIOUS
  <2>2. a \in Builder /\ b \in Builder
    BY DEF Live
  <2>3. CASE s.at \in Block
    <3>1. a = b
      BY <1>1, <2>1, <2>3 DEF BuilderInv, Apart
    <3>2. Sound(b, object[b])
      BY DEF BuilderInv
    <3>3. s.at \notin Builder
      BY <2>3, StorageAssumption
    <3> QED
      BY <1>1, <2>1, <2>2, <3>1, <3>2, <3>3 DEF Sound
  <2>4. CASE s.at \notin Block
    BY <1>1, <2>1, <2>4
  <2> QED
    BY <2>3, <2>4
<1>3. s \in strings
  OBVIOUS
<1>4. s.at # None
  BY <1>1, StorageAssumption DEF Live
<1> QED
  BY <1>2, <1>3, <1>4 DEF TextAt

\* The pointer to the array leads to the array of the builder, and the
\* pointers in it to the names.
LEMMA RegionsFound ==
    ASSUME BuilderInv, NEW b \in Builder, Usable(b)
    PROVE  FoundRegions(b) = asked[b].regions
<1> DEFINE o == object[b]
           q == asked[b]
           arrays == {r \in {object[a].regions : a \in Live} :
                         r.at = o.config.regions /\ Len(r.items) >= o.config.count}
<1>1. /\ b \in Live /\ o \in Object /\ q \in Request
      /\ RegionsFaithful(o, q)
  BY DEF BuilderInv, TypeOK, Usable, Live, Faithful
<1>2. Len(q.regions) \in Nat /\ DOMAIN q.regions = 1 .. Len(q.regions)
  BY <1>1 DEF Request
<1>3. CASE q.regions = <<>>
  BY <1>1, <1>2, <1>3 DEF FoundRegions, RegionsFaithful
<1>4. CASE q.regions # <<>>
  <2>1. /\ o.config.count = Len(q.regions) /\ Len(o.regions.items) = Len(q.regions)
        /\ o.config.count # 0
        /\ o.regions.at # None /\ o.config.regions = o.regions.at
    BY <1>1, <1>2, <1>4 DEF RegionsFaithful, Request
  <2>2. o.regions.at \in Block
    BY <1>1, <2>1 DEF Object, Config, Regions, Names, Path
  <2>3. o.regions \in arrays
    BY <1>1, <1>2, <2>1
  <2>4. ASSUME NEW r \in arrays PROVE r = o.regions
    <3>1. PICK a \in Live : r = object[a].regions
      OBVIOUS
    <3>2. Owns(object[a], o.regions.at) /\ Owns(o, o.regions.at)
      BY <2>1, <3>1 DEF Owns
    <3> QED
      BY <1>1, <2>2, <3>1, <3>2 DEF BuilderInv, Apart
  <2>5. (CHOOSE r \in arrays : TRUE) = o.regions /\ arrays # {}
    BY <2>3, <2>4
  <2>6. FoundRegions(b) =
          [k \in 1 .. Len(q.regions) |-> [region |-> o.regions.items[k].region,
                                          name |-> TextAt(o.regions.items[k].name)]]
    BY <2>1, <2>5 DEF FoundRegions, RegionsAt
  <2>7. ASSUME NEW k \in 1 .. Len(q.regions)
        PROVE  /\ o.regions.items[k].region = q.regions[k].region
               /\ TextAt(o.regions.items[k].name) = q.regions[k].name
    <3>1. /\ o.regions.items[k].region = q.regions[k].region
          /\ Named(o, o.regions.items[k].name, q.regions[k].name)
      BY <1>1, <1>2 DEF RegionsFaithful
    <3>2. CASE o.regions.items[k].name = None /\ q.regions[k].name = None
      BY <3>1, <3>2 DEF TextAt
    <3>3. CASE \E j \in DOMAIN o.names : /\ o.names[j].at = o.regions.items[k].name
                                         /\ o.names[j].text = q.regions[k].name
      <4>1. PICK j \in DOMAIN o.names : /\ o.names[j].at = o.regions.items[k].name
                                        /\ o.names[j].text = q.regions[k].name
        BY <3>3
      <4>2. o.names[j] \in StringsOf(o)
        BY DEF StringsOf, ToSet
      <4>3. TextAt(o.names[j].at) = o.names[j].text
        BY <1>1, <4>2, TextFound
      <4> QED
        BY <3>1, <4>1, <4>3
    <3> QED
      BY <3>1, <3>2, <3>3 DEF Named
  <2>8. ASSUME NEW k \in 1 .. Len(q.regions)
        PROVE  q.regions[k] = [region |-> q.regions[k].region, name |-> q.regions[k].name]
    <3>1. q.regions \in Seq([region : Region, name : Name \cup {None}])
      BY <1>1 DEF Request
    <3>2. q.regions[k] \in [region : Region, name : Name \cup {None}]
      BY <3>1, ElementType
    <3> QED
      BY <3>2
  <2>9. q.regions = [k \in 1 .. Len(q.regions) |-> q.regions[k]]
    BY <1>1 DEF Request
  <2>10. \A k \in 1 .. Len(q.regions) :
            [region |-> o.regions.items[k].region,
             name |-> TextAt(o.regions.items[k].name)] = q.regions[k]
    BY <2>7, <2>8
  <2>11. FoundRegions(b) = [k \in 1 .. Len(q.regions) |-> q.regions[k]]
    BY <2>6, <2>10
  <2> QED
    BY <2>9, <2>11
<1> QED
  BY <1>3, <1>4

\* The pointer to the path leads to the path.
LEMMA PathFound ==
    ASSUME BuilderInv, NEW b \in Builder, Usable(b)
    PROVE  \/ FoundLogPath(b) = asked[b].logPath
           \/ asked[b].pathMoved /\ asked[b].logPath \in ShortText
<1> DEFINE o == object[b]
           q == asked[b]
<1>1. b \in Live /\ PathFaithful(b, o, q)
  BY DEF BuilderInv, TypeOK, Usable, Live, Faithful
<1>2. CASE q.logPath = None
  BY <1>1, <1>2 DEF PathFaithful, FoundLogPath, TextAt
<1>3. CASE q.logPath # None
  <2>1. o.path \in StringsOf(o) /\ o.path.text = q.logPath
    BY <1>1, <1>3 DEF PathFaithful, StringsOf
  <2>2. TextAt(o.path.at) = q.logPath
    BY <1>1, <2>1, TextFound
  <2> QED
    BY <1>1, <1>3, <2>2 DEF PathFaithful, FoundLogPath
<1> QED
  BY <1>2, <1>3

-----------------------------------------------------------------------------
(* One builder changes.                                                    *)

\* A well formed builder with its own or fresh blocks may take the place of
\* another one.
LEMMA ChangeKeeps ==
    ASSUME BuilderInv, NEW b \in Builder, NEW o \in Object, NEW q \in Request,
           Sound(b, o), Faithful(b, o, q),
           \A p \in Block : Owns(o, p) =>
               \/ b \in Live /\ Owns(object[b], p)
               \/ \A a \in Live : ~Owns(object[a], p),
           object' = [object EXCEPT ![b] = o],
           asked' = [asked EXCEPT ![b] = q],
           created' = None
    PROVE  BuilderInv'
<1>1. TypeOK
  BY DEF BuilderInv
<1>2. o # Dead /\ q # Unspecified
  BY ValuesAssumption
<1>3. /\ object'[b] = o /\ asked'[b] = q
      /\ \A a \in Builder \ {b} : object'[a] = object[a] /\ asked'[a] = asked[a]
  BY <1>1 DEF TypeOK
<1>4. /\ object' \in [Builder -> Object \cup {Dead}]
      /\ asked' \in [Builder -> Request \cup {Unspecified}]
  BY <1>1 DEF TypeOK
<1>5. TypeOK'
  BY <1>1, <1>2, <1>3, <1>4 DEF TypeOK
<1>6. Live' = Live \cup {b}
  BY <1>2, <1>3 DEF Live
<1>7. \A a \in Live' : Sound(a, object'[a])
  BY <1>3, <1>6 DEF BuilderInv, Live
<1>8. Apart'
  BY <1>3, <1>6 DEF BuilderInv, Apart, Live
<1>9. \A a \in Builder : Usable(a)' => Faithful(a, object'[a], asked'[a])
  BY <1>3 DEF BuilderInv, Usable
<1> QED
  BY <1>5, <1>7, <1>8, <1>9 DEF BuilderInv

LEMMA ConstructKeeps ==
    ASSUME BuilderInv, NEW b \in Builder, Construct(b) PROVE BuilderInv'
<1>1. NewBuilder \in Object
  BY MaxRegionsAssumption DEF NewBuilder, Object, Config, Regions, Names, Path, Pointer
<1>2. NothingAsked \in Request
  BY DEF NothingAsked, Request, PathText
<1>3. Sound(b, NewBuilder)
  BY MaxRegionsAssumption DEF Sound, NewBuilder
<1>4. Faithful(b, NewBuilder, NothingAsked)
  BY DEF Faithful, RegionsFaithful, PathFaithful, NewBuilder, NothingAsked
<1>5. \A p \in Block : ~Owns(NewBuilder, p)
  BY StorageAssumption DEF Owns, NewBuilder
<1> QED
  BY <1>1, <1>2, <1>3, <1>4, <1>5, ChangeKeeps DEF Construct

\* What an appended sequence consists of.
LEMMA Appended ==
    ASSUME NEW S, NEW s \in Seq(S), NEW e \in S
    PROVE  /\ Append(s, e) \in Seq(S)
           /\ Len(Append(s, e)) = Len(s) + 1 /\ Len(s) \in Nat
           /\ DOMAIN s = 1 .. Len(s)
           /\ DOMAIN Append(s, e) = 1 .. (Len(s) + 1)
           /\ \A k \in 1 .. Len(s) : Append(s, e)[k] = s[k]
           /\ Append(s, e)[Len(s) + 1] = e
OBVIOUS

\* The configuration after its array was replaced.
LEMMA PointedTo ==
    ASSUME NEW c \in Config, NEW array \in Pointer, NEW n \in 0 .. MaxRegions
    PROVE  LET d == PointToRegions(c, array, n)
           IN  /\ d \in Config
               /\ d.regions = array /\ d.count = n /\ d.logPath = c.logPath
<1>1. PICK h : h = [c EXCEPT !.regions = array]
  OBVIOUS
<1>2. PICK d : d = [h EXCEPT !.count = n]
  OBVIOUS
<1>3. PointToRegions(c, array, n) = d
  BY <1>1, <1>2, Zenon DEF PointToRegions
<1>4. d \in Config /\ d.regions = array /\ d.count = n /\ d.logPath = c.logPath
  BY <1>1, <1>2 DEF Config
<1> QED
  BY <1>3, <1>4

\* The builder after all its members but the path were replaced.
Replaced(o, r, n, c) == [o EXCEPT !.regions = r, !.names = n, !.config = c]

LEMMA MembersReplaced ==
    ASSUME NEW o \in Object, NEW c \in Config, NEW r \in Regions, NEW n \in Names
    PROVE  LET new == Replaced(o, r, n, c)
           IN  /\ new \in Object
               /\ new.regions = r /\ new.names = n /\ new.config = c /\ new.path = o.path
<1>1. PICK g : g = [o EXCEPT !.regions = r]
  OBVIOUS
<1>2. PICK h : h = [g EXCEPT !.names = n]
  OBVIOUS
<1>3. PICK new : new = [h EXCEPT !.config = c]
  OBVIOUS
<1>4. Replaced(o, r, n, c) = new
  BY <1>1, <1>2, <1>3, Zenon DEF Replaced
<1>5. g \in Object /\ g.regions = r /\ g.path = o.path
  BY <1>1 DEF Object, Config, Regions, Names, Path
<1>6. h \in Object /\ h.regions = r /\ h.names = n /\ h.path = o.path
  BY <1>2, <1>5 DEF Object, Config, Regions, Names, Path
<1>7. /\ new \in Object
      /\ new.regions = r /\ new.names = n /\ new.config = c /\ new.path = o.path
  BY <1>3, <1>6 DEF Object, Config, Regions, Names, Path
<1> QED
  BY <1>4, <1>7

\* A region, with its name in a new node if it has one, behind the others.
LEMMA addMemoryRegionKeeps ==
    ASSUME BuilderInv, NEW b \in Builder, NEW region \in Region, NEW name \in Name \cup {None},
           addMemoryRegion(b, region, name)
    PROVE  BuilderInv'
<1> DEFINE o == object[b]
           q == asked[b]
           node == IF name = None THEN None ELSE Fresh("node")
           item == [region |-> region, name |-> node]
           items == Append(o.regions.items, item)
           names == IF name = None THEN o.names ELSE Append(o.names, String(node, name))
           request == [region |-> region, name |-> name]
           regions == Append(q.regions, request)
<1>1. /\ b \in Live /\ o \in Object /\ q \in Request
      /\ Sound(b, o) /\ Faithful(b, o, q)
  BY DEF addMemoryRegion, BuilderInv, TypeOK, Usable, Live
<1>2. PICK array \in {Fresh("array"), o.regions.at} \ {None} :
         object' = [object EXCEPT ![b] =
                       [o EXCEPT !.regions = [at |-> array, items |-> items],
                                 !.names = names,
                                 !.config = PointToRegions(o.config, array, Len(items))]]
  BY DEF addMemoryRegion
<1> DEFINE o2 == [o EXCEPT !.regions = [at |-> array, items |-> items],
                           !.names = names,
                           !.config = PointToRegions(o.config, array, Len(items))]
           q2 == [q EXCEPT !.regions = regions]
<1>3. /\ object' = [object EXCEPT ![b] = o2] /\ asked' = [asked EXCEPT ![b] = q2]
      /\ created' = None
  BY <1>2 DEF addMemoryRegion, Record
<1>4. \A kind \in Kind :
         /\ Fresh(kind) \in Block /\ Fresh(kind)[1] = kind
         /\ \A a \in Live : ~Owns(object[a], Fresh(kind))
  BY FreshIsFree
<1>5. /\ array \in Block /\ array # None /\ array[1] = "array"
      /\ array = o.regions.at \/ \A a \in Live : ~Owns(object[a], array)
  BY <1>1, <1>4, StorageAssumption DEF Kind, Sound, Object, Config, Regions, Names, Path
<1>6. name # None => /\ node \in Block /\ node[1] = "node"
                     /\ \A a \in Live : ~Owns(object[a], node)
  BY <1>4 DEF Kind
<1>7. /\ o.regions.items \in Seq([region : Region, name : Pointer])
      /\ o.names \in Seq(StringIn(Block, Name))
      /\ q.regions \in Seq([region : Region, name : Name \cup {None}])
  BY <1>1 DEF Object, Config, Regions, Names, Path, Request
<1>8. item \in [region : Region, name : Pointer]
  BY <1>6 DEF Pointer
<1>9. name # None => String(node, name) \in StringIn(Block, Name)
  BY <1>6 DEF String, StringIn
<1>10. request \in [region : Region, name : Name \cup {None}]
  OBVIOUS
<1>11. /\ items \in Seq([region : Region, name : Pointer])
       /\ Len(items) = Len(o.regions.items) + 1 /\ Len(o.regions.items) \in Nat
       /\ \A k \in 1 .. Len(o.regions.items) : items[k] = o.regions.items[k]
       /\ items[Len(o.regions.items) + 1] = item
  <2> HIDE DEF item, o
  <2> QED
    BY <1>7, <1>8, Appended
<1>12. /\ regions \in Seq([region : Region, name : Name \cup {None}])
       /\ Len(regions) = Len(q.regions) + 1 /\ Len(q.regions) \in Nat
       /\ DOMAIN q.regions = 1 .. Len(q.regions)
       /\ DOMAIN regions = 1 .. (Len(q.regions) + 1)
       /\ \A k \in 1 .. Len(q.regions) : regions[k] = q.regions[k]
       /\ regions[Len(q.regions) + 1] = request
  <2> HIDE DEF request, q
  <2> QED
    BY <1>7, <1>10, Appended
<1>13. /\ Len(o.names) \in Nat
       /\ DOMAIN o.names = 1 .. Len(o.names)
       /\ name # None =>
             /\ names \in Seq(StringIn(Block, Name))
             /\ Len(names) = Len(o.names) + 1
             /\ DOMAIN names = 1 .. (Len(o.names) + 1)
             /\ \A k \in 1 .. Len(o.names) : names[k] = o.names[k]
             /\ names[Len(o.names) + 1] = String(node, name)
  <2>1. Len(o.names) \in Nat /\ DOMAIN o.names = 1 .. Len(o.names)
    BY <1>7
  <2>2. name # None => names = Append(o.names, String(node, name))
    BY Zenon
  <2>3. ASSUME name # None
        PROVE  /\ names \in Seq(StringIn(Block, Name))
               /\ Len(names) = Len(o.names) + 1
               /\ DOMAIN names = 1 .. (Len(o.names) + 1)
               /\ \A k \in 1 .. Len(o.names) : names[k] = o.names[k]
               /\ names[Len(o.names) + 1] = String(node, name)
    <3>1. PICK old : old = o.names
      OBVIOUS
    <3>2. PICK e : e = String(node, name)
      OBVIOUS
    <3>3. old \in Seq(StringIn(Block, Name)) /\ e \in StringIn(Block, Name)
      BY <1>7, <1>9, <2>3, <3>1, <3>2
    <3>4. names = Append(old, e)
      BY <2>2, <2>3, <3>1, <3>2, Zenon
    <3> HIDE DEF names, node, o
    <3> QED
      BY <3>1, <3>2, <3>3, <3>4, Appended
  <2> QED
    BY <2>1, <2>3
<1>14. name = None => names = o.names
  OBVIOUS
<1>15. Len(items) \in 0 .. MaxRegions /\ Len(o.regions.items) < MaxRegions
  BY <1>11, MaxRegionsAssumption DEF addMemoryRegion
<1>16. /\ o.config \in Config /\ array \in Pointer
       /\ [at |-> array, items |-> items] \in Regions
  <2> HIDE DEF items
  <2> QED
    BY <1>1, <1>5, <1>11 DEF Object, Config, Regions, Names, Path, Pointer, Regions
<1>17. /\ o2 \in Object
       /\ o2.regions.at = array /\ o2.regions.items = items
       /\ o2.names = names /\ o2.path = o.path
       /\ o2.config.regions = array /\ o2.config.count = Len(items)
       /\ o2.config.logPath = o.config.logPath
  <2>1. names \in Names
    BY <1>7, <1>13, <1>14 DEF Names
  <2>2. PICK c : c = PointToRegions(o.config, array, Len(items))
    OBVIOUS
  <2>3. /\ c \in Config
        /\ c.regions = array /\ c.count = Len(items) /\ c.logPath = o.config.logPath
    BY <1>15, <1>16, <2>2, PointedTo
  <2>4. PICK r : r = [at |-> array, items |-> items]
    OBVIOUS
  <2>5. r \in Regions /\ r.at = array /\ r.items = items
    BY <1>16, <2>4
  <2>6. o2 = Replaced(o, r, names, c)
    BY <2>2, <2>4, Zenon DEF Replaced
  <2>7. o2 \in Object /\ o2.regions = r /\ o2.names = names /\ o2.config = c /\ o2.path = o.path
    <3> HIDE DEF o2, names, items
    <3> QED
      BY <1>1, <2>1, <2>3, <2>5, <2>6, MembersReplaced
  <2> QED
    BY <2>3, <2>5, <2>7
<1>18. q2.regions = regions /\ q2.logPath = q.logPath /\ q2.pathMoved = q.pathMoved
  BY <1>1 DEF Request
<1>19. q2 \in Request
  BY <1>1, <1>12 DEF Request
<1> HIDE DEF o, q, o2, q2, node, items, names, regions, item, request
<1>22. ASSUME name # None, NEW k \in DOMAIN o.names
       PROVE  o.names[k].at # node
  BY <1>1, <1>6, <1>22 DEF Owns, o
<1>23. Sound(b, o2)
  <2>1. ASSUME NEW k \in DOMAIN names
        PROVE  /\ names[k].at[1] = "node"
               /\ \A j \in DOMAIN names : names[j].at = names[k].at => j = k
    <3>1. CASE name = None
      BY <1>1, <1>14, <3>1 DEF Sound
    <3>2. CASE name # None
      <4>1. \A j \in DOMAIN names : \/ j \in DOMAIN o.names /\ names[j] = o.names[j]
                                    \/ j = Len(o.names) + 1 /\ names[j].at = node
        BY <1>13, <3>2 DEF String
      <4> QED
        BY <1>1, <1>6, <1>22, <3>2, <4>1 DEF Sound
    <3> QED
      BY <3>1, <3>2
  <2>2. Len(names) <= Len(items)
    BY <1>1, <1>11, <1>13, <1>14 DEF Sound
  <2> QED
    BY <1>1, <1>5, <1>15, <1>17, <2>1, <2>2 DEF Sound
<1>24. RegionsFaithful(o2, q2)
  <2>0. RegionsFaithful(o, q)
    BY <1>1 DEF Faithful
  <2>1. Len(o.regions.items) = Len(q.regions)
    BY <2>0 DEF RegionsFaithful
  <2>2. ASSUME NEW p, NEW t, Named(o, p, t) PROVE Named(o2, p, t)
    BY <1>13, <1>14, <1>17, <2>2 DEF Named
  <2>3. ASSUME NEW k \in DOMAIN regions
        PROVE  /\ items[k].region = regions[k].region
               /\ Named(o2, items[k].name, regions[k].name)
    <3>1. CASE k \in DOMAIN q.regions
      BY <1>11, <1>12, <2>0, <2>1, <2>2, <3>1 DEF RegionsFaithful
    <3>2. CASE k = Len(q.regions) + 1
      <4>1. items[k] = item /\ regions[k] = request
        BY <1>11, <1>12, <2>1, <3>2
      <4>2. CASE name = None
        BY <4>1, <4>2 DEF Named, item, request, node
      <4>3. CASE name # None
        <5>1. /\ Len(o.names) + 1 \in DOMAIN names
              /\ names[Len(o.names) + 1].at = node /\ names[Len(o.names) + 1].text = name
          BY <1>13, <4>3 DEF String
        <5> QED
          BY <1>17, <4>1, <5>1 DEF Named, item, request
      <4> QED
        BY <4>2, <4>3
    <3> QED
      BY <1>12, <3>1, <3>2
  <2> QED
    BY <1>5, <1>11, <1>12, <1>17, <1>18, <2>1, <2>3 DEF RegionsFaithful
<1>25. PathFaithful(b, o2, q2)
  BY <1>1, <1>17, <1>18 DEF Faithful, PathFaithful
<1>26. ASSUME NEW p \in Block, Owns(o2, p)
       PROVE  \/ b \in Live /\ Owns(o, p)
              \/ \A a \in Live : ~Owns(object[a], p)
  <2>1. CASE \E k \in DOMAIN names : names[k].at = p
    <3>1. PICK k \in DOMAIN names : names[k].at = p
      BY <2>1
    <3>2. \/ k \in DOMAIN o.names /\ o.names[k].at = p
          \/ name # None /\ p = node
      BY <1>13, <1>14, <3>1 DEF String
    <3> QED
      BY <1>1, <1>6, <3>2 DEF Owns
  <2>2. CASE o.path # None /\ o.path.at = p
    BY <1>1, <2>2 DEF Owns
  <2>3. CASE array = p
    BY <1>1, <1>5, <2>3 DEF Owns
  <2> QED
    BY <1>17, <1>26, <2>1, <2>2, <2>3 DEF Owns
<1> QED
  BY <1>3, <1>17, <1>19, <1>23, <1>24, <1>25, <1>26, ChangeKeeps DEF Faithful, o

\* The builder after its path and the pointer to it were replaced.
LEMMA PathReplaced ==
    ASSUME NEW o \in Object, NEW path \in Path, NEW pointer \in Pointer
    PROVE  LET new == WithPath(o, path, pointer)
           IN  /\ new \in Object
               /\ new.path = path /\ new.regions = o.regions /\ new.names = o.names
               /\ new.config.regions = o.config.regions
               /\ new.config.count = o.config.count
               /\ new.config.logPath = pointer
<1>1. PICK h : h = [o EXCEPT !.path = path]
  OBVIOUS
<1>2. PICK new : new = [h EXCEPT !.config.logPath = pointer]
  OBVIOUS
<1>3. WithPath(o, path, pointer) = new
  BY <1>1, <1>2, Zenon DEF WithPath
<1>4. /\ h \in Object /\ h.path = path
      /\ h.regions = o.regions /\ h.names = o.names /\ h.config = o.config
  BY <1>1 DEF Object
<1>5. PICK c : c = [h.config EXCEPT !.logPath = pointer]
  OBVIOUS
<1>6. /\ c \in Config /\ c.logPath = pointer
      /\ c.regions = o.config.regions /\ c.count = o.config.count
  BY <1>4, <1>5 DEF Object, Config
<1>7. new = [h EXCEPT !.config = c]
  BY <1>2, <1>5
<1>8. /\ new \in Object /\ new.config = c /\ new.path = path
      /\ new.regions = o.regions /\ new.names = o.names
  BY <1>4, <1>6, <1>7 DEF Object
<1> QED
  BY <1>3, <1>6, <1>8

\* A new path, in a block that was free, in the block the old one had or in
\* the builder, and the pointer to it.
LEMMA PathChangeKeeps ==
    ASSUME BuilderInv, NEW b \in Builder, Usable(b),
           NEW path \in Path, NEW pointer \in Pointer, NEW text \in PathText,
           path = None => text = None /\ pointer = None,
           path # None =>
              /\ path.text = text /\ pointer = path.at /\ text # None
              /\ path.at = b => text \in ShortText
              /\ path.at # b =>
                    /\ path.at \in Block /\ path.at[1] = "text"
                    /\ \/ Owns(object[b], path.at)
                       \/ \A a \in Live : ~Owns(object[a], path.at),
           object' = [object EXCEPT ![b] = WithPath(object[b], path, pointer)],
           Record(b, [asked[b] EXCEPT !.logPath = text, !.pathMoved = FALSE]),
           created' = None
    PROVE  BuilderInv'
<1>1. /\ b \in Live /\ object[b] \in Object /\ asked[b] \in Request
      /\ Sound(b, object[b]) /\ RegionsFaithful(object[b], asked[b])
  BY DEF BuilderInv, TypeOK, Usable, Live, Faithful
<1>2. PICK o : o = WithPath(object[b], path, pointer)
  OBVIOUS
<1>3. /\ o \in Object
      /\ o.path = path /\ o.regions = object[b].regions /\ o.names = object[b].names
      /\ o.config.regions = object[b].config.regions
      /\ o.config.count = object[b].config.count
      /\ o.config.logPath = pointer
  BY <1>1, <1>2, PathReplaced
<1>4. PICK h : h = [asked[b] EXCEPT !.logPath = text]
  OBVIOUS
<1>5. PICK q : q = [h EXCEPT !.pathMoved = FALSE]
  OBVIOUS
<1>6. q = [asked[b] EXCEPT !.logPath = text, !.pathMoved = FALSE]
  BY <1>4, <1>5, Zenon
<1>7. h \in Request /\ h.logPath = text /\ h.regions = asked[b].regions
  BY <1>1, <1>4 DEF Request, PathText
<1>8. q \in Request /\ q.logPath = text /\ q.regions = asked[b].regions
  BY <1>5, <1>7 DEF Request
<1>9. asked' = [asked EXCEPT ![b] = q]
  BY <1>6, Zenon DEF Record
<1>10. object' = [object EXCEPT ![b] = o]
  BY <1>2
<1>11. Sound(b, o)
  BY <1>1, <1>3 DEF Sound
<1>12. Faithful(b, o, q)
  <2>1. RegionsFaithful(o, q)
    <3>1. \A p, name : Named(object[b], p, name) => Named(o, p, name)
      BY <1>3 DEF Named
    <3> QED
      BY <1>1, <1>3, <1>8, <3>1 DEF RegionsFaithful
  <2>2. PathFaithful(b, o, q)
    BY <1>3, <1>8 DEF PathFaithful
  <2> QED
    BY <2>1, <2>2 DEF Faithful
<1>13. \A p \in Block : Owns(o, p) =>
          \/ b \in Live /\ Owns(object[b], p)
          \/ \A a \in Live : ~Owns(object[a], p)
  BY <1>1, <1>3, StorageAssumption DEF Owns
<1> QED
  BY <1>3, <1>8, <1>9, <1>10, <1>11, <1>12, <1>13, ChangeKeeps

\* A short path stays where the builder keeps its path, a long one brings
\* its block.
LEMMA setLogPathKeeps ==
    ASSUME BuilderInv, NEW b \in Builder, NEW text \in ShortText \cup LongText,
           setLogPath(b, text)
    PROVE  BuilderInv'
<1> DEFINE arg == Argument(text)
           old == object[b].path
           path == MovedString(old, arg, b)
<1>1. /\ Usable(b)
      /\ object' = [object EXCEPT ![b] = WithPath(object[b], path, path.at)]
      /\ Record(b, [asked[b] EXCEPT !.logPath = text, !.pathMoved = FALSE])
      /\ created' = None
  BY DEF setLogPath
<1>2. b \in Live /\ Sound(b, object[b]) /\ old \in Path
  BY <1>1 DEF BuilderInv, TypeOK, Usable, Live, Object
<1>3. text # None /\ text \in Text
  BY ValuesAssumption DEF Text
<1>4. /\ arg.text = text
      /\ \/ arg.at = None /\ text \in ShortText
         \/ /\ arg.at \in Block /\ arg.at[1] = "text"
            /\ \A a \in Live : ~Owns(object[a], arg.at)
  BY FreshIsFree DEF Argument, String, Kind
<1>5. arg # None
  BY <1>3, <1>4, ValuesAssumption DEF Argument, String, StringIn, Pointer
<1>6. b # None /\ b \notin Block
  BY StorageAssumption
<1>7. old # None => /\ old.at \in Block \cup Builder
                    /\ old.at = b \/ (old.at \in Block /\ old.at[1] = "text")
                    /\ Owns(object[b], old.at)
  <2> SUFFICES ASSUME old # None
               PROVE  /\ old.at \in Block \cup Builder
                      /\ old.at = b \/ (old.at \in Block /\ old.at[1] = "text")
                      /\ Owns(object[b], old.at)
    OBVIOUS
  <2>1. Owns(object[b], old.at)
    BY DEF Owns
  <2>2. \/ old.at = b
        \/ old.at \in Block /\ old.at[1] = "text"
    BY <1>2 DEF Sound
  <2> QED
    BY <2>1, <2>2
<1>8. CASE arg.at \in Block
  <2>1. path = arg
    BY <1>5, <1>8 DEF MovedString
  <2>2. path \in Path
    BY <1>3, <1>8, <2>1 DEF Path, StringIn, Argument, String
  <2>3. path # None /\ path.at \in Pointer /\ path.at # b
    BY <1>5, <1>6, <1>8, <2>1 DEF Pointer
  <2> HIDE DEF path, arg
  <2> QED
    BY <1>1, <1>3, <1>4, <1>8, <2>1, <2>2, <2>3, StorageAssumption, PathChangeKeeps
       DEF PathText
<1>9. CASE arg.at = None
  <2>1. path = String(IF old = None THEN b ELSE old.at, text)
    BY <1>4, <1>5, <1>9, StorageAssumption DEF MovedString
  <2>2. path.text = text /\ path.at = IF old = None THEN b ELSE old.at
    BY <2>1 DEF String
  <2>3. path \in StringIn(Block \cup Builder, Text)
    BY <1>3, <1>7, <2>1 DEF StringIn, String
  <2>4. path \in Path /\ path.at \in Pointer /\ path # None
    BY <1>7, <2>2, <2>3, ValuesAssumption DEF Path, StringIn, Pointer
  <2>5. text \in ShortText
    BY <1>4, <1>9, StorageAssumption
  <2> HIDE DEF path, arg
  <2> QED
    BY <1>1, <1>3, <1>7, <2>2, <2>4, <2>5, PathChangeKeeps DEF PathText
<1> QED
  BY <1>4, <1>8, <1>9

LEMMA disableLogsKeeps ==
    ASSUME BuilderInv, NEW b \in Builder, disableLogs(b) PROVE BuilderInv'
<1>1. /\ Usable(b)
      /\ object' = [object EXCEPT ![b] = WithPath(object[b], None, None)]
      /\ Record(b, [asked[b] EXCEPT !.logPath = None, !.pathMoved = FALSE])
      /\ created' = None
  BY DEF disableLogs
<1>2. None \in Path /\ None \in Pointer /\ None \in PathText
  BY DEF Path, Pointer, PathText
<1> QED
  BY <1>1, <1>2, PathChangeKeeps

-----------------------------------------------------------------------------
(* Two builders change.                                                    *)

\* What a moved string is: the block it had, or its text where the target
\* keeps a text.
LEMMA MovedStringIs ==
    ASSUME NEW src \in Builder, NEW dst \in Builder,
           NEW to \in Path, NEW s \in Path,
           s # None => s.at = src \/ s.at \in Block,
           to # None => to.at = dst \/ to.at \in Block,
           NEW path, path = MovedString(to, s, dst)
    PROVE  /\ path \in Path
           /\ s = None => path = None
           /\ s # None =>
                 /\ path # None /\ path.text = s.text
                 /\ s.at \in Block => path = s
                 /\ s.at \notin Block /\ to = None => path.at = dst
                 /\ s.at \notin Block /\ to # None => path.at = to.at
<1>1. CASE s = None
  BY <1>1 DEF MovedString
<1>2. CASE s # None /\ s.at \in Block
  BY <1>2 DEF MovedString
<1>3. CASE s # None /\ s.at \notin Block
  <2>1. path = String(IF to = None THEN dst ELSE to.at, s.text)
    BY <1>3 DEF MovedString
  <2>2. path.text = s.text /\ path.at = IF to = None THEN dst ELSE to.at
    BY <2>1 DEF String
  <2>3. s.text \in Text
    BY <1>3 DEF Path, StringIn
  <2>4. path \in StringIn(Block \cup Builder, Text)
    BY <2>1, <2>3 DEF StringIn, String
  <2>5. path # None
    BY <2>4, ValuesAssumption DEF StringIn, Pointer
  <2> QED
    BY <1>3, <2>2, <2>4, <2>5 DEF Path
<1> QED
  BY <1>1, <1>2, <1>3

\* What is left of a moved string: the block of the target, if both had one.
LEMMA LeftStringIs ==
    ASSUME NEW src \in Builder, NEW to \in Path, NEW s \in Path,
           NEW left, left = LeftString(to, s, src)
    PROVE  /\ left \in Path
           /\ left # None =>
                 \/ left.at = src
                 \/ /\ s # None /\ s.at \in Block
                    /\ to # None /\ to.at \in Block /\ left.at = to.at
<1>1. EmptyText \in Text
  BY DEF Text
<1>2. CASE s = None
  BY <1>2 DEF LeftString, Path
<1>3. CASE s # None /\ s.at \in Block /\ to # None /\ to.at \in Block
  <2>1. left = String(to.at, EmptyText)
    BY <1>3 DEF LeftString
  <2> QED
    BY <1>1, <1>3, <2>1 DEF String, Path, StringIn
<1>4. CASE s # None /\ ~(s.at \in Block /\ to # None /\ to.at \in Block)
  <2>1. left = String(src, EmptyText)
    BY <1>4 DEF LeftString
  <2> QED
    BY <1>1, <2>1 DEF String, Path, StringIn
<1> QED
  BY <1>2, <1>3, <1>4

\* The object that was moved from keeps nothing but its configuration and,
\* perhaps, the block the target had for its path.
Left(o, path) == [o EXCEPT !.regions = NewBuilder.regions, !.names = <<>>, !.path = path]

LEMMA LeftIs ==
    ASSUME NEW o \in Object, NEW path \in Path
    PROVE  LET left == Left(o, path)
           IN  /\ left \in Object
               /\ left.regions = [at |-> None, items |-> <<>>]
               /\ left.names = <<>> /\ left.path = path
<1>1. PICK g : g = [o EXCEPT !.regions = NewBuilder.regions]
  OBVIOUS
<1>2. PICK h : h = [g EXCEPT !.names = <<>>]
  OBVIOUS
<1>3. PICK left : left = [h EXCEPT !.path = path]
  OBVIOUS
<1>4. Left(o, path) = left
  BY <1>1, <1>2, <1>3, Zenon DEF Left
<1>5. NewBuilder.regions = [at |-> None, items |-> <<>>] /\ NewBuilder.regions \in Regions
  BY DEF NewBuilder, Regions
<1>6. <<>> \in Names
  BY DEF Names
<1>7. g \in Object /\ g.regions = NewBuilder.regions
  BY <1>1, <1>5 DEF Object
<1>8. h \in Object /\ h.regions = NewBuilder.regions /\ h.names = <<>>
  BY <1>2, <1>6, <1>7 DEF Object
<1>9. /\ left \in Object /\ left.regions = NewBuilder.regions
      /\ left.names = <<>> /\ left.path = path
  BY <1>3, <1>8 DEF Object
<1> QED
  BY <1>4, <1>5, <1>9

\* Every block changes hands, none is shared, and pointers to blocks stay
\* right; only a path that was inside the object loses its pointer.
LEMMA MoveKeeps ==
    ASSUME BuilderInv, NEW src \in Builder, NEW dst \in Builder, src # dst, Usable(src),
           NEW old \in Path, MoveMembers(src, dst, old),
           old # None => dst \in Live /\ old = object[dst].path
    PROVE  BuilderInv'
<1> DEFINE o == object[src]
           q == asked[src]
<1>1. /\ src \in Live /\ o \in Object /\ q \in Request
      /\ Sound(src, o) /\ Faithful(src, o, q)
  BY DEF BuilderInv, TypeOK, Usable, Live
<1>2. /\ src # None /\ dst # None /\ src \notin Block /\ dst \notin Block
      /\ None \notin Block
  BY StorageAssumption
<1>3. PICK path : path = MovedString(old, o.path, dst)
  OBVIOUS
<1>4. PICK left : left = LeftString(old, o.path, src)
  OBVIOUS
<1>5. o.path \in Path /\ (o.path # None => o.path.at = src \/ o.path.at \in Block)
  BY <1>1 DEF Object, Sound
<1>6. old # None => /\ old.at = dst \/ (old.at \in Block /\ old.at[1] = "text")
                    /\ Owns(object[dst], old.at)
  <2> SUFFICES ASSUME old # None
               PROVE  /\ old.at = dst \/ (old.at \in Block /\ old.at[1] = "text")
                      /\ Owns(object[dst], old.at)
    OBVIOUS
  <2>1. Sound(dst, object[dst])
    BY DEF BuilderInv
  <2> QED
    BY <2>1 DEF Sound, Owns
<1>7. /\ path \in Path
      /\ o.path = None => path = None
      /\ o.path # None =>
            /\ path # None /\ path.text = o.path.text
            /\ o.path.at \in Block => path = o.path
            /\ o.path.at \notin Block /\ old = None => path.at = dst
            /\ o.path.at \notin Block /\ old # None => path.at = old.at
  <2>1. old # None => old.at = dst \/ old.at \in Block
    BY <1>6
  <2> HIDE DEF o
  <2> QED
    BY <1>3, <1>5, <2>1, MovedStringIs
<1>8. /\ left \in Path
      /\ left # None =>
            \/ left.at = src
            \/ /\ o.path # None /\ o.path.at \in Block
               /\ old # None /\ old.at \in Block /\ left.at = old.at
  <2> HIDE DEF o
  <2> QED
    BY <1>4, <1>5, LeftStringIs
<1>9. PICK target : target = [o EXCEPT !.path = path]
  OBVIOUS
<1>10. /\ target \in Object
       /\ target.path = path /\ target.config = o.config
       /\ target.regions = o.regions /\ target.names = o.names
  BY <1>1, <1>7, <1>9 DEF Object
<1>11. PICK source : source = Left(o, left)
  OBVIOUS
<1>12. /\ source \in Object
       /\ source.regions = [at |-> None, items |-> <<>>]
       /\ source.names = <<>> /\ source.path = left
  BY <1>1, <1>8, <1>11, LeftIs
<1>13. PICK request : request = [q EXCEPT !.pathMoved = q.logPath # None]
  OBVIOUS
<1>14. /\ request \in Request
       /\ request.regions = q.regions /\ request.logPath = q.logPath
  BY <1>1, <1>13 DEF Request
<1>15. q.logPath # None => request.pathMoved
  <2>1. request.pathMoved = (q.logPath # None)
    BY <1>1, <1>13 DEF Request
  <2> QED
    BY <2>1, Zenon
<1>16. /\ object' = [object EXCEPT ![dst] = target, ![src] = source]
       /\ asked' = [asked EXCEPT ![dst] = request, ![src] = Unspecified]
       /\ created' = None
  BY <1>3, <1>4, <1>9, <1>11, <1>13, Zenon DEF MoveMembers, Left
<1>17. /\ object \in [Builder -> Object \cup {Dead}]
       /\ asked \in [Builder -> Request \cup {Unspecified}]
  BY DEF BuilderInv, TypeOK
<1>18. /\ object'[dst] = target /\ object'[src] = source
       /\ \A a \in Builder \ {src, dst} : object'[a] = object[a]
       /\ object' \in [Builder -> Object \cup {Dead}]
  <2>1. PICK h : h = [object EXCEPT ![dst] = target]
    OBVIOUS
  <2>2. object' = [h EXCEPT ![src] = source]
    BY <1>16, <2>1, Zenon
  <2> QED
    BY <1>10, <1>12, <1>17, <2>1, <2>2
<1>19. /\ asked'[dst] = request /\ asked'[src] = Unspecified
       /\ \A a \in Builder \ {src, dst} : asked'[a] = asked[a]
       /\ asked' \in [Builder -> Request \cup {Unspecified}]
  <2>1. PICK h : h = [asked EXCEPT ![dst] = request]
    OBVIOUS
  <2>2. asked' = [h EXCEPT ![src] = Unspecified]
    BY <1>16, <2>1, Zenon
  <2> QED
    BY <1>14, <1>17, <2>1, <2>2
<1>20. Live' = Live \cup {dst}
  <2>1. target # Dead /\ source # Dead
    BY <1>10, <1>12, ValuesAssumption
  <2> QED
    BY <1>1, <1>18, <2>1 DEF Live
<1>21. TypeOK'
  <2>1. target # Dead /\ source # Dead
    BY <1>10, <1>12, ValuesAssumption
  <2> QED
    BY <1>16, <1>18, <1>19, <2>1 DEF BuilderInv, TypeOK
<1>22. Sound(dst, target)
  BY <1>1, <1>2, <1>5, <1>6, <1>7, <1>10 DEF Sound
<1>23. Sound(src, source)
  <2>1. Len(source.names) = 0 /\ Len(source.regions.items) = 0 /\ DOMAIN source.names = {}
    BY <1>12
  <2>2. source.regions.at = None
    BY <1>12
  <2>3. left # None => \/ left.at = src
                       \/ left.at \in Block /\ left.at[1] = "text"
    BY <1>2, <1>6, <1>8
  <2> QED
    BY <1>12, <2>1, <2>2, <2>3, MaxRegionsAssumption DEF Sound
<1>24. \A a \in Live' : Sound(a, object'[a])
  BY <1>18, <1>20, <1>22, <1>23 DEF BuilderInv, Live
<1>25. Faithful(dst, target, request)
  <2>1. RegionsFaithful(target, request)
    BY <1>1, <1>10, <1>14 DEF Faithful, RegionsFaithful, Named
  <2>2. CASE q.logPath = None
    BY <1>1, <1>7, <1>10, <1>14, <2>1, <2>2 DEF Faithful, PathFaithful
  <2>3. CASE q.logPath # None
    <3>1. /\ o.path # None /\ o.path.text = q.logPath
          /\ o.path.at = src => q.logPath \in ShortText
          /\ \/ o.config.logPath = o.path.at
             \/ q.logPath \in ShortText
      BY <1>1, <2>3 DEF Faithful, PathFaithful
    <3>2. path # None /\ path.text = q.logPath
      BY <1>7, <3>1
    <3>3. q.logPath \in ShortText \/ (path = o.path /\ o.path.at \in Block)
      BY <1>5, <1>7, <3>1
    <3> QED
      BY <1>2, <1>10, <1>14, <1>15, <2>1, <2>3, <3>1, <3>2, <3>3
         DEF Faithful, PathFaithful
  <2> QED
    BY <2>2, <2>3
<1>26. \A a \in Builder : Usable(a)' => Faithful(a, object'[a], asked'[a])
  BY <1>18, <1>19, <1>25 DEF BuilderInv, Usable
<1>27. ASSUME NEW p \in Block, Owns(target, p)
       PROVE  \/ Owns(o, p)
              \/ o.path # None /\ o.path.at \notin Block /\ old # None /\ p = old.at
  BY <1>2, <1>7, <1>10, <1>27 DEF Owns
<1>28. ASSUME NEW p \in Block, Owns(source, p)
       PROVE  o.path # None /\ o.path.at \in Block /\ old # None /\ p = old.at
  <2>1. source.names = <<>> /\ source.regions.at = None /\ source.path = left
    BY <1>12
  <2>2. DOMAIN source.names = {}
    BY <2>1
  <2> QED
    BY <1>2, <1>8, <1>28, <2>1, <2>2 DEF Owns
<1>29. Apart'
  <2>1. ASSUME NEW a \in Live, NEW c \in Live, NEW p \in Block,
               Owns(object[a], p), Owns(object[c], p)
        PROVE  a = c
    BY <2>1 DEF BuilderInv, Apart
  <2>2. ASSUME NEW p \in Block, Owns(target, p) \/ Owns(source, p)
        PROVE  Owns(o, p) \/ (dst \in Live /\ Owns(object[dst], p))
    BY <1>6, <1>27, <1>28, <2>2
  <2>3. ASSUME NEW p \in Block, Owns(target, p), Owns(source, p) PROVE FALSE
    BY <1>1, <1>6, <1>27, <1>28, <2>1, <2>3
  <2>4. ASSUME NEW a \in Live', NEW c \in Live', NEW p \in Block,
               Owns(object'[a], p), Owns(object'[c], p)
        PROVE  a = c
    <3>1. ASSUME NEW x \in {src, dst}, NEW y \in Live \ {src, dst},
                 Owns(object'[x], p), Owns(object'[y], p)
          PROVE  FALSE
      <4>1. Owns(o, p) \/ (dst \in Live /\ Owns(object[dst], p))
        BY <1>18, <2>2, <3>1
      <4>2. Owns(object[y], p)
        BY <1>18, <3>1 DEF Live
      <4> QED
        BY <1>1, <2>1, <4>1, <4>2
    <3>2. CASE a \in {src, dst} /\ c \in {src, dst}
      BY <1>18, <2>3, <2>4, <3>2
    <3>3. CASE a \in {src, dst} /\ c \notin {src, dst}
      BY <1>20, <2>4, <3>1, <3>3
    <3>4. CASE a \notin {src, dst} /\ c \in {src, dst}
      BY <1>20, <2>4, <3>1, <3>4
    <3>5. CASE a \notin {src, dst} /\ c \notin {src, dst}
      <4>1. a \in Live /\ c \in Live /\ object'[a] = object[a] /\ object'[c] = object[c]
        BY <1>18, <1>20, <3>5 DEF Live
      <4> QED
        BY <2>1, <2>4, <4>1
    <3> QED
      BY <3>2, <3>3, <3>4, <3>5
  <2> QED
    BY <2>4 DEF Apart
<1> QED
  BY <1>21, <1>24, <1>26, <1>29 DEF BuilderInv

\* A destructor frees the blocks of its object.
LEMMA DestroyKeeps ==
    ASSUME BuilderInv, NEW b \in Builder, Destroy(b) PROVE BuilderInv'
<1>1. /\ b \in Live
      /\ object' = [object EXCEPT ![b] = Dead]
      /\ asked' = [asked EXCEPT ![b] = Unspecified]
      /\ created' = None
  BY DEF Destroy
<1>2. TypeOK'
  BY <1>1 DEF BuilderInv, TypeOK
<1>3. /\ Live' = Live \ {b}
      /\ \A a \in Live' : object'[a] = object[a]
      /\ \A a \in Builder : Usable(a)' =>
            Usable(a) /\ object'[a] = object[a] /\ asked'[a] = asked[a]
  BY <1>1 DEF BuilderInv, TypeOK, Live, Usable
<1> QED
  BY <1>2, <1>3 DEF BuilderInv, Apart

-----------------------------------------------------------------------------
(* The theorems.                                                           *)

\* What was given to modelCreate is right when build returns; any other call
\* makes it a matter of the past.
CreatedInv == BuilderInv /\ RegionsAsAsked /\ PathUnlessShortMoved

\* Every member function keeps the invariant.
LEMMA BuilderStep == ASSUME CreatedInv, [Next]_vars PROVE CreatedInv'
<1>1. ASSUME BuilderInv', created' = None PROVE CreatedInv'
  BY <1>1 DEF CreatedInv, RegionsAsAsked, PathUnlessShortMoved
<1>2. BuilderInv
  BY DEF CreatedInv
<1>3. ASSUME NEW b \in Builder, Construct(b) PROVE CreatedInv'
  BY <1>1, <1>2, <1>3, ConstructKeeps DEF Construct
<1>4. ASSUME NEW b \in Builder, NEW region \in Region, NEW name \in Name \cup {None},
             addMemoryRegion(b, region, name)
      PROVE  CreatedInv'
  <2>1. created' = None
    BY <1>4 DEF addMemoryRegion
  <2> QED
    BY <1>1, <1>2, <1>4, <2>1, addMemoryRegionKeeps
<1>5. ASSUME NEW b \in Builder, NEW text \in ShortText \cup LongText, setLogPath(b, text)
      PROVE  CreatedInv'
  <2>1. created' = None
    BY <1>5 DEF setLogPath
  <2> QED
    BY <1>1, <1>2, <1>5, <2>1, setLogPathKeeps
<1>6. ASSUME NEW b \in Builder, disableLogs(b) PROVE CreatedInv'
  <2>1. created' = None
    BY <1>6 DEF disableLogs
  <2> QED
    BY <1>1, <1>2, <1>6, <2>1, disableLogsKeeps
<1>7. ASSUME NEW src \in Builder, NEW dst \in Builder, MoveConstruct(src, dst)
      PROVE  CreatedInv'
  <2>1. /\ Usable(src) /\ src # dst
        /\ MoveMembers(src, dst, None)
    BY <1>2, <1>7 DEF MoveConstruct, BuilderInv, TypeOK, Live, Usable
  <2>2. None \in Path
    BY DEF Path
  <2>3. created' = None
    BY <2>1 DEF MoveMembers
  <2> QED
    BY <1>1, <1>2, <2>1, <2>2, <2>3, MoveKeeps
<1>8. ASSUME NEW src \in Builder, NEW dst \in Builder, MoveAssign(src, dst)
      PROVE  CreatedInv'
  <2>1. /\ Usable(src) /\ src # dst /\ dst \in Live
        /\ MoveMembers(src, dst, object[dst].path)
    BY <1>8 DEF MoveAssign
  <2>2. object[dst].path \in Path
    BY <1>2, <2>1, LiveObject DEF BuilderInv, Object
  <2>3. created' = None
    BY <2>1 DEF MoveMembers
  <2> QED
    BY <1>1, <1>2, <2>1, <2>2, <2>3, MoveKeeps
<1>9. ASSUME NEW b \in Builder, Destroy(b) PROVE CreatedInv'
  <2>1. created' = None
    BY <1>9 DEF Destroy
  <2> QED
    BY <1>1, <1>2, <1>9, <2>1, DestroyKeeps
<1>10. ASSUME UNCHANGED <<object, asked>>, created' = None \/ created'.by \in Live
       PROVE  BuilderInv'
  BY <1>2, <1>10 DEF BuilderInv, TypeOK, Live, Apart, Usable
<1>11. ASSUME NEW b \in Builder, build(b) PROVE CreatedInv'
  <2>1. /\ Usable(b) /\ UNCHANGED <<object, asked>>
        /\ created'.by = b
        /\ created'.regions = FoundRegions(b) /\ created'.logPath = FoundLogPath(b)
    BY <1>11 DEF build
  <2>2. b \in Live
    BY <1>2, <2>1 DEF BuilderInv, TypeOK, Usable, Live
  <2>3. BuilderInv'
    BY <1>10, <2>1, <2>2
  <2> QED
    BY <1>2, <2>1, <2>3, RegionsFound, PathFound
       DEF CreatedInv, RegionsAsAsked, PathUnlessShortMoved
<1>12. ASSUME NEW b \in Builder, buildFails(b) PROVE CreatedInv'
  BY <1>1, <1>10, <1>12 DEF buildFails
<1>13. CASE UNCHANGED vars
  BY <1>13 DEF vars, CreatedInv, BuilderInv, TypeOK, Live, Apart, Usable,
               RegionsAsAsked, PathUnlessShortMoved
<1> QED
  BY <1>3, <1>4, <1>5, <1>6, <1>7, <1>8, <1>9, <1>11, <1>12, <1>13 DEF Next

\* The invariant holds whatever a program calls in whatever order.
LEMMA BuilderInvariant == Spec => []CreatedInv
<1>1. Init => CreatedInv
  BY ValuesAssumption DEF Init, CreatedInv, BuilderInv, TypeOK, Live, Apart, Usable,
                          RegionsAsAsked, PathUnlessShortMoved
<1> QED
  BY <1>1, BuilderStep, PTL DEF Spec

\* Builders, the memory they own and their configurations keep their types
\* (State::Builder), for any number of builders and regions.
THEOREM BuilderTypeCorrect == Spec => []TypeOK
<1>1. CreatedInv => TypeOK
  BY DEF CreatedInv, BuilderInv
<1> QED
  BY <1>1, BuilderInvariant, PTL

\* The configuration that build passes on leads to the memory regions that
\* addMemoryRegion was called with, however often the array was moved and the
\* builder was moved.
THEOREM RegionsAreAsAsked == Spec => []RegionsAsAsked
<1>1. CreatedInv => RegionsAsAsked
  BY DEF CreatedInv
<1> QED
  BY <1>1, BuilderInvariant, PTL

\* Only a short path can be lost, and only by a move of the builder after
\* setLogPath.
THEOREM PathsAreAsAsked == Spec => []PathUnlessShortMoved
<1>1. CreatedInv => PathUnlessShortMoved
  BY DEF CreatedInv
<1> QED
  BY <1>1, BuilderInvariant, PTL
=============================================================================
