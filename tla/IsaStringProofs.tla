--------------------------- MODULE IsaStringProofs ---------------------------
(***************************************************************************)
(* Descriptors and strings converted into each other keep their meaning,   *)
(* are accepted and settle, for any descriptors, sizes and strings.        *)
(***************************************************************************)
EXTENDS ExtensionProofs

\* What is there comes of the last conversion: a string of the descriptor that
\* is still there, a descriptor of the last string, up to what strings do not
\* hold.
Made ==
    passes > 0 /\ form # "descriptor" =>
        /\ isa = create_isa_string(ext, sizes, rv64)
        /\ form \in {"rejected", "undefined"} => ~Accepts(isa)

Parsed ==
    passes > 0 /\ form = "descriptor" =>
        /\ sizes = InitSizes
        /\ ext \ Unwritten
             = normalize_extensions(Listed(isa) \cap Extensions, rv64) \ Unwritten

\* From the second string on, every string comes of a set that a pass has been
\* over.
Passed ==
    passes > 1 => \E L \in SUBSET Extensions :
        isa = create_isa_string(normalize_extensions(L, isa.bits = 64), InitSizes,
                                isa.bits = 64)

IsaInv == IsaTypeOK /\ Made /\ Parsed /\ Passed

-----------------------------------------------------------------------------
LEMMA IsaInitInv == IsaInit => IsaInv
<1> SUFFICES ASSUME IsaInit PROVE IsaInv
  OBVIOUS
<1> USE MaxPassesAssumption
<1>1. CASE /\ form = "descriptor" /\ passes = 0
           /\ ext \in SUBSET Descriptors
           /\ sizes \in KnownSizes
           /\ rv64 \in BOOLEAN
           /\ isa = NoString
  <2>1. isa.bits = 0
    BY <1>1 DEF NoString
  <2>2. IsaTypeOK
    BY <1>1, <2>1, DescriptorsAssumption DEF IsaTypeOK, Forms
  <2> QED BY <1>1, <2>2 DEF IsaInv, Made, Parsed, Passed
<1>2. CASE /\ form = "string" /\ passes = 0
           /\ ext = {}
           /\ sizes = InitSizes
           /\ rv64 = TRUE
           /\ isa \in Strings
  <2>1. isa.bits \in {64, 32, 0} /\ InitSizes \in Sizes
    BY <1>2, WithinLists DEF Strings
  <2>2. IsaTypeOK
    BY <1>2, <2>1 DEF IsaTypeOK, Forms
  <2> QED BY <1>2, <2>2 DEF IsaInv, Made, Parsed, Passed
<1> QED BY <1>1, <1>2 DEF IsaInit

LEMMA CreateInv == IsaInv /\ Create => IsaInv'
<1> SUFFICES ASSUME IsaInv, Create PROVE IsaInv'
  OBVIOUS
<1> USE MaxPassesAssumption
<1>1. /\ form = "descriptor" /\ form' = "string"
      /\ passes' = passes + 1 /\ passes < MaxPasses
      /\ isa' = create_isa_string(ext, sizes, rv64)
      /\ ext' = ext /\ sizes' = sizes /\ rv64' = rv64
  BY DEF Create
<1>2. /\ ext \in SUBSET Extensions /\ sizes \in Sizes /\ rv64 \in BOOLEAN
      /\ passes \in 0 .. MaxPasses
  BY DEF IsaInv, IsaTypeOK
<1>3. isa'.bits = IF rv64 THEN 64 ELSE 32
  BY <1>1 DEF create_isa_string
<1>4. IsaTypeOK'
  BY <1>1, <1>2, <1>3 DEF IsaTypeOK, Forms
<1>5. Made'
  BY <1>1 DEF Made
<1>6. Parsed'
  BY <1>1 DEF Parsed
<1>7. Passed'
  <2>1. CASE passes > 0
    <3> DEFINE L == Listed(isa) \cap Extensions
    <3>1. sizes = InitSizes
      BY <1>1, <2>1 DEF IsaInv, Parsed
    <3>2. ext \ Unwritten = normalize_extensions(L, rv64) \ Unwritten
      BY <1>1, <2>1 DEF IsaInv, Parsed
    <3>3. (\E M \in SUBSET Extensions :
             isa' = create_isa_string(normalize_extensions(M, rv64), InitSizes, rv64))
      <4> L \in SUBSET Extensions
        OBVIOUS
      <4> HIDE DEF L
      <4>1. isa' = create_isa_string(normalize_extensions(L, rv64), InitSizes, rv64)
        BY <1>1, <3>1, <3>2, CreateSame
      <4> QED BY <4>1
    <3>4. (isa'.bits = 64) = rv64
      BY <1>2, <1>3
    <3> QED BY <3>3, <3>4 DEF Passed
  <2>2. CASE ~(passes > 0)
    BY <1>1, <1>2, <2>2 DEF Passed
  <2> QED BY <2>1, <2>2
<1> QED BY <1>4, <1>5, <1>6, <1>7 DEF IsaInv

LEMMA ParseInv == IsaInv /\ Parse => IsaInv'
<1> SUFFICES ASSUME IsaInv, Parse PROVE IsaInv'
  OBVIOUS
<1>1. /\ form = "string" /\ form' = "descriptor" /\ Accepts(isa)
      /\ ext' = parse_isa_string(isa)
      /\ sizes' = InitSizes
      /\ rv64' = (isa.bits = 64)
      /\ isa' = isa /\ passes' = passes
  BY DEF Parse
<1>2. isa.bits \in {32, 64} /\ passes \in 0 .. MaxPasses
  BY <1>1 DEF Accepts, WellFormed, IsaInv, IsaTypeOK
<1>3. ext' = normalize_extensions(Listed(isa) \cap Extensions, rv64')
  BY <1>1 DEF parse_isa_string
<1>4. ext' \subseteq Extensions
  BY <1>3, NormInLists
<1>5. IsaTypeOK'
  BY <1>1, <1>2, <1>4, WithinLists DEF IsaTypeOK, Forms
<1>6. Made' /\ Parsed'
  BY <1>1, <1>3 DEF Made, Parsed
<1>7. Passed'
  BY <1>1 DEF IsaInv, Passed
<1> QED BY <1>5, <1>6, <1>7 DEF IsaInv

LEMMA ParseFailsInv == IsaInv /\ (ParseThrows \/ ParseAborts) => IsaInv'
<1> SUFFICES ASSUME IsaInv, ParseThrows \/ ParseAborts PROVE IsaInv'
  OBVIOUS
<1>1. /\ form = "string" /\ form' \in {"rejected", "undefined"} /\ ~Accepts(isa)
      /\ ext' = ext /\ sizes' = sizes /\ rv64' = rv64 /\ isa' = isa /\ passes' = passes
  BY DEF ParseThrows, ParseAborts, Accepts
<1>2. IsaTypeOK'
  BY <1>1 DEF IsaInv, IsaTypeOK, Forms
<1>3. Made' /\ Parsed' /\ Passed'
  BY <1>1 DEF IsaInv, Made, Parsed, Passed
<1> QED BY <1>2, <1>3 DEF IsaInv

\* What the drivers add is not written in a string.
LEMMA AddTranslationIs ==
    AddTranslation => /\ ext' \ Unwritten = ext \ Unwritten
                      /\ ext \subseteq Extensions => ext' \subseteq Extensions
<1> SUFFICES ASSUME AddTranslation PROVE /\ ext' \ Unwritten = ext \ Unwritten
                                         /\ ext \subseteq Extensions => ext' \subseteq Extensions
  OBVIOUS
<1> DEFINE added == (IF rv64 THEN {"sv39", "sv48", "sv57"} ELSE {"sv32"}) \cup {"s"}
<1>1. ext' = (ext \ {"sv32", "sv39", "sv48", "sv57"}) \cup added
  BY DEF AddTranslation
<1>2. added \subseteq Unwritten /\ {"sv32", "sv39", "sv48", "sv57"} \subseteq Unwritten
  BY DEF Unwritten, ReservedLetters, TranslationModes
<1>3. Unwritten \subseteq Extensions
  <2>1. ReservedLetters \subseteq ToSet(Misa) /\ TranslationModes \subseteq ToSet(Privileged)
    BY DEF ReservedLetters, TranslationModes, ToSet, Misa, Privileged
  <2> QED BY <2>1, MultiIs DEF Extensions, Unwritten
<1> HIDE DEF added
<1> QED BY <1>1, <1>2, <1>3

LEMMA AddTranslationInv == IsaInv /\ AddTranslation => IsaInv'
<1> SUFFICES ASSUME IsaInv, AddTranslation PROVE IsaInv'
  OBVIOUS
<1>1. /\ form = "descriptor" /\ form' = form
      /\ sizes' = sizes /\ rv64' = rv64 /\ isa' = isa /\ passes' = passes
  BY DEF AddTranslation
<1>2. ext' \ Unwritten = ext \ Unwritten /\ ext' \subseteq Extensions
  BY AddTranslationIs DEF IsaInv, IsaTypeOK
<1>3. IsaTypeOK'
  BY <1>1, <1>2 DEF IsaInv, IsaTypeOK
<1>4. Made' /\ Parsed' /\ Passed'
  BY <1>1, <1>2 DEF IsaInv, Made, Parsed, Passed
<1> QED BY <1>3, <1>4 DEF IsaInv

LEMMA IsaNextInv == IsaInv /\ [IsaNext]_vars => IsaInv'
<1> SUFFICES ASSUME IsaInv, [IsaNext]_vars PROVE IsaInv'
  OBVIOUS
<1>1. CASE UNCHANGED vars
  BY <1>1 DEF vars, IsaInv, IsaTypeOK, Made, Parsed, Passed
<1> QED BY <1>1, CreateInv, ParseInv, ParseFailsInv, AddTranslationInv DEF IsaNext

\* The inductive invariant holds.
THEOREM IsaInvariant == IsaSpec => []IsaInv
BY IsaInitInv, IsaNextInv, PTL DEF IsaSpec

-----------------------------------------------------------------------------
(* The properties.                                                         *)

\* Extensions stay those of the lists, sizes within the arrays, and the
\* bitness of a parsed descriptor is that of its string.
THEOREM IsaTypeCorrect == IsaSpec => []IsaTypeOK
<1>1. IsaInv => IsaTypeOK
  BY DEF IsaInv
<1> QED BY <1>1, IsaInvariant, PTL

\* No string that create_isa_string makes of a descriptor with a base is
\* rejected by parse_isa_string, or read past its end.
THEOREM CreatedIsTaken == IsaSpec => []CreatedIsAccepted
<1>1. IsaInv => CreatedIsAccepted
  BY CreateAccepted DEF IsaInv, IsaTypeOK, Made, CreatedIsAccepted
<1> QED BY <1>1, IsaInvariant, PTL

\* No conversion and no pass of normalize_extensions changes what a
\* configuration means.
THEOREM NothingLostOrGained == IsaSpec => MeaningKept
<1>1. ASSUME IsaInv, [IsaNext]_vars, Uncut PROVE Subject' = Subject
  <2>1. CASE Create
    <3>1. /\ form = "descriptor" /\ form' = "string"
          /\ isa' = create_isa_string(ext, sizes, rv64)
      BY <2>1 DEF Create
    <3>2. ext \in SUBSET Extensions /\ sizes \in Sizes /\ rv64 \in BOOLEAN
      BY <1>1 DEF IsaInv, IsaTypeOK
    <3>3. (isa'.bits = 64) = rv64
      BY <3>1, <3>2, CreateBits
    <3>4. Subject' = Meaning(Listed(isa') \cap Extensions, rv64)
      BY <3>1, <3>3 DEF Subject
    <3>5. Subject = Meaning(ext \cap (ToSet(Misa) \cup Within(sizes)), rv64)
      BY <3>1 DEF Subject, Enabled
    <3>6. Meaning(Listed(isa') \cap Extensions, rv64)
            = Meaning(ext \cap (ToSet(Misa) \cup Within(sizes)), rv64)
      <4>1. /\ Opened(Opened(ext \cap Known(sizes))) \subseteq Known(sizes)
            /\ (ext \ (ext \cap Known(sizes))) \cap (Wholes \cup {"zca", "zcf", "zcd"}) = {}
        BY <1>1, Zenon DEF Uncut, Enabled, Known
      <4>2. (ext \ Known(sizes)) \cap (Wholes \cup {"zca", "zcf", "zcd"}) = {}
        BY <4>1
      <4>3. FitsIn(ext, sizes)
        BY <4>1, <4>2 DEF FitsIn
      <4>4. Meaning(Listed(create_isa_string(ext, sizes, rv64)) \cap Extensions, rv64)
              = Meaning(ext \cap Known(sizes), rv64)
        BY <3>2, <4>3, CreateMeans
      <4> QED BY <3>1, <4>4 DEF Known
    <3> QED BY <3>4, <3>5, <3>6
  <2>2. CASE Parse
    <3> DEFINE L == Listed(isa) \cap Extensions
    <3>1. /\ form = "string" /\ form' = "descriptor"
          /\ ext' = normalize_extensions(L, isa.bits = 64)
          /\ sizes' = InitSizes /\ rv64' = (isa.bits = 64)
      BY <2>2 DEF Parse, parse_isa_string
    <3>2. ext' \subseteq Extensions
      BY <3>1, NormInLists
    <3>3. Enabled' = ext'
      BY <3>1, <3>2, WithinLists DEF Enabled, Extensions
    <3>4. Subject' = Meaning(normalize_extensions(L, isa.bits = 64), isa.bits = 64)
      BY <3>1, <3>3 DEF Subject
    <3>5. Subject = Meaning(L, isa.bits = 64)
      BY <3>1 DEF Subject
    <3> QED BY <3>4, <3>5, NormMeans
  <2>3. CASE ParseThrows \/ ParseAborts
    BY <2>3 DEF ParseThrows, ParseAborts, Subject
  <2>4. CASE AddTranslation
    <3> DEFINE K == ToSet(Misa) \cup Within(sizes)
    <3>1. /\ form = "descriptor" /\ form' = "descriptor"
          /\ sizes' = sizes /\ rv64' = rv64
      BY <2>4 DEF AddTranslation
    <3>2. ext' \ Unwritten = ext \ Unwritten
      BY <2>4, AddTranslationIs
    <3>3. (ext' \cap K) \ Unwritten = (ext \cap K) \ Unwritten
      BY <3>2
    <3>4. Meaning(ext' \cap K, rv64) = Meaning(ext \cap K, rv64)
      BY <3>3, Carried
    <3>5. Subject' = Meaning(ext' \cap K, rv64) /\ Subject = Meaning(ext \cap K, rv64)
      BY <3>1 DEF Subject, Enabled
    <3> QED BY <3>4, <3>5
  <2>5. CASE UNCHANGED vars
    BY <2>5 DEF vars, Subject, Enabled
  <2> QED BY <1>1, <2>1, <2>2, <2>3, <2>4, <2>5 DEF IsaNext
<1>2. IsaInv /\ [IsaNext]_vars => [Uncut => Subject' = Subject]_vars
  BY <1>1
<1> QED BY <1>2, IsaInvariant, PTL DEF IsaSpec, MeaningKept

\* The second string made of a configuration is made again by every
\* conversion after it.
THEOREM StringsSettle == IsaSpec => Settles
<1>1. ASSUME IsaInv, [IsaNext]_vars, passes >= 2, passes' # passes PROVE isa' = isa
  <2>1. Create
    BY <1>1 DEF IsaNext, Parse, ParseThrows, ParseAborts, AddTranslation, vars
  <2>2. /\ form = "descriptor" /\ passes > 0 /\ passes > 1
        /\ isa' = create_isa_string(ext, sizes, rv64)
        /\ rv64 \in BOOLEAN
    BY <1>1, <2>1 DEF Create, IsaInv, IsaTypeOK
  <2>3. /\ sizes = InitSizes
        /\ ext \ Unwritten
             = normalize_extensions(Listed(isa) \cap Extensions, rv64) \ Unwritten
    BY <1>1, <2>2 DEF IsaInv, Parsed
  <2>4. (isa.bits = 64) = rv64
    BY <1>1, <2>2 DEF IsaInv, IsaTypeOK
  <2>5. PICK L \in SUBSET Extensions :
          isa = create_isa_string(normalize_extensions(L, rv64), InitSizes, rv64)
    BY <1>1, <2>2, <2>4 DEF IsaInv, Passed
  <2> QED BY <2>2, <2>3, <2>5, CreateSettles
<1>2. IsaInv /\ [IsaNext]_vars => [passes >= 2 /\ passes' # passes => isa' = isa]_vars
  BY <1>1
<1> QED BY <1>2, IsaInvariant, PTL DEF IsaSpec, Settles
=============================================================================
