----------------------------- MODULE StartUpProofs -----------------------------
(***************************************************************************)
(* For every command line, plugin and executable, a driver starts the      *)
(* machine they call for or none.                                          *)
(***************************************************************************)
EXTENDS StartUp, WellFoundedInduction, TLAPS

-----------------------------------------------------------------------------
(* Command lines: the elements that parseCommandLine examines, whatever    *)
(* the length of the line, and the options after every round of its loop.  *)

\* Launch and StartUp speak of options and elements in the same words.
LEMMA SameOptions ==
    /\ Promise!OptionName = OptionName
    /\ Promise!NumberOption = NumberOption
    /\ Promise!DriverOptions = DriverOptions
    /\ \A e : /\ Promise!TakesNext(e) <=> TakesNext(e)
              /\ Promise!IsSeparator(e) <=> IsSeparator(e)
              /\ Promise!TextOf(e) = TextOf(e)
<1>1. Promise!OptionName = OptionName
  BY DEF OptionName, long_options, SimOptions, ExtOpts, ToSet, Promise!OptionName,
         Promise!long_options, Promise!SimOptions, Promise!ExtOpts, Promise!ToSet
<1>2. Promise!NumberOption = NumberOption
  BY DEF NumberOption, Promise!NumberOption
<1>3. Promise!DriverOptions = DriverOptions
  BY <1>1 DEF DriverOptions, Promise!DriverOptions, Dash, Promise!Dash
<1>4. ASSUME NEW e
      PROVE  /\ Promise!TakesNext(e) <=> TakesNext(e)
             /\ Promise!IsSeparator(e) <=> IsSeparator(e)
             /\ Promise!TextOf(e) = TextOf(e)
  BY <1>1 DEF TakesNext, IsSeparator, TextOf, IsWord, Odd, Promise!TakesNext,
              Promise!IsSeparator, Promise!TextOf, Promise!IsWord, Promise!Odd
<1> QED BY <1>1, <1>2, <1>3, <1>4

\* The options there are.
LEMMA Options15 ==
    /\ OptionName = {"DebugLogPath", "ModelLogPath", "ExecFile", "IsaStringOverride", "StopMode",
                     "ModelLib", "AllowExceptions", "OutputState", "JsonExecLog",
                     "RomStart", "RomSize", "RamStart", "RamSize",
                     "ClearInterrupt", "NumStepsBeforeInt"}
    /\ DOMAIN long_options = 1 .. 15
    /\ \A row \in DOMAIN long_options : CaseOf(row) = long_options[row]
<1>1. Len(SimOptions) = 5 /\ Len(ExtOpts) = 10 /\ DOMAIN long_options = 1 .. 15
  BY DEF long_options, SimOptions, ExtOpts
<1>2. ASSUME NEW row \in 1 .. 15 PROVE CaseOf(row) = long_options[row]
  BY <1>1 DEF CaseOf, long_options, SimOptions, ExtOpts
<1>3. OptionName = {long_options[row] : row \in 1 .. 15}
  BY <1>1 DEF OptionName, ToSet
<1>4. /\ long_options[1] = "DebugLogPath" /\ long_options[2] = "ModelLogPath"
      /\ long_options[3] = "ExecFile" /\ long_options[4] = "IsaStringOverride"
      /\ long_options[5] = "StopMode" /\ long_options[6] = "ModelLib"
      /\ long_options[7] = "AllowExceptions" /\ long_options[8] = "OutputState"
      /\ long_options[9] = "JsonExecLog" /\ long_options[10] = "RomStart"
      /\ long_options[11] = "RomSize" /\ long_options[12] = "RamStart"
      /\ long_options[13] = "RamSize" /\ long_options[14] = "ClearInterrupt"
      /\ long_options[15] = "NumStepsBeforeInt"
  BY DEF long_options, SimOptions, ExtOpts
<1>5. \A row \in 1 .. 15 : \/ row = 1 \/ row = 2 \/ row = 3 \/ row = 4 \/ row = 5
                           \/ row = 6 \/ row = 7 \/ row = 8 \/ row = 9 \/ row = 10
                           \/ row = 11 \/ row = 12 \/ row = 13 \/ row = 14 \/ row = 15
  OBVIOUS
<1> HIDE DEF long_options
<1> QED BY <1>1, <1>2, <1>3, <1>4, <1>5

\* They are texts and no absent one; numbers are options.
LEMMA Names ==
    /\ None \notin OptionName /\ None # Odd /\ Odd \notin OptionName
    /\ NumberOption \subseteq OptionName
    /\ "ClearInterrupt" \in OptionName \ NumberOption
<1>1. None \notin OptionName /\ None # Odd
  BY NameAssumption
<1> QED BY <1>1, Options15 DEF Odd, NumberOption

-----------------------------------------------------------------------------
(* The elements that are examined.                                         *)

\* A round of the loop over getopt_long begins at element k.
Starts(l, k) == \E m \in 0 .. k - 1 : m % 2 = 0 /\ Promise!Row(l, k, m)

\* The separators before element p are values.
SeparatorsAreValues(l, p) == \A j \in 1 .. p - 1 : IsSeparator(l[j]) => Promise!IsValue(l, j)

\* What was examined before element p.
Before(l, p) == {k \in Promise!Examined(l) : k < p}

\* How many elements in a row want the next one is determined, so that the
\* first element of a round is no value.
LEMMA StartIsNoValue ==
    ASSUME NEW l \in Seq(Element), NEW k \in 1 .. Len(l) + 1, Starts(l, k)
    PROVE  ~Promise!IsValue(l, k)
<1> SUFFICES ASSUME NEW n \in 1 .. k - 1, n % 2 = 1, Promise!Row(l, k, n)
             PROVE  FALSE
  BY DEF Promise!IsValue
<1>1. PICK m \in 0 .. k - 1 : m % 2 = 0 /\ Promise!Row(l, k, m)
  BY DEF Starts
<1>2. Len(l) \in Nat /\ k \in Nat /\ m \in Nat /\ n \in Nat
  OBVIOUS
<1>3. CASE m < n
  <2>1. m < k - 1 /\ k - m - 1 \in k - n .. k - 1
    BY <1>2, <1>3
  <2> QED BY <1>1, <2>1 DEF Promise!Row
<1>4. CASE n < m
  <2>1. n < k - 1 /\ k - n - 1 \in k - m .. k - 1
    BY <1>2, <1>4
  <2> QED BY <1>1, <2>1 DEF Promise!Row
<1> QED BY <1>1, <1>2, <1>3, <1>4

\* Behind an option that takes no value a round begins; one that takes the next
\* element makes it a value, and a round begins behind that.
LEMMA NextStart ==
    ASSUME NEW l \in Seq(Element), NEW k \in 1 .. Len(l), Starts(l, k)
    PROVE  /\ ~TakesNext(l[k]) => Starts(l, k + 1)
           /\ TakesNext(l[k]) => Promise!IsValue(l, k + 1) /\ Starts(l, k + 2)
<1>1. PICK m \in 0 .. k - 1 : m % 2 = 0 /\ Promise!Row(l, k, m)
  BY DEF Starts
<1>2. Len(l) \in Nat /\ k \in Nat /\ m \in Nat
  OBVIOUS
<1>3. ASSUME NEW j \in 1 .. Len(l) + 1, 0 < j - 1, ~TakesNext(l[j - 1])
      PROVE  Starts(l, j)
  <2>1. Promise!Row(l, j, 0)
    BY <1>2, <1>3, SameOptions DEF Promise!Row
  <2> QED BY <2>1 DEF Starts
<1>4. CASE ~TakesNext(l[k])
  BY <1>2, <1>3, <1>4
<1>5. CASE TakesNext(l[k])
  <2>1. Promise!Row(l, k + 1, m + 1)
    <3>1. ASSUME NEW j \in k + 1 - (m + 1) .. k + 1 - 1 PROVE Promise!TakesNext(l[j])
      BY <1>1, <1>2, <1>5, SameOptions DEF Promise!Row
    <3>2. m + 1 < k + 1 - 1 => ~Promise!TakesNext(l[k + 1 - (m + 1) - 1])
      <4>1. k + 1 - (m + 1) - 1 = k - m - 1
        BY <1>2
      <4> QED BY <1>1, <1>2, <4>1 DEF Promise!Row
    <3> QED BY <3>1, <3>2 DEF Promise!Row
  <2>2. m + 1 \in 1 .. k + 1 - 1 /\ (m + 1) % 2 = 1
    BY <1>1, <1>2
  <2>3. Promise!IsValue(l, k + 1)
    BY <2>1, <2>2 DEF Promise!IsValue
  <2>4. CASE ~TakesNext(l[k + 1])
    <3>1. Promise!Row(l, k + 2, 0)
      <4>1. k + 2 - 0 - 1 = k + 1 /\ k + 2 - 0 .. k + 2 - 1 = {}
        BY <1>2
      <4> QED BY <4>1, <2>4, SameOptions DEF Promise!Row
    <3> QED BY <1>2, <1>5, <2>3, <3>1 DEF Starts
  <2>5. CASE TakesNext(l[k + 1])
    <3>1. Promise!Row(l, k + 2, m + 2)
      <4>1. ASSUME NEW j \in k + 2 - (m + 2) .. k + 2 - 1 PROVE Promise!TakesNext(l[j])
        <5>1. j = k + 1 \/ j \in k + 1 - (m + 1) .. k + 1 - 1
          BY <1>2
        <5> QED BY <5>1, <2>1, <2>5, SameOptions DEF Promise!Row
      <4>2. m + 2 < k + 2 - 1 => ~Promise!TakesNext(l[k + 2 - (m + 2) - 1])
        <5>1. k + 2 - (m + 2) - 1 = k - m - 1
          BY <1>2
        <5> QED BY <1>1, <1>2, <5>1 DEF Promise!Row
      <4> QED BY <4>1, <4>2 DEF Promise!Row
    <3>2. m + 2 \in 0 .. k + 2 - 1 /\ (m + 2) % 2 = 0
      BY <1>1, <1>2
    <3> QED BY <1>5, <2>3, <3>1, <3>2 DEF Starts
  <2> QED BY <1>5, <2>3, <2>4, <2>5
<1> QED BY <1>4, <1>5

\* A round that begins at an element which is no separator examines it and no
\* other.
LEMMA OneRound ==
    ASSUME NEW l \in Seq(Element), NEW k \in 1 .. Len(l), NEW next,
           Starts(l, k), SeparatorsAreValues(l, k), ~IsSeparator(l[k]),
           next = k + Length(l[k])
    PROVE  /\ k \in Promise!Examined(l)
           /\ Starts(l, next)
           /\ SeparatorsAreValues(l, next)
           /\ Before(l, next) = Before(l, k) \cup {k}
<1>1. Len(l) \in Nat /\ k \in Nat /\ DOMAIN l = 1 .. Len(l)
  OBVIOUS
<1>2. ~Promise!IsValue(l, k)
  BY <1>1, StartIsNoValue
<1>3. k \in Promise!Examined(l)
  BY <1>1, <1>2, SameOptions DEF Promise!Examined, SeparatorsAreValues
<1>4. CASE ~TakesNext(l[k])
  <2>1. next = k + 1
    BY <1>4 DEF Length
  <2>2. Starts(l, next)
    BY <1>4, <2>1, NextStart
  <2>3. SeparatorsAreValues(l, next)
    BY <1>1, <2>1 DEF SeparatorsAreValues
  <2>4. ASSUME NEW j \in Promise!Examined(l) PROVE j < next <=> j < k \/ j = k
    BY <1>1, <2>1 DEF Promise!Examined
  <2> QED BY <1>3, <2>2, <2>3, <2>4 DEF Before
<1>5. CASE TakesNext(l[k])
  <2>1. next = k + 2
    BY <1>5 DEF Length
  <2>2. Promise!IsValue(l, k + 1) /\ Starts(l, next)
    BY <1>5, <2>1, NextStart
  <2>3. SeparatorsAreValues(l, next)
    <3> SUFFICES ASSUME NEW j \in 1 .. next - 1, IsSeparator(l[j])
                 PROVE  Promise!IsValue(l, j)
      BY DEF SeparatorsAreValues
    <3>1. j = k + 1 \/ j = k \/ j \in 1 .. k - 1
      BY <1>1, <2>1
    <3> QED BY <2>2, <3>1 DEF SeparatorsAreValues
  <2>4. ASSUME NEW j \in Promise!Examined(l) PROVE j < next <=> j < k \/ j = k
    <3>1. j # k + 1 /\ j \in Nat
      BY <1>1, <2>2 DEF Promise!Examined
    <3> QED BY <1>1, <2>1, <3>1
  <2> QED BY <1>3, <2>2, <2>3, <2>4 DEF Before
<1> QED BY <1>3, <1>4, <1>5

-----------------------------------------------------------------------------
(* The options while the line is read.                                     *)

\* What Readable asks of element k.
ReadableAt(l, k) ==
    /\ l[k].name # Odd
    /\ TakesNext(l[k]) => k < Len(l)
    /\ l[k].name \in NumberOption => Promise!ValueAt(l, k) \in DOMAIN Number

\* Of the elements that were examined, the last that names the option gave it
\* its value.
HoldsLast(l, examined, option, value) ==
    LET places == {k \in examined : l[k].name = option}
    IN  \/ places = {} /\ value = DriverOptions[option]
        \/ \E k \in places :
              /\ \A j \in places : j <= k
              /\ value = Promise!Meaning(option, Promise!ValueAt(l, k))

\* Between two rounds of the loop.
Parsing ==
    /\ Starts(argv, optind) /\ SeparatorsAreValues(argv, optind)
    /\ \A k \in Before(argv, optind) : ReadableAt(argv, k)
    /\ \A option \in OptionName :
          HoldsLast(argv, Before(argv, optind), option, Options[option])

\* After it.
Parsed ==
    /\ Promise!Readable(argv)
    /\ \A option \in OptionName : Options[option] = Promise!Asked(argv, option)

\* The place of an element, the parts of an element.
LEMMA ElementOf ==
    ASSUME NEW l \in Seq(Element), NEW k \in 1 .. Len(l)
    PROVE  /\ l[k].name \in OptionName \cup {None, Odd}
           /\ l[k].value \in Word \cup {None}
<1>1. l[k] \in Element
  OBVIOUS
<1> QED BY <1>1 DEF Element

\* The value of a readable option is a text, and there is one.
LEMMA ValueIsText ==
    ASSUME NEW l \in Seq(Element), NEW k \in 1 .. Len(l), l[k].name \in OptionName,
           TakesNext(l[k]) => k < Len(l)
    PROVE  Promise!ValueAt(l, k) \in (Word \cup {Odd}) \ {None}
<1>1. CASE TakesNext(l[k])
  <2>1. k + 1 \in 1 .. Len(l)
    BY <1>1
  <2>2. TextOf(l[k + 1]) \in (Word \cup {Odd}) \ {None}
    BY <2>1, ElementOf, Names DEF TextOf, IsWord
  <2> QED BY <1>1, <2>2, SameOptions DEF Promise!ValueAt
<1>2. CASE ~TakesNext(l[k])
  <2>1. l[k].value \in Word \ {None}
    BY <1>2, ElementOf DEF TakesNext
  <2> QED BY <1>2, <2>1, SameOptions DEF Promise!ValueAt
<1> QED BY <1>1, <1>2

\* One more element names its option and no other.
LEMMA OneMore ==
    ASSUME NEW l, NEW examined \in SUBSET Nat, NEW k \in Nat,
           \A j \in examined : j < k,
           NEW option, NEW value
    PROVE  /\ HoldsLast(l, examined, option, value) /\ l[k].name # option
                => HoldsLast(l, examined \cup {k}, option, value)
           /\ value = Promise!Meaning(option, Promise!ValueAt(l, k)) /\ l[k].name = option
                => HoldsLast(l, examined \cup {k}, option, value)
<1> DEFINE old == {j \in examined : l[j].name = option}
           new == {j \in examined \cup {k} : l[j].name = option}
<1>1. CASE l[k].name # option
  <2>1. new = old
    BY <1>1
  <2> QED BY <1>1, <2>1 DEF HoldsLast
<1>2. CASE l[k].name = option
  <2>1. k \in new /\ \A j \in new : j <= k
    BY <1>2
  <2> QED BY <1>2, <2>1 DEF HoldsLast
<1> QED BY <1>1, <1>2

\* A number that is the greatest of a set is its Max.
LEMMA MaxIs ==
    ASSUME NEW S \in SUBSET Nat, NEW m \in S, \A n \in S : n <= m
    PROVE  Promise!Max(S) = m
<1>1. \A x \in S : (\A y \in S : x >= y) <=> x = m
  OBVIOUS
<1>2. (CHOOSE x \in S : \A y \in S : x >= y) = m
  BY <1>1
<1> QED BY <1>2 DEF Promise!Max

\* The defaults are values of their options.
LEMMA Defaults ==
    /\ DOMAIN DriverOptions = OptionName
    /\ \A option \in OptionName :
          IF option \in NumberOption THEN DriverOptions[option] \in Nat
          ELSE IF option = "ClearInterrupt" THEN DriverOptions[option] \in BOOLEAN
          ELSE DriverOptions[option] \in Text
<1>1. ASSUME NEW option \in OptionName
      PROVE  IF option \in NumberOption THEN DriverOptions[option] \in Nat
             ELSE IF option = "ClearInterrupt" THEN DriverOptions[option] \in BOOLEAN
             ELSE DriverOptions[option] \in Text
  <2>1. CASE option \in {"RomStart", "RamStart"}
    BY <2>1, DefaultAssumption DEF DriverOptions, NumberOption
  <2>2. CASE option \in {"RomSize", "RamSize"}
    BY <2>2, DefaultAssumption DEF DriverOptions, NumberOption
  <2>3. CASE option = "NumStepsBeforeInt"
    BY <2>3 DEF DriverOptions, NumberOption
  <2>4. CASE option \in {"ModelLib", "OutputState"}
    BY <2>4 DEF DriverOptions, NumberOption, Text, Dash
  <2>5. CASE option = "AllowExceptions"
    BY <2>5 DEF DriverOptions, NumberOption, Text
  <2>6. CASE option = "ModelLogPath"
    BY <2>6 DEF DriverOptions, NumberOption, Text
  <2>7. CASE option = "ClearInterrupt"
    BY <2>7 DEF DriverOptions, NumberOption
  <2>8. CASE option \in {"DebugLogPath", "ExecFile", "IsaStringOverride", "StopMode",
                         "JsonExecLog"}
    BY <2>8 DEF DriverOptions, NumberOption, Text
  <2> QED BY <2>1, <2>2, <2>3, <2>4, <2>5, <2>6, <2>7, <2>8, Options15
<1> QED BY <1>1 DEF DriverOptions

-----------------------------------------------------------------------------
(* The loop.                                                               *)

\* Before the first round nothing was examined and the options are the defaults.
LEMMA ParsingBegins ==
    ASSUME CommandLineInit(CommandLines)
    PROVE  CommandLineTypeOK /\ Parsing
<1>1. argv \in Seq(Element) /\ optind = 1 /\ Options = DriverOptions
  BY LineAssumption DEF CommandLineInit
<1>2. CommandLineTypeOK
  BY <1>1, Defaults DEF CommandLineTypeOK
<1>3. Starts(argv, optind)
  <2>1. Promise!Row(argv, 1, 0)
    BY DEF Promise!Row
  <2> QED BY <1>1, <2>1 DEF Starts
<1>4. SeparatorsAreValues(argv, optind)
  BY <1>1 DEF SeparatorsAreValues
<1>5. Before(argv, optind) = {}
  BY <1>1 DEF Before, Promise!Examined
<1>6. \A option \in OptionName :
        HoldsLast(argv, Before(argv, optind), option, Options[option])
  BY <1>1, <1>5 DEF HoldsLast
<1> QED BY <1>2, <1>3, <1>4, <1>5, <1>6 DEF Parsing

\* A word is examined and names no option.
LEMMA SkipWordParses ==
    ASSUME CommandLineTypeOK, Parsing, SkipWord
    PROVE  CommandLineTypeOK' /\ Parsing'
<1>1. /\ argv \in Seq(Element) /\ optind \in 1 .. Len(argv)
      /\ ~IsSeparator(argv[optind]) /\ IsWord(argv[optind])
      /\ optind' = optind + 1 /\ argv' = argv /\ Options' = Options
  BY DEF CommandLineTypeOK, SkipWord, AtEnd
<1>2. ~TakesNext(argv[optind]) /\ argv[optind].name = None
  BY <1>1 DEF IsWord, TakesNext
<1>3. optind' = optind + Length(argv[optind])
  BY <1>1, <1>2 DEF Length
<1>4. /\ Starts(argv, optind') /\ SeparatorsAreValues(argv, optind')
      /\ Before(argv, optind') = Before(argv, optind) \cup {optind}
  BY <1>1, <1>3, OneRound DEF Parsing
<1>5. CommandLineTypeOK'
  BY <1>1 DEF CommandLineTypeOK
<1>6. \A k \in Before(argv, optind') : ReadableAt(argv, k)
  <2>1. ReadableAt(argv, optind)
    BY <1>2, Names DEF ReadableAt
  <2> QED BY <1>4, <2>1 DEF Parsing
<1>7. ASSUME NEW option \in OptionName
      PROVE  HoldsLast(argv, Before(argv, optind'), option, Options[option])
  <2>1. argv[optind].name # option
    BY <1>2, Names
  <2>2. /\ Before(argv, optind) \in SUBSET Nat /\ optind \in Nat
        /\ \A j \in Before(argv, optind) : j < optind
    BY <1>1 DEF Before, Promise!Examined
  <2>3. HoldsLast(argv, Before(argv, optind), option, Options[option])
    BY DEF Parsing
  <2> QED BY <1>4, <2>1, <2>2, <2>3, OneMore
<1>8. Parsing'
  BY <1>1, <1>4, <1>6, <1>7 DEF Parsing
<1> QED BY <1>5, <1>8

\* An option is found in its own row, whatever the order of the table, and gets
\* the value that the line means by it.
LEMMA ReadOptionParses ==
    ASSUME CommandLineTypeOK, Parsing, ReadOption
    PROVE  CommandLineTypeOK' /\ Parsing'
<1> DEFINE e == argv[optind]
<1>1. /\ argv \in Seq(Element) /\ optind \in 1 .. Len(argv) /\ Len(argv) \in Nat
      /\ ~IsSeparator(e) /\ ~IsWord(e) /\ ~Unreadable /\ ~NotANumber
      /\ optind' = optind + Length(e) /\ argv' = argv
  BY DEF CommandLineTypeOK, ReadOption, AtEnd
<1>2. e.name \in OptionName /\ e.name # Odd /\ (TakesNext(e) => optind < Len(argv))
  <2>1. e.name # Odd /\ ~(TakesNext(e) /\ optind = Len(argv))
    BY <1>1 DEF Unreadable, AtEnd
  <2>2. e.name # None
    BY <1>1 DEF IsSeparator, IsWord
  <2> QED BY <1>1, <2>1, <2>2, ElementOf
<1>3. CaseOf(Row) = e.name
  <2>1. \E k \in DOMAIN long_options : long_options[k] = e.name
    BY <1>2 DEF OptionName, ToSet
  <2>2. Row \in DOMAIN long_options /\ long_options[Row] = e.name
    BY <2>1 DEF Row
  <2> QED BY <2>2, Options15
<1>4. optarg = Promise!ValueAt(argv, optind)
  BY SameOptions DEF optarg, Promise!ValueAt
<1>5. optarg \in (Word \cup {Odd}) \ {None}
  BY <1>1, <1>2, <1>4, ValueIsText
<1>6. e.name \in NumberOption => optarg \in DOMAIN Number
  BY <1>1, <1>3 DEF NotANumber
<1>7. PICK value : /\ value = Promise!Meaning(e.name, optarg)
                   /\ Options' = [Options EXCEPT ![e.name] = value]
  <2>1. CASE e.name \in NumberOption
    BY <1>3, <2>1, SameOptions, Names DEF ReadOption, Promise!Meaning
  <2>2. CASE e.name \notin NumberOption /\ e.name = "ClearInterrupt"
    BY <1>3, <2>2, SameOptions, Names DEF ReadOption, Promise!Meaning
  <2>3. CASE e.name \notin NumberOption /\ e.name # "ClearInterrupt"
    BY <1>3, <2>3, SameOptions, Names DEF ReadOption, Promise!Meaning
  <2> QED BY <2>1, <2>2, <2>3
<1>8. IF e.name \in NumberOption THEN value \in Nat
      ELSE IF e.name = "ClearInterrupt" THEN value \in BOOLEAN
      ELSE value \in Text
  BY <1>5, <1>6, <1>7, SameOptions, NumberAssumption DEF Promise!Meaning, Text
<1>9. /\ DOMAIN Options' = OptionName
      /\ \A option \in OptionName :
            Options'[option] = IF option = e.name THEN value ELSE Options[option]
  BY <1>7 DEF CommandLineTypeOK
<1>10. optind' \in 1 .. Len(argv) + 1
  BY <1>1, <1>2 DEF Length
<1>11. CommandLineTypeOK'
  BY <1>1, <1>8, <1>9, <1>10 DEF CommandLineTypeOK
<1>12. /\ Starts(argv, optind') /\ SeparatorsAreValues(argv, optind')
       /\ Before(argv, optind') = Before(argv, optind) \cup {optind}
  BY <1>1, OneRound DEF Parsing
<1>13. \A k \in Before(argv, optind') : ReadableAt(argv, k)
  <2>1. ReadableAt(argv, optind)
    BY <1>2, <1>4, <1>6 DEF ReadableAt
  <2> QED BY <1>12, <2>1 DEF Parsing
<1>14. ASSUME NEW option \in OptionName
       PROVE  HoldsLast(argv, Before(argv, optind'), option, Options'[option])
  <2>1. /\ Before(argv, optind) \in SUBSET Nat /\ optind \in Nat
        /\ \A j \in Before(argv, optind) : j < optind
    BY <1>1 DEF Before, Promise!Examined
  <2>2. HoldsLast(argv, Before(argv, optind), option, Options[option])
    BY DEF Parsing
  <2>3. CASE option = e.name
    <3>1. Options'[option] = Promise!Meaning(option, Promise!ValueAt(argv, optind))
      BY <1>4, <1>7, <1>9, <2>3
    <3>2. HoldsLast(argv, Before(argv, optind) \cup {optind}, option, Options'[option])
      BY <2>1, <2>3, <3>1, OneMore
    <3> QED BY <1>12, <3>2
  <2>4. CASE option # e.name
    <3>1. Options'[option] = Options[option]
      BY <1>9, <2>4
    <3>2. HoldsLast(argv, Before(argv, optind) \cup {optind}, option, Options[option])
      BY <2>1, <2>2, <2>4, OneMore
    <3> QED BY <1>12, <3>1, <3>2
  <2> QED BY <2>3, <2>4
<1>15. Parsing'
  BY <1>1, <1>12, <1>13, <1>14 DEF Parsing
<1> QED BY <1>11, <1>15

\* What is behind the end of the loop is not examined, so that the options are
\* what the whole line says.
LEMMA AllRead ==
    ASSUME CommandLineTypeOK, Parsing, AtEnd
    PROVE  Parsed
<1>1. /\ argv \in Seq(Element) /\ Len(argv) \in Nat /\ DOMAIN argv = 1 .. Len(argv)
      /\ optind \in 1 .. Len(argv) + 1
      /\ optind \in 1 .. Len(argv) => IsSeparator(argv[optind])
  BY DEF CommandLineTypeOK, AtEnd
<1>2. ASSUME NEW k \in Promise!Examined(argv)
      PROVE  k \in Before(argv, optind) \/ (k = optind /\ IsSeparator(argv[k]))
  <2>1. k \in 1 .. Len(argv)
    BY <1>1 DEF Promise!Examined
  <2>2. CASE k > optind
    <3>1. optind \in 1 .. Len(argv) /\ optind \in 1 .. k - 1
      BY <1>1, <2>1, <2>2
    <3>2. Promise!IsValue(argv, optind)
      BY <1>1, <3>1, SameOptions DEF Promise!Examined
    <3>3. ~Promise!IsValue(argv, optind)
      BY <1>1, StartIsNoValue DEF Parsing
    <3> QED BY <3>2, <3>3
  <2>3. CASE k = optind
    BY <1>1, <2>1, <2>3
  <2>4. CASE k < optind
    BY <2>4 DEF Before
  <2> QED BY <1>1, <2>1, <2>2, <2>3, <2>4
<1>3. ASSUME NEW k, IsSeparator(argv[k])
      PROVE  ReadableAt(argv, k) /\ argv[k].name \notin OptionName
  BY <1>3, Names DEF IsSeparator, ReadableAt, TakesNext
<1>4. Promise!Readable(argv)
  <2>1. \A k \in Promise!Examined(argv) : ReadableAt(argv, k)
    BY <1>2, <1>3 DEF Parsing
  <2> QED BY <2>1, SameOptions DEF Promise!Readable, ReadableAt, Odd, Promise!Odd
<1>5. ASSUME NEW option \in OptionName
      PROVE  Options[option] = Promise!Asked(argv, option)
  <2> DEFINE places == {k \in Promise!Examined(argv) : argv[k].name = option}
  <2>1. places = {k \in Before(argv, optind) : argv[k].name = option}
    BY <1>2, <1>3 DEF Before
  <2>2. HoldsLast(argv, Before(argv, optind), option, Options[option])
    BY DEF Parsing
  <2>3. CASE places = {}
    <3>1. Promise!Given(argv, option) = None
      BY <2>3 DEF Promise!Given
    <3>2. Options[option] = DriverOptions[option]
      BY <2>1, <2>2, <2>3 DEF HoldsLast
    <3> QED BY <3>1, <3>2, SameOptions DEF Promise!Asked
  <2>4. CASE places # {}
    <3>1. PICK k \in places : /\ \A j \in places : j <= k
                              /\ Options[option] = Promise!Meaning(option, Promise!ValueAt(argv, k))
      BY <2>1, <2>2, <2>4 DEF HoldsLast
    <3>2. places \in SUBSET Nat
      BY <1>1 DEF Promise!Examined
    <3>3. Promise!Max(places) = k
      BY <3>1, <3>2, MaxIs
    <3>4. Promise!Given(argv, option) = Promise!ValueAt(argv, k)
      BY <2>4, <3>3 DEF Promise!Given
    <3>5. Promise!ValueAt(argv, k) # None
      <4>1. k \in 1 .. Len(argv) /\ argv[k].name = option /\ ReadableAt(argv, k)
        BY <1>1, <1>2, <1>3 DEF Promise!Examined, Parsing
      <4> QED BY <1>1, <4>1, ValueIsText DEF ReadableAt
    <3> QED BY <3>1, <3>4, <3>5 DEF Promise!Asked
  <2> QED BY <2>3, <2>4
<1> QED BY <1>4, <1>5 DEF Parsed

-----------------------------------------------------------------------------
(* Executables.                                                            *)

\* Launch and StartUp see the same in an executable.
LEMMA SameFiles ==
    /\ Promise!NoStopPC = NoStopPC
    /\ \A file : Promise!Loadable(file) <=> Loadable(file)
    /\ \A segment : /\ Promise!Writes(segment) <=> Writes(segment)
                    /\ Promise!Invalid(segment) <=> Invalid(segment)
                    /\ Promise!Bytes(segment) = Bytes(segment)
    /\ \A start, size : Promise!Region(start, size) = Region(start, size)
<1>1. ASSUME NEW file PROVE Promise!Loadable(file) <=> Loadable(file)
  BY DEF Loadable, Promise!Loadable
<1>2. ASSUME NEW segment
      PROVE  /\ Promise!Writes(segment) <=> Writes(segment)
             /\ Promise!Invalid(segment) <=> Invalid(segment)
             /\ Promise!Bytes(segment) = Bytes(segment)
  BY DEF Writes, Invalid, Bytes, Promise!Writes, Promise!Invalid, Promise!Bytes
<1>3. ASSUME NEW start, NEW size PROVE Promise!Region(start, size) = Region(start, size)
  BY DEF Region, Promise!Region
<1>4. Promise!NoStopPC = NoStopPC
  BY DEF NoStopPC, Promise!NoStopPC
<1> QED BY <1>1, <1>2, <1>3, <1>4

\* The elements of a sequence.
LEMMA ItemOf ==
    ASSUME NEW S, NEW s \in Seq(S), NEW k \in 1 .. Len(s)
    PROVE  s[k] \in S
OBVIOUS

\* Numbers have a least one.
LEMMA LeastOf ==
    ASSUME NEW S \in SUBSET Nat, S # {}
    PROVE  \E m \in S : \A n \in S : m <= n
<1> DEFINE R == {pair \in Nat \X Nat : pair[1] < pair[2]}
<1>1. \A x, y \in Nat : <<y, x>> \in R <=> y < x
  OBVIOUS
<1>2. IsWellFoundedOn(R, Nat)
  BY NatLessThanWellFounded DEF OpToRel
<1> HIDE DEF R
<1>3. PICK m \in S : \A n \in S : ~ (<<n, m>> \in R)
  BY <1>2, WFMin
<1>4. ASSUME NEW n \in S PROVE m <= n
  <2>1. ~(n < m) /\ m \in Nat /\ n \in Nat
    BY <1>1, <1>3
  <2> QED BY <2>1
<1> QED BY <1>4

\* It is the Min.
LEMMA MinIs ==
    ASSUME NEW S \in SUBSET Nat, NEW m \in S, \A n \in S : m <= n
    PROVE  Min(S) = m /\ Promise!Min(S) = m
<1>1. \A x \in S : (\A y \in S : x =< y) <=> x = m
  OBVIOUS
<1>2. (CHOOSE x \in S : \A y \in S : x =< y) = m
  BY <1>1
<1> QED BY <1>2 DEF Min, Promise!Min

\* The types of the parts of an executable.
LEMMA FileParts ==
    ASSUME NEW file \in File
    PROVE  /\ file # NoFile /\ file.entry \in PC
           /\ file.segments \in Seq(AnySegment(Byte))
           /\ Len(file.segments) \in Nat
           /\ DOMAIN file.segments = 1 .. Len(file.segments)
           /\ \A k \in 1 .. Len(file.segments) :
                 /\ file.segments[k].paddr \in Nat
                 /\ file.segments[k].data \in Seq(Byte)
<1>1. file # NoFile /\ file.entry \in PC /\ file.segments \in Seq(AnySegment(Byte))
  BY FileAssumption
<1>2. ASSUME NEW k \in 1 .. Len(file.segments)
      PROVE  file.segments[k].paddr \in Nat /\ file.segments[k].data \in Seq(Byte)
  <2>1. file.segments[k] \in AnySegment(Byte)
    BY <1>1
  <2> QED BY <2>1 DEF AnySegment
<1> QED BY <1>1, <1>2

\* The table that the search stops at is the one that Launch means; its symbols
\* have addresses.
LEMMA SymbolsOf ==
    ASSUME NEW file \in File, Tables(file) # {}
    PROVE  /\ SymbolTable(file).symbols \in Seq([name : STRING, value : PC])
           /\ Promise!LabelTable(file) # {}
           /\ SymbolTable(file)
                = file.sections[CHOOSE k \in Promise!LabelTable(file) : TRUE]
<1>1. file.sections \in Seq(AnySection)
  BY FileAssumption
<1>2. Tables(file) \in SUBSET Nat /\ Tables(file) \subseteq DOMAIN file.sections
  BY <1>1 DEF Tables
<1>3. PICK m \in Tables(file) : \A n \in Tables(file) : m <= n
  BY <1>2, LeastOf
<1>4. Min(Tables(file)) = m
  BY <1>2, <1>3, MinIs
<1>5. SymbolTable(file) \in AnySection
  BY <1>1, <1>2, <1>4 DEF SymbolTable
<1>6. DOMAIN file.sections = 1 .. Len(file.sections) /\ Len(file.sections) \in Nat
  BY <1>1
<1>7. ASSUME NEW k \in DOMAIN file.sections
      PROVE  k \in Tables(file) <=> Promise!HasSymbols(file.sections[k])
  BY DEF Tables, Promise!HasSymbols
<1>8. Promise!IsLabelTable(file, m)
  <2>1. ASSUME NEW j \in 1 .. m - 1 PROVE ~Promise!HasSymbols(file.sections[j])
    <3>1. j \in DOMAIN file.sections /\ ~(m <= j)
      BY <1>2, <1>6
    <3> QED BY <1>3, <1>7, <3>1
  <2> QED BY <1>2, <1>7, <2>1 DEF Promise!IsLabelTable
<1>9. ASSUME NEW k \in DOMAIN file.sections, Promise!IsLabelTable(file, k)
      PROVE  k = m
  <2>1. k \in Tables(file)
    BY <1>7, <1>9 DEF Promise!IsLabelTable
  <2>2. ~(m \in 1 .. k - 1)
    BY <1>2, <1>7, <1>9 DEF Promise!IsLabelTable
  <2> QED BY <1>2, <1>3, <1>6, <2>1, <2>2
<1>10. \A k : k \in Promise!LabelTable(file) <=> k = m
  BY <1>2, <1>8, <1>9 DEF Promise!LabelTable
<1>11. (CHOOSE k \in Promise!LabelTable(file) : TRUE) = m
  BY <1>10
<1> QED BY <1>4, <1>5, <1>10, <1>11 DEF AnySection, SymbolTable

\* Where the loop over the symbols is left is the end that Launch means.
LEMMA FirstEndIsEnd ==
    ASSUME NEW file \in File, Tables(file) # {}
    PROVE  /\ FirstEnd(SymbolTable(file).symbols) = Promise!End(file)
           /\ FirstEnd(SymbolTable(file).symbols) \in PC \cup {NoStopPC}
<1>1. PICK symbols \in Seq([name : STRING, value : PC]) : symbols = SymbolTable(file).symbols
  BY SymbolsOf
<1> DEFINE ends == {k \in DOMAIN symbols : symbols[k].name = "_sim_end"}
<1>2. ends \in SUBSET Nat
  OBVIOUS
<1>3. CASE ends = {}
  <2>1. FirstEnd(symbols) = NoStopPC
    BY <1>3 DEF FirstEnd, LeftAt
  <2>2. Promise!End(file) = NoStopPC
    BY <1>1, <1>3, SymbolsOf, SameFiles DEF Promise!End
  <2> QED BY <1>1, <2>1, <2>2
<1>4. CASE ends # {}
  <2>1. PICK m \in ends : \A n \in ends : m <= n
    BY <1>2, <1>4, LeastOf
  <2>2. Promise!Min(ends) = m
    BY <1>2, <2>1, MinIs
  <2>3. Promise!End(file) = symbols[m].value
    BY <1>1, <1>4, <2>2, SymbolsOf DEF Promise!End
  <2>4. m \in 1 .. Len(symbols) /\ Len(symbols) \in Nat /\ DOMAIN symbols = 1 .. Len(symbols)
    OBVIOUS
  <2>5. ASSUME NEW k \in DOMAIN symbols PROVE LeftAt(symbols, k) <=> k = m
    <3>1. ASSUME LeftAt(symbols, k) PROVE k = m
      <4>1. k \in ends /\ ~(m < k)
        BY <2>4, <3>1 DEF LeftAt
      <4> QED BY <2>1, <2>4, <4>1
    <3>2. LeftAt(symbols, m)
      BY <2>1, <2>4 DEF LeftAt
    <3> QED BY <3>1, <3>2
  <2>6. FirstEnd(symbols) = symbols[m].value
    <3>1. \E k \in DOMAIN symbols : LeftAt(symbols, k)
      BY <2>4, <2>5
    <3>2. (CHOOSE k \in DOMAIN symbols : LeftAt(symbols, k)) = m
      BY <2>4, <2>5
    <3> QED BY <3>1, <3>2 DEF FirstEnd
  <2>7. symbols[m].value \in PC
    <3>1. symbols[m] \in [name : STRING, value : PC]
      BY <2>4, ItemOf
    <3> QED BY <3>1
  <2> QED BY <1>1, <2>3, <2>6, <2>7
<1> QED BY <1>3, <1>4

-----------------------------------------------------------------------------
(* The inductive invariant.                                                *)

\* What main has read of its command line.
ReadInv ==
    /\ line = "options" => Parsing
    /\ line \notin {"options", "failed"} => Parsed
    /\ line \notin {"options", "library", "isa", "failed"} => IsRV64 = Promise!RV64(argv)
    /\ line \in {"load", "mode", "crashed"} => Options["ExecFile"] # None

\* The files that were tried so far are those of NextPath, in its order.
Searching(path) ==
    \/ path # Dash /\ LibHandle = NoLibrary /\ failed \in {{}, {path}}
    \/ path # Dash /\ LibHandle = path /\ failed = {}
    \/ path = Dash /\ LibHandle = NoLibrary /\ failed \in {{}, {"MODEL_PATH"}, DefaultPath}
    \/ path = Dash /\ LibHandle = "MODEL_PATH" /\ failed = {}
    \/ path = Dash /\ LibHandle = "./MODEL_PATH" /\ failed = {"MODEL_PATH"}

\* The functions are those of the file that was found.
Served(path) ==
    /\ InterfaceVersion # NoLibrary /\ Compatible
    /\ \/ table = Program /\ failed = IF path = Dash THEN DefaultPath ELSE {path}
       \/ path # Dash /\ table = path /\ failed = {}
       \/ path = Dash /\ table = "MODEL_PATH" /\ failed = {}
       \/ path = Dash /\ table = "./MODEL_PATH" /\ failed = {"MODEL_PATH"}

LibraryInv ==
    /\ line = "options" => LibHandle = NoLibrary /\ failed = {} /\ InterfaceVersion = NoLibrary
    /\ line = "library" =>
          /\ Searching(Options["ModelLib"])
          /\ InterfaceVersion # NoLibrary => Searched(Options["ModelLib"])
    /\ line \in {"options", "library"} => table = NoLibrary
    /\ table # NoLibrary => Parsed /\ Served(Options["ModelLib"])

\* Segment has a byte for address a.
Covers(segment, a) == Writes(segment) /\ a \in Bytes(segment)

\* The memory m holds the first n segments of the file.
Holds(m, file, n) ==
    \A a \in Addr :
        LET over == {k \in 1 .. n : Covers(file.segments[k], a)}
        IN  \/ over = {} /\ m[a] = Zero
            \/ \E k \in over :
                  /\ \A j \in over : j <= k
                  /\ m[a] = file.segments[k].data[a - file.segments[k].paddr + 1]

\* While the segments are written.
Loading ==
    /\ Loadable(Reader) /\ Fits(Reader.entry, IsRV64) /\ pc = Reader.entry
    /\ seg \in 1 .. Len(Reader.segments) + 1
    /\ \A k \in 1 .. seg - 1 :
          /\ ~Invalid(Reader.segments[k])
          /\ Writes(Reader.segments[k]) => Bytes(Reader.segments[k]) \subseteq accessible
    /\ Holds(mem, Reader, seg - 1)

LoadInv ==
    /\ line \in {"options", "library", "isa", "build"} => Reader = NoFile
    /\ Reader = NoFile => seg = 1 /\ mem = [a \in Addr |-> Zero]
    /\ line = "load" /\ Reader # NoFile => Loading
    /\ line = "mode" =>
          /\ Reader # NoFile /\ Loading /\ seg = Len(Reader.segments) + 1
          /\ Tables(Reader) # {} /\ stopPC = Promise!End(Reader) /\ Fits(stopPC, IsRV64)

StartUpInv == StartUpTypeOK /\ ReadInv /\ LibraryInv /\ LoadInv

\* The invariant holds at the start of main.
LEMMA InvBegins == StartUpInit => StartUpInv
<1> SUFFICES ASSUME StartUpInit PROVE StartUpInv
  OBVIOUS
<1>1. CommandLineTypeOK /\ Parsing
  BY ParsingBegins DEF StartUpInit
<1>2. StartUpTypeOK
  <2>1. LibraryTypeOK(FileName)
    BY DEF StartUpInit, LibraryInit, LibraryTypeOK
  <2>2. LoaderTypeOK
    BY ByteAssumption DEF StartUpInit, LoaderInit, LoaderTypeOK
  <2> QED BY <1>1, <2>1, <2>2 DEF StartUpTypeOK, StartUpInit, Lines
<1>3. ReadInv
  BY <1>1 DEF ReadInv, StartUpInit
<1>4. LibraryInv
  BY DEF LibraryInv, StartUpInit, LibraryInit
<1>5. LoadInv
  BY DEF LoadInv, StartUpInit, LoaderInit
<1> QED BY <1>2, <1>3, <1>4, <1>5 DEF StartUpInv

-----------------------------------------------------------------------------
(* The steps that do not load.                                             *)

\* The options that the later statements read.
LEMMA SomeOptions ==
    /\ {"RomStart", "RomSize", "RamStart", "RamSize"} \subseteq OptionName
    /\ {"ModelLib", "ExecFile", "IsaStringOverride", "StopMode"} \subseteq OptionName \ NumberOption
BY Options15 DEF NumberOption

\* A round of the loop over the line keeps it; the last one has read the line.
LEMMA ParseCommandLineKeeps ==
    ASSUME StartUpInv, ParseCommandLine
    PROVE  StartUpInv'
<1>1. /\ line = "options" /\ CommandLineTypeOK /\ Parsing
      /\ UNCHANGED <<libraryVars, loaderVars, modelVars, IsRV64, stopMode>>
  BY DEF StartUpInv, StartUpTypeOK, ReadInv, ParseCommandLine, mainVars, Throws
<1>2. /\ line' \in {"options", "library", "failed"}
      /\ CommandLineTypeOK'
      /\ line' = "options" => Parsing'
      /\ line' = "library" => Parsed'
  <2>1. CASE SkipWord /\ UNCHANGED mainVars
    BY <1>1, <2>1, SkipWordParses DEF mainVars
  <2>2. CASE ReadOption /\ UNCHANGED mainVars
    BY <1>1, <2>2, ReadOptionParses DEF mainVars
  <2>3. CASE AtEnd /\ Goto("library") /\ UNCHANGED commandLineVars
    <3>1. Parsed
      BY <1>1, <2>3, AllRead
    <3> QED BY <1>1, <2>3, <3>1 DEF Goto, commandLineVars, CommandLineTypeOK, Parsed
  <2>4. CASE ParseThrows /\ Throws
    BY <1>1, <2>4 DEF ParseThrows, Throws, Goto, commandLineVars, CommandLineTypeOK
  <2> QED BY <2>1, <2>2, <2>3, <2>4 DEF ParseCommandLine
<1>3. StartUpTypeOK'
  BY <1>1, <1>2 DEF StartUpInv, StartUpTypeOK, LibraryTypeOK, LoaderTypeOK, Lines,
                    libraryVars, loaderVars, modelVars
<1>4. ReadInv'
  BY <1>2 DEF ReadInv
<1>5. LibraryInv'
  BY <1>1, <1>2 DEF StartUpInv, LibraryInv, libraryVars, Searching
<1>6. LoadInv'
  BY <1>1, <1>2 DEF StartUpInv, LoadInv, loaderVars, modelVars
<1> QED BY <1>3, <1>4, <1>5, <1>6 DEF StartUpInv

\* What the command line says stays read while it is not touched.
LEMMA ReadStays ==
    ASSUME StartUpInv, line \notin {"options", "failed"}, UNCHANGED commandLineVars
    PROVE  /\ CommandLineTypeOK' /\ Parsed /\ Parsed' /\ Options' = Options /\ argv' = argv
           /\ Options["ModelLib"] \in Text /\ Options["ModelLib"] \in FileName
BY SomeOptions, Names DEF StartUpInv, StartUpTypeOK, ReadInv, CommandLineTypeOK, Parsed,
   commandLineVars, FileName

\* What NextPath gives, and that the search is over when it gives none.
LEMMA NextPathOf ==
    ASSUME NEW path \in FileName, Searching(path)
    PROVE  /\ NextPath(path) \in FileName \cup {NoLibrary}
           /\ LibHandle = NoLibrary /\ NextPath(path) # NoLibrary =>
                 /\ path # Dash => NextPath(path) = path /\ failed = {}
                 /\ path = Dash =>
                       \/ NextPath(path) = "MODEL_PATH" /\ failed = {}
                       \/ NextPath(path) = "./MODEL_PATH" /\ failed = {"MODEL_PATH"}
           /\ LibHandle = NoLibrary /\ NextPath(path) = NoLibrary =>
                 failed = IF path = Dash THEN DefaultPath ELSE {path}
<1>1. /\ NoLibrary \notin FileName /\ "MODEL_PATH" \in FileName /\ "./MODEL_PATH" \in FileName
      /\ {path} # {} /\ {"MODEL_PATH"} # {} /\ DefaultPath # {} /\ DefaultPath # {"MODEL_PATH"}
  BY LibraryAssumption DEF FileName, DefaultPath
<1>2. CASE path # Dash
  BY <1>1, <1>2 DEF NextPath, Dash, Searching
<1>3. CASE path = Dash
  BY <1>1, <1>3 DEF NextPath, Dash, Searching
<1> QED BY <1>2, <1>3

\* The search for the plugin goes on where it stopped, and what it finds is
\* used.
LEMMA LoadModelLibraryKeeps ==
    ASSUME StartUpInv, LoadModelLibrary
    PROVE  StartUpInv'
<1> DEFINE path == Options["ModelLib"]
<1>1. /\ line = "library" /\ table = NoLibrary /\ Searching(path)
      /\ InterfaceVersion # NoLibrary => Searched(path)
      /\ UNCHANGED <<commandLineVars, loaderVars, modelVars>>
  BY DEF StartUpInv, LibraryInv, LoadModelLibrary
<1>2. /\ CommandLineTypeOK' /\ Parsed /\ Parsed' /\ Options' = Options /\ argv' = argv
      /\ path \in FileName
  BY <1>1, ReadStays
<1>3. LibraryTypeOK(FileName) /\ IsRV64 \in BOOLEAN /\ stopMode \in {"Never", "ByPC"}
  BY DEF StartUpInv, StartUpTypeOK
<1>4. /\ line' \in {"library", "isa", "failed"} /\ UNCHANGED <<IsRV64, stopMode>>
      /\ LibraryTypeOK(FileName)'
      /\ LibraryInv'
  <2>1. CASE findModelLibrary(path) /\ UNCHANGED mainVars
    <3>1. /\ LibHandle = NoLibrary /\ NextPath(path) # NoLibrary
          /\ UNCHANGED <<InterfaceVersion, table, line, IsRV64, stopMode>>
      BY <2>1 DEF findModelLibrary, mainVars
    <3>2. InterfaceVersion = NoLibrary
      BY <1>1, <3>1 DEF Searched
    <3>3. CASE LibHandle' = NextPath(path) /\ UNCHANGED failed
      <4>1. Searching(path)'
        BY <1>1, <1>2, <3>1, <3>3, NextPathOf DEF Searching
      <4> QED BY <1>1, <1>2, <1>3, <3>1, <3>2, <3>3, <4>1, NextPathOf DEF LibraryInv, LibraryTypeOK
    <3>4. CASE failed' = failed \cup {NextPath(path)} /\ UNCHANGED LibHandle
      <4>1. Searching(path)'
        <5>1. CASE path # Dash
          <6>1. failed' = {path}
            BY <1>1, <1>2, <3>1, <3>4, <5>1, NextPathOf
          <6> QED BY <1>2, <3>1, <3>4, <5>1, <6>1 DEF Searching
        <5>2. CASE path = Dash
          <6>1. failed' \in {{"MODEL_PATH"}, DefaultPath}
            BY <1>1, <1>2, <3>1, <3>4, <5>2, NextPathOf DEF DefaultPath
          <6> QED BY <1>2, <3>1, <3>4, <5>2, <6>1 DEF Searching
        <5> QED BY <5>1, <5>2
      <4> QED BY <1>1, <1>2, <1>3, <3>1, <3>2, <3>4, <4>1, NextPathOf DEF LibraryInv, LibraryTypeOK
    <3> QED BY <2>1, <3>1, <3>3, <3>4, <1>1 DEF findModelLibrary, loadLibrary
  <2>2. CASE ReadVersion(path) /\ UNCHANGED mainVars
    <3>1. /\ UNCHANGED <<LibHandle, failed, table, line, IsRV64, stopMode>>
          /\ InterfaceVersion' \in Version /\ Searched(path)
      BY <2>2 DEF ReadVersion, mainVars
    <3>2. Searching(path)' /\ Searched(path)'
      BY <1>1, <1>2, <3>1 DEF Searching, Searched, NextPath
    <3> QED BY <1>1, <1>2, <1>3, <3>1, <3>2 DEF LibraryInv, LibraryTypeOK
  <2>3. CASE GetVTable /\ Goto("isa") /\ UNCHANGED <<IsRV64, stopMode>>
    <3>1. /\ InterfaceVersion # NoLibrary /\ Compatible /\ line' = "isa"
          /\ table' = IF LibHandle = NoLibrary THEN Program ELSE LibHandle
          /\ UNCHANGED <<LibHandle, failed, InterfaceVersion, IsRV64, stopMode>>
      BY <2>3 DEF GetVTable, Goto
    <3>2. LibHandle = NoLibrary => failed = IF path = Dash THEN DefaultPath ELSE {path}
      BY <1>1, <1>2, <3>1, NextPathOf DEF Searched
    <3>3. Served(path)'
      <4>1. CASE LibHandle = NoLibrary
        BY <1>2, <3>1, <3>2, <4>1 DEF Served, Compatible
      <4>2. CASE LibHandle # NoLibrary
        BY <1>1, <1>2, <3>1, <4>2 DEF Served, Compatible, Searching
      <4> QED BY <4>1, <4>2
    <3> QED BY <1>2, <1>3, <3>1, <3>3 DEF LibraryInv, LibraryTypeOK
  <2>4. CASE LibraryThrows(path) /\ Throws
    BY <1>1, <1>3, <2>4 DEF LibraryThrows, Throws, Goto, libraryVars, LibraryInv, LibraryTypeOK
  <2> QED BY <2>1, <2>2, <2>3, <2>4 DEF LoadModelLibrary
<1>5. StartUpTypeOK'
  BY <1>1, <1>2, <1>3, <1>4 DEF StartUpInv, StartUpTypeOK, LoaderTypeOK, Lines, loaderVars, modelVars
<1>6. ReadInv'
  BY <1>2, <1>4 DEF ReadInv
<1>7. LoadInv'
  BY <1>1, <1>4 DEF StartUpInv, LoadInv, loaderVars, modelVars
<1> QED BY <1>4, <1>5, <1>6, <1>7 DEF StartUpInv

\* The steps after it leave the plugin alone.
LEMMA LibraryStays ==
    ASSUME StartUpInv, line \notin {"options", "library", "failed"},
           UNCHANGED <<commandLineVars, libraryVars>>, line' \notin {"options", "library"}
    PROVE  LibraryTypeOK(FileName)' /\ LibraryInv'
<1>1. Parsed' /\ Options' = Options
  BY ReadStays
<1> QED BY <1>1 DEF StartUpInv, StartUpTypeOK, LibraryTypeOK, LibraryInv, libraryVars, Served, Compatible

\* The bitness becomes the one the ISA string asks for.
LEMMA ParseIsaStringKeeps ==
    ASSUME StartUpInv, ParseIsaString
    PROVE  StartUpInv'
<1>1. /\ line = "isa" /\ UNCHANGED <<commandLineVars, libraryVars, loaderVars, modelVars>>
      /\ UNCHANGED stopMode /\ line' \in {"build", "failed"}
      /\ IsRV64' \in BOOLEAN
  BY DEF ParseIsaString, Goto, Throws, StartUpInv, StartUpTypeOK
<1>2. /\ CommandLineTypeOK' /\ Parsed /\ Parsed' /\ argv' = argv
  BY <1>1, ReadStays
<1>3. LibraryTypeOK(FileName)' /\ LibraryInv'
  BY <1>1, LibraryStays
<1>4. line' = "build" => IsRV64' = Promise!RV64(argv)
  <2>1. Options["IsaStringOverride"] = Promise!Asked(argv, "IsaStringOverride")
    BY <1>2, SomeOptions DEF Parsed
  <2> QED BY <2>1 DEF ParseIsaString, Throws, Goto, Promise!RV64
<1>5. StartUpTypeOK'
  BY <1>1, <1>2, <1>3 DEF StartUpInv, StartUpTypeOK, LoaderTypeOK, Lines, loaderVars, modelVars
<1>6. ReadInv'
  BY <1>1, <1>2, <1>4 DEF ReadInv
<1>7. LoadInv'
  BY <1>1 DEF StartUpInv, LoadInv, loaderVars, modelVars
<1> QED BY <1>3, <1>5, <1>6, <1>7 DEF StartUpInv

\* Main goes on to load only if there is an executable.
LEMMA BuildModelKeeps ==
    ASSUME StartUpInv, BuildModel
    PROVE  StartUpInv'
<1>1. /\ line = "build" /\ UNCHANGED <<commandLineVars, libraryVars, loaderVars, modelVars>>
      /\ UNCHANGED <<IsRV64, stopMode>> /\ line' \in {"dump", "load", "failed"}
      /\ line' = "load" => Options["ExecFile"] # None
  BY DEF BuildModel, Goto
<1>2. /\ CommandLineTypeOK' /\ Parsed /\ Parsed' /\ argv' = argv /\ Options' = Options
  BY <1>1, ReadStays
<1>3. LibraryTypeOK(FileName)' /\ LibraryInv'
  BY <1>1, LibraryStays
<1>4. StartUpTypeOK'
  BY <1>1, <1>2, <1>3 DEF StartUpInv, StartUpTypeOK, LoaderTypeOK, Lines, loaderVars, modelVars
<1>5. ReadInv'
  <2>1. IsRV64 = Promise!RV64(argv)
    BY <1>1 DEF StartUpInv, ReadInv
  <2> QED BY <1>1, <1>2, <2>1 DEF ReadInv
<1>6. LoadInv'
  BY <1>1 DEF StartUpInv, LoadInv, loaderVars, modelVars
<1> QED BY <1>3, <1>4, <1>5, <1>6 DEF StartUpInv

-----------------------------------------------------------------------------
(* Loading.                                                                *)

\* The bytes of a segment.
LEMMA BytesOf ==
    ASSUME NEW segment, segment.paddr \in Nat, segment.data \in Seq(Byte)
    PROVE  /\ Len(segment.data) \in Nat
           /\ Bytes(segment) = segment.paddr .. segment.paddr + Len(segment.data) - 1
           /\ \A a \in Bytes(segment) : segment.data[a - segment.paddr + 1] \in Byte
<1>1. Len(segment.data) \in Nat /\ DOMAIN segment.data = 1 .. Len(segment.data)
  OBVIOUS
<1>2. ASSUME NEW a \in segment.paddr .. segment.paddr + Len(segment.data) - 1
      PROVE  a \in Bytes(segment) /\ segment.data[a - segment.paddr + 1] \in Byte
  <2>1. /\ a - segment.paddr + 1 \in 1 .. Len(segment.data)
        /\ a = segment.paddr + (a - segment.paddr + 1) - 1
    BY <1>1
  <2> QED BY <1>1, <2>1, ItemOf DEF Bytes
<1>3. ASSUME NEW a \in Bytes(segment)
      PROVE  a \in segment.paddr .. segment.paddr + Len(segment.data) - 1
  BY <1>1 DEF Bytes
<1> QED BY <1>1, <1>2, <1>3

\* Writing the beginning of a segment keeps the memory one of bytes.
LEMMA WrittenBytes ==
    ASSUME NEW segment, segment.paddr \in Nat, segment.data \in Seq(Byte),
           mem \in [Addr -> Byte], NEW count \in 0 .. Len(segment.data)
    PROVE  Written(segment, count) \in [Addr -> Byte]
<1>1. ASSUME NEW a \in Addr, a \in segment.paddr .. segment.paddr + count - 1
      PROVE  segment.data[a - segment.paddr + 1] \in Byte
  <2>1. a \in segment.paddr .. segment.paddr + Len(segment.data) - 1
    BY <1>1, BytesOf
  <2> QED BY <2>1, BytesOf
<1> QED BY <1>1 DEF Written

\* Writing one segment more.
LEMMA OneSegment ==
    ASSUME NEW file \in File, NEW n \in Nat, n < Len(file.segments), Holds(mem, file, n),
           mem \in [Addr -> Byte],
           mem' = IF Writes(file.segments[n + 1])
                  THEN Written(file.segments[n + 1], Len(file.segments[n + 1].data)) ELSE mem
    PROVE  mem' \in [Addr -> Byte] /\ Holds(mem', file, n + 1)
<1> DEFINE next == file.segments[n + 1]
<1>1. next.paddr \in Nat /\ next.data \in Seq(Byte)
  BY FileParts
<1>2. mem' \in [Addr -> Byte]
  <2>1. Len(next.data) \in 0 .. Len(next.data)
    BY <1>1
  <2>2. Written(next, Len(next.data)) \in [Addr -> Byte]
    BY <1>1, <2>1, WrittenBytes
  <2> QED BY <2>2
<1>3. ASSUME NEW a \in Addr
      PROVE  LET over == {k \in 1 .. n + 1 : Covers(file.segments[k], a)}
             IN  \/ over = {} /\ mem'[a] = Zero
                 \/ \E k \in over :
                       /\ \A j \in over : j <= k
                       /\ mem'[a] = file.segments[k].data[a - file.segments[k].paddr + 1]
  <2> DEFINE over == {k \in 1 .. n : Covers(file.segments[k], a)}
             more == {k \in 1 .. n + 1 : Covers(file.segments[k], a)}
  <2>1. CASE Covers(next, a)
    <3>1. mem'[a] = next.data[a - next.paddr + 1]
      BY <1>1, <2>1, BytesOf DEF Covers, Written
    <3>2. n + 1 \in more /\ \A j \in more : j <= n + 1
      BY <2>1
    <3> QED BY <3>1, <3>2
  <2>2. CASE ~Covers(next, a)
    <3>1. mem'[a] = mem[a]
      BY <1>1, <2>2, BytesOf DEF Covers, Written
    <3>2. more = over
      BY <2>2
    <3>3. \/ over = {} /\ mem[a] = Zero
          \/ \E k \in over :
                /\ \A j \in over : j <= k
                /\ mem[a] = file.segments[k].data[a - file.segments[k].paddr + 1]
      BY DEF Holds
    <3> HIDE DEF over, more
    <3> QED BY <3>1, <3>2, <3>3 DEF more
  <2> QED BY <2>1, <2>2
<1> QED BY <1>2, <1>3 DEF Holds

\* All segments written: the image that Launch asks for.
LEMMA HoldsImage ==
    ASSUME NEW file \in File, mem \in [Addr -> Byte], Holds(mem, file, Len(file.segments))
    PROVE  mem = Promise!Image(file)
<1>1. ASSUME NEW a \in Addr
      PROVE  mem[a] = LET over == {k \in DOMAIN file.segments :
                              Promise!Writes(file.segments[k]) /\ a \in Promise!Bytes(file.segments[k])}
                          last == file.segments[Promise!Max(over)]
                      IN  IF over = {} THEN Zero ELSE last.data[a - last.paddr + 1]
  <2> DEFINE over == {k \in DOMAIN file.segments :
                 Promise!Writes(file.segments[k]) /\ a \in Promise!Bytes(file.segments[k])}
  <2>1. over = {k \in 1 .. Len(file.segments) : Covers(file.segments[k], a)}
    BY FileParts, SameFiles DEF Covers
  <2>2. over \in SUBSET Nat
    BY <2>1
  <2>3. \/ over = {} /\ mem[a] = Zero
        \/ \E k \in over :
              /\ \A j \in over : j <= k
              /\ mem[a] = file.segments[k].data[a - file.segments[k].paddr + 1]
    BY <2>1 DEF Holds
  <2> HIDE DEF over
  <2>4. mem[a] = IF over = {} THEN Zero
                 ELSE file.segments[Promise!Max(over)].data
                          [a - file.segments[Promise!Max(over)].paddr + 1]
    BY <2>2, <2>3, MaxIs
  <2> QED BY <2>4 DEF over
<1>2. mem = [a \in Addr |-> mem[a]]
  OBVIOUS
<1> QED BY <1>1, <1>2 DEF Promise!Image

\* Every branch of the loader keeps what it had loaded, or gives up.
LEMMA ParseELFAndInitKeeps ==
    ASSUME StartUpInv, ParseELFAndInit
    PROVE  StartUpInv'
<1>1. line = "load" /\ UNCHANGED <<commandLineVars, libraryVars>>
  BY DEF ParseELFAndInit
<1>2. /\ CommandLineTypeOK' /\ Parsed /\ Parsed' /\ argv' = argv /\ Options' = Options
  BY <1>1, ReadStays
<1>3. /\ LoaderTypeOK /\ IsRV64 \in BOOLEAN /\ stopMode \in {"Never", "ByPC"}
      /\ IsRV64 = Promise!RV64(argv) /\ Options["ExecFile"] # None
      /\ Reader = NoFile => seg = 1 /\ mem = [a \in Addr |-> Zero]
      /\ Reader # NoFile => Loading /\ Reader \in File
  BY <1>1 DEF StartUpInv, StartUpTypeOK, ReadInv, LoadInv, LoaderTypeOK
<1>4. accessible' = accessible
  BY <1>2 DEF accessible
<1>5. /\ line' \in {"load", "mode", "crashed", "failed"} /\ UNCHANGED <<IsRV64, stopMode>>
      /\ LoaderTypeOK' /\ LoadInv'
  <2>1. CASE Load(IsRV64) /\ UNCHANGED mainVars
    <3>1. PICK file \in File : /\ Loadable(file) /\ Fits(file.entry, IsRV64)
                               /\ Reader' = file /\ pc' = file.entry
      BY <2>1 DEF Load
    <3>2. /\ seg' = 1 /\ mem' = [a \in Addr |-> Zero]
          /\ UNCHANGED <<seg, mem, stopPC, line, IsRV64, stopMode>>
      BY <1>3, <2>1 DEF Load, mainVars
    <3>3. file # NoFile /\ file.entry \in PC /\ Len(file.segments) \in Nat
      BY FileParts
    <3>4. LoaderTypeOK'
      BY <1>3, <3>1, <3>2, <3>3 DEF LoaderTypeOK
    <3>5. Loading'
      <4>1. Holds(mem', Reader', seg' - 1)
        BY <3>2 DEF Holds
      <4> QED BY <3>1, <3>2, <3>3, <4>1 DEF Loading
    <3> QED BY <1>1, <3>1, <3>2, <3>3, <3>4, <3>5 DEF LoadInv
  <2>2. CASE WriteSegment(accessible) /\ UNCHANGED mainVars
    <3>1. /\ Reader # NoFile /\ seg <= Len(Reader.segments) /\ ~Invalid(Seg)
          /\ Writes(Seg) => Bytes(Seg) \subseteq accessible
          /\ mem' = IF Writes(Seg) THEN Written(Seg, Len(Seg.data)) ELSE mem
          /\ seg' = seg + 1 /\ UNCHANGED <<Reader, pc, stopPC, line, IsRV64, stopMode>>
      BY <2>2 DEF WriteSegment, InSegments, mainVars
    <3>2. Reader \in File /\ Loading /\ Len(Reader.segments) \in Nat
      BY <1>3, <3>1, FileParts
    <3>3. seg - 1 \in Nat /\ seg - 1 < Len(Reader.segments) /\ (seg - 1) + 1 = seg /\ seg' - 1 = seg
      BY <3>1, <3>2 DEF Loading
    <3>4. mem' \in [Addr -> Byte] /\ Holds(mem', Reader, seg)
      <4>1. Holds(mem, Reader, seg - 1) /\ mem \in [Addr -> Byte]
        BY <1>3, <3>2 DEF Loading, LoaderTypeOK
      <4>2. PICK file \in File, n \in Nat : file = Reader /\ n = seg - 1
        BY <3>2, <3>3
      <4>3. mem' \in [Addr -> Byte] /\ Holds(mem', file, n + 1)
        BY <3>1, <3>3, <4>1, <4>2, OneSegment DEF Seg
      <4> QED BY <3>3, <4>2, <4>3
    <3>5. LoaderTypeOK'
      BY <1>3, <3>1, <3>4 DEF LoaderTypeOK
    <3>6. ASSUME NEW k \in 1 .. seg
          PROVE  /\ ~Invalid(Reader.segments[k])
                 /\ Writes(Reader.segments[k]) => Bytes(Reader.segments[k]) \subseteq accessible
      <4>1. CASE k = seg
        BY <3>1, <4>1 DEF Seg
      <4>2. CASE k \in 1 .. seg - 1
        BY <3>2, <4>2 DEF Loading
      <4> QED BY <3>3, <4>1, <4>2
    <3>7. Loading'
      <4>1. Loadable(Reader) /\ Fits(Reader.entry, IsRV64) /\ pc = Reader.entry
        BY <3>2 DEF Loading
      <4>2. seg' \in 1 .. Len(Reader.segments) + 1
        BY <3>1, <3>2, <3>3
      <4> QED BY <1>4, <3>1, <3>3, <3>4, <3>6, <4>1, <4>2 DEF Loading
    <3> QED BY <1>1, <3>1, <3>5, <3>7 DEF LoadInv
  <2>3. CASE SetStopPC(IsRV64) /\ Goto("mode") /\ UNCHANGED <<IsRV64, stopMode>>
    <3>1. /\ Reader # NoFile /\ seg > Len(Reader.segments) /\ Tables(Reader) # {}
          /\ Fits(FirstEnd(SymbolTable(Reader).symbols), IsRV64)
          /\ stopPC' = FirstEnd(SymbolTable(Reader).symbols)
          /\ line' = "mode" /\ UNCHANGED <<Reader, seg, pc, mem, IsRV64, stopMode>>
      BY <2>3 DEF SetStopPC, SegmentsDone, Goto, loaderVars
    <3>2. /\ Reader \in File /\ Loading /\ Len(Reader.segments) \in Nat
          /\ stopPC' = Promise!End(Reader) /\ stopPC' \in PC \cup {NoStopPC}
      BY <1>3, <3>1, FileParts, FirstEndIsEnd
    <3>3. seg = Len(Reader.segments) + 1
      BY <3>1, <3>2 DEF Loading
    <3>4. LoaderTypeOK'
      BY <1>3, <3>1, <3>2 DEF LoaderTypeOK
    <3>5. Loading'
      BY <1>4, <3>1, <3>2 DEF Loading
    <3> QED BY <3>1, <3>2, <3>3, <3>4, <3>5 DEF LoadInv
  <2>4. CASE NoTable /\ Goto("crashed") /\ UNCHANGED <<IsRV64, stopMode>>
    BY <1>3, <2>4 DEF NoTable, Goto, LoadInv, LoaderTypeOK, loaderVars, modelVars
  <2>5. CASE (LoadThrows(IsRV64) \/ SetStopPCThrows(IsRV64)) /\ Throws
    BY <1>3, <2>5 DEF LoadThrows, SetStopPCThrows, Throws, Goto, LoadInv, LoaderTypeOK,
                      loaderVars, modelVars
  <2>6. CASE WriteSegmentThrows(accessible) /\ Throws
    <3>1. /\ Reader # NoFile /\ Reader \in File /\ seg <= Len(Reader.segments)
          /\ line' = "failed" /\ UNCHANGED <<Reader, seg, pc, stopPC, IsRV64, stopMode>>
      BY <1>3, <2>6 DEF WriteSegmentThrows, InSegments, Throws, Goto, loaderVars
    <3>2. Seg.paddr \in Nat /\ Seg.data \in Seq(Byte) /\ mem \in [Addr -> Byte]
      BY <1>3, <3>1, FileParts DEF Seg, Loading, LoaderTypeOK
    <3>3. mem' \in [Addr -> Byte]
      <4>1. CASE UNCHANGED mem
        BY <3>2, <4>1
      <4>2. CASE \E count \in 0 .. Len(Seg.data) - 1 : mem' = Written(Seg, count)
        <5>1. PICK count \in 0 .. Len(Seg.data) - 1 : mem' = Written(Seg, count)
          BY <4>2
        <5>2. count \in 0 .. Len(Seg.data)
          BY <3>2, <5>1, BytesOf
        <5> QED BY <3>2, <5>1, <5>2, WrittenBytes
      <4> QED BY <2>6, <4>1, <4>2 DEF WriteSegmentThrows
    <3> QED BY <1>3, <3>1, <3>3 DEF LoadInv, LoaderTypeOK
  <2> QED BY <2>1, <2>2, <2>3, <2>4, <2>5, <2>6 DEF ParseELFAndInit
<1>6. LibraryTypeOK(FileName)' /\ LibraryInv'
  BY <1>1, <1>5, LibraryStays
<1>7. StartUpTypeOK'
  BY <1>2, <1>3, <1>5, <1>6 DEF StartUpTypeOK, Lines
<1>8. ReadInv'
  BY <1>2, <1>3, <1>5 DEF ReadInv
<1> QED BY <1>5, <1>6, <1>7, <1>8 DEF StartUpInv

\* The last step before the first instruction keeps it.
LEMMA SetStopModeKeeps ==
    ASSUME StartUpInv, SetStopMode
    PROVE  StartUpInv'
<1>1. /\ line = "mode" /\ UNCHANGED <<commandLineVars, libraryVars, loaderVars, modelVars>>
      /\ UNCHANGED IsRV64 /\ line' = "running" /\ stopMode' \in {"Never", "ByPC"}
  BY DEF SetStopMode, Goto
<1>2. /\ CommandLineTypeOK' /\ Parsed' /\ argv' = argv /\ Options' = Options
  BY <1>1, ReadStays
<1>3. LibraryTypeOK(FileName)' /\ LibraryInv'
  BY <1>1, LibraryStays
<1>4. StartUpTypeOK'
  BY <1>1, <1>2, <1>3 DEF StartUpInv, StartUpTypeOK, LoaderTypeOK, Lines, loaderVars, modelVars
<1>5. ReadInv'
  <2>1. IsRV64 = Promise!RV64(argv)
    BY <1>1 DEF StartUpInv, ReadInv
  <2> QED BY <1>1, <1>2, <2>1 DEF ReadInv
<1>6. LoadInv'
  BY <1>1 DEF StartUpInv, LoadInv, loaderVars, modelVars
<1> QED BY <1>3, <1>4, <1>5, <1>6 DEF StartUpInv

\* It holds as long as nothing changes.
LEMMA InvStays == StartUpInv /\ UNCHANGED vars => StartUpInv'
<1> SUFFICES ASSUME StartUpInv, UNCHANGED vars PROVE StartUpInv'
  OBVIOUS
<1> USE DEF vars, commandLineVars, libraryVars, loaderVars, modelVars, mainVars
<1>1. StartUpTypeOK'
  BY DEF StartUpInv, StartUpTypeOK, CommandLineTypeOK, LibraryTypeOK, LoaderTypeOK
<1>2. ReadInv'
  BY DEF StartUpInv, ReadInv, Parsing, Parsed
<1>3. LibraryInv'
  BY DEF StartUpInv, LibraryInv, Searching, Searched, NextPath, Served, Compatible, Parsed
<1>4. LoadInv'
  BY DEF StartUpInv, LoadInv, Loading, accessible
<1> QED BY <1>1, <1>2, <1>3, <1>4 DEF StartUpInv

\* It is inductive.
LEMMA InvHolds == Safety => []StartUpInv
<1>1. StartUpInv /\ [Next]_vars => StartUpInv'
  BY ParseCommandLineKeeps, LoadModelLibraryKeeps, ParseIsaStringKeeps, BuildModelKeeps,
     ParseELFAndInitKeeps, SetStopModeKeeps, InvStays DEF Next
<1> QED BY <1>1, InvBegins, PTL DEF Safety

-----------------------------------------------------------------------------
(* What start-up guarantees.                                               *)

\* The variables of start-up keep their types: every number option is a number,
\* every element looked at is one of the line.
THEOREM StartUpTypeCorrect == Spec => []StartUpTypeOK
<1>1. StartUpInv => StartUpTypeOK
  BY DEF StartUpInv
<1> QED BY <1>1, InvHolds, PTL DEF Spec

\* Options mean what the whole command line says, however long it is.
THEOREM OptionsAreAsAsked == Spec => []LastOptionWins
<1>1. StartUpInv => LastOptionWins
  BY DEF StartUpInv, ReadInv, LastOptionWins, Parsed
<1> QED BY <1>1, InvHolds, PTL DEF Spec

\* A byte is what its last byte says.
LEMMA ByteIsItself ==
    ASSUME NEW n \in Nat, n < 256
    PROVE  n % 256 = n
OBVIOUS

\* The plugin is the file that the user named, or the default if none was; the
\* version check lets no other version of one byte through.
THEOREM LibraryIsAsAsked == Spec => []LibraryAsAsked
<1>1. StartUpInv => LibraryAsAsked
  <2> SUFFICES ASSUME StartUpInv, table # NoLibrary PROVE LibraryAsAsked
    BY DEF LibraryAsAsked
  <2>1. Served(Options["ModelLib"]) /\ Options["ModelLib"] = Promise!Asked(argv, "ModelLib")
    BY SomeOptions DEF StartUpInv, LibraryInv, Parsed
  <2>2. InterfaceVersion < 256 => InterfaceVersion = CurrentVersion
    <3>1. InterfaceVersion \in Nat /\ InterfaceVersion % 256 = CurrentVersion
      BY <2>1, VersionAssumption DEF StartUpInv, StartUpTypeOK, LibraryTypeOK, Served, Compatible
    <3> QED BY <3>1, ByteIsItself
  <2> QED BY <2>1, <2>2 DEF LibraryAsAsked, Served
<1> QED BY <1>1, InvHolds, PTL DEF Spec

\* A program is started with the machine that the command line and the
\* executable call for, or not at all: start-up takes only steps of Launch.
THEOREM StartUpImplements == Spec => Promise!Safety
<1>1. StartUpInit => Promise!Init
  BY DEF StartUpInit, CommandLineInit, Promise!Init, Ended, Promise!NoMachine
<1>2. ASSUME StartUpInv, Next PROVE [Promise!Next]_Promise!vars
  <2>1. CASE ParseCommandLine \/ LoadModelLibrary \/ ParseIsaString
    <3>1. argv' = argv
      BY <2>1 DEF ParseCommandLine, LoadModelLibrary, ParseIsaString, SkipWord, ReadOption,
                  ParseThrows, commandLineVars
    <3>2. line \in {"options", "library", "isa"}
          /\ line' \in {"options", "library", "isa", "build", "failed"}
      BY <2>1 DEF ParseCommandLine, LoadModelLibrary, ParseIsaString, Goto, Throws, mainVars
    <3> QED BY <3>1, <3>2 DEF Ended, Promise!Next, Promise!Fail, Promise!vars
  <2>2. CASE BuildModel
    <3>1. line = "build" /\ argv' = argv /\ line' \in {"dump", "load", "failed"}
          /\ (line' = "dump" => Options["ExecFile"] = None)
      BY <2>2 DEF BuildModel, Goto, commandLineVars
    <3>2. Parsed /\ Options["ExecFile"] = Promise!Asked(argv, "ExecFile")
      BY <1>2, <3>1, SomeOptions DEF StartUpInv, ReadInv, Parsed
    <3> QED BY <3>1, <3>2 DEF Ended, Parsed, Promise!Next, Promise!Fail, Promise!DumpOnly, Promise!vars
  <2>3. CASE ParseELFAndInit
    <3>1. line = "load" /\ argv' = argv /\ line' \in {"load", "mode", "crashed", "failed"}
      BY <2>3 DEF ParseELFAndInit, Goto, Throws, mainVars, commandLineVars
    <3>2. Parsed /\ Promise!Asked(argv, "ExecFile") # None
      BY <1>2, <3>1, SomeOptions DEF StartUpInv, ReadInv, Parsed
    <3> QED BY <3>1, <3>2 DEF Ended, Parsed, Promise!Next, Promise!Fail, Promise!Crash, Promise!vars
  <2>4. CASE SetStopMode
    <3>1. /\ line = "mode" /\ line' = "running" /\ argv' = argv
          /\ UNCHANGED <<Reader, pc, mem, stopPC>>
          /\ stopMode' = IF Options["StopMode"] = "AtLabel" THEN "ByPC" ELSE "Never"
      BY <2>4 DEF SetStopMode, Goto, commandLineVars, loaderVars, modelVars
    <3>2. /\ Parsed /\ IsRV64 = Promise!RV64(argv) /\ Options["ExecFile"] # None
          /\ Reader # NoFile /\ Loading /\ seg = Len(Reader.segments) + 1
          /\ Tables(Reader) # {} /\ stopPC = Promise!End(Reader) /\ Fits(stopPC, IsRV64)
          /\ LoaderTypeOK
      BY <1>2, <3>1 DEF StartUpInv, StartUpTypeOK, ReadInv, LoadInv
    <3>3. Reader \in File /\ mem \in [Addr -> Byte]
      BY <3>2 DEF LoaderTypeOK
    <3>4. Promise!Accessible(argv) = accessible
      BY <3>2, SomeOptions, SameFiles DEF Parsed, accessible, Promise!Accessible
    <3>5. DOMAIN Reader.segments = 1 .. seg - 1 /\ seg - 1 = Len(Reader.segments)
      BY <3>2, <3>3, FileParts
    <3>6. mem = Promise!Image(Reader)
      BY <3>2, <3>3, <3>5, HoldsImage DEF Loading
    <3>7. Promise!Fitting(Reader, argv)
      <4>1. Promise!Loadable(Reader) /\ Promise!LabelTable(Reader) # {}
        BY <3>2, <3>3, SymbolsOf, SameFiles DEF Loading
      <4>2. ASSUME NEW k \in DOMAIN Reader.segments
            PROVE  /\ ~Promise!Invalid(Reader.segments[k])
                   /\ Promise!Writes(Reader.segments[k])
                        => Promise!Bytes(Reader.segments[k]) \subseteq Promise!Accessible(argv)
        BY <3>2, <3>4, <3>5, SameFiles DEF Loading
      <4>3. {Reader.entry, Promise!End(Reader)} \cap Wide # {} => Promise!RV64(argv)
        BY <3>2 DEF Loading, Fits
      <4> QED BY <4>1, <4>2, <4>3 DEF Promise!Fitting
    <3>8. /\ Promise!Readable(argv)
          /\ Promise!Asked(argv, "ExecFile") = Options["ExecFile"]
          /\ Promise!Asked(argv, "StopMode") = Options["StopMode"]
      BY <3>2, SomeOptions DEF Parsed
    <3>9. [file |-> Reader', pc |-> pc', mem |-> mem', stopPC |-> stopPC', stopMode |-> stopMode']
            = [file |-> Reader, pc |-> Reader.entry, mem |-> Promise!Image(Reader), stopPC |-> Promise!End(Reader),
               stopMode |-> IF Promise!Asked(argv, "StopMode") = "AtLabel" THEN "ByPC" ELSE "Never"]
      BY <3>1, <3>2, <3>6, <3>8 DEF Loading
    <3>10. Promise!Run
      BY <3>1, <3>2, <3>3, <3>7, <3>8, <3>9 DEF Ended, Promise!Run
    <3> QED BY <3>10 DEF Promise!Next
  <2> QED BY <1>2, <2>1, <2>2, <2>3, <2>4 DEF Next
<1>3. UNCHANGED vars => UNCHANGED Promise!vars
  BY DEF vars, commandLineVars, loaderVars, modelVars, mainVars, Promise!vars, Ended
<1>4. StartUpInv /\ [Next]_vars => [Promise!Next]_Promise!vars
  BY <1>2, <1>3
<1> QED BY <1>1, <1>4, InvHolds, PTL DEF Spec, Safety, Promise!Safety
=============================================================================
