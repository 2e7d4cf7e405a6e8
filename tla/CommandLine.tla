----------------------------- MODULE CommandLine -----------------------------
(***************************************************************************)
(* parseCommandLine: the loop over getopt_long, which is a library.  It    *)
(* goes on behind plain words, as it does unless POSIXLY_CORRECT is set.   *)
(***************************************************************************)
EXTENDS DriverOptions

VARIABLES
    argv,           \* the command line without the name of the program
    optind,         \* the element that getopt_long looks at next
    Options         \* the DriverOptions being filled

commandLineVars == <<argv, optind, Options>>

CommandLineTypeOK ==
    /\ argv \in Seq(Element)
    /\ optind \in 1 .. Len(argv) + 1
    /\ DOMAIN Options = OptionName
    /\ \A option \in OptionName :
          IF option \in NumberOption THEN Options[option] \in Nat
          ELSE IF option = "ClearInterrupt" THEN Options[option] \in BOOLEAN
          ELSE Options[option] \in Text

CommandLineInit(lines) ==
    /\ argv \in lines
    /\ optind = 1
    /\ Options = DriverOptions

-----------------------------------------------------------------------------
(* One round of the loop over getopt_long.                                 *)

AtEnd == optind \in DOMAIN argv => IsSeparator(argv[optind])

\* Words are skipped: they take no part in anything.
SkipWord ==
    /\ ~AtEnd /\ IsWord(argv[optind])
    /\ optind' = optind + 1
    /\ UNCHANGED <<argv, Options>>

\* The row an option is found in, and its value: what follows = or else the
\* next element, whatever that is.
Row == CHOOSE k \in DOMAIN long_options : long_options[k] = argv[optind].name
optarg == IF TakesNext(argv[optind]) THEN TextOf(argv[optind + 1])
          ELSE argv[optind].value

\* Mutation: every option is taken to be two elements long.
AlwaysTwo(e) == 2

\* The elements that an option takes up.
Length(e) == IF TakesNext(e) THEN 2 ELSE 1

\* Unknown, or without the value that every option requires.
Unreadable ==
    /\ ~AtEnd
    /\ \/ argv[optind].name = Odd
       \/ TakesNext(argv[optind]) /\ optind = Len(argv)

\* Mutation: the rows of the other options were put before D_RVM_OPTIONS.
CaseOfLastRows(row) ==
    IF row > Len(ExtOpts) THEN SimOptions[row - Len(ExtOpts)] ELSE ExtOpts[row]

\* A row of D_RVM_OPTIONS is recognised by its index, the others by their val.
CaseOf(row) ==
    IF row <= Len(SimOptions) THEN SimOptions[row] ELSE ExtOpts[row - Len(SimOptions)]

\* parseMemoryTrait throws on what is no number.
NotANumber ==
    ~Unreadable /\ CaseOf(Row) \in NumberOption /\ optarg \notin DOMAIN Number

ReadOption ==
    /\ ~AtEnd /\ ~IsWord(argv[optind]) /\ ~Unreadable /\ ~NotANumber
    /\ LET option == CaseOf(Row)
       IN  Options' = [Options EXCEPT ![option] =
              CASE option \in NumberOption -> Number[optarg]
                [] option = "ClearInterrupt" -> TRUE
                [] OTHER -> optarg]
    /\ optind' = optind + Length(argv[optind])
    /\ UNCHANGED argv

ParseThrows ==
    /\ ~AtEnd
    /\ ~IsWord(argv[optind])
    /\ Unreadable \/ NotANumber
    /\ UNCHANGED commandLineVars
=============================================================================
