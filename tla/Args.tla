-------------------------------- MODULE Args --------------------------------
(***************************************************************************)
(* The command line: process_args of src/args.c, one step per call of      *)
(* getopt_long, then the checks for the mandatory options; main goes on    *)
(* only with a line that is accepted.                                      *)
(*                                                                         *)
(* A word is a record: form is "short", "long" or "plain"; option is the   *)
(* letter of an option, "" in a plain word; value is the text of a plain   *)
(* word, or the argument attached to an option (-kVALUE, --key=VALUE),     *)
(* NULL if none is.  A text may be empty, also that of a plain word        *)
(* (-d '') or of an argument attached to a long option (--key=).  NULL     *)
(* stands for the number zero, too.  The word "--" and abbreviated long    *)
(* options are left out.                                                   *)
(***************************************************************************)
EXTENDS Integers, Sequences, FiniteSetsExt

CONSTANTS
  Lines,       \* the command lines
  NotNumbers,  \* texts that strtol and atoi read as zero, besides the empty one
  NULL         \* no text

ASSUME LinesAssumption ==
  \A l \in Lines :
    /\ l \in Seq([ form : {"short", "long", "plain"},
                   option : STRING, value : STRING \cup {NULL} ])
    /\ \A i \in DOMAIN l :
         /\ l[i].form = "plain" => l[i].option = "" /\ l[i].value # NULL
         /\ l[i].form = "short" => l[i].value # ""

VARIABLES
  line,    \* argv
  optind,  \* the next word
  args,    \* globalArgs, by the letters of the options
  phase    \* "parsing", "checking", "accepted" or "refused"; see also BeamStats

vars == <<line, optind, args, phase>>

Mandatory == {"k", "m", "d", "i", "p"}
Settings == Mandatory \cup {"s"}
Numeric == {"k", "p"}

\* optString and longOpts: s has a long form only.
Argument(w) ==
  CASE w.option \in Mandatory -> "required"
    [] w.option = "s" /\ w.form = "long" -> "optional"
    [] w.option = "?" -> "none"
    [] OTHER -> "unknown"

\* A number is read as far as it goes; the word -d is one in hexadecimal.
Numeral(o, v) ==
  IF v \in Settings \cup {"?", "x"} THEN o = "k" /\ v = "d"
  ELSE v \notin NotNumbers \cup {"", "--"}

\* A path or an address is the text itself, be it empty.
Converted(o, v) == IF o \in Numeric /\ ~Numeral(o, v) THEN NULL ELSE v

-----------------------------------------------------------------------------

Word == line[optind]
More == phase = "parsing" /\ optind <= Len(line)

\* A required argument that is not attached is the next word, whatever it is.
TakesNext == Argument(Word) = "required" /\ Word.value = NULL
NextText ==
  LET w == line[optind + 1]
  IN  CASE w.form = "plain" -> w.value
        [] w.form = "short" -> w.option
        [] w.form = "long"  -> "--"
optarg == IF TakesNext THEN NextText ELSE Word.value

\* A plain word between the options is passed over.
Operand ==
  /\ More /\ Word.form = "plain"
  /\ optind' = optind + 1
  /\ UNCHANGED <<line, args, phase>>

\* Variant: a break is missing.
OptionFallsThrough ==
  /\ More /\ Word.form # "plain"
  /\ Argument(Word) \in {"required", "optional"}
  /\ TakesNext => optind < Len(line)
  /\ args' = [o \in Settings |->
                IF o = Word.option \/ <<Word.option, o>> = <<"k", "d">>
                THEN Converted(o, optarg) ELSE args[o]]
  /\ optind' = optind + (IF TakesNext THEN 2 ELSE 1)
  /\ UNCHANGED <<line, phase>>

Option ==
  /\ More /\ Word.form # "plain"
  /\ Argument(Word) \in {"required", "optional"}
  /\ TakesNext => optind < Len(line)
  /\ args' = [args EXCEPT ![Word.option] = Converted(Word.option, optarg)]
  /\ optind' = optind + (IF TakesNext THEN 2 ELSE 1)
  /\ UNCHANGED <<line, phase>>

\* Help is asked for, or getopt_long returns '?' for a word it cannot use.
Usage ==
  /\ More /\ Word.form # "plain"
  /\ \/ Argument(Word) \in {"none", "unknown"}
     \/ TakesNext /\ optind = Len(line)
  /\ phase' = "refused"
  /\ UNCHANGED <<line, optind, args>>

Parsed ==
  /\ phase = "parsing" /\ optind > Len(line)
  /\ phase' = "checking"
  /\ UNCHANGED <<line, optind, args>>

Checked ==
  /\ phase = "checking"
  /\ phase' = IF \E o \in Mandatory : args[o] = NULL
              THEN "refused" ELSE "accepted"
  /\ UNCHANGED <<line, optind, args>>

Init ==
  /\ line \in Lines
  /\ optind = 1
  /\ args = [o \in Settings |-> NULL]
  /\ phase = "parsing"

Next == Operand \/ Option \/ Usage \/ Parsed \/ Checked

Spec == Init /\ [][Next]_vars

-----------------------------------------------------------------------------
(* What the user asked for, by the usage text *)

\* Every option of print_usage but help has an argument.
LacksArgument(i) == line[i].option \in Settings /\ line[i].value = NULL

\* No option has been given another one for its argument.
Proper ==
  \A i \in DOMAIN line :
    LacksArgument(i) /\ i < Len(line) => line[i + 1].form = "plain"

\* Statistics are asked for with --stats-path=PATH.
StatsAttached ==
  \A i \in DOMAIN line :
    line[i].option = "s" => line[i].form = "long" /\ line[i].value # NULL

Places(o) == {i \in DOMAIN line : line[i].form # "plain" /\ line[i].option = o}

Given(i) ==
  IF LacksArgument(i) /\ i < Len(line) THEN line[i + 1].value ELSE line[i].value

\* The last occurrence of option o decides.
Asked(o) ==
  IF Places(o) = {} THEN NULL ELSE Converted(o, Given(Max(Places(o))))

Complete == \A o \in Mandatory : Asked(o) # NULL

\* A word that is none of the options of print_usage, or lacks its argument, or
\* asks for help.
Unusable(i) ==
  /\ line[i].form # "plain"
  /\ \/ line[i].option \notin Settings
     \/ LacksArgument(i) /\ i = Len(line)

-----------------------------------------------------------------------------
(* Properties *)

\* A line in which every option has an argument of its own is accepted exactly
\* if every word is usable and every mandatory option ends up with a value;
\* and then the program runs with the last value given for each option,
\* wherever it stands and in whichever form.  Lines with -s, or with an argument
\* of --stats-path that is not attached, are not spoken of: see below.
AsAsked ==
  Proper /\ StatsAttached /\ phase \in {"accepted", "refused"} =>
    /\ phase = "accepted" <=> Complete /\ \A i \in DOMAIN line : ~Unusable(i)
    /\ phase = "accepted" => args = [o \in Settings |-> Asked(o)]

\* What print_usage says, of -s as well ("-s --stats-path=PATH"): a line is
\* refused only if a word is unusable or a mandatory option has no value.  The
\* short option s is in no table that process_args gives to getopt_long.
UsageTextHolds ==
  Proper /\ phase = "refused" =>
    ~Complete \/ \E i \in DOMAIN line : Unusable(i)

-----------------------------------------------------------------------------
(* Why it is as asked: an inductive invariant *)

\* Each setting is the last of those read so far, or untouched.
LastRead ==
  \A o \in Settings :
    LET read == {i \in Places(o) : i < optind}
    IN  IF read = {} THEN args[o] = NULL
        ELSE \E i \in read : /\ \A j \in read : j <= i
                             /\ args[o] = Converted(o, Given(i))

ArgsInv ==
  phase \in {"parsing", "checking", "accepted", "refused"} =>
    /\ line \in Lines /\ optind \in 1 .. Len(line) + 1
    /\ args = [o \in Settings |-> args[o]]
    /\ Proper /\ StatsAttached =>
         LastRead /\ \A i \in DOMAIN line : i < optind => ~Unusable(i)
    /\ phase \in {"checking", "accepted"} => optind = Len(line) + 1
    /\ phase = "accepted" => \A o \in Mandatory : args[o] # NULL
    /\ phase = "refused" /\ StatsAttached =>
         \/ \E i \in DOMAIN line : Unusable(i)
         \/ optind = Len(line) + 1 /\ \E o \in Mandatory : args[o] = NULL
=============================================================================
