-------------------------- MODULE BeamStatsProofs --------------------------
(***************************************************************************)
(* Proofs about Args, for any command lines; and about BeamStats, which    *)
(* extends it, for any number of beams and any shape and contents of the   *)
(* blocks.  Between them stands what they need of sums over finite sets:   *)
(* MapThenSumSet adds in an order nobody knows, and what is proved of it   *)
(* is proved by the least counterexample.                                  *)
(***************************************************************************)
EXTENDS BeamStats, FiniteSetTheorems, WellFoundedInduction, TLAPS

-----------------------------------------------------------------------------
(* Args *)

\* A line is a sequence of words.
LEMMA LineIsSequence ==
  ASSUME line \in Lines
  PROVE  Len(line) \in Nat /\ DOMAIN line = 1 .. Len(line)
<1> DEFINE W == [ form : {"short", "long", "plain"},
                  option : STRING, value : STRING \cup {NULL} ]
<1>1. line \in Seq(W)
  BY LinesAssumption
<1> HIDE DEF W
<1> QED  BY <1>1

LEMMA ArgsInvInit == Init => ArgsInv
<1> SUFFICES ASSUME Init PROVE ArgsInv
  OBVIOUS
<1>1. line \in Lines /\ optind = 1 /\ Len(line) \in Nat
  BY LineIsSequence DEF Init
<1>2. optind \in 1 .. Len(line) + 1
  BY <1>1
<1>3. \A i \in DOMAIN line : ~(i < optind)
  BY <1>1, LineIsSequence
<1>4. LastRead
  <2> SUFFICES ASSUME NEW o \in Settings
               PROVE  {i \in Places(o) : i < optind} = {} /\ args[o] = NULL
    BY DEF LastRead
  <2>1. Places(o) \subseteq DOMAIN line
    BY DEF Places
  <2> QED  BY <1>3, <2>1 DEF Init
<1> QED  BY <1>1, <1>2, <1>3, <1>4 DEF Init, ArgsInv

\* What is known of the word at optind.
LEMMA WordAt ==
  ASSUME ArgsInv, More
  PROVE  /\ line \in Lines /\ optind \in DOMAIN line /\ Word = line[optind]
         /\ optind \in Nat /\ optind >= 1 /\ Len(line) \in Nat
         /\ optind <= Len(line) /\ DOMAIN line = 1 .. Len(line)
BY LineIsSequence DEF ArgsInv, More, Word

\* An option is the last of its letter that has been read, and hides no other:
\* a word it takes for its argument is a plain one.
LEMMA OptionKeepsLast ==
  ASSUME ArgsInv, Option, Proper, StatsAttached
  PROVE  LastRead' /\ \A i \in DOMAIN line : i < optind' => ~Unusable(i)
<1> DEFINE w == line[optind]
           opt == line[optind].option
           step == IF TakesNext THEN 2 ELSE 1
<1>1. /\ line \in Lines /\ optind \in DOMAIN line /\ Word = w
      /\ optind \in Nat /\ optind >= 1 /\ Len(line) \in Nat
      /\ optind <= Len(line) /\ DOMAIN line = 1 .. Len(line)
  BY WordAt DEF Option
<1>2. /\ w.form # "plain" /\ Argument(w) \in {"required", "optional"}
      /\ TakesNext => optind < Len(line)
      /\ args' = [args EXCEPT ![opt] = Converted(opt, optarg)]
      /\ optind' = optind + step /\ line' = line
  BY <1>1 DEF Option
<1>3. TakesNext <=> LacksArgument(optind)
  <2>1. w.option \in Mandatory \/ (w.option = "s" /\ Argument(w) = "optional")
    BY <1>2 DEF Argument
  <2>2. w.option \in Mandatory => Argument(w) = "required"
    BY DEF Argument, Mandatory
  <2>3. w.option = "s" => w.value # NULL
    BY <1>1 DEF StatsAttached
  <2> QED  BY <1>1, <2>1, <2>2, <2>3 DEF TakesNext, LacksArgument, Settings
<1>4. TakesNext => line[optind + 1].form = "plain"
  BY <1>1, <1>2, <1>3 DEF Proper
<1>5. optarg = Given(optind)
  <2>1. CASE TakesNext
    BY <1>2, <1>3, <1>4, <2>1 DEF optarg, NextText, Given
  <2>2. CASE ~TakesNext
    BY <1>1, <1>3, <2>2 DEF optarg, Given
  <2> QED  BY <2>1, <2>2
<1>6. ASSUME NEW i \in DOMAIN line, i < optind', ~(i < optind)
      PROVE  i = optind \/ (TakesNext /\ i = optind + 1)
  <2>1. CASE TakesNext
    BY <1>1, <1>2, <1>6, <2>1
  <2>2. CASE ~TakesNext
    BY <1>1, <1>2, <1>6, <2>2
  <2> QED  BY <2>1, <2>2
<1>7. ASSUME NEW i \in DOMAIN line, i < optind' PROVE ~Unusable(i)
  <2>1. CASE i < optind
    BY <2>1 DEF ArgsInv, Option, More
  <2>2. CASE i = optind
    <3>1. w.option \in Settings
      BY <1>2 DEF Argument, Settings
    <3> QED  BY <1>1, <1>2, <1>3, <2>2, <3>1 DEF Unusable
  <2>3. CASE TakesNext /\ i = optind + 1
    BY <1>4, <2>3 DEF Unusable
  <2> QED  BY <1>6, <1>7, <2>1, <2>2, <2>3
<1>8. ASSUME NEW o PROVE Places(o)' = Places(o) /\ \A i : Given(i)' = Given(i)
  BY <1>2 DEF Places, Given, LacksArgument
<1>9. args = [o \in Settings |-> args[o]]
  BY DEF ArgsInv, Option, More
<1>10. optind' > optind
  BY <1>1, <1>2
<1>11. LastRead'
  <2> SUFFICES ASSUME NEW o \in Settings
        PROVE  LET read == {i \in Places(o) : i < optind'}
               IN  IF read = {} THEN args'[o] = NULL
                   ELSE \E i \in read :
                          /\ \A j \in read : j <= i
                          /\ args'[o] = Converted(o, Given(i))
    BY <1>8 DEF LastRead
  <2> DEFINE before == {i \in Places(o) : i < optind}
             read == {i \in Places(o) : i < optind'}
  <2>0. Places(o) \subseteq DOMAIN line
    BY DEF Places
  <2>1. CASE o = opt
    <3>1. optind \in Places(o)
      BY <1>1, <1>2, <2>1 DEF Places
    <3>2. optind \in read
      BY <1>1, <1>10, <3>1
    <3>3. \A j \in read : j <= optind
      <4> SUFFICES ASSUME NEW j \in read PROVE j <= optind
        OBVIOUS
      <4>1. j \in DOMAIN line /\ line[j].form # "plain"
        BY DEF Places
      <4>2. j < optind \/ j = optind
        BY <1>4, <1>6, <4>1
      <4> QED  BY <1>1, <4>1, <4>2
    <3>4. args'[o] = Converted(o, Given(optind))
      BY <1>2, <1>5, <1>9, <2>1
    <3> QED  BY <3>2, <3>3, <3>4
  <2>2. CASE o # opt
    <3>1. read = before
      <4>1. ASSUME NEW i \in read PROVE i \in before
        <5>1. i \in DOMAIN line /\ line[i].form # "plain" /\ line[i].option = o
          BY DEF Places
        <5> QED  BY <1>4, <1>6, <2>2, <5>1
      <4>2. ASSUME NEW i \in before PROVE i \in read
        BY <1>1, <1>2, <1>10, <2>0
      <4> QED  BY <4>1, <4>2
    <3>2. args'[o] = args[o]
      BY <1>2, <1>9, <2>2
    <3>3. IF before = {} THEN args[o] = NULL
          ELSE \E i \in before : /\ \A j \in before : j <= i
                                 /\ args[o] = Converted(o, Given(i))
      BY DEF ArgsInv, Option, More, LastRead
    <3> QED  BY <3>1, <3>2, <3>3
  <2> QED  BY <2>1, <2>2
<1> QED  BY <1>7, <1>11

\* A plain word is no option and not unusable.
LEMMA OperandKeepsLast ==
  ASSUME ArgsInv, Operand, Proper, StatsAttached
  PROVE  LastRead' /\ \A i \in DOMAIN line : i < optind' => ~Unusable(i)
<1>1. /\ line \in Lines /\ optind \in DOMAIN line /\ Word = line[optind]
      /\ optind \in Nat /\ optind <= Len(line) /\ DOMAIN line = 1 .. Len(line)
      /\ Len(line) \in Nat
  BY WordAt DEF Operand
<1>2. /\ line[optind].form = "plain" /\ optind' = optind + 1
      /\ UNCHANGED <<line, args>>
  BY <1>1 DEF Operand
<1>3. \A i \in DOMAIN line : i < optind' <=> i < optind \/ i = optind
  BY <1>1, <1>2
<1>4. ASSUME NEW i \in DOMAIN line, i < optind' PROVE ~Unusable(i)
  BY <1>2, <1>3, <1>4 DEF ArgsInv, Operand, More, Unusable
<1>5. LastRead'
  <2>1. ASSUME NEW o \in Settings
        PROVE  {i \in Places(o) : i < optind'} = {i \in Places(o) : i < optind}
    BY <1>2, <1>3 DEF Places
  <2>2. \A o : Places(o)' = Places(o)
    BY <1>2 DEF Places
  <2>3. \A i : Given(i)' = Given(i)
    BY <1>2 DEF Given, LacksArgument
  <2>4. LastRead
    BY DEF ArgsInv, Operand, More
  <2> QED  BY <1>2, <2>1, <2>2, <2>3, <2>4 DEF LastRead
<1> QED  BY <1>4, <1>5

LEMMA ArgsInvStep == ArgsInv /\ [Next]_vars => ArgsInv'
<1> SUFFICES ASSUME ArgsInv, [Next]_vars PROVE ArgsInv'
  OBVIOUS
<1>1. CASE Operand
  <2>1. optind' \in 1 .. Len(line) + 1
    BY <1>1, WordAt DEF Operand
  <2>2. UNCHANGED <<Proper, StatsAttached>>
    BY <1>1 DEF Operand, Proper, LacksArgument, StatsAttached
  <2>3. \A i : Unusable(i)' = Unusable(i)
    BY <1>1 DEF Operand, Unusable, LacksArgument
  <2> QED
    BY <1>1, <2>1, <2>2, <2>3, OperandKeepsLast DEF Operand, More, ArgsInv
<1>2. CASE Option
  <2>1. optind' \in 1 .. Len(line) + 1
    BY <1>2, WordAt DEF Option
  <2>2. UNCHANGED <<Proper, StatsAttached>>
    BY <1>2 DEF Option, Proper, LacksArgument, StatsAttached
  <2>3. \A i : Unusable(i)' = Unusable(i)
    BY <1>2 DEF Option, Unusable, LacksArgument
  <2>4. (args = [o \in Settings |-> args[o]])'
    <3> DEFINE v == Converted(Word.option, optarg)
    <3> HIDE DEF v
    <3>1. args' = [args EXCEPT ![Word.option] = v]
      BY <1>2 DEF Option, v
    <3>2. args = [o \in Settings |-> args[o]]
      BY <1>2 DEF ArgsInv, Option, More
    <3> QED  BY <3>1, <3>2
  <2> QED
    BY <1>2, <2>1, <2>2, <2>3, <2>4, OptionKeepsLast DEF Option, More, ArgsInv
<1>3. CASE UNCHANGED <<line, optind, args>>
  <2>1. UNCHANGED <<Proper, StatsAttached, LastRead>>
    BY <1>3
    DEF Proper, StatsAttached, LastRead, LacksArgument, Places, Given
  <2>2. \A i : Unusable(i)' = Unusable(i)
    BY <1>3 DEF Unusable, LacksArgument
  <2>3. CASE Usage
    <3>1. optind \in DOMAIN line /\ (StatsAttached => Unusable(optind))
      <4>1. /\ optind \in DOMAIN line /\ Word = line[optind]
            /\ Word.form # "plain"
        BY <2>3, WordAt DEF Usage
      <4>2. CASE TakesNext /\ optind = Len(line)
        BY <4>1, <4>2
        DEF TakesNext, Argument, Unusable, LacksArgument, Settings
      <4>3. CASE Argument(Word) \in {"none", "unknown"}
        BY <4>1, <4>3
        DEF Argument, Unusable, StatsAttached, Settings, Mandatory
      <4> QED  BY <2>3, <4>1, <4>2, <4>3 DEF Usage
    <3> QED  BY <1>3, <2>1, <2>2, <2>3, <3>1 DEF Usage, More, ArgsInv
  <2>4. CASE Parsed
    <3>1. optind = Len(line) + 1
      BY <2>4, LineIsSequence DEF Parsed, ArgsInv
    <3> QED  BY <1>3, <2>1, <2>2, <2>4, <3>1 DEF Parsed, ArgsInv
  <2>5. CASE Checked
    BY <1>3, <2>1, <2>2, <2>5 DEF Checked, ArgsInv
  <2>6. CASE UNCHANGED vars
    BY <2>1, <2>2, <2>6 DEF vars, ArgsInv
  <2> QED  BY <1>3, <2>3, <2>4, <2>5, <2>6, <1>1, <1>2 DEF Next
<1> QED  BY <1>1, <1>2, <1>3 DEF Next, Usage, Parsed, Checked, vars

\* At the end of the line the last that was read is the last there is.
LEMMA AskedIsRead ==
  ASSUME line \in Lines, optind = Len(line) + 1, LastRead, NEW o \in Settings
  PROVE  args[o] = Asked(o)
<1>1. DOMAIN line = 1 .. Len(line) /\ Len(line) \in Nat
  BY LineIsSequence
<1>2. Places(o) \subseteq DOMAIN line
  BY DEF Places
<1>3. {i \in Places(o) : i < optind} = Places(o)
  BY <1>1, <1>2
<1>4. CASE Places(o) = {}
  BY <1>3, <1>4 DEF LastRead, Asked
<1>5. CASE Places(o) # {}
  <2>1. PICK i \in Places(o) : /\ \A j \in Places(o) : j <= i
                               /\ args[o] = Converted(o, Given(i))
    BY <1>3, <1>5 DEF LastRead
  <2>2. \A j, k \in Places(o) : (k >= j /\ j >= k) => j = k
    BY <1>1, <1>2
  <2>3. \A j \in Places(o) : i >= j
    BY <1>1, <1>2, <2>1
  <2>4. Max(Places(o)) = i
    <3> DEFINE S == Places(o)
    <3> HIDE DEF S
    <3>1. i \in S /\ \A j \in S : i >= j
      BY <2>3 DEF S
    <3>2. Max(S) \in S /\ \A j \in S : Max(S) >= j
      BY <3>1 DEF Max
    <3> QED  BY <2>2, <3>1, <3>2 DEF S
  <2> QED  BY <1>5, <2>1, <2>4 DEF Asked
<1> QED  BY <1>4, <1>5

LEMMA ArgsInvMeansAsAsked == ArgsInv => AsAsked
<1> SUFFICES ASSUME ArgsInv, Proper, StatsAttached,
                    phase \in {"accepted", "refused"}
             PROVE  /\ phase = "accepted" <=>
                         Complete /\ \A i \in DOMAIN line : ~Unusable(i)
                    /\ phase = "accepted" => args = [o \in Settings |-> Asked(o)]
  BY DEF AsAsked
<1>1. line \in Lines /\ LastRead /\ args = [o \in Settings |-> args[o]]
  BY DEF ArgsInv
<1>2. optind = Len(line) + 1 => \A o \in Settings : args[o] = Asked(o)
  BY <1>1, AskedIsRead
<1>3. Mandatory \subseteq Settings
  BY DEF Settings
<1>4. CASE phase = "accepted"
  <2>1. optind = Len(line) + 1
    BY <1>4 DEF ArgsInv
  <2>2. \A i \in DOMAIN line : i < optind
    BY <1>1, <2>1, LineIsSequence
  <2>3. \A i \in DOMAIN line : ~Unusable(i)
    BY <2>2 DEF ArgsInv
  <2>4. Complete
    BY <1>2, <1>3, <1>4, <2>1 DEF ArgsInv, Complete
  <2>5. args = [o \in Settings |-> Asked(o)]
    BY <1>1, <1>2, <2>1
  <2> QED  BY <1>4, <2>3, <2>4, <2>5
<1>5. CASE phase = "refused"
  BY <1>2, <1>3, <1>5 DEF ArgsInv, Complete
<1> QED  BY <1>4, <1>5

\* BeamStats only adds to what happens before a line is accepted.
LEMMA ArgsInvAlways == StatsSpec => []ArgsInv
<1>1. StatsInit => ArgsInv
  BY ArgsInvInit DEF StatsInit
<1>2. ArgsInv /\ [StatsNext]_all_vars => ArgsInv'
  <2> SUFFICES ASSUME ArgsInv, [StatsNext]_all_vars PROVE ArgsInv'
    OBVIOUS
  <2>1. CASE [Next]_vars
    BY <2>1, ArgsInvStep
  <2>2. CASE phase' \notin {"parsing", "checking", "accepted", "refused"}
    BY <2>2 DEF ArgsInv
  <2>3. ASSUME NEW buffer \in Buffers, dada_dbfil_io(buffer)
        PROVE  phase' \notin {"parsing", "checking", "accepted", "refused"}
    BY <2>3 DEF dada_dbfil_io, Written
  <2>4. ASSUME NEW buffer \in Buffers, StatsDie(buffer)
        PROVE  phase' \notin {"parsing", "checking", "accepted", "refused"}
    BY <2>4 DEF StatsDie
  <2> QED  BY <2>1, <2>2, <2>3, <2>4 DEF StatsNext, Start, all_vars
<1> QED  BY <1>1, <1>2, PTL DEF StatsSpec

\* Whatever the command line: if each option in it has an argument of its own,
\* and -s is not used, it is accepted exactly if the usage text allows it and
\* the mandatory options have values, and the program runs with the last value
\* given for each option.
THEOREM AlwaysAsAsked == StatsSpec => []AsAsked
BY ArgsInvAlways, ArgsInvMeansAsAsked, PTL

-----------------------------------------------------------------------------
(* Sums over finite sets *)

\* Induction, for a set: a least number outside it would have a predecessor.
LEMMA EveryNat ==
  ASSUME NEW T, 0 \in T, \A n \in Nat : n \in T => n + 1 \in T
  PROVE  Nat \subseteq T
<1> SUFFICES ASSUME Nat \ T # {} PROVE FALSE
  OBVIOUS
<1> DEFINE Rest == Nat \ T
<1>1. PICK m \in Rest : \A k \in Rest : ~(<<k, m>> \in OpToRel(<, Nat))
  <2>1. Rest \subseteq Nat /\ Rest # {}
    OBVIOUS
  <2> HIDE DEF Rest
  <2> QED  BY <2>1, WFMin, NatLessThanWellFounded
<1>2. \A k \in Rest : ~(k < m)
  BY <1>1 DEF OpToRel
<1>3. m \in Nat /\ m # 0 /\ m - 1 \in Nat /\ m - 1 < m
  OBVIOUS
<1>4. m - 1 \in T
  BY <1>2, <1>3
<1>5. (m - 1) + 1 \in T
  BY <1>3, <1>4
<1> QED  BY <1>3, <1>5

\* The operator of the statistics, with a function for what is summed.
Sum(f, S) == MapThenSumSet(LAMBDA x : f[x], S)

\* The element that the fold takes next.
One(s) == CHOOSE x \in s : TRUE

\* What the fold over the subsets of S is.
IsFold(f, S, g) ==
  g = [s \in SUBSET S |->
         IF s = {} THEN 0 ELSE f[One(s)] + g[s \ {One(s)}]]

LEMMA OneIn == ASSUME NEW s, s # {} PROVE One(s) \in s
BY DEF One

\* There is one, built up by the size of the subsets.
LEMMA FoldExists ==
  ASSUME NEW S, IsFiniteSet(S), NEW f, \A x \in S : f[x] \in Int
  PROVE  \E g \in [SUBSET S -> Int] : IsFold(f, S, g)
<1> DEFINE D(n) == {s \in SUBSET S : Cardinality(s) <= n}
           Step(g, s) == IF s = {} THEN 0 ELSE f[One(s)] + g[s \ {One(s)}]
           T == {n \in Nat :
                   \E g \in [D(n) -> Int] : \A s \in D(n) : g[s] = Step(g, s)}
<1>1. ASSUME NEW s \in SUBSET S
      PROVE  /\ IsFiniteSet(s) /\ Cardinality(s) \in Nat
             /\ s = {} <=> Cardinality(s) = 0
             /\ s # {} => /\ One(s) \in S /\ s \ {One(s)} \in SUBSET S
                          /\ Cardinality(s \ {One(s)}) = Cardinality(s) - 1
  <2>1. IsFiniteSet(s)
    BY FS_Subset
  <2>2. s # {} => One(s) \in s
    BY OneIn
  <2>3. s # {} => Cardinality(s \ {One(s)}) = Cardinality(s) - 1
    BY <2>1, <2>2, FS_RemoveElement
  <2> QED  BY <2>1, <2>2, <2>3, FS_CardinalityType, FS_EmptySet
<1>c. \A s \in SUBSET S : Cardinality(s) \in Nat /\ (Cardinality(s) = 0 => s = {})
  BY <1>1
<1>2. 0 \in T
  <2>1. \A s \in D(0) : s = {}
    BY <1>c
  <2> DEFINE g == [s \in D(0) |-> 0]
  <2>2. g \in [D(0) -> Int]
    OBVIOUS
  <2>3. \A s \in D(0) : g[s] = 0 /\ Step(g, s) = 0
    BY <2>1
  <2> HIDE DEF g, D, Step
  <2> QED  BY <2>2, <2>3
<1>3. ASSUME NEW n \in Nat, n \in T PROVE n + 1 \in T
  <2>1. PICK g \in [D(n) -> Int] : \A s \in D(n) : g[s] = Step(g, s)
    BY <1>3
  <2> DEFINE h == [s \in D(n + 1) |-> Step(g, s)]
  <2>2. ASSUME NEW s \in D(n + 1), s # {}
        PROVE  s \ {One(s)} \in D(n) /\ One(s) \in S
    BY <1>1, <2>2
  <2>3. \A s \in D(n + 1) : Step(g, s) \in Int
    <3> SUFFICES ASSUME NEW s \in D(n + 1) PROVE Step(g, s) \in Int
      OBVIOUS
    <3>1. s # {} => f[One(s)] \in Int /\ g[s \ {One(s)}] \in Int
      <4> HIDE DEF D
      <4> QED  BY <2>2
    <3> QED  BY <3>1
  <2>4. \A s \in D(n) : s \in D(n + 1)
    BY <1>c
  <2>5. \A s \in D(n) : h[s] = g[s]
    <3> HIDE DEF D, Step
    <3> QED  BY <2>1, <2>4
  <2>6. \A s \in D(n + 1) : h[s] = Step(h, s)
    <3> SUFFICES ASSUME NEW s \in D(n + 1) PROVE h[s] = Step(h, s)
      OBVIOUS
    <3>1. h[s] = Step(g, s)
      <4> HIDE DEF D, Step
      <4> QED  OBVIOUS
    <3>2. s # {} => h[s \ {One(s)}] = g[s \ {One(s)}]
      BY <2>2, <2>5
    <3> HIDE DEF h, D
    <3> QED  BY <3>1, <3>2
  <2>7. h \in [D(n + 1) -> Int]
    <3> HIDE DEF D, Step
    <3> QED  BY <2>3
  <2> HIDE DEF h, D, Step
  <2> QED  BY <2>6, <2>7
<1>4. Cardinality(S) \in Nat
  BY FS_CardinalityType
<1> DEFINE N == Cardinality(S)
<1>5. N \in T
  <2> HIDE DEF T
  <2> QED  BY <1>2, <1>3, <1>4, EveryNat
<1>6. D(N) = SUBSET S
  BY FS_Subset
<1>7. PICK g \in [D(N) -> Int] : \A s \in D(N) : g[s] = Step(g, s)
  BY <1>5
<1>8. g \in [SUBSET S -> Int]
  BY <1>6, <1>7
<1>9. g = [s \in SUBSET S |-> Step(g, s)]
  <2> HIDE DEF D, Step
  <2> QED  BY <1>6, <1>7, <1>8
<1> QED  BY <1>8, <1>9 DEF IsFold

\* What holds of a set if it holds without any one element, holds of all subsets.
LEMMA EverySubset ==
  ASSUME NEW S, IsFiniteSet(S), NEW T,
         \A s \in SUBSET S : (\A x \in s : s \ {x} \in T) => s \in T
  PROVE  \A s \in SUBSET S : s \in T
<1> DEFINE N == {n \in Nat : \A s \in SUBSET S : Cardinality(s) = n => s \in T}
<1>1. ASSUME NEW s \in SUBSET S
      PROVE  IsFiniteSet(s) /\ Cardinality(s) \in Nat
  BY FS_Subset, FS_CardinalityType
<1>2. 0 \in N
  <2>1. ASSUME NEW s \in SUBSET S, Cardinality(s) = 0 PROVE s = {}
    BY <1>1, <2>1, FS_EmptySet
  <2>2. {} \in T
    OBVIOUS
  <2> QED  BY <2>1, <2>2
<1>3. ASSUME NEW n \in Nat, n \in N PROVE n + 1 \in N
  <2> SUFFICES ASSUME NEW s \in SUBSET S, Cardinality(s) = n + 1 PROVE s \in T
    OBVIOUS
  <2>1. ASSUME NEW x \in s PROVE s \ {x} \in T
    <3>1. Cardinality(s \ {x}) = n
      BY <1>1, FS_RemoveElement
    <3> QED  BY <1>3, <3>1
  <2> QED  BY <2>1
<1>4. Nat \subseteq N
  <2> HIDE DEF N
  <2> QED  BY <1>2, <1>3, EveryNat
<1> QED  BY <1>1, <1>4

AnyOrder(f, S, g) ==
  \A s \in SUBSET S : \A x \in s : g[s] = f[x] + g[s \ {x}]

\* The order does not matter.
LEMMA FoldAnyOrder ==
  ASSUME NEW S, IsFiniteSet(S), NEW f, \A x \in S : f[x] \in Int,
         NEW g, IsFold(f, S, g), \A s \in SUBSET S : g[s] \in Int
  PROVE  AnyOrder(f, S, g)
<1> DEFINE T == {s \in SUBSET S : \A x \in s : g[s] = f[x] + g[s \ {x}]}
<1>1. ASSUME NEW s \in SUBSET S, \A x \in s : s \ {x} \in T PROVE s \in T
  <2> SUFFICES ASSUME NEW x \in s PROVE g[s] = f[x] + g[s \ {x}]
    OBVIOUS
  <2> DEFINE y == One(s)
  <2>1. y \in s /\ g[s] = f[y] + g[s \ {y}]
    BY OneIn DEF IsFold
  <2> HIDE DEF y
  <2>2. CASE x = y
    BY <2>1, <2>2
  <2>3. CASE x # y
    <3> DEFINE r == (s \ {y}) \ {x}
    <3>1. (s \ {x}) \ {y} = r /\ r \in SUBSET S
      OBVIOUS
    <3>2. g[s \ {y}] = f[x] + g[r]
      BY <1>1, <2>1, <2>3
    <3>3. g[s \ {x}] = f[y] + g[r]
      BY <1>1, <2>1, <2>3, <3>1
    <3>4. f[x] \in Int /\ f[y] \in Int /\ g[r] \in Int
      BY <2>1
    <3>5. g[s] = f[y] + (f[x] + g[r]) /\ g[s \ {x}] = f[y] + g[r]
      BY <2>1, <3>2, <3>3
    <3> HIDE DEF r
    <3> QED  BY <3>4, <3>5
  <2> QED  BY <2>2, <2>3
<1>2. \A s \in SUBSET S : s \in T
  <2> HIDE DEF T
  <2> QED  BY <1>1, EverySubset
<1> QED  BY <1>2 DEF AnyOrder

\* All folds over the same numbers agree, on whichever set they are defined.
LEMMA FoldUnique ==
  ASSUME NEW S, IsFiniteSet(S), NEW f, NEW g, IsFold(f, S, g),
         NEW V \in SUBSET S, NEW e, \A x \in V : e[x] = f[x],
         NEW h, IsFold(e, V, h)
  PROVE  \A s \in SUBSET V : h[s] = g[s]
<1> DEFINE T == {s \in SUBSET V : h[s] = g[s]}
<1>1. ASSUME NEW s \in SUBSET V, \A x \in s : s \ {x} \in T PROVE s \in T
  <2>1. CASE s = {}
    BY <2>1 DEF IsFold
  <2>2. CASE s # {}
    <3>1. One(s) \in s
      BY <2>2, OneIn
    <3>2. /\ h[s] = e[One(s)] + h[s \ {One(s)}]
          /\ g[s] = f[One(s)] + g[s \ {One(s)}]
      BY <2>2 DEF IsFold
    <3>3. h[s \ {One(s)}] = g[s \ {One(s)}] /\ e[One(s)] = f[One(s)]
      BY <1>1, <3>1
    <3> QED  BY <3>2, <3>3
  <2> QED  BY <2>1, <2>2
<1>2. IsFiniteSet(V)
  BY FS_Subset
<1>3. \A s \in SUBSET V : s \in T
  <2> HIDE DEF T
  <2> QED  BY <1>1, <1>2, EverySubset
<1> QED  BY <1>3

\* Sum is such a fold, and any fold will do for it.
LEMMA SumIsFold ==
  ASSUME NEW S, NEW f
  PROVE  Sum(f, S) = (CHOOSE g : IsFold(f, S, g))[S]
BY DEF Sum, MapThenSumSet, MapThenFoldSet, IsFold, One

LEMMA SumIsFoldOf ==
  ASSUME NEW S, IsFiniteSet(S), NEW f, \A x \in S : f[x] \in Int,
         NEW g, IsFold(f, S, g), NEW V \in SUBSET S
  PROVE  Sum(f, V) = g[V]
<1>1. IsFiniteSet(V)
  BY FS_Subset
<1>2. \E h : IsFold(f, V, h)
  BY <1>1, FoldExists
<1> DEFINE h == CHOOSE h : IsFold(f, V, h)
<1>3. IsFold(f, V, h)
  BY <1>2
<1> HIDE DEF h
<1>4. h[V] = g[V]
  <2>1. \A x \in V : f[x] = f[x]
    OBVIOUS
  <2>2. \A s \in SUBSET V : h[s] = g[s]
    BY <1>3, <2>1, FoldUnique
  <2> QED  BY <2>2
<1> QED  BY <1>4, SumIsFold DEF h

\* What is needed of sums: the empty one, one element less, other functions,
\* and two sets.
LEMMA SumEmpty == ASSUME NEW f PROVE Sum(f, {}) = 0
<1>1. IsFiniteSet({})
  BY FS_EmptySet
<1>2. PICK g : IsFold(f, {}, g)
  BY <1>1, FoldExists
<1>3. \A x \in {} : f[x] \in Int
  OBVIOUS
<1>4. Sum(f, {}) = g[{}]
  <2>1. {} \in SUBSET {}
    OBVIOUS
  <2> QED  BY <1>1, <1>2, <1>3, <2>1, SumIsFoldOf
<1> QED  BY <1>2, <1>4 DEF IsFold

LEMMA SumRemove ==
  ASSUME NEW S, IsFiniteSet(S), NEW f, \A x \in S : f[x] \in Int
  PROVE  /\ Sum(f, S) \in Int
         /\ \A x \in S : Sum(f, S) = f[x] + Sum(f, S \ {x})
<1>1. PICK g \in [SUBSET S -> Int] : IsFold(f, S, g)
  BY FoldExists
<1>2. \A V \in SUBSET S : Sum(f, V) = g[V]
  BY <1>1, SumIsFoldOf
<1>3. \A x \in S : g[S] = f[x] + g[S \ {x}]
  <2>0. \A s \in SUBSET S : g[s] \in Int
    BY <1>1
  <2>1. AnyOrder(f, S, g)
    BY <1>1, <2>0, FoldAnyOrder
  <2> SUFFICES ASSUME NEW x \in S PROVE g[S] = f[x] + g[S \ {x}]
    OBVIOUS
  <2>2. S \in SUBSET S /\ x \in S
    OBVIOUS
  <2> QED  BY <2>1, <2>2 DEF AnyOrder
<1> QED  BY <1>1, <1>2, <1>3

LEMMA SumAgrees ==
  ASSUME NEW S, IsFiniteSet(S), NEW f, NEW e,
         \A x \in S : f[x] \in Int /\ e[x] = f[x]
  PROVE  Sum(e, S) = Sum(f, S)
<1> DEFINE T == {s \in SUBSET S : Sum(e, s) = Sum(f, s)}
<1>1. ASSUME NEW s \in SUBSET S, \A x \in s : s \ {x} \in T PROVE s \in T
  <2>1. CASE s = {}
    BY <2>1, SumEmpty
  <2>2. CASE s # {}
    <3>1. PICK x \in s : TRUE
      BY <2>2
    <3>2. IsFiniteSet(s) /\ \A y \in s : f[y] \in Int /\ e[y] \in Int
      BY FS_Subset
    <3>3. Sum(f, s) = f[x] + Sum(f, s \ {x}) /\ Sum(e, s) = e[x] + Sum(e, s \ {x})
      BY <3>1, <3>2, SumRemove
    <3> QED  BY <1>1, <3>1, <3>3
  <2> QED  BY <2>1, <2>2
<1>2. \A s \in SUBSET S : s \in T
  <2> HIDE DEF T
  <2> QED  BY <1>1, EverySubset
<1> QED  BY <1>2

LEMMA SumOfUnion ==
  ASSUME NEW A, IsFiniteSet(A), NEW B, IsFiniteSet(B), A \cap B = {},
         NEW f, \A x \in A \cup B : f[x] \in Int
  PROVE  Sum(f, A \cup B) = Sum(f, A) + Sum(f, B)
<1> DEFINE T == {s \in SUBSET B : Sum(f, A \cup s) = Sum(f, A) + Sum(f, s)}
<1>0. Sum(f, A) \in Int
  BY SumRemove
<1>1. ASSUME NEW s \in SUBSET B, \A x \in s : s \ {x} \in T PROVE s \in T
  <2>1. CASE s = {}
    <3>1. A \cup s = A /\ Sum(f, s) = 0
      BY <2>1, SumEmpty
    <3>2. Sum(f, A \cup s) = Sum(f, A)
      BY <3>1
    <3> QED  BY <1>0, <3>1, <3>2
  <2>2. CASE s # {}
    <3>1. PICK x \in s : TRUE
      BY <2>2
    <3>2. IsFiniteSet(s) /\ IsFiniteSet(A \cup s)
      BY FS_Subset, FS_Union
    <3>3. \A y \in A \cup s : f[y] \in Int
      OBVIOUS
    <3>4. /\ Sum(f, s) = f[x] + Sum(f, s \ {x})
          /\ Sum(f, A \cup s) = f[x] + Sum(f, (A \cup s) \ {x})
      BY <3>1, <3>2, <3>3, SumRemove
    <3>5. (A \cup s) \ {x} = A \cup (s \ {x})
      BY <3>1
    <3>6. Sum(f, A \cup (s \ {x})) = Sum(f, A) + Sum(f, s \ {x})
      BY <1>1, <3>1
    <3>7. Sum(f, s \ {x}) \in Int /\ f[x] \in Int
      <4>1. IsFiniteSet(s \ {x})
        BY <3>2, FS_Subset
      <4> QED  BY <3>1, <3>3, <4>1, SumRemove
    <3> DEFINE a == Sum(f, A)
               r == Sum(f, s \ {x})
    <3>8. Sum(f, s) = f[x] + r /\ Sum(f, A \cup s) = f[x] + (a + r)
      BY <3>4, <3>5, <3>6
    <3>9. a \in Int /\ r \in Int /\ f[x] \in Int
      BY <1>0, <3>7
    <3> HIDE DEF a, r
    <3>10. Sum(f, A \cup s) = a + Sum(f, s)
      BY <3>8, <3>9
    <3> QED  BY <3>10 DEF a
  <2> QED  BY <2>1, <2>2
<1>2. \A s \in SUBSET B : s \in T
  <2> HIDE DEF T
  <2> QED  BY <1>1, EverySubset
<1> QED  BY <1>2

\* A sum may be taken in parts.
LEMMA SumOfParts ==
  ASSUME NEW I, IsFiniteSet(I), NEW part,
         \A i \in I : IsFiniteSet(part[i]),
         \A i, j \in I : i # j => part[i] \cap part[j] = {},
         NEW f, \A i \in I : \A x \in part[i] : f[x] \in Int,
         NEW e, \A i \in I : e[i] = Sum(f, part[i])
  PROVE  Sum(e, I) = Sum(f, UNION {part[i] : i \in I})
<1> DEFINE All(s) == UNION {part[i] : i \in s}
           T == {s \in SUBSET I : IsFiniteSet(All(s)) /\ Sum(e, s) = Sum(f, All(s))}
<1>0. \A i \in I : e[i] \in Int
  BY SumRemove
<1>1. ASSUME NEW s \in SUBSET I, \A x \in s : s \ {x} \in T PROVE s \in T
  <2>1. CASE s = {}
    <3>1. All(s) = {}
      BY <2>1
    <3> QED  BY <2>1, <3>1, SumEmpty, FS_EmptySet
  <2>2. CASE s # {}
    <3>1. PICK i \in s : TRUE
      BY <2>2
    <3>2. IsFiniteSet(s) /\ \A j \in s : e[j] \in Int
      BY <1>0, FS_Subset
    <3>3. Sum(e, s) = e[i] + Sum(e, s \ {i})
      BY <3>1, <3>2, SumRemove
    <3> DEFINE A == part[i]
               B == All(s \ {i})
    <3>4. IsFiniteSet(B) /\ Sum(e, s \ {i}) = Sum(f, B)
      BY <1>1, <3>1
    <3>5. IsFiniteSet(A) /\ A \cap B = {} /\ All(s) = A \cup B
      BY <3>1
    <3>6. \A x \in A \cup B : f[x] \in Int
      BY <3>1
    <3>7. e[i] = Sum(f, A)
      BY <3>1
    <3> HIDE DEF A, B, All
    <3>8. Sum(f, A \cup B) = Sum(f, A) + Sum(f, B)
      BY <3>4, <3>5, <3>6, SumOfUnion
    <3>9. IsFiniteSet(A \cup B)
      BY <3>4, <3>5, FS_Union
    <3> QED  BY <3>3, <3>4, <3>5, <3>7, <3>8, <3>9
  <2> QED  BY <2>1, <2>2
<1>2. \A s \in SUBSET I : s \in T
  <2> HIDE DEF T
  <2> QED  BY <1>1, EverySubset
<1> QED  BY <1>2

\* ... and over other names for what is summed.
LEMMA SumRenamed ==
  ASSUME NEW A, IsFiniteSet(A), NEW q,
         \A x, y \in A : q[x] = q[y] => x = y,
         NEW f, NEW e, \A x \in A : f[q[x]] \in Int /\ e[x] = f[q[x]]
  PROVE  /\ IsFiniteSet({q[x] : x \in A})
         /\ Sum(e, A) = Sum(f, {q[x] : x \in A})
<1> DEFINE Q(s) == {q[x] : x \in s}
           T == {s \in SUBSET A : IsFiniteSet(Q(s)) /\ Sum(e, s) = Sum(f, Q(s))}
<1>1. ASSUME NEW s \in SUBSET A, \A x \in s : s \ {x} \in T PROVE s \in T
  <2>1. CASE s = {}
    <3>1. Q(s) = {}
      BY <2>1
    <3> QED  BY <2>1, <3>1, SumEmpty, FS_EmptySet
  <2>2. CASE s # {}
    <3>1. PICK x \in s : TRUE
      BY <2>2
    <3>2. IsFiniteSet(s) /\ \A y \in s : e[y] \in Int
      BY FS_Subset
    <3>3. Sum(e, s) = e[x] + Sum(e, s \ {x})
      BY <3>1, <3>2, SumRemove
    <3> DEFINE B == Q(s \ {x})
    <3>4. IsFiniteSet(B) /\ Sum(e, s \ {x}) = Sum(f, B)
      BY <1>1, <3>1
    <3>5. q[x] \notin B /\ Q(s) = B \cup {q[x]}
      BY <3>1
    <3>6. Q(s) \ {q[x]} = B /\ q[x] \in Q(s)
      BY <3>5
    <3>7. IsFiniteSet(Q(s))
      <4> HIDE DEF Q, B
      <4>1. IsFiniteSet(B \cup {q[x]})
        BY <3>4, FS_AddElement
      <4> QED  BY <3>5, <4>1
    <3>8. \A y \in Q(s) : f[y] \in Int
      OBVIOUS
    <3>9. e[x] = f[q[x]]
      BY <3>1
    <3> HIDE DEF B, Q
    <3>10. Sum(f, Q(s)) = f[q[x]] + Sum(f, Q(s) \ {q[x]})
      BY <3>6, <3>7, <3>8, SumRemove
    <3> QED  BY <3>3, <3>4, <3>6, <3>7, <3>9, <3>10
  <2> QED  BY <2>1, <2>2
<1>2. \A s \in SUBSET A : s \in T
  <2> HIDE DEF T
  <2> QED  BY <1>1, EverySubset
<1> QED  BY <1>2

-----------------------------------------------------------------------------
(* The samples of a block *)

LEMMA ShapeIsNat ==
  /\ nbeams_total \in Nat /\ nbeams_total > 0
  /\ ntimesteps \in Nat /\ ntimesteps > 0
  /\ nchan \in Nat /\ nchan > 0
  /\ npol \in Nat /\ npol > 0
BY ShapeAssumption

\* Rows laid end to end.
LEMMA FlatRange ==
  ASSUME NEW m \in Nat, NEW n \in Nat, NEW a \in 0 .. m - 1, NEW b \in 0 .. n - 1
  PROVE  a * n + b \in 0 .. m * n - 1
<1>1. m * n = a * n + n + (m - 1 - a) * n
  OBVIOUS
<1>2. (m - 1 - a) * n >= 0 /\ a * n >= 0 /\ (m - 1 - a) * n \in Int /\ a * n \in Int
  <2>1. \A i, j \in Nat : i * j \in Nat
    OBVIOUS
  <2>2. m - 1 - a \in Nat /\ a \in Nat
    OBVIOUS
  <2>3. (m - 1 - a) * n \in Nat /\ a * n \in Nat
    BY <2>1, <2>2
  <2> QED  BY <2>3
<1> DEFINE x == a * n
           y == (m - 1 - a) * n
           z == m * n
<1>3. z = x + n + y /\ x \in Int /\ y \in Int /\ x >= 0 /\ y >= 0
  BY <1>1, <1>2
<1> HIDE DEF x, y, z
<1>4. x + b \in 0 .. z - 1
  BY <1>3
<1> QED  BY <1>4 DEF x, z

\* Every place has its row and column ...
LEMMA FlatParts ==
  ASSUME NEW m \in Nat, NEW n \in Nat, NEW k \in 0 .. m * n - 1
  PROVE  \E a \in 0 .. m - 1, b \in 0 .. n - 1 : k = a * n + b
<1>1. n > 0
  <2>1. m * 0 = 0
    OBVIOUS
  <2>2. m * n > 0
    <3>1. m * n \in Int
      OBVIOUS
    <3> DEFINE z == m * n
    <3> HIDE DEF z
    <3>2. z \in Int /\ k \in 0 .. z - 1
      BY <3>1 DEF z
    <3>3. z > 0
      BY <3>2
    <3> QED  BY <3>3 DEF z
  <2> QED  BY <2>1, <2>2
<1> DEFINE q == k \div n
           r == k % n
<1>2. q \in Nat /\ r \in 0 .. n - 1 /\ k = n * q + r
  BY <1>1
<1> HIDE DEF q, r
<1>3. q \in 0 .. m - 1
  <2> SUFFICES ASSUME q >= m PROVE FALSE
    BY <1>2
  <2>1. n * q = n * m + n * (q - m)
    BY <1>2
  <2>2. n * (q - m) >= 0 /\ n * (q - m) \in Int
    <3>1. \A i, j \in Nat : i * j \in Nat
      OBVIOUS
    <3>2. q - m \in Nat
      BY <1>2
    <3>3. n * (q - m) \in Nat
      BY <3>1, <3>2
    <3> QED  BY <3>3
  <2>3. n * m = m * n /\ n * m \in Int
    OBVIOUS
  <2> DEFINE x == n * q
             y == n * m
             z == n * (q - m)
             w == m * n
  <2>4. /\ x = y + z /\ z >= 0 /\ z \in Int /\ y \in Int /\ y = w
        /\ k = x + r /\ k \in 0 .. w - 1
    BY <1>2, <2>1, <2>2, <2>3
  <2> HIDE DEF x, y, z, w
  <2> QED  BY <1>2, <2>4
<1>4. n * q = q * n
  BY <1>2
<1> QED  BY <1>2, <1>3, <1>4

\* ... and no other.
LEMMA FlatOnce ==
  ASSUME NEW n \in Nat, n > 0, NEW a \in Nat, NEW c \in Nat,
         NEW b \in 0 .. n - 1, NEW d \in 0 .. n - 1, a * n + b = c * n + d
  PROVE  a = c /\ b = d
<1>1. ASSUME NEW p \in Nat, NEW r \in 0 .. n - 1
      PROVE  (n * p + r) \div n = p /\ (n * p + r) % n = r
  OBVIOUS
<1>2. n * a + b = n * c + d
  <2>1. n * a = a * n /\ n * c = c * n
    OBVIOUS
  <2> QED  BY <2>1
<1>3. /\ (n * a + b) \div n = a /\ (n * a + b) % n = b
      /\ (n * c + d) \div n = c /\ (n * c + d) % n = d
  BY <1>1
<1> QED  BY <1>2, <1>3

Times == 0 .. ntimesteps - 1
Channels == 0 .. nchan - 1
Pols == 0 .. npol - 1

\* The three loops of dada_dbfil_io visit every sample, and none twice.
LEMMA IndexIsPosition ==
  ASSUME NEW t \in Times, NEW ch \in Channels, NEW pol \in Pols
  PROVE  input_index(t, ch, pol) \in Positions
<1> USE ShapeIsNat
<1>1. t * nchan + ch \in 0 .. ntimesteps * nchan - 1
  BY FlatRange DEF Times, Channels
<1> DEFINE m == ntimesteps * nchan
           a == t * nchan + ch
<1>2. m \in Nat
  OBVIOUS
<1>3. a \in 0 .. m - 1
  BY <1>1
<1>4. input_index(t, ch, pol) = a * npol + pol /\ Positions = 0 .. m * npol - 1
  BY DEF input_index, Positions
<1> HIDE DEF m, a
<1>5. a * npol + pol \in 0 .. m * npol - 1
  BY <1>2, <1>3, FlatRange DEF Pols
<1> QED  BY <1>4, <1>5

LEMMA PositionHasIndex ==
  ASSUME NEW p \in Positions
  PROVE  \E t \in Times, ch \in Channels, pol \in Pols :
           p = input_index(t, ch, pol)
<1> USE ShapeIsNat
<1> DEFINE m == ntimesteps * nchan
<1>1. m \in Nat
  OBVIOUS
<1>2. p \in 0 .. m * npol - 1
  BY DEF Positions
<1> HIDE DEF m
<1>3. PICK a \in 0 .. m - 1, pol \in 0 .. npol - 1 : p = a * npol + pol
  BY <1>1, <1>2, FlatParts
<1>4. a \in 0 .. ntimesteps * nchan - 1
  BY DEF m
<1>5. PICK t \in 0 .. ntimesteps - 1, ch \in 0 .. nchan - 1 : a = t * nchan + ch
  BY <1>4, FlatParts
<1> QED  BY <1>3, <1>5 DEF input_index, Times, Channels, Pols

LEMMA IndexOnce ==
  ASSUME NEW t \in Times, NEW ch \in Channels, NEW pol \in Pols,
         NEW u \in Times, NEW dh \in Channels, NEW qol \in Pols,
         input_index(t, ch, pol) = input_index(u, dh, qol)
  PROVE  t = u /\ ch = dh /\ pol = qol
<1> USE ShapeIsNat
<1> DEFINE a == t * nchan + ch
           c == u * nchan + dh
<1>1. t \in Nat /\ u \in Nat /\ ch \in Nat /\ dh \in Nat
  BY DEF Times, Channels
<1>2. a \in Nat /\ c \in Nat
  <2>1. \A i, j, k \in Nat : i * j + k \in Nat
    OBVIOUS
  <2> QED  BY <1>1, <2>1
<1>3. a * npol + pol = c * npol + qol
  BY DEF input_index
<1> HIDE DEF a, c
<1>4. a = c /\ pol = qol
  BY <1>2, <1>3, FlatOnce DEF Pols
<1>5. t * nchan + ch = u * nchan + dh
  BY <1>4 DEF a, c
<1>6. t = u /\ ch = dh
  BY <1>1, <1>5, FlatOnce DEF Channels
<1> QED  BY <1>4, <1>6

LEMMA IndicesFinite ==
  IsFiniteSet(Times) /\ IsFiniteSet(Channels) /\ IsFiniteSet(Pols)
<1>1. /\ ntimesteps - 1 \in Int /\ nchan - 1 \in Int /\ npol - 1 \in Int
      /\ 0 \in Int
  BY ShapeIsNat
<1> QED  BY <1>1, FS_Interval DEF Times, Channels, Pols

\* What the two statistics are made of, as sums over the samples of a block.
LEMMA ChannelPower ==
  ASSUME NEW buffer, \A p \in Positions : buffer[p] \in Int, NEW ch \in Channels
  PROVE  LET part == {input_index(x[1], ch, x[2]) : x \in Times \X Pols}
         IN  IsFiniteSet(part) /\ power_freq(buffer)[ch] = Sum(buffer, part)
<1> DEFINE X == Times \X Pols
           q == [x \in X |-> input_index(x[1], ch, x[2])]
           e == [x \in X |-> buffer[input_index(x[1], ch, x[2])]]
           part == {input_index(x[1], ch, x[2]) : x \in X}
<1>1. IsFiniteSet(X)
  BY IndicesFinite, FS_Product
<1>2. \A x \in X : x[1] \in Times /\ x[2] \in Pols /\ x = <<x[1], x[2]>>
  OBVIOUS
<1>3. \A x, y \in X : q[x] = q[y] => x = y
  BY <1>2, IndexOnce
<1>4. \A x \in X : buffer[q[x]] \in Int /\ e[x] = buffer[q[x]]
  BY <1>2, IndexIsPosition
<1>5. {q[x] : x \in X} = part
  OBVIOUS
<1>6. IsFiniteSet(part) /\ Sum(e, X) = Sum(buffer, part)
  <2> HIDE DEF X, q, e, part
  <2> QED  BY <1>1, <1>3, <1>4, <1>5, SumRenamed
<1>7. power_freq(buffer)[ch] = Sum(e, X)
  <2> DEFINE v(x) == buffer[input_index(x[1], ch, x[2])]
             F(g) == [ s \in SUBSET X |->
                         IF s = {} THEN 0
                         ELSE v(CHOOSE x \in s : TRUE)
                                + g[s \ {CHOOSE x \in s : TRUE}] ]
             G(g) == [ s \in SUBSET X |->
                         IF s = {} THEN 0
                         ELSE e[CHOOSE x \in s : TRUE]
                                + g[s \ {CHOOSE x \in s : TRUE}] ]
  <2>1. \A x \in X : v(x) = e[x]
    OBVIOUS
  <2>2. ASSUME NEW s \in SUBSET X, s # {} PROVE (CHOOSE x \in s : TRUE) \in X
    <3> HIDE DEF X
    <3>1. (CHOOSE x \in s : TRUE) \in s
      BY <2>2
    <3> QED  BY <3>1
  <2>3. ASSUME NEW g PROVE F(g) = G(g)
    <3> HIDE DEF X, v, e
    <3> QED  BY <2>1, <2>2
  <2>4. (CHOOSE g : g = F(g)) = (CHOOSE g : g = G(g))
    <3> HIDE DEF F, G
    <3> QED  BY <2>3
  <2>5. MapThenSumSet(LAMBDA x : buffer[input_index(x[1], ch, x[2])], X)
          = Sum(e, X)
    <3> HIDE DEF X, e
    <3> QED  BY <2>4 DEF MapThenSumSet, MapThenFoldSet, Sum
  <2>6. X = (0 .. ntimesteps - 1) \X (0 .. npol - 1) /\ ch \in 0 .. nchan - 1
    BY DEF Times, Pols, Channels
  <2> HIDE DEF X, e, F, G, v
  <2>7. power_freq(buffer)[ch]
          = MapThenSumSet(LAMBDA x : buffer[input_index(x[1], ch, x[2])], X)
    BY <2>6 DEF power_freq
  <2> QED  BY <2>5, <2>7
<1> QED  BY <1>6, <1>7

LEMMA TimePower ==
  ASSUME NEW buffer, \A p \in Positions : buffer[p] \in Int, NEW t \in Times
  PROVE  LET part == {input_index(t, x[1], x[2]) : x \in Channels \X Pols}
         IN  IsFiniteSet(part) /\ power_time(buffer)[t] = Sum(buffer, part)
<1> DEFINE X == Channels \X Pols
           q == [x \in X |-> input_index(t, x[1], x[2])]
           e == [x \in X |-> buffer[input_index(t, x[1], x[2])]]
           part == {input_index(t, x[1], x[2]) : x \in X}
<1>1. IsFiniteSet(X)
  BY IndicesFinite, FS_Product
<1>2. \A x \in X : x[1] \in Channels /\ x[2] \in Pols /\ x = <<x[1], x[2]>>
  OBVIOUS
<1>3. \A x, y \in X : q[x] = q[y] => x = y
  BY <1>2, IndexOnce
<1>4. \A x \in X : buffer[q[x]] \in Int /\ e[x] = buffer[q[x]]
  BY <1>2, IndexIsPosition
<1>5. {q[x] : x \in X} = part
  OBVIOUS
<1>6. IsFiniteSet(part) /\ Sum(e, X) = Sum(buffer, part)
  <2> HIDE DEF X, q, e, part
  <2> QED  BY <1>1, <1>3, <1>4, <1>5, SumRenamed
<1>7. power_time(buffer)[t] = Sum(e, X)
  <2> DEFINE v(x) == buffer[input_index(t, x[1], x[2])]
             F(g) == [ s \in SUBSET X |->
                         IF s = {} THEN 0
                         ELSE v(CHOOSE x \in s : TRUE)
                                + g[s \ {CHOOSE x \in s : TRUE}] ]
             G(g) == [ s \in SUBSET X |->
                         IF s = {} THEN 0
                         ELSE e[CHOOSE x \in s : TRUE]
                                + g[s \ {CHOOSE x \in s : TRUE}] ]
  <2>1. \A x \in X : v(x) = e[x]
    OBVIOUS
  <2>2. ASSUME NEW s \in SUBSET X, s # {} PROVE (CHOOSE x \in s : TRUE) \in X
    <3> HIDE DEF X
    <3>1. (CHOOSE x \in s : TRUE) \in s
      BY <2>2
    <3> QED  BY <3>1
  <2>3. ASSUME NEW g PROVE F(g) = G(g)
    <3> HIDE DEF X, v, e
    <3> QED  BY <2>1, <2>2
  <2>4. (CHOOSE g : g = F(g)) = (CHOOSE g : g = G(g))
    <3> HIDE DEF F, G
    <3> QED  BY <2>3
  <2>5. MapThenSumSet(LAMBDA x : buffer[input_index(t, x[1], x[2])], X)
          = Sum(e, X)
    <3> HIDE DEF X, e
    <3> QED  BY <2>4 DEF MapThenSumSet, MapThenFoldSet, Sum
  <2>6. X = (0 .. nchan - 1) \X (0 .. npol - 1) /\ t \in 0 .. ntimesteps - 1
    BY DEF Times, Pols, Channels
  <2> HIDE DEF X, e, F, G, v
  <2>7. power_time(buffer)[t]
          = MapThenSumSet(LAMBDA x : buffer[input_index(t, x[1], x[2])], X)
    BY <2>6 DEF power_time
  <2> QED  BY <2>5, <2>7
<1> QED  BY <1>6, <1>7
\* Both add up to all the samples of the block.
LEMMA ChannelTotal ==
  ASSUME NEW buffer, \A p \in Positions : buffer[p] \in Int
  PROVE  Sum(power_freq(buffer), Channels) = Sum(buffer, Positions)
<1> DEFINE X == Times \X Pols
           part == [ ch \in Channels |->
                       {input_index(x[1], ch, x[2]) : x \in X} ]
           e == power_freq(buffer)
<1>1. \A x \in X : x[1] \in Times /\ x[2] \in Pols
  OBVIOUS
<1>2. \A ch \in Channels : IsFiniteSet(part[ch]) /\ e[ch] = Sum(buffer, part[ch])
  BY ChannelPower
<1>3. ASSUME NEW ch \in Channels, NEW dh \in Channels, ch # dh
      PROVE  part[ch] \cap part[dh] = {}
  <2> SUFFICES ASSUME NEW x \in X, NEW y \in X,
                      input_index(x[1], ch, x[2]) = input_index(y[1], dh, y[2])
               PROVE  FALSE
    OBVIOUS
  <2> QED  BY <1>1, <1>3, IndexOnce
<1>4. \A ch \in Channels : \A p \in part[ch] : buffer[p] \in Int
  BY <1>1, IndexIsPosition
<1>5. UNION {part[ch] : ch \in Channels} = Positions
  <2>1. ASSUME NEW p \in Positions
        PROVE  \E ch \in Channels : p \in part[ch]
    <3>1. PICK t \in Times, ch \in Channels, pol \in Pols :
                 p = input_index(t, ch, pol)
      BY PositionHasIndex
    <3>2. <<t, pol>> \in X /\ <<t, pol>>[1] = t /\ <<t, pol>>[2] = pol
      OBVIOUS
    <3> QED  BY <3>1, <3>2
  <2>2. ASSUME NEW ch \in Channels PROVE part[ch] \subseteq Positions
    BY <1>1, IndexIsPosition
  <2> HIDE DEF part
  <2> QED  BY <2>1, <2>2
<1> HIDE DEF part, e
<1> QED  BY <1>2, <1>3, <1>4, <1>5, IndicesFinite, SumOfParts DEF e

LEMMA TimeTotal ==
  ASSUME NEW buffer, \A p \in Positions : buffer[p] \in Int
  PROVE  Sum(power_time(buffer), Times) = Sum(buffer, Positions)
<1> DEFINE X == Channels \X Pols
           part == [ t \in Times |->
                       {input_index(t, x[1], x[2]) : x \in X} ]
           e == power_time(buffer)
<1>1. \A x \in X : x[1] \in Channels /\ x[2] \in Pols
  OBVIOUS
<1>2. \A t \in Times : IsFiniteSet(part[t]) /\ e[t] = Sum(buffer, part[t])
  BY TimePower
<1>3. ASSUME NEW t \in Times, NEW u \in Times, t # u
      PROVE  part[t] \cap part[u] = {}
  <2> SUFFICES ASSUME NEW x \in X, NEW y \in X,
                      input_index(t, x[1], x[2]) = input_index(u, y[1], y[2])
               PROVE  FALSE
    OBVIOUS
  <2> QED  BY <1>1, <1>3, IndexOnce
<1>4. \A t \in Times : \A p \in part[t] : buffer[p] \in Int
  BY <1>1, IndexIsPosition
<1>5. UNION {part[t] : t \in Times} = Positions
  <2>1. ASSUME NEW p \in Positions
        PROVE  \E t \in Times : p \in part[t]
    <3>1. PICK t \in Times, ch \in Channels, pol \in Pols :
                 p = input_index(t, ch, pol)
      BY PositionHasIndex
    <3>2. <<ch, pol>> \in X /\ <<ch, pol>>[1] = ch /\ <<ch, pol>>[2] = pol
      OBVIOUS
    <3> QED  BY <3>1, <3>2
  <2>2. ASSUME NEW t \in Times PROVE part[t] \subseteq Positions
    BY <1>1, IndexIsPosition
  <2> HIDE DEF part
  <2> QED  BY <2>1, <2>2
<1> HIDE DEF part, e
<1> QED  BY <1>2, <1>3, <1>4, <1>5, IndicesFinite, SumOfParts DEF e

-----------------------------------------------------------------------------
(* BeamStats *)

\* After the last beam the turn is the first one's.
LEMMA NextTurn ==
  ASSUME NEW n \in Nat, n > 0, NEW k \in Nat
  PROVE  /\ k % n \in 0 .. n - 1
         /\ (k + 1) % n = IF k % n = n - 1 THEN 0 ELSE (k % n) + 1
<1> DEFINE q == k \div n
           r == k % n
<1>1. q \in Nat /\ r \in 0 .. n - 1 /\ k = n * q + r
  OBVIOUS
<1> HIDE DEF q, r
<1>2. ASSUME NEW p \in Nat, NEW m \in 0 .. n - 1 PROVE (n * p + m) % n = m
  OBVIOUS
<1>3. CASE r = n - 1
  <2>1. k + 1 = n * (q + 1) + 0
    BY <1>1, <1>3
  <2>2. q + 1 \in Nat /\ 0 \in 0 .. n - 1
    BY <1>1
  <2>3. (n * (q + 1) + 0) % n = 0
    BY <1>2, <2>2
  <2>4. (k + 1) % n = 0
    BY <2>1, <2>3
  <2> QED  BY <1>1, <1>3, <2>4 DEF r
<1>4. CASE r # n - 1
  <2>1. k + 1 = n * q + (r + 1) /\ r + 1 \in 0 .. n - 1
    BY <1>1, <1>4
  <2>2. (n * q + (r + 1)) % n = r + 1
    BY <1>1, <1>2, <2>1
  <2>3. (k + 1) % n = r + 1
    BY <2>1, <2>2
  <2> QED  BY <1>1, <1>4, <2>3 DEF r
<1> QED  BY <1>3, <1>4

\* A name belongs to one second of one beam, and to one of its two files.
LEMMA NamesDiffer ==
  ASSUME NEW b \in Beams, NEW c \in Beams, NEW i \in Nat, NEW j \in Nat
  PROVE  LET n == Names(b, NumberOf(b, i))
             m == Names(c, NumberOf(c, j))
         IN  /\ n.spec # m.time
             /\ n.spec = m.spec \/ n.time = m.time => b = c /\ i = j
<1>1. b \in Int /\ c \in Int
  BY ShapeIsNat DEF Beams
<1>2. b + 1 = c + 1 => b = c
  BY <1>1
<1>3. b = c /\ NumberOf(b, i) = NumberOf(c, j) => i = j
  BY DEF NumberOf
<1> QED  BY <1>2, <1>3 DEF Names

\* The block that is written is the next second of the beam whose turn it is.
LEMMA WrittenInTurn ==
  ASSUME InTurn, Rounds, NEW buffer \in Buffers, Written(buffer)
  PROVE  /\ beam \in Beams
         /\ fil' = [fil EXCEPT ![beam] = Append(@, buffer)]
         /\ Len(fil[beam]) = obs_marker_number
         /\ NextMarker = NumberOf(beam, obs_marker_number + 1)
         /\ InTurn' /\ Rounds'
<1> DEFINE n == nbeams_total
<1>1. n \in Nat /\ n > 0
  BY ShapeIsNat
<1>2. /\ beam \in 0 .. n - 1
      /\ (block_number + 1) % n = IF beam = n - 1 THEN 0 ELSE beam + 1
  BY <1>1, NextTurn DEF beam, InTurn
<1>3. beam \in Beams /\ beam \in Nat /\ ~(beam < beam)
  BY <1>2 DEF Beams
<1>4. /\ fil' = [fil EXCEPT ![beam] = Append(@, buffer)]
      /\ obs_marker_number' = NextMarker /\ block_number' = block_number + 1
  BY DEF Written
<1>5. Len(fil[beam]) = obs_marker_number /\ obs_marker_number \in Nat
  BY <1>3 DEF Rounds, InTurn
<1>6. NextMarker = NumberOf(beam, obs_marker_number + 1)
  BY <1>5 DEF NextMarker, NumberOf
<1>7. InTurn'
  <2>1. Append(fil[beam], buffer) \in Seq(Buffers)
    BY <1>3 DEF InTurn
  <2>2. fil' \in [Beams -> Seq(Buffers)]
    BY <1>3, <1>4, <2>1 DEF InTurn
  <2>3. block_number' \in Nat /\ obs_marker_number' \in Nat
    BY <1>4 DEF InTurn, NextMarker
  <2> QED  BY <2>2, <2>3 DEF InTurn
<1>8. Rounds'
  <2>1. beam' = IF beam = n - 1 THEN 0 ELSE beam + 1
    <3>1. beam' = (block_number + 1) % n
      BY <1>4 DEF beam
    <3> QED  BY <1>2, <3>1
  <2>2. ASSUME NEW b \in Beams
        PROVE  Len(fil'[b]) = IF b < beam' THEN obs_marker_number' + 1
                              ELSE obs_marker_number'
    <3>1. Len(fil'[b]) = IF b = beam THEN Len(fil[b]) + 1 ELSE Len(fil[b])
      BY <1>3, <1>4 DEF InTurn
    <3>2. b \in 0 .. n - 1
      BY DEF Beams
    <3>3. Len(fil[b]) = IF b < beam THEN obs_marker_number + 1
                        ELSE obs_marker_number
      BY DEF Rounds
    <3>4. obs_marker_number' = IF beam = n - 1 THEN obs_marker_number + 1
                               ELSE obs_marker_number
      BY <1>4 DEF NextMarker
    <3> HIDE DEF beam
    <3> QED  BY <1>1, <1>2, <1>5, <2>1, <3>1, <3>2, <3>3, <3>4
  <2> QED  BY <2>2 DEF Rounds
<1> QED  BY <1>3, <1>4, <1>5, <1>6, <1>7, <1>8

\* Its names are new.
LEMMA NewNames ==
  ASSUME InTurn, Rounds, Counted, NEW buffer \in Buffers, Written(buffer)
  PROVE  LET n == Names(beam, NextMarker)
         IN  n.spec \notin DOMAIN stats /\ n.time \notin DOMAIN stats
<1>1. /\ beam \in Beams /\ Len(fil[beam]) = obs_marker_number
      /\ NextMarker = NumberOf(beam, obs_marker_number + 1)
  BY WrittenInTurn
<1>2. obs_marker_number + 1 \in Nat
  BY DEF InTurn
<1> SUFFICES ASSUME NEW f \in DOMAIN stats
             PROVE  LET n == Names(beam, NextMarker)
                    IN  f # n.spec /\ f # n.time
  OBVIOUS
<1>3. PICK b \in Beams : \E i \in DOMAIN fil[b] :
        LET n == Names(b, NumberOf(b, i)) IN f \in {n.spec, n.time}
  BY DEF Counted
<1>4. PICK i \in DOMAIN fil[b] :
        LET n == Names(b, NumberOf(b, i)) IN f \in {n.spec, n.time}
  BY <1>3
<1>5. i \in Nat /\ i <= Len(fil[b])
  BY DEF InTurn
<1>6. ~(b = beam /\ i = obs_marker_number + 1)
  BY <1>1, <1>2, <1>5
<1> QED  BY <1>1, <1>2, <1>4, <1>5, <1>6, NamesDiffer

\* The seconds there were before keep their place in the file of their beam.
LEMMA OldSeconds ==
  ASSUME InTurn, Rounds, NEW buffer \in Buffers, Written(buffer),
         NEW b \in Beams
  PROVE  \A i : i \in DOMAIN fil'[b] <=>
                  \/ i \in DOMAIN fil[b]
                  \/ b = beam /\ i = obs_marker_number + 1
<1>1. /\ beam \in Beams /\ Len(fil[beam]) = obs_marker_number
      /\ fil' = [fil EXCEPT ![beam] = Append(@, buffer)]
  BY WrittenInTurn
<1>2. obs_marker_number \in Nat /\ fil[b] \in Seq(Buffers)
  BY DEF InTurn
<1>3. CASE b = beam
  <2>1. fil'[b] = Append(fil[b], buffer)
    BY <1>1, <1>2, <1>3 DEF InTurn
  <2>2. DOMAIN fil'[b] = 1 .. obs_marker_number + 1
    BY <1>1, <1>2, <1>3, <2>1
  <2>3. DOMAIN fil[b] = 1 .. obs_marker_number
    BY <1>1, <1>2, <1>3
  <2> QED  BY <1>2, <1>3, <2>2, <2>3
<1>4. CASE b # beam
  <2>1. fil'[b] = fil[b]
    BY <1>1, <1>4 DEF InTurn
  <2> QED  BY <1>4, <2>1
<1> QED  BY <1>3, <1>4

LEMMA SameContents ==
  ASSUME InTurn, Rounds, NEW buffer \in Buffers, Written(buffer),
         NEW b \in Beams
  PROVE  /\ \A i \in DOMAIN fil[b] : fil'[b][i] = fil[b][i]
         /\ b = beam => fil'[b][obs_marker_number + 1] = buffer
<1>1. /\ beam \in Beams /\ Len(fil[beam]) = obs_marker_number
      /\ fil' = [fil EXCEPT ![beam] = Append(@, buffer)]
  BY WrittenInTurn
<1>2. obs_marker_number \in Nat /\ fil[b] \in Seq(Buffers)
  BY DEF InTurn
<1>3. CASE b = beam
  <2>1. fil'[b] = Append(fil[b], buffer)
    BY <1>1, <1>2, <1>3 DEF InTurn
  <2> QED  BY <1>1, <1>2, <1>3, <2>1
<1>4. CASE b # beam
  BY <1>1, <1>4 DEF InTurn
<1> QED  BY <1>3, <1>4

LEMMA IndexIsNat ==
  ASSUME InTurn, NEW b \in Beams, NEW i \in DOMAIN fil[b]
  PROVE  i \in Nat
BY DEF InTurn

\* Without statistics the old ones stay true, and the new block has none.
LEMMA WrittenOnly ==
  ASSUME InTurn, Rounds, Counted, Described,
         NEW buffer \in Buffers, Written(buffer), stats' = stats
  PROVE  Described'
<1> SUFFICES
      ASSUME NEW b \in Beams, NEW i \in DOMAIN fil'[b],
             LET n == Names(b, NumberOf(b, i))
             IN  n.spec \in DOMAIN stats \/ n.time \in DOMAIN stats
      PROVE  LET n == Names(b, NumberOf(b, i))
             IN  /\ {n.spec, n.time} \subseteq DOMAIN stats
                 /\ stats[n.spec] = power_freq(fil'[b][i])
                 /\ stats[n.time] = power_time(fil'[b][i])
  BY DEF Described
<1>1. ~(b = beam /\ i = obs_marker_number + 1)
  <2>1. NextMarker = NumberOf(beam, obs_marker_number + 1)
    BY WrittenInTurn
  <2> QED  BY <2>1, NewNames
<1>2. i \in DOMAIN fil[b] /\ fil'[b][i] = fil[b][i]
  BY <1>1, OldSeconds, SameContents
<1> QED  BY <1>2 DEF Described

\* With them, the new ones are true and overwrite no others.
LEMMA StatsWritten ==
  ASSUME InTurn, Rounds, Counted, Described,
         NEW buffer \in Buffers, Written(buffer), stats' = WithStats(buffer)
  PROVE  /\ Described'
         /\ \A f : f \in DOMAIN stats' <=>
              LET n == Names(beam, NextMarker)
              IN  f \in DOMAIN stats \/ f = n.spec \/ f = n.time
<1> DEFINE j == obs_marker_number + 1
           new == Names(beam, NextMarker)
<1>1. /\ beam \in Beams /\ NextMarker = NumberOf(beam, j)
      /\ new.spec \notin DOMAIN stats /\ new.time \notin DOMAIN stats
      /\ j \in Nat
  BY WrittenInTurn, NewNames DEF InTurn
<1>2. new.spec # new.time
  BY DEF Names
<1>3. /\ DOMAIN stats' = DOMAIN stats \cup {new.spec, new.time}
      /\ stats'[new.spec] = power_freq(buffer)
      /\ stats'[new.time] = power_time(buffer)
      /\ \A f \in DOMAIN stats : stats'[f] = stats[f]
  <2> DEFINE s == new.spec
             t == new.time
             pf == power_freq(buffer)
             pt == power_time(buffer)
  <2>1. stats' = [ f \in DOMAIN stats \cup {s, t} |->
                     CASE f = s -> pf [] f = t -> pt [] OTHER -> stats[f] ]
    BY DEF WithStats
  <2>2. s \notin DOMAIN stats /\ t \notin DOMAIN stats /\ s # t
    BY <1>1, <1>2
  <2> HIDE DEF s, t, pf, pt
  <2>3. /\ DOMAIN stats' = DOMAIN stats \cup {s, t}
        /\ stats'[s] = pf /\ stats'[t] = pt
        /\ \A f \in DOMAIN stats : stats'[f] = stats[f]
    BY <2>1, <2>2
  <2> QED  BY <2>3 DEF s, t, pf, pt
<1>4. Described'
  <2> SUFFICES
        ASSUME NEW b \in Beams, NEW i \in DOMAIN fil'[b],
               LET n == Names(b, NumberOf(b, i))
               IN  n.spec \in DOMAIN stats' \/ n.time \in DOMAIN stats'
        PROVE  LET n == Names(b, NumberOf(b, i))
               IN  /\ {n.spec, n.time} \subseteq DOMAIN stats'
                   /\ stats'[n.spec] = power_freq(fil'[b][i])
                   /\ stats'[n.time] = power_time(fil'[b][i])
    BY DEF Described
  <2> DEFINE n == Names(b, NumberOf(b, i))
  <2>1. CASE b = beam /\ i = j
    <3>1. n = new
      BY <1>1, <2>1
    <3>2. fil'[b][i] = buffer
      BY <2>1, SameContents
    <3> QED  BY <1>3, <3>1, <3>2
  <2>2. CASE ~(b = beam /\ i = j)
    <3>1. i \in DOMAIN fil[b] /\ fil'[b][i] = fil[b][i]
      BY <2>2, OldSeconds, SameContents
    <3>2. i \in Nat
      BY <3>1, IndexIsNat
    <3>3. /\ n.spec # new.spec /\ n.spec # new.time
          /\ n.time # new.spec /\ n.time # new.time
      BY <1>1, <2>2, <3>2, NamesDiffer
    <3>4. n.spec \in DOMAIN stats \/ n.time \in DOMAIN stats
      BY <1>3, <3>3
    <3>5. /\ n.spec \in DOMAIN stats /\ n.time \in DOMAIN stats
          /\ stats[n.spec] = power_freq(fil[b][i])
          /\ stats[n.time] = power_time(fil[b][i])
      BY <3>1, <3>4 DEF Described
    <3> QED  BY <1>3, <3>1, <3>5
  <2> QED  BY <2>1, <2>2
<1> QED  BY <1>3, <1>4

LEMMA CountedStep ==
  ASSUME InTurn, Rounds, Counted, Described, NEW buffer \in Buffers,
         dada_dbfil_io(buffer)
  PROVE  Counted'
<1> DEFINE j == obs_marker_number + 1
           new == Names(beam, NextMarker)
<1>1. /\ phase = "recording" /\ phase' = phase /\ Written(buffer)
      /\ UNCHANGED <<stats_dir, args>> /\ block_number' = block_number + 1
      /\ stats' = IF stats_dir = NULL THEN stats ELSE WithStats(buffer)
  BY DEF dada_dbfil_io, Written
<1>2. /\ beam \in Beams /\ NextMarker = NumberOf(beam, j)
      /\ new.spec \notin DOMAIN stats /\ new.time \notin DOMAIN stats
  BY <1>1, WrittenInTurn, NewNames
<1>3. \A b \in Beams : \A i \in DOMAIN fil[b] : i \in DOMAIN fil'[b]
  BY <1>1, OldSeconds
<1>4. j \in DOMAIN fil'[beam]
  BY <1>1, <1>2, OldSeconds
<1>5. CASE stats_dir = NULL
  <2>1. stats' = stats
    BY <1>1, <1>5
  <2>2. Cardinality(DOMAIN stats) = 0
    BY <1>1, <1>5 DEF Counted
  <2>3. \A f \in DOMAIN stats : \E b \in Beams : \E i \in DOMAIN fil'[b] :
          LET n == Names(b, NumberOf(b, i)) IN f \in {n.spec, n.time}
    BY <1>3 DEF Counted
  <2> QED  BY <1>1, <1>5, <2>1, <2>2, <2>3 DEF Counted, Names, NumberOf
<1>6. CASE stats_dir # NULL
  <2>1. \A f : f \in DOMAIN stats' <=>
                 f \in DOMAIN stats \/ f = new.spec \/ f = new.time
    BY <1>1, <1>6, StatsWritten
  <2>2. DOMAIN stats' = (DOMAIN stats \cup {new.spec}) \cup {new.time}
    BY <2>1
  <2>3. /\ IsFiniteSet(DOMAIN stats')
        /\ Cardinality(DOMAIN stats') = Cardinality(DOMAIN stats) + 1 + 1
    <3> DEFINE s == new.spec
               t == new.time
               D == DOMAIN stats
               E == D \cup {s}
    <3>1. s \notin D /\ t \notin D /\ s # t /\ IsFiniteSet(D)
      BY <1>2 DEF Names, Counted
    <3> HIDE DEF s, t, D
    <3>2. IsFiniteSet(E) /\ Cardinality(E) = Cardinality(D) + 1
      BY <3>1, FS_AddElement
    <3>3. t \notin E
      BY <3>1
    <3> HIDE DEF E
    <3>4. /\ IsFiniteSet(E \cup {t})
          /\ Cardinality(E \cup {t}) = Cardinality(E) + 1
      BY <3>2, <3>3, FS_AddElement
    <3> QED  BY <2>2, <3>2, <3>4 DEF s, t, D, E
  <2>4. Cardinality(DOMAIN stats') = 2 * block_number'
    <3>1. Cardinality(DOMAIN stats) = 2 * block_number /\ block_number \in Nat
      BY <1>1, <1>6 DEF Counted, InTurn
    <3> QED  BY <1>1, <2>3, <3>1
  <2>5. \A f \in DOMAIN stats' : \E b \in Beams : \E i \in DOMAIN fil'[b] :
          LET n == Names(b, NumberOf(b, i)) IN f \in {n.spec, n.time}
    <3> SUFFICES ASSUME NEW f \in DOMAIN stats'
          PROVE  \E b \in Beams : \E i \in DOMAIN fil'[b] :
                   LET n == Names(b, NumberOf(b, i)) IN f \in {n.spec, n.time}
      OBVIOUS
    <3>1. CASE f \in DOMAIN stats
      BY <1>3, <3>1 DEF Counted
    <3>2. CASE f \in {new.spec, new.time}
      BY <1>2, <1>4, <3>2
    <3> QED  BY <2>1, <3>1, <3>2
  <2>6. \A b \in Beams : \A i \in DOMAIN fil'[b] :
          Names(b, NumberOf(b, i)).spec \in DOMAIN stats'
    <3> SUFFICES ASSUME NEW b \in Beams, NEW i \in DOMAIN fil'[b]
                 PROVE  Names(b, NumberOf(b, i)).spec \in DOMAIN stats'
      OBVIOUS
    <3>1. CASE i \in DOMAIN fil[b]
      BY <1>1, <1>6, <2>1, <3>1 DEF Counted
    <3>2. CASE b = beam /\ i = j
      BY <1>2, <2>1, <3>2
    <3> QED  BY <1>1, <3>1, <3>2, OldSeconds
  <2> QED
    BY <1>1, <1>6, <2>3, <2>4, <2>5, <2>6 DEF Counted, Names, NumberOf
<1> QED  BY <1>5, <1>6

LEMMA StatsInvInit == StatsInit => StatsInv
<1> SUFFICES ASSUME StatsInit PROVE StatsInv
  OBVIOUS
<1>1. /\ phase = "parsing" /\ stats_dir = NULL /\ block_number = 0
      /\ obs_marker_number = 0
      /\ fil = [b \in Beams |-> <<>>] /\ stats = <<>>
  BY DEF StatsInit, Init
<1>2. \A b \in Beams : fil[b] = <<>>
  BY <1>1
<1>3. InTurn
  BY <1>1 DEF InTurn
<1>4. \A b \in Beams : DOMAIN fil[b] = {}
  BY <1>2
<1>5. beam = 0
  BY <1>1, ShapeIsNat DEF beam
<1>6. \A b \in Beams : ~(b < 0) /\ Len(fil[b]) = 0
  BY <1>2 DEF Beams
<1>7. Rounds
  BY <1>1, <1>5, <1>6 DEF Rounds
<1>8. DOMAIN stats = {}
  BY <1>1
<1>9. Counted
  BY <1>1, <1>4, <1>8, FS_EmptySet DEF Counted
<1> QED  BY <1>1, <1>3, <1>4, <1>7, <1>9 DEF StatsInv, Described, Untouched

LEMMA StatsInvStep == StatsInv /\ [StatsNext]_all_vars => StatsInv'
<1> SUFFICES ASSUME StatsInv, [StatsNext]_all_vars PROVE StatsInv'
  OBVIOUS
<1>0. InTurn /\ Described /\ Untouched /\ (phase # "died" => Rounds /\ Counted)
  BY DEF StatsInv
<1> DEFINE Before == {"parsing", "checking", "accepted", "refused"}
<1>1. CASE UNCHANGED stats_vars /\ (Next \/ UNCHANGED vars)
  <2>1. UNCHANGED stats_vars
    BY <1>1
  <2>2. (phase \in Before /\ phase' \in Before) \/ UNCHANGED <<phase, args>>
    BY <1>1 DEF Next, Operand, Option, Usage, Parsed, Checked, More, vars
  <2>3. InTurn' /\ Described' /\ (Rounds => Rounds')
    BY <1>0, <2>1 DEF stats_vars, InTurn, Described, Rounds, beam
  <2>4. Untouched'
    BY <1>0, <2>1, <2>2 DEF stats_vars, Untouched
  <2>5. phase' # "died" /\ Counted => Counted'
    BY <1>0, <2>1, <2>2 DEF stats_vars, Counted, Names, NumberOf
  <2>6. phase' # "died" => phase # "died"
    BY <2>2
  <2> QED  BY <1>0, <2>3, <2>4, <2>5, <2>6 DEF StatsInv
<1>2. CASE Start
  <2>1. /\ phase = "accepted" /\ phase' = "recording"
        /\ stats_dir' = args["s"] /\ args' = args
        /\ UNCHANGED <<block_number, obs_marker_number, fil, stats>>
    BY <1>2 DEF Start
  <2>2. InTurn' /\ Described' /\ Rounds' /\ Untouched'
    BY <1>0, <2>1 DEF InTurn, Described, Rounds, Untouched, beam
  <2>3. /\ block_number = 0 /\ fil = [b \in Beams |-> <<>>] /\ stats = <<>>
    BY <1>0, <2>1 DEF Untouched
  <2>4. DOMAIN stats = {} /\ \A b \in Beams : DOMAIN fil[b] = {}
    BY <2>3
  <2>5. Counted'
    BY <2>1, <2>3, <2>4, FS_EmptySet DEF Counted
  <2> QED  BY <2>2, <2>5 DEF StatsInv
<1>3. ASSUME NEW buffer \in Buffers, dada_dbfil_io(buffer) PROVE StatsInv'
  <2>1. /\ phase = "recording" /\ phase' = phase /\ Written(buffer)
        /\ stats' = IF stats_dir = NULL THEN stats ELSE WithStats(buffer)
    BY <1>3 DEF dada_dbfil_io, Written
  <2>2. Rounds /\ Counted
    BY <1>0, <2>1
  <2>3. InTurn' /\ Rounds'
    BY <1>0, <2>1, <2>2, WrittenInTurn
  <2>4. Described'
    BY <1>0, <2>1, <2>2, WrittenOnly, StatsWritten
  <2>5. Counted'
    BY <1>0, <1>3, <2>2, CountedStep
  <2> QED  BY <2>1, <2>3, <2>4, <2>5 DEF StatsInv, Untouched
<1>4. ASSUME NEW buffer \in Buffers, StatsDie(buffer) PROVE StatsInv'
  <2>1. /\ phase = "recording" /\ phase' = "died" /\ Written(buffer)
        /\ stats' = stats
    BY <1>4 DEF StatsDie, Written
  <2>2. Rounds /\ Counted
    BY <1>0, <2>1
  <2>3. InTurn' /\ Described'
    BY <1>0, <2>1, <2>2, WrittenInTurn, WrittenOnly
  <2> QED  BY <2>1, <2>3 DEF StatsInv, Untouched
<1> QED  BY <1>1, <1>2, <1>3, <1>4 DEF StatsNext, all_vars

LEMMA StatsInvAlways == StatsSpec => []StatsInv
BY StatsInvInit, StatsInvStep, PTL DEF StatsSpec

\* For any number of beams and blocks: if the user asked for statistics, each
\* second of each beam has its own two files and no file describes another, or
\* is overwritten; otherwise there are none.
THEOREM StatsAlwaysDescribeData == StatsSpec => []StatsDescribeData
<1>1. StatsInv => StatsDescribeData
  <2> SUFFICES ASSUME StatsInv, phase = "recording" PROVE StatsDescribeData
    BY DEF StatsDescribeData
  <2>1. Counted /\ Described
    BY DEF StatsInv
  <2>2. stats_dir = args["s"]
    BY <2>1 DEF Counted
  <2>3. Cardinality(DOMAIN stats) =
          IF args["s"] = NULL THEN 0 ELSE 2 * block_number
    BY <2>1, <2>2 DEF Counted
  <2>4. ASSUME args["s"] # NULL, NEW b \in Beams, NEW i \in DOMAIN fil[b]
        PROVE  LET n == Names(b, NumberOf(b, i))
               IN  /\ {n.spec, n.time} \subseteq DOMAIN stats
                   /\ stats[n.spec] = power_freq(fil[b][i])
                   /\ stats[n.time] = power_time(fil[b][i])
    <3>1. Names(b, NumberOf(b, i)).spec \in DOMAIN stats
      BY <2>1, <2>2, <2>4 DEF Counted
    <3> QED  BY <2>1, <3>1 DEF Described
  <2> QED  BY <2>3, <2>4 DEF StatsDescribeData
<1> QED  BY <1>1, StatsInvAlways, PTL

\* Whatever the samples and the shape of the blocks, the two statistics of a
\* second add up to the same: all of its samples.
THEOREM PowerAlwaysConserved == StatsSpec => []PowerConserved
<1>1. StatsInv => PowerConserved
  <2> SUFFICES ASSUME StatsInv, NEW b \in Beams, NEW i \in DOMAIN fil[b],
                      Names(b, NumberOf(b, i)).spec \in DOMAIN stats
               PROVE  LET total == Sum(fil[b][i], Positions)
                          n == Names(b, NumberOf(b, i))
                      IN  /\ Sum(stats[n.spec], Channels) = total
                          /\ Sum(stats[n.time], Times) = total
    BY DEF PowerConserved, Sum, Channels, Times
  <2> DEFINE n == Names(b, NumberOf(b, i))
             buffer == fil[b][i]
  <2>1. stats[n.spec] = power_freq(buffer) /\ stats[n.time] = power_time(buffer)
    BY DEF StatsInv, Described
  <2>2. buffer \in Buffers
    BY DEF StatsInv, InTurn
  <2>3. \A p \in Positions : buffer[p] \in Int
    BY <2>2, BufferAssumption
  <2> HIDE DEF buffer
  <2> QED  BY <2>1, <2>3, ChannelTotal, TimeTotal DEF buffer
<1> QED  BY <1>1, StatsInvAlways, PTL
=============================================================================
