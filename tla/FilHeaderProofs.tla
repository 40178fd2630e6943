-------------------------- MODULE FilHeaderProofs ---------------------------
(***************************************************************************)
(* Proofs about FilHeader, for names of any length and blocks of any       *)
(* number: where each keyword stands in the file, that the search finds    *)
(* the one it is for, and that a reader gets back what was written.        *)
(***************************************************************************)
EXTENDS FilHeader, FiniteSetTheorems, SequenceTheorems, WellFoundedInduction,
        TLAPS

-----------------------------------------------------------------------------
(* Induction and recursion *)

\* Induction, for a set: a least number outside it would have a predecessor.
LEMMA EveryNat ==
  ASSUME NEW T, 0 \in T, \A n \in Nat : n \in T => n + 1 \in T
  PROVE  Nat \subseteq T
<1> SUFFICES ASSUME Nat \ T # {} PROVE FALSE
  OBVIOUS
<1> DEFINE Rest == Nat \ T
<1>1. PICK m \in Rest : \A k \in Rest : ~(<<k, m>> \in OpToRel(<, Nat))
  <2>1. Rest \subseteq Nat /\ Rest # {}
    OBVIOUS
  <2> HIDE DEF Rest
  <2> QED  BY <2>1, WFMin, NatLessThanWellFounded
<1>2. \A k \in Rest : ~(k < m)
  BY <1>1 DEF OpToRel
<1>3. m \in Nat /\ m # 0 /\ m - 1 \in Nat /\ m - 1 < m
  OBVIOUS
<1>4. m - 1 \in T
  BY <1>2, <1>3
<1>5. (m - 1) + 1 \in T
  BY <1>3, <1>4
<1> QED  BY <1>3, <1>5

\* What FlattenSeq computes along the way: the first i sequences in one.
IsFlat(seqs, f) ==
  f = [i \in 1 .. Len(seqs) |->
         IF i = 1 THEN seqs[i] ELSE f[i - 1] \o seqs[i]]

\* The recursion has a solution, for sequences of any number.
LEMMA FlatExists ==
  ASSUME NEW seqs, Len(seqs) \in Nat
  PROVE  \E f : IsFlat(seqs, f)
<1> DEFINE Step(f, i) == IF i = 1 THEN seqs[i] ELSE f[i - 1] \o seqs[i]
           T == {n \in Nat : \E f : f = [i \in 1 .. n |-> Step(f, i)]}
<1>1. 0 \in T
  <2> DEFINE f == [i \in 1 .. 0 |-> <<>>]
  <2>1. f = [i \in 1 .. 0 |-> Step(f, i)]
    <3> HIDE DEF Step
    <3> QED  OBVIOUS
  <2> HIDE DEF f, Step
  <2> QED  BY <2>1
<1>2. ASSUME NEW n \in Nat, n \in T PROVE n + 1 \in T
  <2>1. PICK f : f = [i \in 1 .. n |-> Step(f, i)]
    BY <1>2
  <2> DEFINE g == [i \in 1 .. n + 1 |-> Step(f, i)]
  <2>2. ASSUME NEW i \in 1 .. n PROVE g[i] = f[i]
    <3>1. i \in 1 .. n + 1 /\ g[i] = Step(f, i)
      <4> HIDE DEF Step
      <4> QED  OBVIOUS
    <3>2. f[i] = Step(f, i)
      <4> HIDE DEF Step, g
      <4> QED  BY <2>1
    <3> QED  BY <3>1, <3>2
  <2>3. ASSUME NEW i \in 1 .. n + 1 PROVE g[i] = Step(g, i)
    <3>1. g[i] = Step(f, i)
      <4> HIDE DEF Step
      <4> QED  OBVIOUS
    <3>2. i # 1 => i - 1 \in 1 .. n
      OBVIOUS
    <3> HIDE DEF g
    <3> QED  BY <2>2, <3>1, <3>2
  <2>4. g = [i \in 1 .. n + 1 |-> Step(g, i)]
    <3>1. g = [i \in 1 .. n + 1 |-> g[i]]
      OBVIOUS
    <3> HIDE DEF g, Step
    <3> QED  BY <2>3, <3>1
  <2> HIDE DEF g, Step
  <2> QED  BY <2>4
<1>3. Len(seqs) \in T
  <2> HIDE DEF T
  <2> QED  BY <1>1, <1>2, EveryNat
<1> QED  BY <1>3 DEF IsFlat

\* FlattenSeq is what the recursion ends with.
LEMMA FlattenIsFlat ==
  ASSUME NEW seqs, Len(seqs) \in Nat, Len(seqs) # 0
  PROVE  \E f : IsFlat(seqs, f) /\ FlattenSeq(seqs) = f[Len(seqs)]
<1> DEFINE f == CHOOSE f : IsFlat(seqs, f)
<1>1. IsFlat(seqs, f)
  BY FlatExists
<1>2. FlattenSeq(seqs) = f[Len(seqs)]
  BY DEF FlattenSeq, IsFlat
<1> QED  BY <1>1, <1>2

\* What ReadHeader computes along the way: what has been read of some keywords.
IsRead(f, g) ==
  g = [ s \in SUBSET (DOMAIN Keywords) |->
          IF s = {} THEN [at |-> 1, found |-> {}]
          ELSE ReadKeyword(f, g[s \ {Max(s)}]) ]

\* ReadHeader is what its recursion ends with.
LEMMA ReadHeaderIsRead ==
  ASSUME NEW f
  PROVE  ReadHeader(f) = (CHOOSE g : IsRead(f, g))[DOMAIN Keywords]
BY DEF ReadHeader, FoldLeft, MapThenFoldSet, IsRead

\* A set of numbers up to n has a largest one, and Max is it.
LEMMA MaxIsLargest ==
  ASSUME NEW n \in Nat, NEW s \in SUBSET (1 .. n), s # {}
  PROVE  Max(s) \in s /\ \A y \in s : y <= Max(s)
<1> DEFINE T == {k \in Nat : \A u \in SUBSET (1 .. k) :
                    u # {} => \E x \in u : \A y \in u : x >= y}
<1>1. 0 \in T
  <2>1. \A u \in SUBSET (1 .. 0) : u = {}
    OBVIOUS
  <2> QED  BY <2>1
<1>2. ASSUME NEW k \in Nat, k \in T PROVE k + 1 \in T
  <2> SUFFICES ASSUME NEW u \in SUBSET (1 .. k + 1), u # {}
               PROVE  \E x \in u : \A y \in u : x >= y
    OBVIOUS
  <2>1. CASE k + 1 \in u
    BY <2>1
  <2>2. CASE k + 1 \notin u
    <3>1. u \in SUBSET (1 .. k)
      BY <2>2
    <3> QED  BY <1>2, <3>1
  <2> QED  BY <2>1, <2>2
<1>3. n \in T
  <2> HIDE DEF T
  <2> QED  BY <1>1, <1>2, EveryNat
<1>4. \E x \in s : \A y \in s : x >= y
  BY <1>3
<1> QED  BY <1>4 DEF Max

\* There are 23 keywords.
LEMMA KeywordsLength == Len(Keywords) = 23 /\ DOMAIN Keywords = 1 .. 23
BY DEF Keywords

\* The recursion of ReadHeader has a solution.
LEMMA ReadExists == ASSUME NEW f PROVE \E g : IsRead(f, g)
<1> DEFINE D(n) == SUBSET (1 .. n)
           Step(g, s) == IF s = {} THEN [at |-> 1, found |-> {}]
                         ELSE ReadKeyword(f, g[s \ {Max(s)}])
           T == {n \in Nat : \E g : g = [s \in D(n) |-> Step(g, s)]}
<1>1. 0 \in T
  <2> DEFINE g == [s \in D(0) |-> [at |-> 1, found |-> {}]]
  <2>1. \A s \in D(0) : s = {}
    OBVIOUS
  <2>2. g = [s \in D(0) |-> Step(g, s)]
    BY <2>1
  <2> HIDE DEF g, Step, D
  <2> QED  BY <2>2
<1>2. ASSUME NEW n \in Nat, n \in T PROVE n + 1 \in T
  <2>1. PICK g : g = [s \in D(n) |-> Step(g, s)]
    BY <1>2
  <2> DEFINE h == [s \in D(n + 1) |-> Step(g, s)]
  <2>2. ASSUME NEW s \in D(n + 1), s # {} PROVE s \ {Max(s)} \in D(n)
    <3>1. n + 1 \in Nat /\ s \in SUBSET (1 .. n + 1)
      OBVIOUS
    <3>2. Max(s) \in s /\ \A y \in s : y <= Max(s)
      BY ONLY <2>2, <3>1, MaxIsLargest
    <3>3. ASSUME NEW y \in s, y # Max(s) PROVE y \in 1 .. n
      <4>1. y \in 1 .. n + 1 /\ Max(s) \in 1 .. n + 1 /\ y <= Max(s)
        BY <3>1, <3>2
      <4> QED  BY <3>3, <4>1
    <3> QED  BY <3>3
  <2>3. ASSUME NEW s \in D(n) PROVE h[s] = g[s]
    <3>1. s \in D(n + 1)
      OBVIOUS
    <3>2. h[s] = Step(g, s)
      <4> HIDE DEF Step, D
      <4> QED  BY <3>1
    <3>3. g[s] = Step(g, s)
      <4> HIDE DEF Step, D, h
      <4> QED  BY <2>1
    <3> QED  BY <3>2, <3>3
  <2>4. ASSUME NEW s \in D(n + 1) PROVE h[s] = Step(h, s)
    <3>1. h[s] = Step(g, s)
      <4> HIDE DEF Step, D
      <4> QED  OBVIOUS
    <3>2. s # {} => h[s \ {Max(s)}] = g[s \ {Max(s)}]
      <4> HIDE DEF D, h
      <4> QED  BY <2>2, <2>3
    <3> HIDE DEF h, D
    <3> QED  BY <3>1, <3>2
  <2>5. h = [s \in D(n + 1) |-> h[s]]
    <3> HIDE DEF D, Step
    <3> QED  OBVIOUS
  <2>6. h = [s \in D(n + 1) |-> Step(h, s)]
    <3> HIDE DEF h, D, Step
    <3> QED  BY <2>4, <2>5
  <2> HIDE DEF h, D, Step
  <2> QED  BY <2>6
<1>3. 23 \in T
  <2> HIDE DEF T
  <2> QED  BY <1>1, <1>2, EveryNat
<1>4. PICK g : g = [s \in D(23) |-> Step(g, s)]
  BY <1>3
<1> QED  BY <1>4, KeywordsLength DEF IsRead

\* The reader goes through the keywords in their order.
LEMMA ReadInOrder ==
  ASSUME NEW f
  PROVE  \E r : /\ r[0] = [at |-> 1, found |-> {}]
                /\ \A i \in 1 .. 23 : r[i] = ReadKeyword(f, r[i - 1])
                /\ ReadHeader(f) = r[23]
<1> DEFINE g == CHOOSE g : IsRead(f, g)
<1>1. IsRead(f, g)
  BY ReadExists
<1>2. ReadHeader(f) = g[DOMAIN Keywords]
  BY ReadHeaderIsRead
<1> HIDE DEF g
<1> DEFINE r == [i \in 0 .. 23 |-> g[1 .. i]]
<1>3. r[0] = [at |-> 1, found |-> {}]
  <2>1. r[0] = g[{}]
    OBVIOUS
  <2> HIDE DEF r
  <2> QED  BY <1>1, <2>1 DEF IsRead
<1>4. ASSUME NEW i \in 1 .. 23 PROVE r[i] = ReadKeyword(f, r[i - 1])
  <2>1. 1 .. i \in SUBSET (1 .. 23) /\ 1 .. i # {} /\ i \in Nat
    OBVIOUS
  <2>2. Max(1 .. i) \in 1 .. i /\ \A y \in 1 .. i : y <= Max(1 .. i)
    BY <2>1, MaxIsLargest
  <2>3. Max(1 .. i) = i
    BY <2>2
  <2>4. (1 .. i) \ {i} = 1 .. i - 1
    OBVIOUS
  <2>5. g[1 .. i] = ReadKeyword(f, g[(1 .. i) \ {Max(1 .. i)}])
    BY <1>1, <2>1, KeywordsLength DEF IsRead
  <2>6. r[i] = g[1 .. i] /\ r[i - 1] = g[1 .. i - 1]
    BY SMTT(30)
  <2> HIDE DEF r
  <2> QED  BY <2>3, <2>4, <2>5, <2>6
<1>5. ReadHeader(f) = r[23]
  <2>1. r[23] = g[1 .. 23]
    OBVIOUS
  <2> HIDE DEF r
  <2> QED  BY <1>2, <2>1, KeywordsLength
<1> HIDE DEF r
<1> QED  BY <1>3, <1>4, <1>5

\* The first m sequences stand in w one after the other, the i-th after the
\* first start[i] places; and there are no other places in w.
InPlace(seqs, w, start, m) ==
  /\ \A i \in 1 .. m :
       /\ start[i] \in Nat
       /\ start[i + 1] = start[i] + Len(seqs[i])
       /\ \A t \in 1 .. Len(seqs[i]) :
            start[i] + t <= Len(w) /\ w[start[i] + t] = seqs[i][t]
  /\ \A q \in 1 .. Len(w) : \E i \in 1 .. m :
       \E t \in 1 .. Len(seqs[i]) : q = start[i] + t

\* One more sequence at the end leaves the others in place.
LEMMA OneMoreInPlace ==
  ASSUME NEW S, NEW seqs, NEW m \in Nat, NEW w \in Seq(S), NEW start,
         \A i \in 1 .. m + 1 : seqs[i] \in Seq(S),
         InPlace(seqs, w, start, m),
         NEW k, k = m + 1, NEW p, p = seqs[k],
         start[k] = Len(w), start[k + 1] = Len(w \o p)
  PROVE  w \o p \in Seq(S) /\ InPlace(seqs, w \o p, start, k)
<1>1. m + 1 \in 1 .. m + 1
  OBVIOUS
<1>2. PICK v : v = w \o p
  OBVIOUS
<1>3. p \in Seq(S) /\ Len(w) \in Nat /\ Len(p) \in Nat
  BY <1>1, LenProperties
<1>4. /\ v \in Seq(S) /\ Len(v) = Len(w) + Len(p)
      /\ \A q \in 1 .. Len(w) + Len(p) :
           v[q] = IF q <= Len(w) THEN w[q] ELSE p[q - Len(w)]
  BY <1>2, <1>3, ConcatProperties
<1>5. ASSUME NEW i \in 1 .. m + 1
      PROVE  /\ start[i] \in Nat
             /\ start[i + 1] = start[i] + Len(seqs[i])
             /\ \A t \in 1 .. Len(seqs[i]) :
                  start[i] + t <= Len(v) /\ v[start[i] + t] = seqs[i][t]
  <2>1. CASE i \in 1 .. m
    <3>1. /\ start[i] \in Nat
          /\ start[i + 1] = start[i] + Len(seqs[i])
          /\ \A t \in 1 .. Len(seqs[i]) :
               start[i] + t <= Len(w) /\ w[start[i] + t] = seqs[i][t]
      BY <2>1 DEF InPlace
    <3>2. Len(seqs[i]) \in Nat
      BY LenProperties
    <3>3. ASSUME NEW t \in 1 .. Len(seqs[i])
          PROVE  start[i] + t <= Len(v) /\ v[start[i] + t] = seqs[i][t]
      <4>1. PICK q : q = start[i] + t
        OBVIOUS
      <4>2. q \in 1 .. Len(w) /\ w[q] = seqs[i][t]
        BY <1>3, <3>1, <3>2, <4>1, SMTT(30)
      <4>3. q <= Len(v) /\ v[q] = w[q]
        BY <1>3, <1>4, <4>2
      <4> QED  BY <4>1, <4>2, <4>3
    <3> QED  BY <3>1, <3>3
  <2>2. CASE i = m + 1
    <3>1. start[i] = Len(w) /\ start[i + 1] = Len(w) + Len(p) /\ seqs[i] = p
      BY <1>2, <1>4, <2>2
    <3>2. ASSUME NEW t \in 1 .. Len(p)
          PROVE  Len(w) + t <= Len(v) /\ v[Len(w) + t] = p[t]
      BY <1>3, <1>4
    <3> QED  BY <1>3, <3>1, <3>2
  <2> QED  BY <2>1, <2>2
<1>6. ASSUME NEW q \in 1 .. Len(v)
      PROVE  \E i \in 1 .. m + 1 : \E t \in 1 .. Len(seqs[i]) : q = start[i] + t
  <2>1. CASE q \in 1 .. Len(w)
    <3>1. PICK i \in 1 .. m : \E t \in 1 .. Len(seqs[i]) : q = start[i] + t
      BY <2>1 DEF InPlace
    <3>2. i \in 1 .. m + 1
      OBVIOUS
    <3> QED  BY <3>1, <3>2
  <2>2. CASE q \notin 1 .. Len(w)
    <3>1. PICK t : t = q - Len(w)
      OBVIOUS
    <3>2. t \in 1 .. Len(p) /\ q = start[m + 1] + t
      BY <1>3, <1>4, <2>2, <3>1, SMTT(30)
    <3> QED  BY <1>1, <1>2, <3>2
  <2> QED  BY <2>1, <2>2
<1> QED  BY <1>2, <1>4, <1>5, <1>6 DEF InPlace

\* FlattenSeq puts sequences one after the other, without a gap.
LEMMA FlattenInPlace ==
  ASSUME NEW S, NEW seqs, Len(seqs) \in Nat \ {0},
         \A i \in 1 .. Len(seqs) : seqs[i] \in Seq(S)
  PROVE  /\ FlattenSeq(seqs) \in Seq(S)
         /\ \E start : /\ start \in [1 .. Len(seqs) + 1 -> Nat]
                       /\ start[1] = 0
                       /\ start[Len(seqs) + 1] = Len(FlattenSeq(seqs))
                       /\ InPlace(seqs, FlattenSeq(seqs), start, Len(seqs))
<1> SUFFICES
      ASSUME NEW n \in Nat, n # 0, Len(seqs) = n,
             \A i \in 1 .. n : seqs[i] \in Seq(S)
      PROVE  /\ FlattenSeq(seqs) \in Seq(S)
             /\ \E start : /\ start \in [1 .. n + 1 -> Nat]
                           /\ start[1] = 0
                           /\ start[n + 1] = Len(FlattenSeq(seqs))
                           /\ InPlace(seqs, FlattenSeq(seqs), start, n)
  OBVIOUS
<1>1. PICK f : IsFlat(seqs, f) /\ FlattenSeq(seqs) = f[n]
  BY FlattenIsFlat
<1>2. f = [i \in 1 .. n |-> IF i = 1 THEN seqs[i] ELSE f[i - 1] \o seqs[i]]
  BY <1>1 DEF IsFlat
<1> DEFINE start == [i \in 1 .. n + 1 |-> IF i = 1 THEN 0 ELSE Len(f[i - 1])]
<1>3. start[1] = 0 /\ \A k \in 1 .. n : start[k + 1] = Len(f[k])
  <2>1. ASSUME NEW k \in 1 .. n
        PROVE  k + 1 \in 1 .. n + 1 /\ k + 1 # 1 /\ (k + 1) - 1 = k
    OBVIOUS
  <2>2. 1 \in 1 .. n + 1
    OBVIOUS
  <2> QED  BY <2>1, <2>2
<1>4. start = [i \in 1 .. n + 1 |-> start[i]]
  OBVIOUS
<1> HIDE DEF start
<1> DEFINE Good(k) == f[k] \in Seq(S) /\ InPlace(seqs, f[k], start, k)
           T == {m \in Nat : m \in 1 .. n => Good(m)}
<1>5. ASSUME NEW m \in Nat, NEW k \in 1 .. n, k = m + 1,
             NEW w \in Seq(S), InPlace(seqs, w, start, m), start[k] = Len(w),
             f[k] = w \o seqs[k]
      PROVE  Good(k)
  <2>1. \A i \in 1 .. m + 1 : seqs[i] \in Seq(S)
    BY <1>5
  <2>2. start[k + 1] = Len(w \o seqs[k])
    BY <1>3, <1>5
  <2>3. /\ w \o seqs[k] \in Seq(S)
        /\ InPlace(seqs, w \o seqs[k], start, k)
    BY <1>5, <2>1, <2>2, OneMoreInPlace
  <2> QED  BY <1>5, <2>3
<1>6. Good(1)
  <2>1. 1 \in 1 .. n /\ 1 = 0 + 1 /\ 0 \in Nat
    OBVIOUS
  <2>2. <<>> \in Seq(S) /\ Len(<<>>) = 0
    BY EmptySeq
  <2>3. f[1] = <<>> \o seqs[1]
    BY <1>2, <2>1, ConcatEmptySeq
  <2>4. InPlace(seqs, <<>>, start, 0)
    BY <2>2 DEF InPlace
  <2>5. start[1] = Len(<<>>)
    BY <1>3, <2>2
  <2> HIDE DEF Good
  <2> QED  BY <1>5, <2>1, <2>2, <2>3, <2>4, <2>5
<1>7. 0 \in T
  OBVIOUS
<1>8. ASSUME NEW m \in Nat, m \in T PROVE m + 1 \in T
  <2> SUFFICES ASSUME m # 0, NEW k \in 1 .. n, k = m + 1 PROVE Good(k)
    BY <1>6
  <2>1. m \in 1 .. n /\ Good(m)
    BY <1>8
  <2>2. k # 1 /\ k - 1 = m
    OBVIOUS
  <2>3. f[k] = f[m] \o seqs[k]
    BY <1>2, <2>2
  <2>4. start[m + 1] = Len(f[m])
    BY <1>3, <2>1
  <2>5. f[m] \in Seq(S) /\ InPlace(seqs, f[m], start, m) /\ start[k] = Len(f[m])
    BY <2>1, <2>4
  <2> HIDE DEF Good
  <2> QED  BY <1>5, <2>3, <2>5
<1>9. \A m \in Nat : m \in T
  <2> HIDE DEF T
  <2> QED  BY <1>7, <1>8, EveryNat
<1>10. \A i \in 1 .. n : Good(i)
  BY <1>9
<1>11. ASSUME NEW i \in 1 .. n + 1 PROVE start[i] \in Nat
  <2>1. CASE i = 1
    BY <1>3, <2>1
  <2>2. CASE i # 1
    <3>1. PICK k : k = i - 1
      OBVIOUS
    <3>2. k \in 1 .. n /\ i = k + 1
      BY <2>2, <3>1
    <3>3. Len(f[k]) \in Nat
      BY <1>10, <3>2, LenProperties
    <3> QED  BY <1>3, <3>2, <3>3
  <2> QED  BY <2>1, <2>2
<1>12. start \in [1 .. n + 1 -> Nat]
  BY <1>4, <1>11
<1>13. n \in 1 .. n
  OBVIOUS
<1> QED  BY <1>1, <1>3, <1>10, <1>12, <1>13

-----------------------------------------------------------------------------
(* The pieces of a header *)

\* What a cell can hold, and the headers create_fil fills in.
Values == STRING \cup ToSet(Keywords) \cup {"n", "s"} \cup Int \cup Counts
Cells == {"char", "number", "data"} \X Values
Headers ==
  {h \in [Fields -> Values \cup Names] :
     \A k \in Fields :
       IF k \in Strings THEN h[k] \in Names ELSE h[k] \in Values}

Char(c) == <<"char", c>>

\* The kinds of cells can be told apart.
LEMMA CellFacts ==
  /\ \A v : /\ Char(v)[1] = "char" /\ Number(v)[1] = "number"
           /\ Block(v)[1] = "data"
           /\ Char(v)[2] = v /\ Number(v)[2] = v
  /\ \A v \in Values :
       Char(v) \in Cells /\ Number(v) \in Cells /\ Block(v) \in Cells
BY DEF Char, Number, Block, Cells

\* The keywords: the 16th is nsamples; each is a mark or a field.
LEMMA KeywordFacts ==
  /\ ToSet(Keywords) = {Keywords[i] : i \in 1 .. 23}
  /\ \A i \in 1 .. 23 :
       /\ Keywords[i] \in ToSet(Keywords) /\ Keywords[i] # "none"
       /\ Keywords[i] \in Marks \/ Keywords[i] \in Fields
       /\ (Keywords[i] = "nsamples") <=> (i = 16)
  /\ "none" \notin ToSet(Keywords)
  /\ "nsamples" \notin Marks \cup Strings /\ "nsamples" \in Fields
  /\ Strings \subseteq Fields /\ Fields \cap Marks = {}
<1>1. ToSet(Keywords) = {Keywords[i] : i \in 1 .. 23}
  BY KeywordsLength DEF ToSet
<1>2. \A i \in 1 .. 23 :
        /\ Keywords[i] \in ToSet(Keywords) /\ Keywords[i] # "none"
        /\ (Keywords[i] = "nsamples") <=> (i = 16)
  <2>1. \A i \in 1 .. 23 : Keywords[i] # "none"
    BY DEF Keywords
  <2>2. \A i \in 1 .. 23 : (Keywords[i] = "nsamples") <=> (i = 16)
    BY DEF Keywords
  <2> QED  BY <1>1, <2>1, <2>2
<1>3. "nsamples" \notin Marks \cup Strings /\ Strings \cap Marks = {}
  BY DEF Marks, Strings
<1>4. Keywords[16] = "nsamples" /\ Keywords[5] = "rawdatafile"
      /\ Keywords[6] = "source_name"
  BY DEF Keywords
<1>5. Strings \subseteq ToSet(Keywords) /\ "nsamples" \in ToSet(Keywords)
  BY <1>1, <1>4 DEF Strings
<1> QED  BY <1>1, <1>2, <1>3, <1>5 DEF Fields

\* Sequences of one and of two.
LEMMA ShortSeqs ==
  ASSUME NEW S, NEW a \in S, NEW b \in S
  PROVE  /\ <<a>> \in Seq(S) /\ Len(<<a>>) = 1 /\ <<a>>[1] = a
         /\ <<a, b>> \in Seq(S) /\ Len(<<a, b>>) = 2
         /\ <<a, b>>[1] = a /\ <<a, b>>[2] = b
OBVIOUS

\* The characters of a string, one by one.
LEMMA CharsAreCells ==
  ASSUME NEW s \in Seq(Values)
  PROVE  /\ Chars(s) \in Seq(Cells) /\ Len(Chars(s)) = Len(s)
         /\ \A j \in 1 .. Len(s) : Chars(s)[j] = Char(s[j])
<1>1. Len(s) \in Nat /\ DOMAIN s = 1 .. Len(s)
  BY LenProperties
<1>2. \A j \in 1 .. Len(s) : s[j] \in Values
  BY ElementOfSeq
<1>3. \A j \in 1 .. Len(s) : Char(s[j]) \in Cells
  BY <1>2, CellFacts
<1>4. Chars(s) = [j \in 1 .. Len(s) |-> Char(s[j])]
  BY <1>1 DEF Chars, Char
<1> QED  BY <1>1, <1>3, <1>4

\* The characters of a keyword.
LEMMA SpelledFacts ==
  ASSUME NEW k \in ToSet(Keywords)
  PROVE  /\ Spelled(k) \in Seq(Cells)
         /\ Len(Spelled(k)) = IF k = "nsamples" THEN 2 ELSE 1
         /\ k = "nsamples" => /\ Spelled(k)[1] = Char("n")
                              /\ Spelled(k)[2] = Char("s")
         /\ k # "nsamples" => Spelled(k)[1] = Char(k)
         /\ \A j \in 1 .. Len(Spelled(k)) : Spelled(k)[j][1] = "char"
<1>1. CASE k = "nsamples"
  <2>1. PICK a, b \in Values : a = "n" /\ b = "s"
    BY DEF Values
  <2> DEFINE ns == <<a, b>>
  <2>2. ns \in Seq(Values) /\ Len(ns) = 2 /\ ns[1] = a /\ ns[2] = b
    BY ShortSeqs
  <2>3. /\ Chars(ns) \in Seq(Cells) /\ Len(Chars(ns)) = 2
        /\ \A j \in 1 .. 2 : Chars(ns)[j] = Char(ns[j])
    BY <2>2, CharsAreCells
  <2>4. Spelled(k) = Chars(ns)
    BY <1>1, <2>1 DEF Spelled, Key
  <2>5. 1 \in 1 .. 2 /\ 2 \in 1 .. 2
    OBVIOUS
  <2> HIDE DEF ns
  <2>6. Chars(ns)[1] = Char("n") /\ Chars(ns)[2] = Char("s")
    BY <2>1, <2>2, <2>3, <2>5
  <2>7. \A j \in 1 .. 2 : Chars(ns)[j][1] = "char"
    BY <2>3, CellFacts
  <2> QED  BY <1>1, <2>3, <2>4, <2>6, <2>7
<1>2. CASE k # "nsamples"
  <2>1. k \in Values
    BY DEF Values
  <2>2. PICK one \in Seq(Values) : one = <<k>> /\ Len(one) = 1 /\ one[1] = k
    BY <2>1, ShortSeqs
  <2>3. /\ Chars(one) \in Seq(Cells) /\ Len(Chars(one)) = 1
        /\ \A j \in 1 .. 1 : Chars(one)[j] = Char(one[j])
    BY <2>2, CharsAreCells
  <2>4. Spelled(k) = Chars(one)
    BY <1>2, <2>2 DEF Spelled
  <2>5. 1 \in 1 .. 1
    OBVIOUS
  <2>6. Chars(one)[1] = Char(k)
    BY <2>2, <2>3, <2>5
  <2>7. \A j \in 1 .. 1 : Chars(one)[j][1] = "char"
    BY <2>3, CellFacts
  <2> QED  BY <1>2, <2>3, <2>4, <2>6, <2>7
<1> QED  BY <1>1, <1>2

\* No two keywords are spelled the same.
LEMMA SpelledOnce ==
  ASSUME NEW k \in ToSet(Keywords), NEW l \in ToSet(Keywords),
         Spelled(k) = Spelled(l)
  PROVE  k = l
<1>1. k = "nsamples" <=> l = "nsamples"
  BY SpelledFacts
<1>2. CASE k # "nsamples"
  <2>1. Char(k) = Char(l)
    BY <1>1, <1>2, SpelledFacts
  <2> QED  BY <2>1, CellFacts
<1> QED  BY <1>1, <1>2

\* A string that is written: its length, then its cells.
LEMMA WriteStringFacts ==
  ASSUME NEW s \in Seq(Cells)
  PROVE  /\ WriteString(s) \in Seq(Cells) /\ Len(WriteString(s)) = 1 + Len(s)
         /\ WriteString(s)[1] = Number(Len(s))
         /\ \A j \in 1 .. Len(s) : WriteString(s)[1 + j] = s[j]
<1>1. Len(s) \in Nat
  BY LenProperties
<1>2. Number(Len(s)) \in Cells
  <2>1. Len(s) \in Values
    BY <1>1 DEF Values
  <2> QED  BY <2>1, CellFacts
<1>3. PICK u : u = <<Number(Len(s))>>
  OBVIOUS
<1>4. u \in Seq(Cells) /\ Len(u) = 1 /\ u[1] = Number(Len(s))
  BY <1>2, <1>3
<1>5. /\ u \o s \in Seq(Cells) /\ Len(u \o s) = 1 + Len(s)
      /\ \A i \in 1 .. 1 + Len(s) :
           (u \o s)[i] = IF i <= 1 THEN u[i] ELSE s[i - 1]
  BY <1>4, ConcatProperties, SMTT(30)
<1>6. WriteString(s) = u \o s
  BY <1>3 DEF WriteString
<1>7. \A j \in 1 .. Len(s) : 1 + j \in 1 .. 1 + Len(s) /\ ~(1 + j <= 1)
                             /\ (1 + j) - 1 = j
  BY <1>1
<1>8. 1 \in 1 .. 1 + Len(s)
  BY <1>1
<1>9. ASSUME NEW j \in 1 .. Len(s) PROVE (u \o s)[1 + j] = s[j]
  <2>1. (u \o s)[1 + j] = s[(1 + j) - 1]
    BY <1>5, <1>7
  <2> QED  BY <1>7, <2>1
<1> QED  BY <1>4, <1>5, <1>6, <1>8, <1>9
\* Names are sequences of characters, and not empty.
LEMMA NameFacts ==
  ASSUME NEW s \in Names
  PROVE  s \in Seq(Values) /\ Len(s) \in Nat \ {0} /\ s # <<>>
<1>1. s \in Seq(STRING) /\ s # <<>>
  BY NamesAssumption
<1>2. STRING \subseteq Values
  BY DEF Values
<1>3. s \in Seq(Values)
  BY <1>1, <1>2, SeqMonotonic
<1> QED  BY <1>1, <1>3, EmptySeq

\* What WriteKeyword writes, cell by cell.
IsPiece(p, k, value) ==
  LET n == Len(Spelled(k))
  IN  /\ p \in Seq(Cells)
      /\ p[1] = Number(n)
      /\ \A j \in 1 .. n : p[1 + j] = Spelled(k)[j]
      /\ k \in Marks => Len(p) = 1 + n
      /\ k \in Strings =>
           /\ value \in Names
           /\ Len(p) = 2 + n + Len(value)
           /\ p[2 + n] = Number(Len(value))
           /\ \A j \in 1 .. Len(value) : p[2 + n + j] = Char(value[j])
      /\ k \in Fields \ Strings => Len(p) = 2 + n /\ p[2 + n] = Number(value)

\* The cells of one sequence after another.
LEMMA AfterConcat ==
  ASSUME NEW u \in Seq(Cells), NEW w \in Seq(Cells), NEW n \in Nat,
         Len(u) = 1 + n
  PROVE  /\ u \o w \in Seq(Cells) /\ Len(u \o w) = 1 + n + Len(w)
         /\ (u \o w)[1] = u[1]
         /\ \A j \in 1 .. n : (u \o w)[1 + j] = u[1 + j]
         /\ \A j \in 1 .. Len(w) : (u \o w)[1 + n + j] = w[j]
<1>1. PICK v : v = u \o w
  OBVIOUS
<1>2. Len(w) \in Nat
  BY LenProperties
<1>3. /\ v \in Seq(Cells) /\ Len(v) = 1 + n + Len(w)
      /\ \A q \in 1 .. 1 + n + Len(w) :
           v[q] = IF q <= 1 + n THEN u[q] ELSE w[q - (1 + n)]
  <2>1. /\ v \in Seq(Cells) /\ Len(v) = Len(u) + Len(w)
        /\ \A q \in 1 .. Len(u) + Len(w) :
             v[q] = IF q <= Len(u) THEN u[q] ELSE w[q - Len(u)]
    BY <1>1, ConcatProperties
  <2> QED  BY <2>1
<1>4. v[1] = u[1]
  BY <1>2, <1>3
<1>5. ASSUME NEW j \in 1 .. n PROVE v[1 + j] = u[1 + j]
  BY <1>2, <1>3
<1>6. ASSUME NEW j \in 1 .. Len(w) PROVE v[1 + n + j] = w[j]
  BY <1>2, <1>3
<1> QED  BY <1>1, <1>3, <1>4, <1>5, <1>6

\* WriteKeyword writes such a piece.
LEMMA PieceFacts ==
  ASSUME NEW k \in ToSet(Keywords), NEW value,
         k \in Strings => value \in Names,
         k \in Fields \ Strings => value \in Values
  PROVE  IsPiece(WriteKeyword(k, value), k, value)
<1> DEFINE sp == Spelled(k)
           n == Len(sp)
           u == WriteString(sp)
<1>1. /\ sp \in Seq(Cells) /\ n \in Nat
      /\ u \in Seq(Cells) /\ Len(u) = 1 + n /\ u[1] = Number(n)
      /\ \A j \in 1 .. n : u[1 + j] = sp[j]
  BY SpelledFacts, LenProperties, WriteStringFacts
<1>2. Strings \subseteq Fields /\ Fields \cap Marks = {}
  BY KeywordFacts
<1>3. CASE k \in Marks
  <2>1. k \notin Fields /\ k \notin Strings
    BY <1>2, <1>3
  <2>2. WriteKeyword(k, value) = u \o <<>>
    BY <1>3, <2>1 DEF WriteKeyword
  <2>3. u \o <<>> = u
    BY <1>1, ConcatEmptySeq
  <2> HIDE DEF u
  <2> QED  BY <1>1, <2>1, <2>2, <2>3 DEF IsPiece
<1>4. CASE k \in Strings
  <2> DEFINE w == WriteString(Chars(value))
  <2>1. value \in Seq(Values) /\ Len(value) \in Nat \ {0} /\ value # <<>>
    BY <1>4, NameFacts
  <2>2. WriteKeyword(k, value) = u \o w
    BY <1>2, <1>4, <2>1 DEF WriteKeyword
  <2>3. /\ Chars(value) \in Seq(Cells) /\ Len(Chars(value)) = Len(value)
        /\ \A j \in 1 .. Len(value) : Chars(value)[j] = Char(value[j])
    BY <2>1, CharsAreCells
  <2>4. /\ w \in Seq(Cells) /\ Len(w) = 1 + Len(value)
        /\ w[1] = Number(Len(value))
        /\ \A j \in 1 .. Len(value) : w[1 + j] = Char(value[j])
    BY <2>3, WriteStringFacts
  <2> HIDE DEF w, u, n, sp
  <2>5. PICK p : p = u \o w
    OBVIOUS
  <2>6. /\ p \in Seq(Cells) /\ Len(p) = 1 + n + Len(w) /\ p[1] = u[1]
        /\ \A j \in 1 .. n : p[1 + j] = u[1 + j]
        /\ \A j \in 1 .. Len(w) : p[1 + n + j] = w[j]
    BY <1>1, <2>4, <2>5, AfterConcat, ZenonT(60)
  <2>7. Len(p) = 2 + n + Len(value)
    BY <1>1, <2>1, <2>4, <2>6
  <2>8. p[2 + n] = Number(Len(value))
    <3>1. 1 \in 1 .. Len(w) /\ 1 + n + 1 = 2 + n
      BY <1>1, <2>1, <2>4
    <3>2. p[1 + n + 1] = w[1]
      BY <2>6, <3>1
    <3> QED  BY <2>4, <3>1, <3>2
  <2>9. ASSUME NEW j \in 1 .. Len(value) PROVE p[2 + n + j] = Char(value[j])
    <3>1. PICK t : t = 1 + j
      OBVIOUS
    <3>2. t \in 1 .. Len(w) /\ 1 + n + t = 2 + n + j
      BY <1>1, <2>1, <2>4, <3>1
    <3>3. p[1 + n + t] = w[t]
      BY <2>6, <3>2
    <3> QED  BY <2>4, <3>1, <3>2, <3>3
  <2>10. k \notin Marks /\ k \notin Fields \ Strings
    BY <1>2, <1>4
  <2>11. value \in Names
    BY <1>4
  <2> QED  BY <1>1, <1>4, <2>2, <2>5, <2>6, <2>7, <2>8, <2>9, <2>10, <2>11
           DEF IsPiece, n, sp
<1>5. CASE k \in Fields \ Strings
  <2> DEFINE w == <<Number(value)>>
  <2>2. WriteKeyword(k, value) = u \o w
    BY <1>2, <1>5 DEF WriteKeyword
  <2>3. Number(value) \in Cells
    BY <1>5, CellFacts
  <2>4. w \in Seq(Cells) /\ Len(w) = 1 /\ w[1] = Number(value)
    BY <2>3
  <2> HIDE DEF w, u, n, sp
  <2>1. w \in Seq(Cells)
    BY <2>4
  <2>5. PICK p : p = u \o w
    OBVIOUS
  <2>6. /\ p \in Seq(Cells) /\ Len(p) = 1 + n + Len(w) /\ p[1] = u[1]
        /\ \A j \in 1 .. n : p[1 + j] = u[1 + j]
        /\ \A j \in 1 .. Len(w) : p[1 + n + j] = w[j]
    BY <1>1, <2>1, <2>5, AfterConcat, SMTT(30)
  <2>7. Len(p) = 2 + n /\ p[2 + n] = Number(value)
    <3>1. 1 \in 1 .. Len(w) /\ 1 + n + 1 = 2 + n
      BY <1>1, <2>4
    <3>2. p[1 + n + 1] = w[1]
      BY <2>6, <3>1
    <3> QED  BY <1>1, <2>4, <2>6, <3>1, <3>2
  <2>8. k \notin Marks
    BY <1>2, <1>5
  <2> QED  BY <1>1, <1>5, <2>2, <2>5, <2>6, <2>7, <2>8 DEF IsPiece, n, sp
<1>6. k \in Marks \/ k \in Fields
  BY DEF Fields
<1> QED  BY <1>3, <1>4, <1>5, <1>6

-----------------------------------------------------------------------------
(* The reader *)

\* What the reader gets for a keyword.
Seen(k, value) == CASE k \in Marks -> <<>>
                    [] k \in Strings -> Chars(value)
                    [] OTHER -> Number(value)

\* A string that was written is read back.
LEMMA StringRead ==
  ASSUME NEW f \in Seq(Cells), NEW a \in Nat \ {0}, NEW s \in Seq(Cells),
         Len(s) # 0, f[a] = Number(Len(s)), a + Len(s) <= Len(f),
         \A j \in 1 .. Len(s) : f[a + j] = s[j],
         \A j \in 1 .. Len(s) : s[j][1] = "char"
  PROVE  /\ IsString(f, a) /\ StringAt(f, a) = s
         /\ AfterString(f, a) = a + 1 + Len(s)
<1> DEFINE n == Len(s)
<1>0. n \in Nat \ {0}
  BY LenProperties
<1>1. Len(f) \in Nat /\ DOMAIN f = 1 .. Len(f)
  BY LenProperties
<1>2. f[a][1] = "number" /\ f[a][2] = n
  BY CellFacts DEF n
<1> HIDE DEF n
<1>3. a \in DOMAIN f /\ n \in 1 .. Len(f) - a
  BY <1>0, <1>1 DEF n
<1>4. \A j \in 1 .. n : f[a + j][1] = "char"
  BY DEF n
<1>5. IsString(f, a)
  BY <1>2, <1>3, <1>4 DEF IsString, IsNumber
<1>6. AfterString(f, a) = a + 1 + n
  BY <1>2 DEF AfterString
<1>7. StringAt(f, a) = s
  <2> DEFINE lo == a + 1
             hi == a + n
             u == SubSeq(f, lo, hi)
  <2>1. StringAt(f, a) = u
    BY <1>2 DEF StringAt
  <2>2. lo \in Int /\ hi \in Int /\ hi - lo + 1 = n /\ lo <= hi
    BY <1>0
  <2>3. \A i \in lo .. hi : f[i] \in Cells
    BY <1>0, <1>1, ElementOfSeq DEF n
  <2>4. \A j \in 1 .. n : lo + j - 1 = a + j
    BY <1>0
  <2> HIDE DEF lo, hi
  <2>5. /\ u \in Seq(Cells) /\ Len(u) = n
        /\ \A j \in 1 .. n : u[j] = f[lo + j - 1]
    BY <2>2, <2>3, SubSeqProperties
  <2>6. \A j \in 1 .. n : u[j] = s[j]
    BY <2>4, <2>5 DEF n
  <2> HIDE DEF u
  <2>7. u = s
    BY <2>5, <2>6, SeqEqual DEF n
  <2> QED  BY <2>1, <2>7
<1> QED  BY <1>5, <1>6, <1>7 DEF n

\* The piece p stands in f, after the first a cells.
StandsAt(p, f, a) ==
  a + Len(p) <= Len(f) /\ \A t \in 1 .. Len(p) : f[a + t] = p[t]

\* The reader behind the first a cells, with what it has found in them.
Behind(a, F) == [at |-> a + 1, found |-> F]

\* A keyword that was written is read back, with its value.
LEMMA PieceRead ==
  ASSUME NEW f \in Seq(Cells), NEW a \in Nat, NEW k \in ToSet(Keywords),
         NEW value, NEW p, IsPiece(p, k, value), StandsAt(p, f, a), NEW F
  PROVE  ReadKeyword(f, Behind(a, F)) =
           Behind(a + Len(p), F \cup {<<k, Seen(k, value)>>})
<1> DEFINE sp == Spelled(k)
           n == Len(sp)
           r == [at |-> a + 1, found |-> F]
           c == a + 1
           v == a + 2 + n
<1>0. a + Len(p) <= Len(f) /\ \A t \in 1 .. Len(p) : f[a + t] = p[t]
  BY DEF StandsAt
<1>1. /\ sp \in Seq(Cells) /\ n \in Nat \ {0}
      /\ \A j \in 1 .. n : sp[j][1] = "char"
  BY SpelledFacts
<1>2. Len(f) \in Nat /\ DOMAIN f = 1 .. Len(f) /\ Len(p) \in Nat
  BY LenProperties DEF IsPiece
<1>3. /\ p[1] = Number(n) /\ \A j \in 1 .. n : p[1 + j] = sp[j]
      /\ Len(p) >= 1 + n
  <2>1. k \in Strings => Len(value) \in Nat
    BY NameFacts DEF IsPiece
  <2>2. k \in Marks \/ k \in Fields
    BY DEF Fields
  <2> HIDE DEF n, sp
  <2>3. /\ p[1] = Number(n) /\ \A j \in 1 .. n : p[1 + j] = sp[j]
        /\ k \in Marks => Len(p) = 1 + n
        /\ k \in Strings => Len(p) = 2 + n + Len(value)
        /\ k \in Fields \ Strings => Len(p) = 2 + n
    BY DEF IsPiece, n, sp
  <2> QED  BY <1>1, <2>1, <2>2, <2>3
<1>11. /\ n \in Nat \ {0} /\ Len(p) \in Nat /\ Len(f) \in Nat
       /\ Len(p) >= 1 + n /\ a + Len(p) <= Len(f)
  BY <1>0, <1>1, <1>2, <1>3
<1>4. IsString(f, c) /\ StringAt(f, c) = sp /\ AfterString(f, c) = v
  <2> HIDE DEF n, sp
  <2>1. 1 \in 1 .. Len(p)
    BY <1>1, <1>2, <1>3
  <2>2. f[c] = Number(n)
    BY <1>0, <1>3, <2>1
  <2>3. c \in Nat \ {0} /\ c + n <= Len(f)
    BY <1>0, <1>1, <1>2, <1>3
  <2>4. ASSUME NEW j \in 1 .. n PROVE f[c + j] = sp[j]
    <3>1. PICK t : t = 1 + j
      OBVIOUS
    <3>2. t \in 1 .. Len(p) /\ a + t = c + j
      BY <1>11, <3>1
    <3>4. f[a + t] = p[t]
      BY <1>0, <3>2
    <3>3. f[c + j] = p[t]
      BY <3>2, <3>4
    <3> QED  BY <1>3, <3>1, <3>3
  <2>5. v = c + 1 + n
    BY <1>1
  <2>6. n = Len(sp)
    BY DEF n
  <2> HIDE DEF c, v
  <2> QED  BY <1>1, <2>2, <2>3, <2>4, <2>5, <2>6, StringRead
<1>5. KeywordAt(f, c) = k
  <2> HIDE DEF c
  <2>1. \A l \in ToSet(Keywords) : Spelled(l) = StringAt(f, c) => l = k
    BY <1>4, SpelledOnce
  <2> QED  BY <1>4, <2>1 DEF KeywordAt
<1>6. c # 0 /\ ~(c > Len(f)) /\ r.at = c /\ r.found = F
  BY <1>0, <1>1, <1>2, <1>3
<1>7. k # "none" /\ Strings \subseteq Fields /\ Fields \cap Marks = {}
  BY KeywordFacts
<1>8. CASE k \in Marks
  <2>1. Len(p) = 1 + n /\ Seen(k, value) = <<>>
    BY <1>8 DEF IsPiece, Seen
  <2>2. v = a + Len(p) + 1
    BY <1>1, <2>1
  <2> HIDE DEF c, v, r
  <2>3. ReadKeyword(f, r) = [at |-> v, found |-> F \cup {<<k, <<>>>>}]
    BY <1>4, <1>5, <1>6, <1>7, <1>8 DEF ReadKeyword
  <2> QED  BY <2>1, <2>2, <2>3 DEF r, c, Behind
<1>9. CASE k \in Strings
  <2> DEFINE m == Len(value)
             ch == Chars(value)
  <2>1. value \in Seq(Values) /\ m \in Nat \ {0}
    BY <1>9, NameFacts DEF IsPiece
  <2>2. /\ ch \in Seq(Cells) /\ Len(ch) = m
        /\ \A j \in 1 .. m : ch[j] = Char(value[j])
    BY <2>1, CharsAreCells
  <2>3. /\ Len(p) = 2 + n + m /\ p[2 + n] = Number(m)
        /\ \A j \in 1 .. m : p[2 + n + j] = Char(value[j])
    BY <1>9 DEF IsPiece
  <2> HIDE DEF m, ch, n
  <2>4. f[v] = Number(m) /\ v \in Nat \ {0} /\ v + m <= Len(f)
    <3>1. PICK t : t = 2 + n
      OBVIOUS
    <3>2. t \in 1 .. Len(p) /\ a + t = v
      BY <1>1, <1>2, <2>1, <2>3, <3>1
    <3>3. f[v] = p[t]
      BY <1>0, <3>2
    <3>4. v \in Nat \ {0} /\ v + m <= Len(f)
      BY <1>0, <1>1, <1>2, <2>1, <2>3
    <3> QED  BY <2>3, <3>1, <3>3, <3>4
  <2>5. ASSUME NEW j \in 1 .. m
        PROVE  f[v + j] = ch[j] /\ ch[j][1] = "char"
    <3>1. PICK t : t = 2 + n + j
      OBVIOUS
    <3>2. t \in 1 .. Len(p) /\ a + t = v + j
      BY <1>1, <1>2, <2>1, <2>3, <3>1
    <3>4. f[a + t] = p[t]
      BY <1>0, <3>2
    <3>3. f[v + j] = p[t] /\ p[t] = Char(value[j])
      BY <2>3, <3>1, <3>2, <3>4
    <3> QED  BY <2>2, <3>3, CellFacts
  <2>6. v + 1 + m = a + Len(p) + 1
    BY <1>1, <2>1, <2>3
  <2> HIDE DEF c, v, r
  <2>7. IsString(f, v) /\ StringAt(f, v) = ch /\ AfterString(f, v) = v + 1 + m
    BY <2>1, <2>2, <2>4, <2>5, StringRead
  <2>8. k \notin Marks
    BY <1>7, <1>9
  <2>9. ReadKeyword(f, r) = [at |-> v + 1 + m, found |-> F \cup {<<k, ch>>}]
    BY <1>4, <1>5, <1>6, <1>7, <1>9, <2>7, <2>8 DEF ReadKeyword
  <2>10. Seen(k, value) = ch
    BY <1>9, <2>8 DEF Seen, ch
  <2> QED  BY <2>6, <2>9, <2>10 DEF r, c, Behind
<1>10. CASE k \in Fields \ Strings
  <2>1. Len(p) = 2 + n /\ p[2 + n] = Number(value)
    BY <1>10 DEF IsPiece
  <2>2. k \notin Marks
    BY <1>7, <1>10
  <2> HIDE DEF n
  <2>3. f[v] = Number(value) /\ v \in DOMAIN f
    <3>1. PICK t : t = 2 + n
      OBVIOUS
    <3>2. t \in 1 .. Len(p) /\ a + t = v
      BY <1>1, <1>2, <2>1, <3>1
    <3>3. f[v] = p[t]
      BY <1>0, <3>2
    <3>4. v \in 1 .. Len(f)
      BY <1>0, <1>1, <1>2, <2>1
    <3> QED  BY <1>2, <2>1, <3>1, <3>3, <3>4
  <2>4. v + 1 = a + Len(p) + 1
    BY <1>1, <2>1
  <2> HIDE DEF c, v, r
  <2>5. IsNumber(f, v)
    BY <2>3, CellFacts DEF IsNumber
  <2>6. ReadKeyword(f, r) =
          [at |-> v + 1, found |-> F \cup {<<k, Number(value)>>}]
    BY <1>4, <1>5, <1>6, <1>7, <1>10, <2>2, <2>3, <2>5 DEF ReadKeyword
  <2>7. Seen(k, value) = Number(value)
    BY <1>10, <2>2 DEF Seen
  <2> QED  BY <2>4, <2>6, <2>7 DEF r, c, Behind
<1> QED  BY <1>8, <1>9, <1>10 DEF Fields

-----------------------------------------------------------------------------
(* Where everything stands in the file *)

Piece(h, i) == WriteKeyword(Keywords[i], ValueOf(h, Keywords[i]))

\* f holds the header h, its i-th piece after the first start[i] cells, and m
\* blocks.
Laid(f, h, start, m) ==
  /\ f \in Seq(Cells) /\ m \in Nat /\ Len(f) = start[24] + m
  /\ start \in [1 .. 24 -> Nat] /\ start[1] = 0
  /\ \A i \in 1 .. 23 :
       /\ start[i + 1] = start[i] + Len(Piece(h, i))
       /\ \A t \in 1 .. Len(Piece(h, i)) :
            start[i] + t <= start[24] /\ f[start[i] + t] = Piece(h, i)[t]
  /\ \A q \in 1 .. start[24] : \E i \in 1 .. 23 :
       \E t \in 1 .. Len(Piece(h, i)) : q = start[i] + t
  /\ \A b \in 1 .. m : f[start[24] + b] = Block(b)

\* Every piece of a header is a keyword with its value.
LEMMA HeaderPiece ==
  ASSUME NEW h \in Headers, NEW i \in 1 .. 23
  PROVE  /\ Keywords[i] \in ToSet(Keywords)
         /\ Keywords[i] \in Strings => ValueOf(h, Keywords[i]) \in Names
         /\ IsPiece(Piece(h, i), Keywords[i], ValueOf(h, Keywords[i]))
         /\ Piece(h, i) \in Seq(Cells)
<1>1. PICK k : k = Keywords[i]
  OBVIOUS
<1>2. /\ k \in ToSet(Keywords)
      /\ Strings \subseteq Fields /\ Fields \cap Marks = {}
  BY <1>1, KeywordFacts
<1>3. k \in Strings => ValueOf(h, k) \in Names
  BY <1>2 DEF ValueOf, Headers
<1>4. k \in Fields \ Strings => ValueOf(h, k) \in Values
  BY <1>2 DEF ValueOf, Headers
<1>5. IsPiece(WriteKeyword(k, ValueOf(h, k)), k, ValueOf(h, k))
  BY <1>2, <1>3, <1>4, PieceFacts
<1>6. WriteKeyword(k, ValueOf(h, k)) \in Seq(Cells)
  BY <1>5 DEF IsPiece
<1> QED  BY <1>1, <1>2, <1>3, <1>5, <1>6 DEF Piece

\* No piece is empty.
LEMMA PieceLength ==
  ASSUME NEW p, NEW k \in ToSet(Keywords), NEW value, IsPiece(p, k, value)
  PROVE  Len(p) \in Nat \ {0} /\ Len(p) \in 1 .. Len(p)
<1>1. PICK n : n = Len(Spelled(k))
  OBVIOUS
<1>2. n \in Nat /\ (k \in Strings => Len(value) \in Nat)
  BY <1>1, SpelledFacts, NameFacts DEF IsPiece
<1>3. /\ k \in Marks => Len(p) = 1 + n
      /\ k \in Strings => Len(p) = 2 + n + Len(value)
      /\ k \in Fields \ Strings => Len(p) = 2 + n
  BY <1>1 DEF IsPiece
<1>4. k \in Marks \/ k \in Fields
  BY DEF Fields
<1> QED  BY <1>2, <1>3, <1>4

\* create_fil leaves a header and no block.
LEMMA HeaderLaid ==
  ASSUME NEW h \in Headers
  PROVE  \E start : Laid(WriteHeader(h), h, start, 0)
<1> DEFINE seqs == [i \in DOMAIN Keywords |-> Piece(h, i)]
           w == WriteHeader(h)
<1>1. w = FlattenSeq(seqs)
  BY DEF WriteHeader, Piece
<1>2. seqs = [i \in 1 .. 23 |-> Piece(h, i)]
  BY KeywordsLength
<1> HIDE DEF seqs
<1>3. Len(seqs) = 23 /\ \A i \in 1 .. 23 : seqs[i] = Piece(h, i)
  BY <1>2
<1>4. \A i \in 1 .. 23 : seqs[i] \in Seq(Cells)
  BY <1>3, HeaderPiece
<1> HIDE DEF w
<1>5. /\ w \in Seq(Cells)
      /\ \E start : /\ start \in [1 .. Len(seqs) + 1 -> Nat]
                    /\ start[1] = 0 /\ start[Len(seqs) + 1] = Len(w)
                    /\ InPlace(seqs, w, start, Len(seqs))
  <2>1. /\ Len(seqs) \in Nat \ {0}
        /\ \A i \in 1 .. Len(seqs) : seqs[i] \in Seq(Cells)
    BY <1>3, <1>4
  <2> DEFINE v == FlattenSeq(seqs)
  <2>2. /\ v \in Seq(Cells)
        /\ \E start : /\ start \in [1 .. Len(seqs) + 1 -> Nat]
                      /\ start[1] = 0 /\ start[Len(seqs) + 1] = Len(v)
                      /\ InPlace(seqs, v, start, Len(seqs))
    BY ONLY <2>1, FlattenInPlace
  <2> HIDE DEF v
  <2> QED  BY <1>1, <2>2 DEF v
<1>11. PICK start : /\ start \in [1 .. Len(seqs) + 1 -> Nat]
                   /\ start[1] = 0 /\ start[Len(seqs) + 1] = Len(w)
                   /\ InPlace(seqs, w, start, Len(seqs))
  BY <1>5
<1>6. /\ w \in Seq(Cells) /\ start \in [1 .. 24 -> Nat]
      /\ start[1] = 0 /\ start[24] = Len(w) /\ InPlace(seqs, w, start, 23)
  BY <1>3, <1>5, <1>11
<1>7. ASSUME NEW i \in 1 .. 23
      PROVE  /\ start[i + 1] = start[i] + Len(Piece(h, i))
             /\ \A t \in 1 .. Len(Piece(h, i)) :
                  start[i] + t <= Len(w) /\ w[start[i] + t] = Piece(h, i)[t]
  <2>1. seqs[i] = Piece(h, i)
    BY <1>3
  <2> QED  BY <1>6, <2>1 DEF InPlace
<1>8. ASSUME NEW q \in 1 .. Len(w)
      PROVE  \E i \in 1 .. 23 :
               \E t \in 1 .. Len(Piece(h, i)) : q = start[i] + t
  <2>1. PICK i \in 1 .. 23 : \E t \in 1 .. Len(seqs[i]) : q = start[i] + t
    BY <1>6 DEF InPlace
  <2> QED  BY <1>3, <2>1
<1>9. Len(w) \in Nat /\ Len(w) = start[24] + 0
  BY <1>5, <1>6, LenProperties
<1>10. Laid(w, h, start, 0)
  BY <1>6, <1>7, <1>8, <1>9 DEF Laid
<1> QED  BY <1>10 DEF w

\* create_fil_block adds one to the blocks.
LEMMA BlockLaid ==
  ASSUME NEW f, NEW h, NEW start, NEW m, Laid(f, h, start, m),
         NEW n, n = m + 1
  PROVE  Laid(Append(f, Block(n)), h, start, n)
<1> DEFINE g == Append(f, Block(n))
           e == start[24]
<1>1. /\ f \in Seq(Cells) /\ m \in Nat /\ Len(f) = e + m /\ e \in Nat
      /\ \A b \in 1 .. m : f[e + b] = Block(b)
  BY DEF Laid
<1>2. Block(n) \in Cells
  <2>1. n \in Values
    BY <1>1 DEF Values
  <2> QED  BY <2>1, CellFacts
<1>3. /\ g \in Seq(Cells) /\ Len(g) = e + n
      /\ \A q \in 1 .. Len(f) : g[q] = f[q]
      /\ g[e + n] = Block(n)
  <2>1. /\ g \in Seq(Cells) /\ Len(g) = Len(f) + 1
        /\ \A q \in 1 .. Len(f) : g[q] = f[q]
        /\ g[Len(f) + 1] = Block(n)
    BY <1>1, <1>2, AppendProperties
  <2>2. Len(f) + 1 = e + n
    BY <1>1
  <2> QED  BY <2>1, <2>2
<1> HIDE DEF g
<1>4. ASSUME NEW b \in 1 .. n PROVE g[e + b] = Block(b)
  <2>1. CASE b = n
    BY <1>3, <2>1
  <2>2. CASE b # n
    <3>1. b \in 1 .. m /\ e + b \in 1 .. Len(f)
      BY <1>1, <2>2
    <3> QED  BY <1>1, <1>3, <3>1
  <2> QED  BY <2>1, <2>2
<1>5. ASSUME NEW i \in 1 .. 23, NEW t \in 1 .. Len(Piece(h, i))
      PROVE  g[start[i] + t] = Piece(h, i)[t]
  <2>1. PICK q : q = start[i] + t
    OBVIOUS
  <2>2. start[i] + t <= e /\ f[start[i] + t] = Piece(h, i)[t]
    BY DEF Laid
  <2>3. start[i] \in Nat /\ t \in Nat \ {0}
    <3>1. i \in 1 .. 24 /\ start \in [1 .. 24 -> Nat]
      BY DEF Laid
    <3>2. t \in Nat \ {0}
      OBVIOUS
    <3> QED  BY <3>1, <3>2
  <2>4. q \in 1 .. Len(f)
    BY <1>1, <2>1, <2>2, <2>3, SMTT(30)
  <2> QED  BY <1>3, <2>1, <2>2, <2>4
<1>6. /\ start \in [1 .. 24 -> Nat] /\ start[1] = 0
      /\ \A i \in 1 .. 23 : 
           /\ start[i + 1] = start[i] + Len(Piece(h, i))
           /\ \A t \in 1 .. Len(Piece(h, i)) : start[i] + t <= e
      /\ \A q \in 1 .. e : \E i \in 1 .. 23 :
           \E t \in 1 .. Len(Piece(h, i)) : q = start[i] + t
  BY DEF Laid
<1>7. n \in Nat
  BY <1>1
<1>8. Laid(g, h, start, n)
  BY <1>3, <1>4, <1>5, <1>6, <1>7 DEF Laid
<1> QED  BY <1>8 DEF g

\* A walk over the keywords finds them all, and the blocks after them.
LEMMA HeaderRead ==
  ASSUME NEW f, NEW h \in Headers, NEW start, NEW m, Laid(f, h, start, m)
  PROVE  ReadHeader(f) =
           Behind(start[24],
                  {<<Keywords[j], Seen(Keywords[j], ValueOf(h, Keywords[j]))>> :
                     j \in 1 .. 23})
<1> DEFINE Got(j) == <<Keywords[j], Seen(Keywords[j], ValueOf(h, Keywords[j]))>>
           S(i) == Behind(start[i + 1], {Got(j) : j \in 1 .. i})
<1>1. PICK r : /\ r[0] = [at |-> 1, found |-> {}]
               /\ \A i \in 1 .. 23 : r[i] = ReadKeyword(f, r[i - 1])
               /\ ReadHeader(f) = r[23]
  BY ReadInOrder
<1>2. /\ f \in Seq(Cells) /\ start \in [1 .. 24 -> Nat] /\ start[1] = 0
      /\ m \in Nat /\ Len(f) = start[24] + m
  BY DEF Laid
<1> DEFINE T == {i \in Nat : i \in 0 .. 23 => r[i] = S(i)}
<1>3. 0 \in T
  <2>1. {Got(j) : j \in 1 .. 0} = {} /\ start[0 + 1] = 0
    BY <1>2
  <2>2. S(0) = [at |-> 1, found |-> {}]
    <3> HIDE DEF Got
    <3> QED  BY <2>1 DEF Behind
  <2> HIDE DEF S
  <2> QED  BY <1>1, <2>2
<1>4. ASSUME NEW n \in Nat, n \in T PROVE n + 1 \in T
  <2> SUFFICES ASSUME NEW i \in 1 .. 23, i = n + 1 PROVE r[i] = S(i)
    <3> HIDE DEF S
    <3> QED  OBVIOUS
  <2>1. n \in 0 .. 23 /\ i - 1 = n
    OBVIOUS
  <2>2. r[n] = S(n)
    BY <1>4, <2>1
  <2>3. r[i] = ReadKeyword(f, S(n))
    BY <1>1, <2>1, <2>2
  <2> DEFINE F == {Got(j) : j \in 1 .. n}
             k == Keywords[i]
             value == ValueOf(h, k)
             p == Piece(h, i)
             a == start[i]
  <2>4. S(n) = Behind(a, F)
    OBVIOUS
  <2>5. /\ k \in ToSet(Keywords) /\ (k \in Strings => value \in Names)
        /\ IsPiece(p, k, value) /\ p \in Seq(Cells)
    BY HeaderPiece
  <2>6. /\ a \in Nat /\ start[i + 1] = a + Len(p)
        /\ \A t \in 1 .. Len(p) : a + t <= start[24] /\ f[a + t] = p[t]
    <3>1. i \in 1 .. 24
      OBVIOUS
    <3>2. a \in Nat
      BY <1>2, <3>1
    <3> QED  BY <3>2 DEF Laid
  <2>11. Len(p) \in Nat \ {0} /\ Len(p) \in 1 .. Len(p)
    <3> HIDE DEF k, value, p
    <3> QED  BY <2>5, PieceLength
  <2>12. a \in Nat
    BY <2>6
  <2>7. Got(i) = <<k, Seen(k, value)>>
    OBVIOUS
  <2>8. {Got(j) : j \in 1 .. i} = F \cup {Got(i)}
    <3> HIDE DEF Got
    <3>1. 1 .. i = (1 .. n) \cup {i}
      OBVIOUS
    <3> QED  BY <3>1
  <2> HIDE DEF Got, F, k, value, p, a
  <2>9. StandsAt(p, f, a)
    <3>1. PICK t \in 1 .. Len(p) : t = Len(p)
      BY <2>11
    <3>2. a + t <= start[24]
      BY <2>6
    <3>3. start[24] \in Nat
      BY <1>2
    <3>5. Len(f) = start[24] + m /\ m \in Nat
      BY <1>2
    <3>4. a + Len(p) <= Len(f)
      BY ONLY <3>5, <2>11, <2>12, <3>1, <3>2, <3>3
    <3> QED  BY <2>6, <3>4 DEF StandsAt
  <2>10. ReadKeyword(f, Behind(a, F)) =
           Behind(a + Len(p), F \cup {<<k, Seen(k, value)>>})
    <3>1. f \in Seq(Cells) /\ a \in Nat
      BY <1>2, <2>12
    <3> QED  BY ONLY <2>5, <2>9, <3>1, PieceRead
  <2> QED  BY <2>3, <2>4, <2>6, <2>7, <2>8, <2>10
<1>5. 23 \in T
  <2> HIDE DEF T
  <2> QED  BY <1>3, <1>4, EveryNat
<1>6. ReadHeader(f) = S(23)
  BY <1>1, <1>5
<1> QED  BY <1>6

-----------------------------------------------------------------------------
(* The search finds the keyword it is for *)

\* A cell of a piece: a number, a character of the keyword or of a name.
CellOf(p, k, value, t) ==
  LET n == Len(Spelled(k))
  IN  \/ p[t][1] = "number" /\ (t = 1 \/ t = 2 + n)
      \/ \E j \in 1 .. n : t = 1 + j /\ p[t] = Spelled(k)[j]
      \/ /\ k \in Strings
         /\ \E j \in 1 .. Len(value) : t = 2 + n + j /\ p[t] = Char(value[j])

\* There are no other cells in a piece.
LEMMA PieceCells ==
  ASSUME NEW p, NEW k \in ToSet(Keywords), NEW value, IsPiece(p, k, value),
         NEW t \in 1 .. Len(p)
  PROVE  CellOf(p, k, value, t)
<1> DEFINE n == Len(Spelled(k))
<1>1. n \in Nat /\ (k \in Strings => Len(value) \in Nat)
  BY SpelledFacts, NameFacts DEF IsPiece
<1>2. k \in Marks \/ k \in Fields
  BY DEF Fields
<1>3. CASE t = 1
  BY <1>3, CellFacts DEF IsPiece, CellOf
<1>4. CASE t \in 2 .. 1 + n
  <2>1. PICK j : j = t - 1
    OBVIOUS
  <2>2. j \in 1 .. n /\ t = 1 + j
    BY <1>1, <1>4, <2>1
  <2>3. p[1 + j] = Spelled(k)[j]
    BY <2>2 DEF IsPiece
  <2> QED  BY <2>2, <2>3 DEF CellOf
<1>5. CASE t = 2 + n
  <2>1. k \notin Marks
    BY <1>1, <1>5 DEF IsPiece
  <2>2. p[2 + n][1] = "number"
    BY <1>2, <2>1, CellFacts DEF IsPiece
  <2> QED  BY <1>5, <2>2 DEF CellOf
<1>6. CASE t > 2 + n
  <2>1. PICK j : j = t - (2 + n)
    OBVIOUS
  <2>2. k \in Strings /\ Len(p) = 2 + n + Len(value)
    BY <1>1, <1>2, <1>6 DEF IsPiece
  <2>3. j \in 1 .. Len(value) /\ t = 2 + n + j
    BY <1>1, <1>6, <2>1, <2>2
  <2>4. p[2 + n + j] = Char(value[j])
    BY <2>2, <2>3 DEF IsPiece
  <2> QED  BY <2>2, <2>3, <2>4 DEF CellOf
<1>7. t = 1 \/ t \in 2 .. 1 + n \/ t = 2 + n \/ t > 2 + n
  BY <1>1
<1> QED  BY <1>3, <1>4, <1>5, <1>6, <1>7 DEF CellOf

\* A header holds no block.
LEMMA NoData ==
  ASSUME NEW p, NEW k \in ToSet(Keywords), NEW value, IsPiece(p, k, value),
         NEW t \in 1 .. Len(p)
  PROVE  p[t][1] # "data"
<1>1. PICK n : n = Len(Spelled(k))
  OBVIOUS
<1>2. \A j \in 1 .. n : Spelled(k)[j][1] = "char"
  BY <1>1, SpelledFacts
<1>3. CASE p[t][1] = "number"
  BY <1>3
<1>4. CASE \E j \in 1 .. n : p[t] = Spelled(k)[j]
  BY <1>2, <1>4
<1>5. CASE \E j \in 1 .. Len(value) : p[t] = Char(value[j])
  BY <1>5, CellFacts
<1>6. CellOf(p, k, value, t)
  BY PieceCells
<1> QED  BY <1>1, <1>3, <1>4, <1>5, <1>6 DEF CellOf

\* Every block is counted, and nothing else.
LEMMA BlocksCounted ==
  ASSUME NEW f, NEW h \in Headers, NEW start, NEW m, Laid(f, h, start, m)
  PROVE  Blocks(f) = m
<1> DEFINE e == start[24]
<1>1. f \in Seq(Cells) /\ m \in Nat /\ Len(f) = e + m /\ e \in Nat
  BY DEF Laid
<1>2. DOMAIN f = 1 .. Len(f)
  BY <1>1, LenProperties
<1>3. ASSUME NEW q \in 1 .. e PROVE f[q][1] # "data"
  <2>1. PICK i \in 1 .. 23 : \E t \in 1 .. Len(Piece(h, i)) : q = start[i] + t
    BY DEF Laid
  <2>4. PICK t \in 1 .. Len(Piece(h, i)) : q = start[i] + t
    BY <2>1
  <2>2. f[q] = Piece(h, i)[t]
    BY <2>4 DEF Laid
  <2>3. Piece(h, i)[t][1] # "data"
    BY HeaderPiece, NoData
  <2> QED  BY <2>2, <2>3
<1>4. ASSUME NEW q \in 1 .. Len(f), q > e PROVE f[q][1] = "data"
  <2>1. PICK b : b = q - e
    OBVIOUS
  <2>2. b \in 1 .. m /\ q = e + b
    BY <1>1, <1>4, <2>1
  <2>3. f[q] = Block(b)
    BY <2>2 DEF Laid
  <2> QED  BY <2>3, CellFacts
<1> HIDE DEF e
<1>5. {i \in DOMAIN f : f[i][1] = "data"} = e + 1 .. e + m
  <2>1. \A q \in 1 .. e + m : (f[q][1] = "data") <=> (q > e)
    BY <1>1, <1>3, <1>4
  <2>2. DOMAIN f = 1 .. e + m
    BY <1>1, <1>2
  <2> QED  BY <1>1, <2>1, <2>2
<1>6. Cardinality(e + 1 .. e + m) = m
  <2>1. PICK lo, hi : lo = e + 1 /\ hi = e + m
    OBVIOUS
  <2>2. lo \in Int /\ hi \in Int
    BY <1>1, <2>1
  <2>3. Cardinality(lo .. hi) = IF lo > hi THEN 0 ELSE hi - lo + 1
    BY <2>2, FS_Interval
  <2> QED  BY <1>1, <2>1, <2>3
<1> QED  BY <1>5, <1>6 DEF Blocks, Quantify

\* No name contains the keyword.
KeylessNames ==
  \A s \in Names : \A j \in 1 .. Len(s) - 1 : ~(s[j] = "n" /\ s[j + 1] = "s")

\* The keyword stands in its own piece, and at its beginning only.
LEMMA KeyInPiece ==
  ASSUME KeylessNames, NEW p, NEW k \in ToSet(Keywords), NEW value,
         IsPiece(p, k, value), NEW t \in 1 .. Len(p), NEW u \in 1 .. Len(p),
         u = t + 1, p[t] = Char("n"), p[u] = Char("s")
  PROVE  k = "nsamples" /\ t = 2
<1>1. PICK n : n = Len(Spelled(k))
  OBVIOUS
<1>2. /\ n = IF k = "nsamples" THEN 2 ELSE 1
      /\ k = "nsamples" =>
           Spelled(k)[1] = Char("n") /\ Spelled(k)[2] = Char("s")
  BY <1>1, SpelledFacts
<1>3. p[t][1] # "number" /\ p[u][1] # "number"
  BY CellFacts
<1>4. t # 1 /\ t # 2 + n /\ u # 2 + n
  <2>1. p[1][1] = "number"
    BY CellFacts DEF IsPiece
  <2>2. k \in Marks \/ k \in Fields
    BY DEF Fields
  <2>3. k \in Fields => p[2 + n][1] = "number"
    BY <1>1, CellFacts DEF IsPiece
  <2>4. k \in Marks => Len(p) = 1 + n
    BY <1>1 DEF IsPiece
  <2>5. n \in Nat
    BY <1>2
  <2> QED  BY <1>3, <2>1, <2>2, <2>3, <2>4, <2>5
<1>5. \/ \E j \in 1 .. n : t = 1 + j /\ p[t] = Spelled(k)[j]
      \/ /\ k \in Strings
         /\ \E j \in 1 .. Len(value) : t = 2 + n + j /\ p[t] = Char(value[j])
  <2>1. CellOf(p, k, value, t)
    BY PieceCells
  <2> QED  BY <1>1, <1>3, <2>1 DEF CellOf
<1>6. CASE \E j \in 1 .. n : t = 1 + j /\ p[t] = Spelled(k)[j]
  <2>1. PICK j \in 1 .. n : t = 1 + j /\ p[t] = Spelled(k)[j]
    BY <1>6
  <2>2. CASE k # "nsamples"
    BY <1>2, <1>4, <2>1, <2>2
  <2>3. CASE k = "nsamples"
    <3>1. j = 1 \/ j = 2
      BY <1>2, <2>1, <2>3
    <3>2. j # 2
      <4>1. Char("n") # Char("s")
        <5>1. "n" # "s"
          OBVIOUS
        <5> QED  BY <5>1, CellFacts
      <4> QED  BY <1>2, <2>1, <2>3, <4>1
    <3> QED  BY <2>1, <2>3, <3>1, <3>2
  <2> QED  BY <2>2, <2>3
<1>7. CASE /\ k \in Strings
           /\ \E j \in 1 .. Len(value) : t = 2 + n + j /\ p[t] = Char(value[j])
  <2>1. PICK j \in 1 .. Len(value) : t = 2 + n + j /\ p[t] = Char(value[j])
    BY <1>7
  <2>2. /\ value \in Names /\ Len(p) = 2 + n + Len(value)
        /\ \A l \in 1 .. Len(value) : p[2 + n + l] = Char(value[l])
    BY <1>1, <1>7 DEF IsPiece
  <2>3. Len(value) \in Nat /\ n \in Nat
    BY <1>2, <2>2, NameFacts
  <2>4. PICK l : l = j + 1
    OBVIOUS
  <2>5. l \in 1 .. Len(value) /\ u = 2 + n + l /\ j \in 1 .. Len(value) - 1
    BY <2>1, <2>2, <2>3, <2>4
  <2>6. Char(value[j]) = Char("n") /\ Char(value[l]) = Char("s")
    BY <2>1, <2>2, <2>5
  <2>7. value[j] = "n" /\ value[l] = "s"
    BY <2>6, CellFacts
  <2> QED  BY <2>2, <2>4, <2>5, <2>7 DEF KeylessNames
<1> QED  BY <1>5, <1>6, <1>7

\* Where the i-th piece is.
PieceAt(f, h, start, i) ==
  LET n == Len(Piece(h, i))
  IN  /\ start[i] \in Nat /\ n \in Nat \ {0}
      /\ start[i + 1] = start[i] + n
      /\ start[i + 1] \in Nat /\ start[i + 1] <= start[24]
      /\ \A t \in 1 .. n : f[start[i] + t] = Piece(h, i)[t]

\* Every piece of the header is where it should be.
LEMMA PieceStands ==
  ASSUME NEW f, NEW h \in Headers, NEW start, NEW m, Laid(f, h, start, m),
         NEW i \in 1 .. 23
  PROVE  PieceAt(f, h, start, i)
<1> DEFINE n == Len(Piece(h, i))
<1>1. n \in Nat \ {0} /\ n \in 1 .. n
  BY HeaderPiece, PieceLength
<1>2. /\ start[i + 1] = start[i] + n
      /\ \A t \in 1 .. n :
           start[i] + t <= start[24] /\ f[start[i] + t] = Piece(h, i)[t]
  BY DEF Laid
<1>3. start[i] \in Nat /\ start[24] \in Nat
  <2>1. i \in 1 .. 24 /\ start \in [1 .. 24 -> Nat]
    BY DEF Laid
  <2> QED  BY <2>1
<1>4. start[i] + n <= start[24]
  BY <1>1, <1>2
<1> HIDE DEF n
<1>5. start[i + 1] \in Nat /\ start[i + 1] <= start[24]
  BY <1>1, <1>2, <1>3, <1>4
<1> QED  BY <1>1, <1>2, <1>3, <1>5 DEF PieceAt, n

\* The keyword and its value.
LEMMA KeyStands ==
  ASSUME NEW f, NEW h \in Headers, NEW start, NEW m, Laid(f, h, start, m)
  PROVE  /\ start[16] \in Nat /\ start[16] + 4 <= start[24]
         /\ start[24] \in Nat /\ m \in Nat /\ Len(f) = start[24] + m
         /\ Len(Piece(h, 16)) = 4
         /\ f[start[16] + 2] = Char("n") /\ f[start[16] + 3] = Char("s")
<1> DEFINE p == Piece(h, 16)
           k == Keywords[16]
<1>1. /\ k = "nsamples" /\ k \in ToSet(Keywords)
      /\ IsPiece(p, k, ValueOf(h, k))
  BY HeaderPiece, KeywordFacts
<1>2. /\ Len(Spelled(k)) = 2
      /\ Spelled(k)[1] = Char("n") /\ Spelled(k)[2] = Char("s")
  BY <1>1, SpelledFacts
<1>3. k \in Fields \ Strings
  BY <1>1, KeywordFacts
<1> HIDE DEF k
<1>4. Len(p) = 4 /\ p[2] = Char("n") /\ p[3] = Char("s")
  <2>1. \A j \in 1 .. 2 : p[1 + j] = Spelled(k)[j]
    BY <1>1, <1>2 DEF IsPiece
  <2>2. p[1 + 1] = Spelled(k)[1] /\ p[1 + 2] = Spelled(k)[2]
    BY <2>1
  <2>3. Len(p) = 2 + 2
    BY <1>1, <1>2, <1>3 DEF IsPiece
  <2> QED  BY <1>2, <2>2, <2>3
<1>5. /\ start[16] \in Nat /\ start[16 + 1] = start[16] + Len(p)
      /\ start[16 + 1] <= start[24]
      /\ start[24] \in Nat /\ m \in Nat /\ Len(f) = start[24] + m
      /\ \A t \in 1 .. Len(p) : f[start[16] + t] = p[t]
  <2>1. PICK i \in 1 .. 23 : i = 16
    OBVIOUS
  <2>2. PieceAt(f, h, start, i)
    BY PieceStands
  <2>3. start[24] \in Nat /\ m \in Nat /\ Len(f) = start[24] + m
    BY DEF Laid
  <2> QED  BY <2>1, <2>2, <2>3 DEF PieceAt
<1> HIDE DEF p
<1>6. 2 \in 1 .. Len(p) /\ 3 \in 1 .. Len(p)
  BY <1>4
<1>7. f[start[16] + 2] = Char("n") /\ f[start[16] + 3] = Char("s")
  BY <1>4, <1>5, <1>6
<1>8. start[16] + 4 <= start[24]
  BY <1>4, <1>5
<1> QED  BY <1>4, <1>5, <1>7, <1>8 DEF p

\* The keyword stands nowhere else.
LEMMA KeyOnce ==
  ASSUME KeylessNames, NEW f, NEW h \in Headers, NEW start, NEW m,
         Laid(f, h, start, m),
         NEW q \in 1 .. Len(f), NEW z \in 1 .. Len(f), z = q + 1,
         f[q] = Char("n"), f[z] = Char("s")
  PROVE  q = start[16] + 2
<1> DEFINE e == start[24]
<1>1. e \in Nat /\ m \in Nat /\ Len(f) = e + m
  BY KeyStands
<1>2. ASSUME NEW y \in 1 .. Len(f), y > e PROVE f[y][1] = "data"
  <2>1. PICK b : b = y - e
    OBVIOUS
  <2>2. b \in 1 .. m /\ y = e + b
    BY <1>1, <1>2, <2>1, SMTT(30)
  <2>3. f[y] = Block(b)
    BY <2>2 DEF Laid
  <2> QED  BY <2>3, CellFacts
<1>3. f[q][1] = "char" /\ f[z][1] = "char"
  BY CellFacts
<1>4. q \in 1 .. e /\ z \in 1 .. e
  BY <1>1, <1>2, <1>3
<1>5. PICK i \in 1 .. 23 : \E t \in 1 .. Len(Piece(h, i)) : q = start[i] + t
  BY <1>4 DEF Laid
<1> DEFINE p == Piece(h, i)
           k == Keywords[i]
           value == ValueOf(h, k)
<1>6. PICK t \in 1 .. Len(p) : q = start[i] + t
  BY <1>5
<1>7. /\ start[i] \in Nat /\ Len(p) \in Nat \ {0}
      /\ start[i + 1] = start[i] + Len(p)
      /\ start[i + 1] <= e
      /\ \A y \in 1 .. Len(p) : f[start[i] + y] = p[y]
  <2>1. PieceAt(f, h, start, i)
    BY PieceStands
  <2> QED  BY <2>1 DEF PieceAt
<1>8. k \in ToSet(Keywords) /\ IsPiece(p, k, value)
  BY HeaderPiece
<1> HIDE DEF p, k, value
<1>9. PICK u : u = t + 1
  OBVIOUS
<1>10. p[t] = Char("n")
  BY <1>6, <1>7
<1>11. CASE u \in 1 .. Len(p)
  <2>4. start[i] \in Nat
    BY <1>7
  <2>1. z = start[i] + u
    BY <1>6, <1>9, <1>11, <2>4, SMTT(30)
  <2>2. p[u] = Char("s")
    BY <1>7, <1>11, <2>1
  <2>3. k = "nsamples" /\ t = 2
    BY <1>8, <1>9, <1>10, <1>11, <2>2, KeyInPiece
  <2>5. i = 16
    BY <2>3, KeywordFacts DEF k
  <2> QED  BY <1>6, <2>3, <2>5
<1>12. CASE u \notin 1 .. Len(p)
  <2>1. t = Len(p) /\ z = start[i + 1] + 1
    BY <1>6, <1>7, <1>9, <1>12
  <2>2. i # 23
    <3>3. start[i + 1] \in Nat
      BY <1>7
    <3>1. start[i + 1] < e
      BY <1>1, <1>4, <2>1, <3>3
    <3>2. i = 23 => start[i + 1] = e
      OBVIOUS
    <3> QED  BY <1>1, <3>1, <3>2
  <2>3. PICK j \in 1 .. 23 : j = i + 1
    BY <2>2
  <2>4. /\ start[j] \in Nat /\ Len(Piece(h, j)) \in Nat \ {0}
        /\ \A y \in 1 .. Len(Piece(h, j)) : f[start[j] + y] = Piece(h, j)[y]
    <3>1. PieceAt(f, h, start, j)
      BY PieceStands
    <3> QED  BY <3>1 DEF PieceAt
  <2>5. 1 \in 1 .. Len(Piece(h, j))
    BY <2>4
  <2>6. f[start[j] + 1] = Piece(h, j)[1]
    BY <2>4, <2>5
  <2>7. Piece(h, j)[1][1] = "number"
    <3>1. Piece(h, j)[1] = Number(Len(Spelled(Keywords[j])))
      BY HeaderPiece DEF IsPiece
    <3> QED  BY <3>1, CellFacts
  <2>8. z = start[j] + 1
    BY <2>1, <2>3
  <2> QED  BY <1>3, <2>6, <2>7, <2>8
<1> QED  BY <1>11, <1>12

\* The pieces stand in the order of the keywords.
LEMMA PiecesAscend ==
  ASSUME NEW f, NEW h \in Headers, NEW start, NEW m, Laid(f, h, start, m),
         NEW i \in 1 .. 24, NEW j \in 1 .. 24, i <= j
  PROVE  start[i] <= start[j] /\ start[i] \in Nat /\ start[j] \in Nat
<1>1. start \in [1 .. 24 -> Nat]
  BY DEF Laid
<1>2. \A l \in 1 .. 23 : start[l] \in Nat /\ start[l + 1] \in Nat
                        /\ start[l + 1] >= start[l]
  <2> TAKE l \in 1 .. 23
  <2>1. /\ start[l] \in Nat /\ Len(Piece(h, l)) \in Nat
        /\ start[l + 1] = start[l] + Len(Piece(h, l)) /\ start[l + 1] \in Nat
    <3>1. PieceAt(f, h, start, l)
      BY PieceStands
    <3> QED  BY <3>1 DEF PieceAt
  <2> QED  BY <2>1
<1> DEFINE T == {d \in Nat : i + d \in 1 .. 24 => start[i] <= start[i + d]}
<1>3. 0 \in T
  BY <1>1
<1>4. ASSUME NEW d \in Nat, d \in T PROVE d + 1 \in T
  <2> SUFFICES ASSUME i + (d + 1) \in 1 .. 24
               PROVE  start[i] <= start[i + (d + 1)]
    OBVIOUS
  <2>1. PICK l \in 1 .. 23 : l = i + d
    OBVIOUS
  <2>2. start[i] <= start[l]
    BY <1>4, <2>1
  <2>3. i + (d + 1) = l + 1
    BY <2>1
  <2>4. start[i] \in Nat
    BY <1>1
  <2> QED  BY <1>2, <2>2, <2>3, <2>4
<1>5. PICK d \in Nat : j = i + d
  <2>1. j - i \in Nat /\ j = i + (j - i)
    OBVIOUS
  <2> QED  BY <2>1
<1>6. d \in T
  <2> HIDE DEF T
  <2> QED  BY <1>3, <1>4, EveryNat
<1> QED  BY <1>1, <1>5, <1>6

\* nsamples overwritten in the file is nsamples changed in the header.
LEMMA CountLaid ==
  ASSUME NEW f, NEW h \in Headers, NEW start, NEW m, Laid(f, h, start, m),
         NEW n \in Values, NEW c, c = start[16] + 4
  PROVE  /\ [h EXCEPT !["nsamples"] = n] \in Headers
         /\ Laid([f EXCEPT ![c] = Number(n)], [h EXCEPT !["nsamples"] = n],
                 start, m)
<1> DEFINE h2 == [h EXCEPT !["nsamples"] = n]
           g == [f EXCEPT ![c] = Number(n)]
           e == start[24]
<1>1. "nsamples" \in Fields \ Strings
  BY KeywordFacts
<1>2. /\ h2 \in Headers /\ h2["nsamples"] = n
      /\ \A k \in Fields : k # "nsamples" => h2[k] = h[k]
  BY <1>1 DEF Headers
<1> HIDE DEF h2
<1>3. ASSUME NEW i \in 1 .. 23, i # 16 PROVE Piece(h2, i) = Piece(h, i)
  <2>1. /\ Keywords[i] # "nsamples"
        /\ Keywords[i] \in Marks \/ Keywords[i] \in Fields
    BY <1>3, KeywordFacts
  <2>2. ValueOf(h2, Keywords[i]) = ValueOf(h, Keywords[i])
    BY <1>2, <2>1 DEF ValueOf
  <2> QED  BY <2>2 DEF Piece
<1>4. ASSUME NEW l \in Headers
      PROVE  /\ Len(Piece(l, 16)) = 4
             /\ Piece(l, 16)[4] = Number(l["nsamples"])
             /\ \A t \in 1 .. 3 : Piece(l, 16)[t] =
                  IF t = 1 THEN Number(2) ELSE Key[t - 1]
  <2>1. PICK k : k = "nsamples"
    OBVIOUS
  <2>2. Keywords[16] = k /\ 16 \in 1 .. 23
    BY <2>1, KeywordFacts
  <2>3. /\ k \in Fields /\ k \in ToSet(Keywords)
        /\ k \notin Marks /\ k \notin Strings
    BY <2>1, KeywordFacts DEF Fields
  <2>4. ValueOf(l, k) = l[k]
    BY <2>3 DEF ValueOf
  <2>5. PICK p : p = Piece(l, 16)
    OBVIOUS
  <2>6. IsPiece(p, k, l[k])
    BY <2>2, <2>4, <2>5, HeaderPiece
  <2>7. Spelled(k) = Key /\ Len(Spelled(k)) = 2
    BY <2>1, <2>3, SpelledFacts DEF Spelled
  <2>8. /\ p[1] = Number(2) /\ \A j \in 1 .. 2 : p[1 + j] = Key[j]
        /\ Len(p) = 2 + 2 /\ p[2 + 2] = Number(l[k])
    BY <2>3, <2>6, <2>7 DEF IsPiece
  <2>9. p[1 + 1] = Key[1] /\ p[1 + 2] = Key[2]
    BY <2>8
  <2>10. p[2] = Key[1] /\ p[3] = Key[2] /\ Len(p) = 4 /\ p[4] = Number(l[k])
    BY <2>8, <2>9
  <2>11. ASSUME NEW t \in 1 .. 3
         PROVE  p[t] = IF t = 1 THEN Number(2) ELSE Key[t - 1]
    <3>1. t = 1 \/ t = 2 \/ t = 3
      OBVIOUS
    <3> QED  BY <2>8, <2>10, <3>1
  <2> QED  BY <2>1, <2>5, <2>10, <2>11
<1>5. \A i \in 1 .. 23 : Len(Piece(h2, i)) = Len(Piece(h, i))
  BY <1>2, <1>3, <1>4
<1>6. f \in Seq(Cells) /\ e \in Nat /\ m \in Nat /\ Len(f) = e + m
  BY DEF Laid
<1>7. start[16] \in Nat /\ c \in Nat \ {0} /\ c <= e
  <2>1. start[16] \in Nat /\ start[16] + 4 <= start[24]
    BY KeyStands
  <2> QED  BY <2>1
<1>8. /\ g \in Seq(Cells) /\ Len(g) = Len(f)
      /\ \A y \in 1 .. Len(f) : g[y] = IF y = c THEN Number(n) ELSE f[y]
  <2>1. Number(n) \in Cells
    BY CellFacts
  <2>2. c \in 1 .. Len(f)
    BY <1>6, <1>7
  <2> QED  BY <1>6, <2>1, <2>2, ExceptSeq
<1> HIDE DEF g
<1>9. ASSUME NEW i \in 1 .. 23, NEW t \in 1 .. Len(Piece(h2, i))
      PROVE  g[start[i] + t] = Piece(h2, i)[t]
  <2>1. t \in 1 .. Len(Piece(h, i)) /\ t \in Nat \ {0}
    <3>1. Len(Piece(h2, i)) = Len(Piece(h, i))
      BY <1>5
    <3>2. PieceAt(f, h, start, i)
      BY PieceStands
    <3>3. Len(Piece(h, i)) \in Nat
      BY <3>2 DEF PieceAt
    <3> QED  BY <3>1, <3>3
  <2>2. /\ start[i] \in Nat /\ start[i] + t <= start[i + 1]
        /\ start[i + 1] \in Nat /\ start[i + 1] <= e
        /\ f[start[i] + t] = Piece(h, i)[t]
    <3>1. PieceAt(f, h, start, i)
      BY PieceStands
    <3> QED  BY <2>1, <3>1 DEF PieceAt
  <2>3. PICK y : y = start[i] + t
    OBVIOUS
  <2>4. y \in 1 .. Len(f)
    <3>3. e \in Nat /\ t \in Nat \ {0}
      BY <1>6, <2>1
    <3>4. start[i] \in Nat /\ start[i] + t <= e
      BY <2>2, <3>3
    <3>1. y \in Nat \ {0} /\ y <= e
      BY <2>3, <3>3, <3>4
    <3>2. e <= Len(f) /\ Len(f) \in Nat
      BY <1>6
    <3> QED  BY <1>6, <3>1, <3>2
  <2>5. CASE i # 16
    <3>1. y # c
      <4>1. CASE i < 16
        <5>1. PICK j \in 1 .. 24 : j = i + 1
          OBVIOUS
        <5>2. 16 \in 1 .. 24 /\ j <= 16
          BY <4>1, <5>1
        <5>3. start[j] <= start[16]
          BY <5>2, PiecesAscend
        <5> QED  BY <1>7, <2>2, <2>3, <5>1, <5>3
      <4>2. CASE i > 16
        <5>1. 17 \in 1 .. 24 /\ i \in 1 .. 24 /\ 17 <= i
          BY <4>2
        <5>2. start[17] <= start[i] /\ start[17] \in Nat
          BY <5>1, PiecesAscend
        <5>3. start[17] = c
          <6>1. PICK j \in 1 .. 23 : j = 16
            OBVIOUS
          <6>2. PieceAt(f, h, start, j)
            BY PieceStands
          <6>3. start[j + 1] = start[16] + 4
            BY <1>4, <6>1, <6>2 DEF PieceAt
          <6> QED  BY <6>1, <6>3
        <5> QED  BY <1>7, <2>1, <2>2, <2>3, <5>2, <5>3, SMTT(30)
      <4> QED  BY <2>5, <4>1, <4>2
    <3> QED  BY <1>3, <1>8, <2>2, <2>3, <2>4, <2>5, <3>1
  <2>6. CASE i = 16
    <3>1. t \in 1 .. 4
      BY <1>4, <2>1, <2>6
    <3>2. CASE t = 4
      <4>1. y = c
        BY <2>3, <2>6, <3>2
      <4> QED  BY <1>2, <1>4, <1>8, <2>3, <2>4, <2>6, <3>2, <4>1
    <3>3. CASE t # 4
      <4>1. y # c /\ t \in 1 .. 3
        BY <1>7, <2>3, <2>6, <3>1, <3>3
      <4>2. Piece(h2, 16)[t] = Piece(h, 16)[t]
        BY <1>2, <1>4, <4>1
      <4> QED  BY <1>8, <2>2, <2>3, <2>4, <2>6, <4>1, <4>2
    <3> QED  BY <3>2, <3>3
  <2> QED  BY <2>5, <2>6
<1>10. ASSUME NEW b \in 1 .. m PROVE g[e + b] = Block(b)
  <2>1. PICK y : y = e + b
    OBVIOUS
  <2>2. y \in 1 .. Len(f) /\ y # c
    BY <1>6, <1>7, <2>1, SMTT(30)
  <2>3. f[e + b] = Block(b)
    BY DEF Laid
  <2> QED  BY <1>8, <2>1, <2>2, <2>3
<1>11. ASSUME NEW i \in 1 .. 23
       PROVE  /\ start[i + 1] = start[i] + Len(Piece(h2, i))
              /\ \A t \in 1 .. Len(Piece(h2, i)) : start[i] + t <= e
  <2>1. /\ start[i + 1] = start[i] + Len(Piece(h, i))
        /\ \A t \in 1 .. Len(Piece(h, i)) : start[i] + t <= e
    BY DEF Laid
  <2> QED  BY <1>5, <2>1
<1>12. ASSUME NEW q \in 1 .. e
       PROVE  \E i \in 1 .. 23 :
                \E t \in 1 .. Len(Piece(h2, i)) : q = start[i] + t
  <2>1. PICK i \in 1 .. 23 : \E t \in 1 .. Len(Piece(h, i)) : q = start[i] + t
    BY DEF Laid
  <2> QED  BY <1>5, <2>1
<1>13. start \in [1 .. 24 -> Nat] /\ start[1] = 0 /\ Len(g) = e + m
  BY <1>6, <1>8 DEF Laid
<1>14. Laid(g, h2, start, m)
  BY <1>6, <1>8, <1>9, <1>10, <1>11, <1>12, <1>13 DEF Laid
<1> QED  BY <1>2, <1>14 DEF g, h2

\* The characters that are searched for.
LEMMA KeyFacts == Len(Key) = 2 /\ Key[1] = Char("n") /\ Key[2] = Char("s")
<1>1. PICK k \in ToSet(Keywords) : k = "nsamples"
  BY KeywordFacts DEF Fields
<1>2. Spelled(k) = Key
  BY <1>1 DEF Spelled
<1> QED  BY <1>1, <1>2, SpelledFacts

\* A match in the first n cells of a file is a match of the keyword.
LEMMA KeyMatches ==
  ASSUME KeylessNames, NEW f, NEW h \in Headers, NEW start, NEW m,
         Laid(f, h, start, m),
         NEW w, NEW n \in Nat, n <= Len(f), \A q \in 1 .. n : w[q] = f[q],
         NEW i \in Nat, i + 2 <= n
  PROVE  Matches(w, Key, i) <=> i = start[16] + 1
<1>1. /\ start[16] \in Nat /\ f[start[16] + 2] = Char("n")
      /\ f[start[16] + 3] = Char("s")
  BY KeyStands
<1>2. Len(f) \in Nat
  BY KeyStands
<1>3. PICK q, z : q = i + 1 /\ z = i + 2
  OBVIOUS
<1>4. /\ q \in 1 .. n /\ z \in 1 .. n /\ q \in 1 .. Len(f) /\ z \in 1 .. Len(f)
      /\ z = q + 1
  BY <1>2, <1>3
<1>5. Matches(w, Key, i) <=> w[q] = Char("n") /\ w[z] = Char("s")
  <2>1. Matches(w, Key, i) <=> \A j \in 1 .. 2 : w[i + j] = Key[j]
    BY KeyFacts DEF Matches
  <2>2. 1 .. 2 = {1, 2}
    OBVIOUS
  <2>3. Matches(w, Key, i) <=> w[i + 1] = Key[1] /\ w[i + 2] = Key[2]
    BY <2>1, <2>2
  <2> QED  BY <1>3, <2>3, KeyFacts
<1>6. w[q] = f[q] /\ w[z] = f[z]
  BY <1>4
<1>7. ASSUME f[q] = Char("n"), f[z] = Char("s") PROVE q = start[16] + 2
  BY <1>4, <1>7, KeyOnce
<1>8. q = start[16] + 2 => z = start[16] + 3
  BY <1>1, <1>4
<1>9. q = start[16] + 2 <=> i = start[16] + 1
  BY <1>1, <1>3
<1> QED  BY <1>1, <1>5, <1>6, <1>7, <1>8, <1>9

\* The keyword occurs once.
LEMMA KeyOccurs ==
  ASSUME KeylessNames, NEW f, NEW h \in Headers, NEW start, NEW m,
         Laid(f, h, start, m)
  PROVE  Occurrences(f, Key) = {start[16] + 1}
<1>1. /\ start[16] \in Nat /\ start[16] + 4 <= start[24]
      /\ start[24] \in Nat /\ m \in Nat /\ Len(f) = start[24] + m
  BY KeyStands
<1>2. PICK n : n = Len(f)
  OBVIOUS
<1>3. n \in Nat /\ n <= Len(f) /\ start[16] + 3 <= n
  BY <1>1, <1>2
<1>4. ASSUME NEW i \in 0 .. n - 2
      PROVE  Matches(f, Key, i) <=> i = start[16] + 1
  <2>1. i \in Nat /\ i + 2 <= n
    BY <1>3
  <2>2. \A q \in 1 .. n : f[q] = f[q]
    OBVIOUS
  <2> QED  BY <1>3, <2>1, <2>2, KeyMatches
<1>5. start[16] + 1 \in 0 .. n - 2
  BY <1>1, <1>3, SMTT(30)
<1>6. Occurrences(f, Key) = {i \in 0 .. n - 2 : Matches(f, Key, i)}
  BY <1>2, KeyFacts DEF Occurrences
<1> QED  BY <1>4, <1>5, <1>6

\* What close_fil does to the file.
LEMMA UpdateFacts ==
  ASSUME KeylessNames, NEW f, NEW h \in Headers, NEW start, NEW m,
         Laid(f, h, start, m), NEW v, NEW c, c = start[16] + 4
  PROVE  update_filfile_int(f, v) =
           IF Len(f) >= BuffSize /\ start[16] + 3 < BuffSize
           THEN [f EXCEPT ![c] = Number(v)] ELSE f
<1>1. /\ start[16] \in Nat /\ start[16] + 4 <= start[24]
      /\ start[24] \in Nat /\ m \in Nat /\ Len(f) = start[24] + m
  BY KeyStands
<1>2. BuffSize \in Nat
  BY NamesAssumption
<1>3. CASE Len(f) < BuffSize
  BY <1>1, <1>2, <1>3 DEF update_filfile_int
<1>4. CASE Len(f) >= BuffSize
  <2> DEFINE w == Window(f)
             hits == {i \in 0 .. Len(w) - Len(Key) - 1 : Matches(w, Key, i)}
  <2>1. f \in Seq(Cells)
    BY DEF Laid
  <2>2. Len(w) = BuffSize /\ \A q \in 1 .. BuffSize : w[q] = f[q]
    <3>1. \A i \in 1 .. BuffSize : f[i] \in Cells
      BY <1>1, <1>2, <1>4, <2>1, ElementOfSeq
    <3>2. PICK lo : lo = 1
      OBVIOUS
    <3>3. /\ Len(SubSeq(f, lo, BuffSize)) =
               IF lo <= BuffSize THEN BuffSize - lo + 1 ELSE 0
          /\ \A i \in 1 .. BuffSize - lo + 1 :
               SubSeq(f, lo, BuffSize)[i] = f[lo + i - 1]
      BY <1>2, <3>1, <3>2, SubSeqProperties
    <3>4. /\ BuffSize - lo + 1 = BuffSize
          /\ \A i \in 1 .. BuffSize : lo + i - 1 = i
      BY <1>2, <3>2
    <3> QED  BY <1>2, <3>2, <3>3, <3>4 DEF Window
  <2> HIDE DEF w
  <2>3. hits = {i \in 0 .. BuffSize - 3 : Matches(w, Key, i)}
    BY <1>2, <2>2, KeyFacts
  <2>4. ASSUME NEW i \in 0 .. BuffSize - 3
        PROVE  Matches(w, Key, i) <=> i = start[16] + 1
    <3>1. i \in Nat /\ i + 2 <= BuffSize /\ BuffSize <= Len(f)
      BY <1>1, <1>2, <1>4
    <3> QED  BY <1>2, <2>2, <3>1, KeyMatches
  <2> HIDE DEF hits
  <2> DEFINE ret == binary_strstr(w, Key)
  <2>5. ret = IF hits = {} THEN -1 ELSE Min(hits)
    BY DEF binary_strstr, hits
  <2>6. CASE start[16] + 3 < BuffSize
    <3>1. start[16] + 1 \in 0 .. BuffSize - 3
      BY <1>1, <1>2, <2>6, SMTT(30)
    <3>2. hits = {start[16] + 1}
      BY <2>3, <2>4, <3>1
    <3>3. PICK s : s = start[16] + 1
      OBVIOUS
    <3>4. Min({s}) = s
      <4>1. s \in Int
        BY <1>1, <3>3
      <4> QED  BY <4>1 DEF Min
    <3>5. ret = s
      BY <2>5, <3>2, <3>3, <3>4
    <3>6. ret + Len(Key) + 1 = c /\ ~(ret < 0) /\ ~(Len(f) < BuffSize)
      BY <1>1, <1>2, <1>4, <3>3, <3>5, KeyFacts, SMTT(30)
    <3>7. update_filfile_int(f, v) = ReplaceAt(f, ret + Len(Key) + 1, Number(v))
      <4> HIDE DEF ret
      <4> QED  BY <3>6 DEF update_filfile_int, w, ret
    <3> QED  BY <1>4, <2>6, <3>6, <3>7 DEF ReplaceAt
  <2>7. CASE ~(start[16] + 3 < BuffSize)
    <3>1. \A i \in 0 .. BuffSize - 3 : i # start[16] + 1
      BY <1>1, <1>2, <2>7, SMTT(30)
    <3>2. hits = {}
      BY <2>3, <2>4, <3>1
    <3>3. ret < 0
      BY <2>5, <3>2
    <3>4. update_filfile_int(f, v) = f
      <4> HIDE DEF ret
      <4> QED  BY <3>3 DEF update_filfile_int, w, ret
    <3> QED  BY <2>7, <3>4
  <2> QED  BY <2>6, <2>7
<1>5. Len(f) < BuffSize \/ Len(f) >= BuffSize
  BY <1>1, <1>2
<1> QED  BY <1>3, <1>4, <1>5

-----------------------------------------------------------------------------
(* The file at any time *)

\* From create_fil on the file holds the header, with one of two counts, and
\* blocks; until it is corrected it holds the count create_fil wrote.
FileInv ==
  /\ count \in Values
  /\ phase # "none" =>
       /\ header \in Headers
       /\ \E n \in {header["nsamples"], count} :
            /\ phase \in {"open", "closed", "reopened"} =>
                 n = header["nsamples"]
            /\ \E start, m :
                 /\ Laid(WriteHeader(header), header, start, 0)
                 /\ Laid(file, [header EXCEPT !["nsamples"] = n], start, m)

\* The count that is there already changes nothing.
LEMMA SameHeader ==
  ASSUME NEW h \in Headers
  PROVE  [h EXCEPT !["nsamples"] = h["nsamples"]] = h
BY DEF Headers

\* The count of a header.
LEMMA CountIsValue == \A h \in Headers : h["nsamples"] \in Values
BY KeywordFacts DEF Headers

\* A header with another count is a header.
LEMMA HeaderWithCount ==
  ASSUME NEW h \in Headers, NEW n \in Values
  PROVE  /\ [h EXCEPT !["nsamples"] = n] \in Headers
         /\ [h EXCEPT !["nsamples"] = n]["nsamples"] = n
         /\ \A k \in Fields : k # "nsamples" =>
              [h EXCEPT !["nsamples"] = n][k] = h[k]
<1>1. "nsamples" \in Fields \ Strings
  BY KeywordFacts
<1> QED  BY <1>1 DEF Headers

\* create_fil establishes the invariant.
LEMMA CreateLaid ==
  ASSUME FileInv,
         NEW r \in Names, NEW s \in Names, NEW n \in Counts, CreateFil(r, s, n)
  PROVE  FileInv'
<1>1. header' \in Headers
  <2>1. \A k \in Fields : k \in Values
    BY DEF Fields, Values
  <2>2. n \in Values
    BY DEF Values
  <2>3. "nsamples" \notin Strings
    BY KeywordFacts
  <2>4. header' = [k \in Fields |->
                     CASE k = "rawdatafile" -> r [] k = "source_name" -> s
                       [] k = "nsamples" -> n [] OTHER -> k]
    BY DEF CreateFil
  <2>5. ASSUME NEW k \in Fields
        PROVE  IF k \in Strings THEN header'[k] \in Names
               ELSE header'[k] \in Values
    <3>1. CASE k \in Strings
      BY <2>4, <3>1 DEF Strings
    <3>2. CASE k \notin Strings
      BY <2>1, <2>2, <2>4, <3>2 DEF Strings
    <3> QED  BY <3>1, <3>2
  <2>6. header' \in [Fields -> Values \cup Names]
    <3>1. \A k \in Fields : header'[k] \in Values \cup Names
      BY <2>5
    <3>2. header' = [k \in Fields |-> header'[k]]
      BY <2>4
    <3> QED  BY <3>1, <3>2
  <2> QED  BY <2>5, <2>6 DEF Headers
<1>2. /\ file' = WriteHeader(header') /\ phase' = "open" /\ count' = count
  BY DEF CreateFil
<1>3. PICK h \in Headers : h = header'
  BY <1>1
<1>4. PICK start : Laid(WriteHeader(h), h, start, 0)
  BY HeaderLaid
<1>5. [h EXCEPT !["nsamples"] = h["nsamples"]] = h
  BY SameHeader
<1>6. /\ phase' = "open" /\ count' \in Values /\ header' \in Headers
      /\ Laid(WriteHeader(header'), header', start, 0)
      /\ Laid(file', [header' EXCEPT !["nsamples"] = header'["nsamples"]],
              start, 0)
  BY <1>2, <1>3, <1>4, <1>5 DEF FileInv
<1> QED  BY <1>6 DEF FileInv

\* create_fil_block preserves it.
LEMMA BlockStep ==
  ASSUME FileInv, CreateFilBlock
  PROVE  FileInv'
<1>1. /\ phase = "open" /\ phase' = "open" /\ header' = header /\ count' = count
      /\ file' = Append(file, Block(Blocks(file) + 1))
  BY DEF CreateFilBlock
<1>2. PICK h \in Headers : h = header
  BY <1>1 DEF FileInv
<1> DEFINE n == header["nsamples"]
<1>3. PICK start, m : /\ Laid(WriteHeader(h), h, start, 0)
                      /\ Laid(file, [h EXCEPT !["nsamples"] = n], start, m)
  BY <1>1, <1>2 DEF FileInv
<1>4. n \in Values
  BY <1>2, CountIsValue
<1>5. PICK g \in Headers : g = [h EXCEPT !["nsamples"] = n]
  BY <1>4, HeaderWithCount
<1>6. Blocks(file) = m
  BY <1>3, <1>5, BlocksCounted
<1>7. PICK b : b = m + 1
  OBVIOUS
<1>8. Laid(Append(file, Block(b)), g, start, b)
  BY <1>3, <1>5, <1>7, BlockLaid
<1>9. Laid(file', g, start, b)
  BY <1>1, <1>6, <1>7, <1>8
<1> QED  BY <1>1, <1>2, <1>3, <1>5, <1>9 DEF FileInv

\* The correction preserves it, and is made within the buffer only.
LEMMA UpdateStep ==
  ASSUME KeylessNames, FileInv, Update
  PROVE  /\ FileInv' /\ header' = header /\ count' = count /\ header \in Headers
         /\ Position + Len(Key) \in Nat /\ Len(file) \in Nat
         /\ \E start, m :
              LET n == IF /\ Len(file) >= BuffSize
                          /\ Position + Len(Key) < BuffSize
                       THEN count ELSE header["nsamples"]
              IN  Laid(file', [header EXCEPT !["nsamples"] = n], start, m)
<1>1. /\ phase = "reopened" /\ phase' = "done" /\ header' = header
      /\ count' = count /\ file' = update_filfile_int(file, count)
  BY DEF Update
<1>2. PICK h \in Headers : h = header
  BY <1>1 DEF FileInv
<1> DEFINE n == header["nsamples"]
<1>3. PICK start, m : /\ Laid(WriteHeader(h), h, start, 0)
                      /\ Laid(file, [h EXCEPT !["nsamples"] = n], start, m)
  BY <1>1, <1>2 DEF FileInv
<1>4. n \in Values /\ count \in Values
  BY <1>2, CountIsValue DEF FileInv
<1>5. PICK g \in Headers : g = [h EXCEPT !["nsamples"] = n]
  BY <1>4, HeaderWithCount
<1>6. PICK c : c = start[16] + 4
  OBVIOUS
<1>7. file' = IF Len(file) >= BuffSize /\ start[16] + 3 < BuffSize
              THEN [file EXCEPT ![c] = Number(count)] ELSE file
  BY <1>1, <1>3, <1>5, <1>6, UpdateFacts
<1>8. /\ [g EXCEPT !["nsamples"] = count] \in Headers
      /\ Laid([file EXCEPT ![c] = Number(count)],
              [g EXCEPT !["nsamples"] = count], start, m)
  BY <1>3, <1>4, <1>5, <1>6, CountLaid, ZenonT(60)
<1>9. [g EXCEPT !["nsamples"] = count] = [h EXCEPT !["nsamples"] = count]
  BY <1>5 DEF Headers
<1>10. Position + Len(Key) = start[16] + 3
  <2>1. Occurrences(WriteHeader(h), Key) = {start[16] + 1}
    BY <1>3, KeyOccurs
  <2>2. start[16] \in Nat
    BY <1>3, <1>5, KeyStands
  <2>3. PICK s \in Int : s = start[16] + 1
    BY <2>2
  <2>4. Max({s}) = s
    BY DEF Max
  <2>5. Position = s
    BY <1>2, <2>1, <2>3, <2>4 DEF Position
  <2> QED  BY <2>2, <2>3, <2>5, KeyFacts
<1> DEFINE found == Len(file) >= BuffSize /\ start[16] + 3 < BuffSize
           v == IF found THEN count ELSE header["nsamples"]
<1>11. Laid(file', [header EXCEPT !["nsamples"] = v], start, m)
  <2>1. CASE found
    BY <1>2, <1>7, <1>8, <1>9, <2>1
  <2>2. CASE ~found
    BY <1>2, <1>3, <1>7, <2>2
  <2> QED  BY <2>1, <2>2
<1>12. FileInv'
  <2>1. v \in {header["nsamples"], count}
    OBVIOUS
  <2> HIDE DEF v
  <2>2. /\ phase' = "done" /\ phase' \notin {"open", "closed", "reopened"}
        /\ count' \in Values /\ header' \in Headers
        /\ v \in {header'["nsamples"], count'}
        /\ Laid(WriteHeader(header'), header', start, 0)
        /\ Laid(file', [header' EXCEPT !["nsamples"] = v], start, m)
    BY <1>1, <1>2, <1>3, <1>4, <1>11, <2>1
  <2> QED  BY <2>2 DEF FileInv
<1>13. Position + Len(Key) \in Nat /\ Len(file) \in Nat
  <2>1. start[16] \in Nat
    BY <1>3, <1>5, KeyStands
  <2>2. file \in Seq(Cells)
    BY <1>3 DEF Laid
  <2> QED  BY <1>10, <2>1, <2>2
<1> QED  BY <1>1, <1>2, <1>10, <1>11, <1>12, <1>13

\* There is no file at first.
LEMMA FileInvInit == Init => FileInv
BY DEF Init, FileInv, Values

\* Every step preserves the invariant.
LEMMA FileInvStep ==
  ASSUME KeylessNames, FileInv, [Next]_vars
  PROVE  FileInv'
<1>1. CASE \E r, s \in Names, n \in Counts : CreateFil(r, s, n)
  BY <1>1, CreateLaid
<1>2. CASE CreateFilBlock
  BY <1>2, BlockStep
<1>3. CASE CloseFil
  <2>1. /\ phase = "open" /\ phase' # "none" /\ header' = header
        /\ file' = file /\ count' = count
    BY <1>3 DEF CloseFil
  <2> QED  BY <2>1 DEF FileInv
<1>4. CASE \E n \in Counts : Reopen(n)
  <2>1. /\ phase = "closed" /\ phase' = "reopened" /\ header' = header
        /\ file' = file /\ count' \in Counts
    BY <1>4 DEF Reopen
  <2>2. count' \in Values
    BY <2>1 DEF Values
  <2> QED  BY <2>1, <2>2 DEF FileInv
<1>5. CASE Update
  BY <1>5, UpdateStep
<1>6. CASE UNCHANGED vars
  BY <1>6 DEF vars, FileInv
<1> QED  BY <1>1, <1>2, <1>3, <1>4, <1>5, <1>6 DEF Next

\* What is read from a file is what is expected of it.
LEMMA FoundAsExpected ==
  ASSUME header \in Headers, NEW n \in Values, NEW f, NEW start, NEW m,
         Laid(f, [header EXCEPT !["nsamples"] = n], start, m)
  PROVE  ReadHeader(f) = Behind(start[24], Expected(n))
<1>1. PICK g \in Headers :
        /\ g = [header EXCEPT !["nsamples"] = n] /\ g["nsamples"] = n
        /\ \A k \in Fields : k # "nsamples" => g[k] = header[k]
  BY HeaderWithCount, ZenonT(60)
<1> DEFINE Got(k) == <<k, Seen(k, ValueOf(g, k))>>
           Exp(k) == <<k, CASE k \in Marks -> <<>>
                            [] k \in Strings -> Chars(header[k])
                            [] k = "nsamples" -> Number(n)
                            [] OTHER -> Number(header[k])>>
<1>2. ReadHeader(f) = Behind(start[24], {Got(Keywords[j]) : j \in 1 .. 23})
  BY <1>1, HeaderRead, ZenonT(60)
<1>3. ASSUME NEW k \in ToSet(Keywords) PROVE Got(k) = Exp(k)
  <2>1. /\ "nsamples" \notin Marks /\ "nsamples" \notin Strings
        /\ Strings \subseteq Fields /\ Fields \cap Marks = {}
    BY KeywordFacts
  <2>2. CASE k \in Marks
    <3>1. k \notin Strings /\ k # "nsamples"
      BY <2>1, <2>2
    <3> QED  BY <2>2, <3>1 DEF Seen
  <2>3. CASE k \in Strings
    <3>1. k \notin Marks /\ k # "nsamples" /\ g[k] = header[k]
      BY <1>1, <2>1, <2>3
    <3> QED  BY <2>3, <3>1 DEF Seen, ValueOf
  <2>4. CASE k = "nsamples"
    <3>1. k \notin Marks /\ k \notin Strings /\ g[k] = n
      BY <1>1, <2>1, <2>4
    <3> QED  BY <2>4, <3>1 DEF Seen, ValueOf
  <2>5. CASE k \notin Marks /\ k \notin Strings /\ k # "nsamples"
    <3>1. g[k] = header[k]
      BY <1>1, <2>5 DEF Fields
    <3> QED  BY <2>5, <3>1 DEF Seen, ValueOf
  <2> QED  BY <2>2, <2>3, <2>4, <2>5
<1>4. Expected(n) = {Exp(k) : k \in ToSet(Keywords)}
  BY DEF Expected
<1> HIDE DEF Got, Exp
<1>5. ToSet(Keywords) = {Keywords[j] : j \in 1 .. 23}
  BY KeywordFacts
<1>6. {Got(Keywords[j]) : j \in 1 .. 23} = {Exp(k) : k \in ToSet(Keywords)}
  BY <1>3, <1>5
<1> QED  BY <1>2, <1>4, <1>6

\* Behind the header are the blocks in the order they were written.
LEMMA BlocksAsWritten ==
  ASSUME NEW f, NEW h, NEW start, NEW m, Laid(f, h, start, m),
         NEW a, a = start[24] + 1
  PROVE  LET blocks == SubSeq(f, a, Len(f))
         IN  blocks = [b \in DOMAIN blocks |-> Block(b)]
<1> DEFINE e == start[24]
           blocks == SubSeq(f, a, Len(f))
<1>1. f \in Seq(Cells) /\ m \in Nat /\ Len(f) = e + m /\ e \in Nat
  BY DEF Laid
<1>2. \A b \in 1 .. m : f[e + b] = Block(b)
  BY DEF Laid
<1>3. PICK z \in Int : z = Len(f)
  BY <1>1
<1> HIDE DEF e
<1>4. /\ a \in Int /\ z - a + 1 = m /\ \A i \in 1 .. m : a + i - 1 = e + i
      /\ (a <= z => m > 0) /\ (~(a <= z) => m = 0)
  BY <1>1, <1>3, SMTT(30) DEF e
<1>5. \A i \in a .. z : f[i] \in Cells
  <2>1. \A i \in a .. z : i \in 1 .. Len(f)
    BY <1>1, <1>3 DEF e
  <2> QED  BY <1>1, <2>1, ElementOfSeq
<1>6. /\ blocks \in Seq(Cells) /\ Len(blocks) = m
      /\ \A i \in 1 .. m : blocks[i] = f[a + i - 1]
  <2>1. /\ SubSeq(f, a, z) \in Seq(Cells)
        /\ Len(SubSeq(f, a, z)) = IF a <= z THEN z - a + 1 ELSE 0
        /\ \A i \in 1 .. z - a + 1 : SubSeq(f, a, z)[i] = f[a + i - 1]
    BY <1>4, <1>5, SubSeqProperties
  <2> QED  BY <1>1, <1>3, <1>4, <2>1
<1> HIDE DEF blocks
<1>7. \A i \in 1 .. m : blocks[i] = Block(i)
  BY <1>2, <1>4, <1>6
<1>8. DOMAIN blocks = 1 .. m /\ blocks \in [1 .. m -> Cells]
  BY <1>6, LenProperties
<1>9. blocks = [b \in DOMAIN blocks |-> Block(b)]
  BY <1>7, <1>8
<1> QED  BY <1>9 DEF blocks

\* Whatever the names, as long as none contains the keyword, and however many
\* blocks were written: a reader that walks the file keyword by keyword finds
\* every field with the value it was given, nsamples with the one it had or the
\* one close_fil computed, and the blocks behind them.
THEOREM FilesReadBack ==
  ASSUME KeylessNames
  PROVE  Spec => []ReadsBack
<1>1. FileInv /\ [Next]_vars => FileInv'
  BY FileInvStep
<1>2. FileInv => ReadsBack
  <2> SUFFICES ASSUME FileInv, phase # "none" PROVE ReadsBack
    BY DEF ReadsBack
  <2>1. header \in Headers /\ count \in Values
    BY DEF FileInv
  <2>2. PICK n \in {header["nsamples"], count} :
          \E start, m : Laid(file, [header EXCEPT !["nsamples"] = n], start, m)
    BY DEF FileInv
  <2>3. PICK start, m : Laid(file, [header EXCEPT !["nsamples"] = n], start, m)
    BY <2>2
  <2>4. n \in Values
    BY <2>1, CountIsValue
  <2> DEFINE r == ReadHeader(file)
  <2>5. r = Behind(start[24], Expected(n))
    BY <2>1, <2>3, <2>4, FoundAsExpected
  <2>6. r.found = Expected(n) /\ r.at = start[24] + 1
    BY <2>5 DEF Behind
  <2>7. start[24] \in Nat
    BY <2>3 DEF Laid
  <2>8. LET blocks == SubSeq(file, r.at, Len(file))
        IN  blocks = [b \in DOMAIN blocks |-> Block(b)]
    BY <2>3, <2>6, BlocksAsWritten
  <2> HIDE DEF r
  <2>9. /\ r.found \in {Expected(l) : l \in {header["nsamples"], count}}
        /\ r.at > 0
    BY <2>6, <2>7
  <2> QED  BY <2>8, <2>9 DEF ReadsBack, r
<1> QED  BY <1>1, <1>2, FileInvInit, PTL DEF Spec

\* Under the same condition close_fil's one write into the finished file sets
\* nsamples to the count it computed when the file is as long as the buffer and
\* the keyword ends before the buffer does, and leaves what create_fil wrote when
\* the file is shorter or the keyword ends behind the buffer.
THEOREM CountsCorrectedWithinBuffer ==
  ASSUME KeylessNames
  PROVE  Spec => CorrectedWithinBuffer
<1>1. FileInv /\ [Next]_vars => FileInv'
  BY FileInvStep
<1> DEFINE end == Position + Len(Key)
           Holds(n) == <<"nsamples", Number(n)>> \in ReadHeader(file').found
           Good ==
             Update =>
               /\ Len(file) >= BuffSize /\ end < BuffSize => Holds(count)
               /\ Len(file) < BuffSize \/ end > BuffSize
                    => Holds(header["nsamples"])
<1>2. FileInv /\ [Next]_vars => [Good]_vars
  <2> SUFFICES ASSUME FileInv, Update PROVE Good
    OBVIOUS
  <2> DEFINE corrected ==
               Len(file) >= BuffSize /\ Position + Len(Key) < BuffSize
             n == IF corrected THEN count ELSE header["nsamples"]
  <2>1. header \in Headers /\ count \in Values
    BY UpdateStep DEF FileInv
  <2>2. PICK start, m : Laid(file', [header EXCEPT !["nsamples"] = n], start, m)
    BY UpdateStep
  <2>3. n \in Values
    BY <2>1, CountIsValue
  <2> HIDE DEF n
  <2>4. ReadHeader(file') = Behind(start[24], Expected(n))
    BY <2>1, <2>2, <2>3, FoundAsExpected
  <2>5. <<"nsamples", Number(n)>> \in Expected(n)
    <3>1. /\ "nsamples" \in ToSet(Keywords)
          /\ "nsamples" \notin Marks /\ "nsamples" \notin Strings
      BY KeywordFacts DEF Fields
    <3> QED  BY <3>1 DEF Expected
  <2>6. Holds(n)
    BY <2>4, <2>5 DEF Behind
  <2> HIDE DEF Holds
  <2>7. end \in Nat /\ Len(file) \in Nat /\ BuffSize \in Nat
    BY UpdateStep, NamesAssumption
  <2> HIDE DEF end
  <2>8. CASE corrected
    <3>1. Holds(count)
      BY <2>6, <2>8 DEF n
    <3>2. ~(Len(file) < BuffSize \/ end > BuffSize)
      BY <2>7, <2>8 DEF end
    <3> QED  BY <3>1, <3>2
  <2>9. CASE ~corrected
    <3>1. Holds(header["nsamples"])
      BY <2>6, <2>9 DEF n
    <3>2. ~(Len(file) >= BuffSize /\ end < BuffSize)
      BY <2>9 DEF end
    <3> QED  BY <3>1, <3>2
  <2> QED  BY <2>8, <2>9
<1> QED  BY <1>1, <1>2, FileInvInit, PTL DEF Spec, CorrectedWithinBuffer
=============================================================================
