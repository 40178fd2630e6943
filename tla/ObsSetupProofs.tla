--------------------------- MODULE ObsSetupProofs ---------------------------
(***************************************************************************)
(* Proofs about ObsSetup, for any headers, any number of beams and any     *)
(* number of places in memory; and about Angles, for every angle.          *)
(***************************************************************************)
EXTENDS ObsSetup, TLAPS

-----------------------------------------------------------------------------
(* Angles *)

\* A right ascension comes apart into hours, minutes and fifteenths.
LEMMA HmsParts ==
  ASSUME NEW a \in Nat
  PROVE  LET t == degrees_to_hms(a)
         IN  /\ t.d \in Nat /\ t.m \in Nat /\ t.s \in Nat
             /\ t.m < 60 /\ t.s < 900
             /\ a = t.d * 54000 + t.m * 900 + t.s
<1> DEFINE h == a \div 54000
           rest == a - h * 54000
           m == rest \div 900
<1>1. h \in Nat /\ rest \in Nat /\ rest < 54000
  OBVIOUS
<1> HIDE DEF h
<1>2. m \in Nat /\ m < 60 /\ rest - m * 900 \in Nat /\ rest - m * 900 < 900
  BY <1>1
<1>3. degrees_to_hms(a) = [d |-> h, m |-> m, s |-> rest - m * 900]
  BY <1>1 DEF degrees_to_hms, Truncated, h
<1>4. a = h * 54000 + m * 900 + (rest - m * 900)
  BY <1>1, <1>2
<1> HIDE DEF m, rest
<1> QED  BY <1>1, <1>2, <1>3, <1>4

\* Every right ascension reads back as itself.
THEOREM RightAscensionReadsBack ==
  ASSUME NEW a \in Int, RightAscension(a)
  PROVE  WellFormed(src_raj(a), 15) /\ ReadAs(src_raj(a), 15, 900) = a
<1> DEFINE t == degrees_to_hms(a)
           x == src_raj(a)
<1>1. a \in Nat
  BY DEF RightAscension
<1>2. /\ t.d \in Nat /\ t.m \in Nat /\ t.m < 60 /\ t.s \in Nat /\ t.s < 900
      /\ a = t.d * 54000 + t.m * 900 + t.s
  BY <1>1, HmsParts
<1>3. x = format_angle(t, 15)
  BY DEF src_raj
<1> HIDE DEF t
<1>4. x = t.d * 150000 + t.m * 1500 + t.s
  BY <1>2, <1>3 DEF format_angle
<1> HIDE DEF x
<1>5. x \in Int /\ x >= 0 /\ Abs(x) = t.d * 150000 + t.m * 1500 + t.s
  BY <1>2, <1>4 DEF Abs
<1>6. Degrees(x, 15) = t.d /\ Minutes(x, 15) = t.m /\ Seconds(x, 15) = t.s
  <2> DEFINE d == t.d
             m == t.m
             s == t.s
  <2>1. /\ d \in Nat /\ m \in Nat /\ m < 60 /\ s \in Nat /\ s < 900
        /\ Abs(x) = d * 150000 + m * 1500 + s
    BY <1>2, <1>5
  <2> HIDE DEF d, m, s
  <2>2. /\ (d * 150000 + m * 1500 + s) \div 150000 = d
        /\ (d * 150000 + m * 1500 + s) \div 1500 = d * 100 + m
        /\ (d * 150000 + m * 1500 + s) % 1500 = s
    BY <2>1
  <2>3. (d * 100 + m) % 100 = m
    BY <2>1
  <2>4. 10000 * 15 = 150000 /\ 100 * 15 = 1500
    OBVIOUS
  <2>5. Degrees(x, 15) = d /\ Minutes(x, 15) = m /\ Seconds(x, 15) = s
    BY <2>1, <2>2, <2>3, <2>4 DEF Degrees, Minutes, Seconds
  <2> QED  BY <2>5 DEF d, m, s
<1>7. WellFormed(x, 15)
  BY <1>2, <1>6 DEF WellFormed
<1>8. ReadAs(x, 15, 900) = a
  BY <1>2, <1>5, <1>6 DEF ReadAs
<1> QED  BY <1>7, <1>8 DEF x

\* A declination comes apart into a sign, degrees, minutes and seconds; the
\* sign is that of the degrees.
LEMMA DmsParts ==
  ASSUME NEW a \in Int, a >= 0 \/ a <= -3600
  PROVE  LET t == degrees_to_dms(a)
         IN  /\ t.d \in Int /\ t.m \in Nat /\ t.s \in Nat
             /\ t.m < 60 /\ t.s < 60
             /\ t.d < 0 <=> a < 0
             /\ Abs(a) = Abs(t.d) * 3600 + t.m * 60 + t.s
<1> DEFINE n == Abs(a)
           d == n \div 3600
           rest == n - d * 3600
           m == rest \div 60
<1>1. n \in Nat /\ (n >= 3600 \/ a >= 0)
  BY DEF Abs
<1>2. d \in Nat /\ rest \in Nat /\ rest < 3600 /\ (n >= 3600 => d > 0)
  <2> HIDE DEF n
  <2> QED  BY <1>1
<1>3. Truncated(a, 3600) = (IF a < 0 THEN -d ELSE d)
  BY DEF Truncated, Abs
<1>4. Abs(a - Truncated(a, 3600) * 3600) = rest
  <2>1. a = (IF a < 0 THEN -n ELSE n)
    BY DEF Abs
  <2> HIDE DEF n, d
  <2>2. CASE a < 0
    <3>1. a - Truncated(a, 3600) * 3600 = -rest
      BY <1>1, <1>2, <1>3, <2>1, <2>2
    <3> QED  BY <1>2, <3>1 DEF Abs
  <2>3. CASE ~(a < 0)
    <3>1. a - Truncated(a, 3600) * 3600 = rest
      BY <1>1, <1>2, <1>3, <2>1, <2>3
    <3> QED  BY <1>2, <3>1 DEF Abs
  <2> QED  BY <2>2, <2>3
<1> HIDE DEF n, d
<1>5. m \in Nat /\ m < 60 /\ rest - m * 60 \in Nat /\ rest - m * 60 < 60
  BY <1>2
<1>6. degrees_to_dms(a) =
        [d |-> IF a < 0 THEN -d ELSE d, m |-> m, s |-> rest - m * 60]
  BY <1>2, <1>3, <1>4 DEF degrees_to_dms, Truncated
<1>7. n = d * 3600 + m * 60 + (rest - m * 60)
  BY <1>1, <1>2, <1>5
<1> HIDE DEF m, rest
<1>8. /\ Abs(IF a < 0 THEN -d ELSE d) = d
      /\ (IF a < 0 THEN -d ELSE d) < 0 <=> a < 0
  BY <1>1, <1>2 DEF Abs
<1> QED  BY <1>2, <1>5, <1>6, <1>7, <1>8 DEF n

\* Every declination does, but for the degree south of the equator.
THEOREM DeclinationReadsBack ==
  ASSUME NEW a \in Int, ~AlmostZero(a)
  PROVE  WellFormed(src_dej(a), 1) /\ ReadAs(src_dej(a), 1, 60) = a
<1> DEFINE t == degrees_to_dms(a)
           x == src_dej(a)
           d == Abs(t.d)
<1>1. a \in Int /\ (a >= 0 \/ a <= -3600)
  BY DEF AlmostZero
<1>2. /\ t.d \in Int /\ t.m \in Nat /\ t.m < 60 /\ t.s \in Nat /\ t.s < 60
      /\ t.d < 0 <=> a < 0
      /\ Abs(a) = Abs(t.d) * 3600 + t.m * 60 + t.s
  BY <1>1, DmsParts
<1>3. x = format_angle(t, 1)
  BY DEF src_dej
<1> HIDE DEF t
<1>4. d \in Nat /\ (t.d < 0 => d > 0) /\ (~(t.d < 0) => d = t.d)
  BY <1>2 DEF Abs
<1>5. x = IF t.d < 0 THEN -(d * 10000 + t.m * 100 + t.s)
          ELSE d * 10000 + t.m * 100 + t.s
  BY <1>2, <1>3, <1>4 DEF format_angle
<1>6. Abs(a) = d * 3600 + t.m * 60 + t.s
  BY <1>2
<1> HIDE DEF x, d
<1>7. /\ x \in Int /\ (x < 0 <=> a < 0)
      /\ Abs(x) = d * 10000 + t.m * 100 + t.s
  BY <1>2, <1>4, <1>5 DEF Abs
<1>8. Degrees(x, 1) = d /\ Minutes(x, 1) = t.m /\ Seconds(x, 1) = t.s
  <2> DEFINE m == t.m
             s == t.s
  <2>1. d \in Nat /\ m \in Nat /\ m < 60 /\ s \in Nat /\ s < 60 /\ x \in Int
    BY <1>2, <1>4, <1>7
  <2>2. Abs(x) = d * 10000 + m * 100 + s
    BY <1>7
  <2> HIDE DEF m, s
  <2>3. /\ (d * 10000 + m * 100 + s) \div 10000 = d
        /\ (d * 10000 + m * 100 + s) \div 100 = d * 100 + m
        /\ (d * 10000 + m * 100 + s) % 100 = s
    BY <2>1
  <2>4. (d * 100 + m) % 100 = m
    BY <2>1
  <2>5. 10000 * 1 = 10000 /\ 100 * 1 = 100
    OBVIOUS
  <2>6. Degrees(x, 1) = d /\ Minutes(x, 1) = m /\ Seconds(x, 1) = s
    BY <2>1, <2>2, <2>3, <2>4, <2>5 DEF Degrees, Minutes, Seconds
  <2> QED  BY <2>6 DEF m, s
<1>9. WellFormed(x, 1)
  BY <1>2, <1>8 DEF WellFormed
<1>10. ReadAs(x, 1, 60) = IF a < 0 THEN -Abs(a) ELSE Abs(a)
  BY <1>2, <1>4, <1>6, <1>7, <1>8 DEF ReadAs
<1>11. ReadAs(x, 1, 60) = a
  BY <1>1, <1>10 DEF Abs
<1> QED  BY <1>9, <1>11 DEF x

-----------------------------------------------------------------------------
(* Observations *)

LEMMA SetupInvInit == Init => SetupInv
<1> SUFFICES ASSUME Init PROVE SetupInv
  OBVIOUS
<1> USE ArrayAssumption DEF Init
<1>1. TypeOK
  BY DEF TypeOK, Phases
<1>2. Owned
  BY DEF Owned
<1>3. FrequenciesSet /\ NoFilesYet /\ OwnFrequency /\ OwnCoordinates
  BY DEF FrequenciesSet, Filled, NoFilesYet, OwnFrequency, OwnCoordinates
<1> QED  BY <1>1, <1>2, <1>3 DEF SetupInv

\* The beam whose turn it is, is one there is memory for.
LEMMA BeamInRange ==
  ASSUME TypeOK, beam < header.nbeams_incoherent
  PROVE  beam \in Beams
<1>1. header.nbeams_incoherent \in Nat /\ header.nbeams_coherent \in Nat
  BY HeaderAssumption DEF TypeOK
<1>2. beam \in 0 .. header.nbeams_incoherent + header.nbeams_coherent - 1
  BY <1>1 DEF TypeOK
<1> QED  BY <1>2, HeaderAssumption DEF TypeOK

LEMMA LiveInRange == ASSUME TypeOK PROVE Live \subseteq Beams
<1>1. header.nbeams_incoherent \in Nat /\ header.nbeams_coherent \in Nat
  BY HeaderAssumption DEF TypeOK
<1>2. \A b \in 0 .. header.nbeams_incoherent + header.nbeams_coherent - 1 :
        b \in Beams
  BY HeaderAssumption DEF TypeOK
<1> QED  BY <1>1, <1>2 DEF Live, Total

LEMMA StartIsInt == ASSUME TypeOK PROVE StartOfCoarseChan(header) \in Int
<1>1. header.coarse_channel \in Nat /\ header.bandwidth_hz \in Nat
  BY HeaderAssumption DEF TypeOK
<1>2. \A m, n \in Nat : m * n - n \div 2 \in Int
  OBVIOUS
<1> QED  BY <1>1, <1>2 DEF StartOfCoarseChan

\* A new array is pointed to from nowhere else, and what is freed was pointed
\* to from this place only.
LEMMA ChannelsSetKeepsOwned ==
  ASSUME TypeOK, Owned, ChannelsSet
  PROVE  Owned'
<1>1. beam \in Beams /\ region \in Regions
  BY BeamInRange DEF ChannelsSet, TypeOK
<1>2. PICK a \in Arrays \ Freed :
        /\ live' = Freed \cup {a}
        /\ channels' = [channels EXCEPT ![region][beam] = a]
  BY DEF ChannelsSet
<1>3. \A r \in Regions, b \in Beams :
        channels'[r][b] = IF r = region /\ b = beam THEN a ELSE channels[r][b]
  BY <1>1, <1>2 DEF TypeOK
<1>4. \A r \in Regions, b \in Beams :
        ~(r = region /\ b = beam) /\ channels[r][b] \notin {0, Wild}
          => channels[r][b] \in Freed
  BY <1>1 DEF Owned, Freed, Found
<1>5. \A r \in Regions, b \in Beams :
        ~(r = region /\ b = beam) => channels'[r][b] # a \/ a \in {0, Wild}
  BY <1>2, <1>3, <1>4
<1>6. a \notin {0, Wild}
  BY <1>2, ArrayAssumption
<1> SUFFICES ASSUME NEW r \in Regions, NEW q \in Regions,
                    NEW b \in Beams, NEW c \in Beams,
                    channels'[r][b] \notin {0, Wild}
             PROVE  /\ channels'[r][b] \in live'
                    /\ channels'[r][b] = channels'[q][c] => r = q /\ b = c
  BY DEF Owned
<1>7. channels'[r][b] \in live'
  BY <1>2, <1>3, <1>4
<1>8. channels'[r][b] = channels'[q][c] => r = q /\ b = c
  BY <1>3, <1>5, <1>6 DEF Owned
<1> QED  BY <1>7, <1>8

\* The frequencies set before stay: the new array is none of theirs.
LEMMA ChannelsSetKeepsFrequencies ==
  ASSUME TypeOK, Owned, FrequenciesSet, ChannelsSet
  PROVE  FrequenciesSet'
<1>1. beam \in Beams /\ region \in Regions /\ beam \in Nat
  BY BeamInRange DEF ChannelsSet, TypeOK
<1>2. PICK a \in Arrays \ Freed :
        /\ channels' = [channels EXCEPT ![region][beam] = a]
        /\ first' = [first EXCEPT ![a] = StartOfCoarseChan(header)]
  BY DEF ChannelsSet
<1>3. a \notin {0, Wild} /\ a \in Arrays
  BY <1>2, ArrayAssumption
<1>4. phase = "channels" /\ UNCHANGED <<phase, header, region>> /\ beam' = beam + 1
  BY DEF ChannelsSet
<1> SUFFICES ASSUME NEW b \in Beams, b < beam + 1, b < header.nbeams_incoherent
             PROVE  /\ channels'[region][b] \in Arrays
                    /\ first'[channels'[region][b]] = StartOfCoarseChan(header)
  BY <1>4 DEF FrequenciesSet, Filled, StartOfCoarseChan
<1>5. CASE b = beam
  <2>1. channels'[region][b] = a
    BY <1>1, <1>2, <1>5 DEF TypeOK
  <2> QED  BY <1>2, <1>3, <2>1 DEF TypeOK
<1>6. CASE b # beam
  <2>1. b < beam
    BY <1>1, <1>6, ArrayAssumption
  <2>2. channels'[region][b] = channels[region][b]
    BY <1>1, <1>2, <1>6 DEF TypeOK
  <2>3. /\ channels[region][b] \in Arrays
        /\ first[channels[region][b]] = StartOfCoarseChan(header)
    BY <1>4, <2>1 DEF FrequenciesSet, Filled
  <2>4. channels[region][b] \in Freed
    BY <1>1, <1>6, <2>3, ArrayAssumption DEF Owned, Freed, Found
  <2>5. channels[region][b] # a
    BY <1>2, <2>4
  <2>6. channels[region][b] \in Arrays
    BY <1>1, <2>3 DEF TypeOK
  <2> QED  BY <1>2, <2>2, <2>3, <2>5, <2>6 DEF TypeOK
<1> QED  BY <1>5, <1>6

LEMMA SetupInvStep == SetupInv /\ [Next]_vars => SetupInv'
<1> SUFFICES ASSUME SetupInv, [Next]_vars PROVE SetupInv'
  OBVIOUS
<1>0. /\ TypeOK /\ Owned /\ FrequenciesSet /\ NoFilesYet
      /\ OwnFrequency /\ OwnCoordinates
  BY DEF SetupInv
<1> USE DEF heap_vars
<1>1. ASSUME NEW h \in Headers, HeaderRefused(h) PROVE SetupInv'
  BY <1>0, <1>1 DEF HeaderRefused, SetupInv, TypeOK, Phases, Owned,
     FrequenciesSet, Filled, NoFilesYet, OwnFrequency, OwnCoordinates
<1>2. ASSUME NEW h \in Headers, BeamsAllocated(h) PROVE SetupInv'
  <2>1. PICK r \in Regions, zeroed \in SUBSET (0 .. Total(h) - 1),
             wild \in SUBSET (0 .. Total(h) - 1) :
          /\ region' = r
          /\ channels' = [ channels EXCEPT ![r] =
                             [ b \in Beams |-> IF b \in zeroed THEN 0
                                              ELSE IF b \in wild THEN Wild
                                              ELSE @[b] ] ]
    BY <1>2 DEF BeamsAllocated
  <2>2. \A q \in Regions, b \in Beams :
          channels'[q][b] \in {0, Wild, channels[q][b]}
    BY <1>0, <2>1 DEF TypeOK
  <2>3. channels' \in [Regions -> [Beams -> Arrays \cup {0, Wild}]]
    BY <1>0, <2>1 DEF TypeOK
  <2>4. TypeOK'
    BY <1>0, <1>2, <2>1, <2>3 DEF BeamsAllocated, TypeOK, Phases
  <2>5. Owned'
    BY <1>0, <1>2, <2>2 DEF BeamsAllocated, Owned
  <2>6. FrequenciesSet' /\ NoFilesYet' /\ OwnFrequency' /\ OwnCoordinates'
    BY <1>2 DEF BeamsAllocated, FrequenciesSet, Filled, NoFilesYet,
       OwnFrequency, OwnCoordinates
  <2> QED  BY <1>2, <2>4, <2>5, <2>6 DEF BeamsAllocated, SetupInv
<1>3. CASE BeamsRead
  <2>1. phase' \in {"failed", "died", "channels"} /\ phase = "beams"
    BY <1>3 DEF BeamsRead
  <2>2. UNCHANGED <<header, beam, region, channels, live, first, files>>
    BY <1>3 DEF BeamsRead
  <2>3. TypeOK' /\ Owned' /\ OwnFrequency' /\ OwnCoordinates'
    BY <1>0, <2>1, <2>2
    DEF TypeOK, Phases, Owned, OwnFrequency, OwnCoordinates, StartOfCoarseChan
  <2>4. NoFilesYet'
    BY <1>0, <2>1, <2>2 DEF NoFilesYet
  <2>5. beam = 0
    BY <2>1 DEF SetupInv
  <2>6. \A b \in Beams : ~(b < 0)
    BY ArrayAssumption
  <2>7. FrequenciesSet'
    BY <2>1, <2>2, <2>5, <2>6 DEF FrequenciesSet, Filled
  <2> QED  BY <2>1, <2>3, <2>4, <2>7 DEF SetupInv
<1>4. CASE ChannelsSet
  <2>1. beam \in Beams /\ region \in Regions
    BY <1>0, <1>4, BeamInRange DEF ChannelsSet, TypeOK
  <2>2. TypeOK'
    BY <1>0, <1>4, <2>1, StartIsInt DEF ChannelsSet, TypeOK, Freed
  <2>3. NoFilesYet' /\ OwnFrequency' /\ OwnCoordinates'
    BY <1>0, <1>4
    DEF ChannelsSet, NoFilesYet, OwnFrequency, OwnCoordinates, StartOfCoarseChan
  <2> QED
    BY <1>0, <1>4, <2>2, <2>3, ChannelsSetKeepsOwned,
       ChannelsSetKeepsFrequencies DEF ChannelsSet, SetupInv
<1>5. CASE ChannelsDie \/ FilDies
  BY <1>0, <1>5 DEF ChannelsDie, FilDies, SetupInv, TypeOK, Phases, Owned,
     FrequenciesSet, Filled, NoFilesYet, OwnFrequency, OwnCoordinates,
     StartOfCoarseChan
<1>6. CASE HeaderRead
  <2>1. TypeOK' /\ Owned' /\ NoFilesYet' /\ OwnFrequency' /\ OwnCoordinates'
    BY <1>0, <1>6 DEF HeaderRead, TypeOK, Phases, Owned, NoFilesYet,
       OwnFrequency, OwnCoordinates, StartOfCoarseChan
  <2>2. \A b \in Beams : b < header.nbeams_incoherent => b < beam
    <3>1. header.nbeams_incoherent \in Nat
      BY <1>0, HeaderAssumption DEF TypeOK
    <3>2. beam \in Nat
      BY <1>0 DEF TypeOK
    <3> QED  BY <1>6, <3>1, <3>2, ArrayAssumption DEF HeaderRead
  <2>3. FrequenciesSet'
    BY <1>0, <1>6, <2>2
    DEF HeaderRead, FrequenciesSet, Filled, StartOfCoarseChan
  <2> QED  BY <1>6, <2>1, <2>3 DEF HeaderRead, SetupInv
<1>7. CASE MetafitsRead \/ SizeChecked \/ SetUp \/ Over
  <2>1. UNCHANGED <<header, heap_vars, files>> /\ (beam' = beam \/ beam' = 0)
    BY <1>7 DEF MetafitsRead, SizeChecked, SetUp, Over
  <2>2. \/ /\ phase \in {"metafits", "checking"}
           /\ phase' \in {"checking", "creating", "failed", "died"}
        \/ phase' \in {"recording", "idle"}
    BY <1>7 DEF MetafitsRead, SizeChecked, SetUp, Over
  <2>3. TypeOK' /\ Owned' /\ OwnFrequency' /\ OwnCoordinates'
    BY <1>0, <2>1, <2>2
    DEF TypeOK, Phases, Owned, OwnFrequency, OwnCoordinates, StartOfCoarseChan
  <2>4. FrequenciesSet' /\ NoFilesYet'
    BY <1>0, <2>1, <2>2
    DEF FrequenciesSet, Filled, NoFilesYet, StartOfCoarseChan
  <2> QED  BY <2>2, <2>3, <2>4 DEF SetupInv
<1>8. CASE FilCreated
  <2>1. TypeOK' /\ Owned' /\ FrequenciesSet' /\ NoFilesYet'
    BY <1>0, <1>8 DEF FilCreated, TypeOK, Owned, FrequenciesSet, Filled,
       NoFilesYet, StartOfCoarseChan
  <2>2. OwnFrequency'
    <3>1. beam \in Beams
      BY <1>0, <1>8, LiveInRange DEF FilCreated
    <3>2. beam < header.nbeams_incoherent =>
            FilHeader(beam).fch1 = StartOfCoarseChan(header)
      BY <1>0, <1>8, <3>1
      DEF FilCreated, FrequenciesSet, Filled, FilHeader
    <3> QED
      BY <1>0, <1>8, <3>2 DEF FilCreated, OwnFrequency, StartOfCoarseChan
  <2>3. OwnCoordinates'
    BY <1>0, <1>8 DEF FilCreated, OwnCoordinates, FilHeader
  <2> QED  BY <1>8, <2>1, <2>2, <2>3 DEF FilCreated, SetupInv
<1>9. CASE UNCHANGED vars
  BY <1>0, <1>9 DEF vars, SetupInv, TypeOK, Owned, FrequenciesSet, Filled,
     NoFilesYet, OwnFrequency, OwnCoordinates, StartOfCoarseChan
<1> QED  BY <1>1, <1>2, <1>3, <1>4, <1>5, <1>6, <1>7, <1>8, <1>9 DEF Next

LEMMA SetupInvAlways == Spec => []SetupInv
BY SetupInvInit, SetupInvStep, PTL DEF Spec

\* Whatever numbers of beams follow one another, wherever malloc puts them and
\* whatever it leaves in them: no array is freed twice, and create_fil reads for
\* an incoherent beam the array of that beam alone, which is allocated.
THEOREM PointersAlwaysValid == Spec => []PointersValid
<1>1. SetupInv => PointersValid
  <2> SUFFICES ASSUME SetupInv, beam < header.nbeams_incoherent
               PROVE  /\ Found \in live \cup {0, Wild}
                      /\ phase = "creating" =>
                           /\ Found \in live
                           /\ \A b \in Live \ {beam} :
                                channels[region][b] # Found
    BY DEF PointersValid
  <2>1. beam \in Beams /\ region \in Regions /\ Live \subseteq Beams
    BY BeamInRange, LiveInRange DEF SetupInv, TypeOK
  <2>2. Found \in live \cup {0, Wild}
    BY <2>1 DEF SetupInv, Owned, Found
  <2>3. CASE phase = "creating"
    <3>1. Found \in Arrays
      BY <2>1, <2>3 DEF SetupInv, FrequenciesSet, Filled, Found
    <3>2. Found \notin {0, Wild}
      BY <3>1, ArrayAssumption
    <3>3. \A b \in Live \ {beam} : channels[region][b] # Found
      BY <2>1, <3>2 DEF SetupInv, Owned, Found
    <3> QED  BY <2>2, <3>2, <3>3
  <2> QED  BY <2>2, <2>3
<1> QED  BY <1>1, SetupInvAlways, PTL

\* Every file gets the frequency of its own observation.
THEOREM FrequencyAlwaysOwn == Spec => []OwnFrequency
<1>1. SetupInv => OwnFrequency
  BY DEF SetupInv
<1> QED  BY <1>1, SetupInvAlways, PTL

\* An observation that is refused, for whatever reason, leaves no file.
THEOREM RefusedNeverLeavesFile == Spec => []RefusedLeavesNoFile
<1>1. SetupInv => RefusedLeavesNoFile
  BY DEF SetupInv, NoFilesYet, RefusedLeavesNoFile
<1> QED  BY <1>1, SetupInvAlways, PTL

\* Every file has the right ascension of its own observation, in a form that
\* reads back as it.
THEOREM RightAscensionAlwaysKept == Spec => []RightAscensionKept
<1>1. SetupInv => RightAscensionKept
  <2> SUFFICES ASSUME SetupInv, NEW b \in Beams, files[b] # NoFile
               PROVE  /\ WellFormed(files[b].src_raj, 15)
                      /\ ReadAs(files[b].src_raj, 15, 900) = header.ra
    BY DEF RightAscensionKept
  <2>1. files[b].src_raj = src_raj(header.ra)
    BY DEF SetupInv, OwnCoordinates
  <2>2. header.ra \in Int /\ RightAscension(header.ra)
    BY HeaderAssumption DEF SetupInv, TypeOK
  <2> QED  BY <2>1, <2>2, RightAscensionReadsBack
<1> QED  BY <1>1, SetupInvAlways, PTL

\* And the declination, but for the degree south of the equator.
THEOREM DeclinationAlwaysKept == Spec => []DeclinationKept
<1>1. SetupInv => DeclinationKept
  <2> SUFFICES ASSUME SetupInv, NEW b \in Beams, files[b] # NoFile,
                      ~AlmostZero(header.dec)
               PROVE  /\ WellFormed(files[b].src_dej, 1)
                      /\ ReadAs(files[b].src_dej, 1, 60) = header.dec
    BY DEF DeclinationKept
  <2>1. files[b].src_dej = src_dej(header.dec)
    BY DEF SetupInv, OwnCoordinates
  <2>2. header.dec \in Int
    BY HeaderAssumption DEF SetupInv, TypeOK
  <2> QED  BY <2>1, <2>2, DeclinationReadsBack
<1> QED  BY <1>1, SetupInvAlways, PTL

-----------------------------------------------------------------------------
(* Sizes *)

LEMMA SizesInvInit == Init => SizesInv
<1> SUFFICES ASSUME Init PROVE SizesInv
  OBVIOUS
<1>1. TypeOK
  BY SetupInvInit DEF SetupInv
<1>2. NoZeroKey /\ OwnSizes
  BY DEF Init, NoZeroKey, OwnSizes, Created
<1> QED  BY <1>1, <1>2 DEF Init, SizesInv

\* create_fil writes the sizes of its beam, and touches no other file.
LEMMA FilCreatedKeepsSizes == ASSUME SizesInv, FilCreated PROVE OwnSizes'
<1>1. /\ TypeOK /\ files = [b \in Beams |-> files[b]] /\ OwnSizes
      /\ phase = "creating" /\ beam \in Live /\ beam \in Beams
  BY LiveInRange DEF SizesInv, FilCreated
<1>2. /\ files' = [files EXCEPT ![beam] = FilHeader(beam)]
      /\ beam' = beam + 1 /\ UNCHANGED <<phase, header>>
  BY DEF FilCreated
<1>3. Live \subseteq Beams /\ Beams \subseteq Nat /\ beam \in Nat
  BY <1>1, LiveInRange, ArrayAssumption DEF TypeOK
<1> SUFFICES ASSUME NEW b \in Live, b < beam + 1
             PROVE  /\ files'[b].nsamples = NSamples(header, b)
                    /\ files'[b].nchans = header.beams[b].nchan
                    /\ files'[b].nifs = header.npol
                    /\ files'[b].nbits = header.nbit
  BY <1>1, <1>2
  DEF OwnSizes, Created, Live, Total, NSamples, ntimesteps
<1>4. CASE b = beam
  <2>1. files'[b] = FilHeader(b)
    BY <1>1, <1>2, <1>4
  <2> QED  BY <2>1 DEF FilHeader
<1>5. CASE b # beam
  <2>1. b < beam
    BY <1>3, <1>5
  <2>2. files'[b] = files[b]
    BY <1>1, <1>2, <1>3, <1>5
  <2> QED  BY <1>1, <2>1, <2>2 DEF OwnSizes, Created
<1> QED  BY <1>4, <1>5

LEMMA SizesInvStep == SetupInv /\ SizesInv /\ [Next]_vars => SizesInv'
<1> SUFFICES ASSUME SetupInv, SizesInv, [Next]_vars PROVE SizesInv'
  OBVIOUS
<1>0. /\ TypeOK /\ files = [b \in Beams |-> files[b]]
      /\ NoZeroKey /\ OwnSizes
  BY DEF SizesInv
<1>t. TypeOK'
  BY SetupInvStep DEF SetupInv
<1>1. ASSUME NEW h \in Headers, HeaderRefused(h) \/ BeamsAllocated(h)
      PROVE  SizesInv'
  <2>1. /\ phase' \in {"failed", "beams"}
        /\ files' = [b \in Beams |-> NoFile]
    BY <1>1 DEF HeaderRefused, BeamsAllocated
  <2>2. NoZeroKey' /\ OwnSizes'
    BY <2>1 DEF NoZeroKey, OwnSizes, Created
  <2>3. (files = [b \in Beams |-> files[b]])'
    BY <2>1
  <2> QED  BY <1>t, <2>2, <2>3 DEF SizesInv
<1>2. CASE FilCreated
  <2>1. OwnSizes'
    BY <1>2, FilCreatedKeepsSizes
  <2>2. UNCHANGED <<phase, header>>
    BY <1>2 DEF FilCreated
  <2>3. NoZeroKey'
    BY <1>0, <2>2 DEF NoZeroKey, Live, Total
  <2>4. files' = [files EXCEPT ![beam] = FilHeader(beam)]
    BY <1>2 DEF FilCreated
  <2>5. (files = [b \in Beams |-> files[b]])'
    <3> DEFINE r == FilHeader(beam)
    <3> HIDE DEF r
    <3>1. files' = [files EXCEPT ![beam] = r]
      BY <2>4 DEF r
    <3> QED  BY <1>0, <3>1
  <2> QED  BY <1>t, <2>1, <2>3, <2>5 DEF SizesInv
<1>3. CASE /\ UNCHANGED <<header, files>>
           /\ \/ BeamsRead \/ ChannelsSet \/ ChannelsDie \/ HeaderRead
              \/ MetafitsRead \/ SizeChecked \/ FilDies \/ SetUp \/ Over
              \/ UNCHANGED vars
  <2>1. UNCHANGED Live
    BY <1>3 DEF Live, Total
  <2>2. NoZeroKey'
    <3>1. CASE BeamsRead
      BY <1>3, <2>1, <3>1 DEF BeamsRead, NoZeroKey
    <3>2. CASE ~BeamsRead
      <4>1. phase' \in {"channels", "metafits", "checking", "creating",
                        "recording"}
              => phase \in {"channels", "metafits", "checking", "creating",
                            "recording"}
        BY <1>3, <3>2 DEF ChannelsSet, ChannelsDie, HeaderRead, MetafitsRead,
           SizeChecked, FilDies, SetUp, Over, vars
      <4> QED  BY <1>0, <1>3, <2>1, <4>1 DEF NoZeroKey
    <3> QED  BY <3>1, <3>2
  <2>3. OwnSizes'
    <3>1. UNCHANGED <<header, files>>
      BY <1>3
    <3>2. Created' \subseteq Created
      <4>1. CASE SetUp
        <5>1. phase = "creating" /\ phase' = "recording" /\ beam \notin Live
          BY <4>1 DEF SetUp
        <5>2. Total(header) \in Nat /\ beam \in Nat
          <6>1. /\ header.nbeams_incoherent \in Nat
                /\ header.nbeams_coherent \in Nat
            BY <1>0, HeaderAssumption DEF TypeOK
          <6> QED  BY <1>0, <6>1 DEF TypeOK, Total
        <5>3. \A b \in Live : b < beam
          BY <5>1, <5>2 DEF Live
        <5> QED  BY <2>1, <5>1, <5>3 DEF Created
      <4>2. CASE SizeChecked
        <5>1. phase' \in {"creating", "failed"} /\ beam' = 0
          BY <4>2 DEF SizeChecked
        <5>2. \A b \in Live : ~(b < 0)
          BY <1>0, LiveInRange, ArrayAssumption
        <5> QED  BY <2>1, <5>1, <5>2 DEF Created
      <4>3. CASE UNCHANGED vars
        BY <2>1, <4>3 DEF vars, Created
      <4>4. CASE ~SetUp /\ ~SizeChecked /\ ~UNCHANGED vars
        <5>1. phase' \notin {"creating", "recording"}
          BY <1>3, <4>4 DEF BeamsRead, ChannelsSet, ChannelsDie, HeaderRead,
             MetafitsRead, FilDies, Over
        <5> QED  BY <5>1 DEF Created
      <4> QED  BY <4>1, <4>2, <4>3, <4>4
    <3>3. \A b : NSamples(header, b)' = NSamples(header, b)
      BY <3>1 DEF NSamples, ntimesteps
    <3> QED  BY <1>0, <3>1, <3>2 DEF OwnSizes, NSamples, ntimesteps
  <2>4. (files = [b \in Beams |-> files[b]])'
    BY <1>0, <1>3
  <2> QED  BY <1>t, <2>2, <2>3, <2>4 DEF SizesInv
<1> QED  BY <1>1, <1>2, <1>3 DEF Next, BeamsRead, ChannelsSet, ChannelsDie,
  HeaderRead, MetafitsRead, SizeChecked, FilDies, SetUp, Over, vars, heap_vars

\* A number of time steps is one: nothing was divided by zero.
LEMMA TimeStepsAreNat ==
  ASSUME TypeOK, NoZeroKey, phase = "recording", NEW b \in Live
  PROVE  ntimesteps(header, b) \in Nat
<1> DEFINE hz == header.bandwidth_hz
           us == header.beams[b].time_integration
           n  == header.beams[b].nchan
<1>1. hz \in Nat /\ us \in Nat \ {0} /\ n \in Nat \ {0}
  BY LiveInRange, HeaderAssumption DEF TypeOK, NoZeroKey
<1>2. ntimesteps(header, b) = (hz \div us) \div n
  BY DEF ntimesteps
<1> HIDE DEF hz, us, n
<1>3. hz \div us \in Nat
  BY <1>1
<1> DEFINE steps == hz \div us
<1> HIDE DEF steps
<1>4. steps \div n \in Nat
  BY <1>1, <1>3 DEF steps
<1> QED  BY <1>2, <1>4 DEF steps

\* What fits in an int is stored as it is.
LEMMA IntKept == ASSUME NEW n \in Nat, n <= INT_MAX PROVE AsInt(n) = n
<1> DEFINE w == INT_MAX + 1
<1>1. w \in Nat /\ n + w \in Nat /\ n + w < 2 * w
  BY LimitAssumption
<1>2. AsInt(n) = ((n + w) % (2 * w)) - w
  <2>1. n + INT_MAX + 1 = n + w
    BY LimitAssumption
  <2> QED  BY <2>1 DEF AsInt
<1> HIDE DEF w
<1>3. (n + w) % (2 * w) = n + w
  <2> DEFINE x == n + w
             y == 2 * w
  <2>1. x \in Nat /\ y \in Nat /\ x < y
    BY <1>1
  <2> HIDE DEF x, y
  <2>2. x % y = x
    BY <2>1
  <2> QED  BY <2>2 DEF x, y
<1> QED  BY <1>1, <1>2, <1>3

\* Whatever the shape of the beams, a file with all its blocks in it has the
\* length its header declares, if an int can hold the number of samples.
THEOREM SizesAlwaysAgree == Spec => []SizesAgree
<1>1. SizesInv => SizesAgree
  <2> SUFFICES ASSUME SizesInv, phase = "recording", header.nbit = 32,
                      NEW b \in Live,
                      ntimesteps(header, b) * header.exposure_sec <= INT_MAX
               PROVE  files[b].nsamples * files[b].nchans * files[b].nifs
                          * (files[b].nbits \div 8)
                        = header.exposure_sec * out_buffer_bytes(header, b)
    BY DEF SizesAgree
  <2> DEFINE t == ntimesteps(header, b)
             e == header.exposure_sec
             n == header.beams[b].nchan
             p == header.npol
  <2>1. t \in Nat /\ e \in Nat /\ n \in Nat /\ p \in Nat
    BY TimeStepsAreNat, LiveInRange, HeaderAssumption DEF SizesInv, TypeOK
  <2>2. /\ files[b].nsamples = AsInt(t * e) /\ files[b].nchans = n
        /\ files[b].nifs = p /\ files[b].nbits = 32
    BY DEF SizesInv, OwnSizes, Created, NSamples
  <2>3. out_buffer_bytes(header, b) = (t * n * p) * 4
    BY DEF out_buffer_bytes, Samples
  <2>4. t * e <= INT_MAX
    OBVIOUS
  <2> HIDE DEF t, e, n, p
  <2>5. AsInt(t * e) = t * e
    <3>1. t * e \in Nat
      BY <2>1
    <3> QED  BY <2>4, <3>1, IntKept
  <2>6. (t * e) * n * p * 4 = e * ((t * n * p) * 4)
    BY <2>1
  <2>7. 32 \div 8 = 4
    OBVIOUS
  <2> QED  BY <2>2, <2>3, <2>5, <2>6, <2>7 DEF e
<1>2. SetupInv /\ SizesInv /\ [Next]_vars => SizesInv'
  BY SizesInvStep
<1> QED  BY <1>1, <1>2, SizesInvInit, SetupInvAlways, PTL DEF Spec
=============================================================================
