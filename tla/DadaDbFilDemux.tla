--------------------------- MODULE DadaDbFilDemux ---------------------------
(***************************************************************************)
(* Proof that every block ends up in its place, for any number of beams    *)
(* and any length of sub-observations, as long as no observation is cut    *)
(* short, no sub-observation truncated and the heap is clean; headers may  *)
(* be lost, late, repeated or unusable, files may fail and the program may *)
(* die and be started again at any moment.                                 *)
(*                                                                         *)
(* And that the marker counts the seconds in the files, sub-observations   *)
(* truncated or not, as long as no observation is superseded.              *)
(***************************************************************************)
EXTENDS DadaDbFilProofs

\* What OrderlyInv adds to the invariants proved for every environment.
Ordered ==
  Demultiplexed /\ InStep /\ Counted /\ Quitting /\ MarkerIsQuotient
    /\ NothingStale

-----------------------------------------------------------------------------
(* Lemmas *)

\* Whole seconds before a block change neither its beam nor its place in the
\* second.
LEMMA DivisionShift ==
  ASSUME NEW n \in Nat \ {0}, NEW o \in Nat, NEW s \in Nat
  PROVE  /\ (o * n + s) % n = s % n
         /\ (o * n + s) \div n = o + (s \div n)
<1> DEFINE q == s \div n
           r == s % n
<1>1. q \in Nat /\ r \in 0 .. n - 1 /\ s = n * q + r
  BY Division
<1> HIDE DEF q, r
<1>2. o * n + s = n * (o + q) + r /\ o + q \in Nat
  BY <1>1
<1>3. (n * (o + q) + r) \div n = o + q /\ (n * (o + q) + r) % n = r
  BY <1>1, <1>2, DivisionUnique
<1> QED  BY <1>2, <1>3 DEF q, r

LEMMA DivisionWhole ==
  ASSUME NEW n \in Nat \ {0}, NEW o \in Nat
  PROVE  (o * n) \div n = o
<1>1. o * n = n * o + 0 /\ 0 \in 0 .. n - 1
  OBVIOUS
<1> QED  BY <1>1, DivisionUnique

\* The kinds of headers that may follow one another.
LEMMA FollowsKinds ==
  ASSUME "cut" \notin Faults, NEW g \in Headers, NEW h \in Follows(g)
  PROVE  \/ h = [g EXCEPT !.mode = "QUIT"]
         \/ /\ h.mode = "VALID" /\ h.subobs_id = h.obs_id + h.obs_offset
            /\ \/ h.obs_id > g.obs_id /\ Finished(g) /\ h.nbeams > 0
               \/ g.mode = "VALID" /\ h.obs_id = g.obs_id
                  /\ h.nbeams = g.nbeams
<1>1. ASSUME NEW x \in Starts(g)
      PROVE  /\ x.mode = "VALID" /\ x.subobs_id = x.obs_id + x.obs_offset
             /\ x.obs_id > g.obs_id /\ Finished(g) /\ x.nbeams > 0
  <2>1. PICK o \in {i \in ObsIds : i > g.obs_id},
             offset \in {0, SecsPerSubobs}, e \in Exposures,
             n \in 1 .. MaxBeams : x = Header(o, offset, e, n)
    BY DEF Starts, Fault
  <2>2. Finished(g)
    BY DEF Starts
  <2> QED  BY <2>1, <2>2 DEF Header
<1>2. ASSUME NEW x \in Continues(g)
      PROVE  /\ x.mode = "VALID" /\ x.subobs_id = x.obs_id + x.obs_offset
             /\ g.mode = "VALID" /\ x.obs_id = g.obs_id
             /\ x.nbeams = g.nbeams
  <2>1. PICK offset \in NextOffsets(g), e \in NextExposures(g) :
          x = [Header(g.obs_id, offset, e, g.nbeams) EXCEPT !.nbit = g.nbit]
    BY DEF Continues, Further
  <2>2. g.mode = "VALID"
    BY DEF Continues
  <2> QED  BY <2>1, <2>2 DEF Header
<1>3. CASE h \in Starts(g) \cup Continues(g)
  BY <1>1, <1>2, <1>3
<1>4. CASE h \in Malformed(Starts(g) \cup Continues(g))
  <2>1. PICK x \in Starts(g) \cup Continues(g), d \in Defects :
          \/ h = [x EXCEPT !.defect = d]
          \/ h = [x EXCEPT !.nbit = 8]
    BY <1>4 DEF Malformed, Fault, Defects
  <2>2. x \in Headers
    BY <2>1, StartsType, ContinuesType
  <2>3. /\ h.mode = x.mode /\ h.obs_id = x.obs_id /\ h.nbeams = x.nbeams
        /\ h.subobs_id = x.subobs_id /\ h.obs_offset = x.obs_offset
    BY <2>1, <2>2 DEF Headers
  <2>4. CASE x \in Starts(g)
    BY <1>1, <2>3, <2>4
  <2>5. CASE x \in Continues(g)
    BY <1>2, <2>3, <2>5
  <2> QED  BY <2>1, <2>4, <2>5
<1>5. CASE h \in Quits(g)
  BY <1>5 DEF Quits
<1> QED  BY <1>3, <1>4, <1>5 DEF Follows

\* Closing no beams changes no pointer.
LEMMA ClosingNone ==
  ASSUME TypeOK
  PROVE  HandlesAfterClose(First(0)) = m_File
<1>1. \A b \in Beams : b \notin First(0)
  BY DEF First
<1> QED  BY <1>1 DEF HandlesAfterClose, TypeOK

\* The data are where they were if no file has been given other data than none.
LEMMA SameData ==
  ASSUME Demultiplexed,
         \A k \in Files : disk'[k].data \in {disk[k].data, <<>>}
  PROVE  Demultiplexed'
<1> SUFFICES ASSUME NEW k \in Files, NEW i \in DOMAIN disk'[k].data
             PROVE  disk'[k].data[i]
                      = [obs |-> k[1], beam |-> k[2], sec |-> i - 1]
  BY DEF Demultiplexed
<1>1. DOMAIN <<>> = {}
  OBVIOUS
<1>2. disk'[k].data = disk[k].data
  BY <1>1
<1> QED  BY <1>2 DEF Demultiplexed

\* While an observation is being recorded, more of it is to come: the last
\* header was not that of its last sub-observation.
LEMMA MoreToCome ==
  ASSUME Orderly, StreamInv, BeamsFit, Ordered, phase = "header",
         ctx.obs_id # 0
  PROVE  header.mode = "VALID" /\ ~Finished(header)
<1> DEFINE n == header.nbeams
           o == header.obs_offset
<1>1. header \in Headers /\ ctx \in Contexts
  BY DEF StreamInv, TypeOK
<1>2. n \in Nat /\ o \in Nat /\ SecsPerSubobs \in Nat
  BY <1>1, HeaderNumbers, UpstreamAssumption
<1>3. Recording
  BY DEF Recording
<1>4. /\ n > 0 /\ n = ctx.nbeams_total
      /\ header.exposure_sec = ctx.exposure_sec
      /\ \A b \in Live : m_File[b] = "open"
  BY <1>3 DEF Ordered, InStep
<1>5. header.mode = "VALID"
  BY <1>1, <1>3 DEF Ordered, InStep, Quitting, Headers
<1>6. /\ ctx.block_number = o * n + sent /\ sent = SecsPerSubobs * n
      /\ ctx.obs_marker_number < ctx.exposure_sec
  BY <1>3, <1>5 DEF Ordered, Counted
<1>7. ctx.obs_marker_number = ctx.block_number \div n
  <2>1. 0 \in Live
    BY <1>2, <1>4 DEF Live
  <2>2. m_File[0] = "open" /\ 0 \in Beams
    BY <1>4, <2>1, LiveBeams
  <2> QED  BY <1>4, <2>2 DEF Ordered, MarkerIsQuotient
<1>8. ctx.obs_marker_number = o + SecsPerSubobs
  <2> HIDE DEF n, o
  <2>1. ctx.block_number = (o + SecsPerSubobs) * n
    BY <1>2, <1>6
  <2> QED  BY <1>2, <1>4, <1>7, <2>1, DivisionWhole
<1>9. ~Finished(header)
  BY <1>1, <1>2, <1>4, <1>6, <1>8, HeaderNumbers DEF Finished
<1> QED  BY <1>5, <1>9

\* So a new observation never comes while another one is being recorded.
LEMMA NeverSuperseded ==
  ASSUME Orderly, StreamInv, BeamsFit, Ordered, phase = "header",
         NEW h \in Follows(header), NewObservation(h)
  PROVE  ctx.obs_id = 0
<1> SUFFICES ASSUME ctx.obs_id # 0 PROVE FALSE
  OBVIOUS
<1>1. header \in Headers /\ header.obs_id = ctx.obs_id
  BY DEF StreamInv, TypeOK, Ordered, InStep, Recording
<1>2. ~Finished(header)
  BY MoreToCome
<1>3. h.mode = "VALID" /\ h.obs_id # header.obs_id
  BY <1>1 DEF NewObservation, Identified
<1>4. h # [header EXCEPT !.mode = "QUIT"]
  BY <1>1, <1>3 DEF Headers
<1> QED  BY <1>1, <1>2, <1>3, <1>4, FollowsKinds DEF Orderly

-----------------------------------------------------------------------------
(* Headers *)

\* Whatever the header, it has beams.
LEMMA HeaderHasBeams ==
  ASSUME Orderly, StreamInv, Ordered, NEW h \in Follows(header)
  PROVE  h.mode = "VALID" => h.nbeams > 0
<1>1. header \in Headers
  BY DEF StreamInv, TypeOK
<1>2. [header EXCEPT !.mode = "QUIT"].mode # "VALID"
  BY <1>1 DEF Headers
<1> QED  BY <1>1, <1>2, FollowsKinds DEF Orderly, Ordered, NothingStale

LEMMA QuitOrdered ==
  ASSUME Orderly, StreamInv, Ordered, NEW h \in Follows(header), OpenQuit(h)
  PROVE  Ordered'
<1>1. header \in Headers
  BY DEF StreamInv, TypeOK
<1>2. h = [header EXCEPT !.mode = "QUIT"]
  BY <1>1, FollowsKinds DEF Orderly, OpenQuit
<1>3. /\ header'.mode = "QUIT" /\ header'.obs_id = header.obs_id
      /\ header'.nbeams = header.nbeams
      /\ header'.obs_offset = header.obs_offset
      /\ header'.exposure_sec = header.exposure_sec
  BY <1>1, <1>2 DEF OpenQuit, Receive, Headers
<1>4. phase = "header" /\ phase' = "data" /\ g_quit'
      /\ UNCHANGED <<ctx, m_File, fil_obs, disk>>
  BY DEF OpenQuit, Receive
<1>5. Demultiplexed' /\ MarkerIsQuotient' /\ NothingStale'
  BY <1>3, <1>4 DEF Ordered, Demultiplexed, MarkerIsQuotient, NothingStale, Live
<1>6. InStep' /\ Counted' /\ Quitting'
  BY <1>3, <1>4
  DEF Ordered, InStep, Counted, Quitting, Recording, Live
<1> QED  BY <1>5, <1>6 DEF Ordered

\* Where nothing is written and nothing is recorded afterwards.
LEMMA StoppedOrdered ==
  ASSUME Orderly, StreamInv, Ordered, NEW h \in Follows(header), header' = h,
         phase = "header", phase' = "failed", UNCHANGED <<m_File, disk>>,
         ctx'.obs_id = ctx.obs_id,
         ctx'.nbeams_total = ctx.nbeams_total,
         ctx'.block_number = ctx.block_number,
         ctx'.obs_marker_number = ctx.obs_marker_number
  PROVE  Ordered'
<1>1. h.mode = "VALID" => h.nbeams > 0
  BY HeaderHasBeams
<1> QED
  BY <1>1 DEF Ordered, Demultiplexed, InStep, Counted, Quitting, Recording,
     MarkerIsQuotient, NothingStale, Live

LEMMA ContinuedOrdered ==
  ASSUME Orderly, StreamInv, Ordered, NEW h \in Follows(header),
         OpenContinued(h)
  PROVE  Ordered'
<1>1. header \in Headers /\ h \in Headers /\ ctx \in Contexts
  BY FollowsType DEF StreamInv, TypeOK
<1>2. /\ phase = "header" /\ phase' = "data" /\ header' = h /\ sent' = 0
      /\ UNCHANGED <<g_quit, m_File, fil_obs, disk>>
      /\ h.mode = "VALID" /\ h.obs_id = ctx.obs_id /\ h.obs_id > 0
  BY DEF OpenContinued, Receive, Continuation, Identified
<1>3. Recording
  BY <1>1, <1>2, HeaderNumbers DEF Recording
<1>4. /\ header.obs_id = h.obs_id /\ header.nbeams = ctx.nbeams_total
      /\ header.obs_offset = ctx.obs_offset
      /\ header.mode = "VALID" /\ header.nbeams > 0
  BY <1>1, <1>2, <1>3 DEF Ordered, InStep, Quitting, Headers
<1>5. h.nbeams = header.nbeams
  <2>1. [header EXCEPT !.mode = "QUIT"].mode # "VALID"
    BY <1>1 DEF Headers
  <2>2. ~(h.obs_id > header.obs_id)
    BY <1>1, <1>4, HeaderNumbers
  <2> QED  BY <1>1, <1>2, <2>1, <2>2, FollowsKinds DEF Orderly
<1>6. /\ ctx'.obs_id = ctx.obs_id /\ ctx'.nbeams_total = ctx.nbeams_total
      /\ ctx'.block_number = ctx.block_number
      /\ ctx'.obs_marker_number = ctx.obs_marker_number
      /\ ctx'.obs_offset = h.obs_offset /\ ctx'.exposure_sec = h.exposure_sec
  BY <1>1 DEF OpenContinued, OffsetIsNext, DurationRead, Contexts
<1>7. ctx.block_number = h.obs_offset * h.nbeams + 0
  <2>1. h.obs_offset - ctx.obs_offset = SecsPerSubobs
    BY DEF OpenContinued, OffsetIsNext
  <2>2. ctx.block_number = header.obs_offset * header.nbeams
                             + SecsPerSubobs * header.nbeams
    BY <1>2, <1>3, <1>4 DEF Ordered, Counted
  <2>3. /\ h.obs_offset \in Nat /\ header.obs_offset \in Nat
        /\ header.nbeams \in Nat /\ SecsPerSubobs \in Nat
    BY <1>1, HeaderNumbers, UpstreamAssumption
  <2>4. h.obs_offset = header.obs_offset + SecsPerSubobs
    BY <1>4, <2>1, <2>3
  <2> DEFINE o == header.obs_offset
             n == header.nbeams
  <2> HIDE DEF o, n
  <2>5. ASSUME o \in Nat, n \in Nat
        PROVE  o * n + SecsPerSubobs * n = (o + SecsPerSubobs) * n + 0
    BY <2>3, <2>5
  <2> QED  BY <1>5, <2>2, <2>3, <2>4, <2>5 DEF o, n
<1>8. Demultiplexed' /\ MarkerIsQuotient' /\ NothingStale'
  BY <1>2, <1>4, <1>5, <1>6
  DEF Ordered, Demultiplexed, MarkerIsQuotient, NothingStale, Live
<1>9. InStep' /\ Quitting'
  BY <1>2, <1>3, <1>4, <1>5, <1>6
  DEF Ordered, InStep, Quitting, Recording, Live
<1>10. Counted'
  BY <1>2, <1>6, <1>7 DEF Counted
<1> QED  BY <1>8, <1>9, <1>10 DEF Ordered

\* An observation that is skipped, or cannot be set up.
LEMMA UnrecordedOrdered ==
  ASSUME Orderly, StreamInv, BeamsFit, Ordered, NEW h \in Follows(header),
         OpenSkipped(h) \/ OpenUnreadable(h) \/ OpenNoMetafits(h)
  PROVE  Ordered'
<1>1. /\ phase = "header" /\ header' = h
      /\ NewObservation(h) /\ h.obs_id > 0
      /\ m_File' = HandlesAfterClose(First(Superseded))
      /\ \E R : disk' = DiskAfterClose(First(Superseded), R)
  BY DEF OpenSkipped, OpenUnreadable, OpenNoMetafits, Closed, Receive,
     StartsObservation, NewObservation, Identified
<1>2. ctx.obs_id = 0 /\ Superseded = 0
  BY <1>1, NeverSuperseded DEF Superseded
<1>3. m_File' = m_File
  BY <1>1, <1>2, ClosingNone DEF StreamInv
<1>4. Demultiplexed'
  BY <1>1, ClosingFacts, SameData DEF Ordered, StreamInv
<1>5. ~Recording' /\ (ctx'.obs_id = 0 => ctx'.obs_marker_number = 0)
  <2>1. ctx \in Contexts /\ h.obs_id # 0
    BY <1>1 DEF StreamInv, TypeOK
  <2>2. CASE OpenSkipped(h)
    <3>1. ctx'.obs_id = 0 /\ ctx'.obs_marker_number = ctx.obs_marker_number
      BY <2>1, <2>2 DEF OpenSkipped, Contexts
    <3> QED  BY <1>2, <3>1 DEF Recording, Ordered, NothingStale
  <2>3. CASE OpenUnreadable(h)
    <3>1. ctx'.obs_id = h.obs_id
      BY <2>1, <2>3 DEF OpenUnreadable, StartedContext, Contexts
    <3>2. phase' = "failed"
      BY <2>3 DEF OpenUnreadable
    <3> QED  BY <2>1, <3>1, <3>2 DEF Recording
  <2>4. CASE OpenNoMetafits(h)
    <3>1. ctx'.obs_id = h.obs_id
      BY <2>1, <2>4 DEF OpenNoMetafits, StartedContext, Contexts
    <3>2. phase' \in {"died", "failed"}
      BY <2>4 DEF OpenNoMetafits, Fault
    <3> QED  BY <2>1, <3>1, <3>2 DEF Recording
  <2> QED  BY <2>2, <2>3, <2>4
<1>6. MarkerIsQuotient'
  <2>1. \A b \in Beams : m_File'[b] # "open"
    BY <1>1, ClosingAll
  <2> QED  BY <2>1 DEF MarkerIsQuotient
<1>7. NothingStale'
  <2>1. h.mode = "VALID" => h.nbeams > 0
    BY HeaderHasBeams
  <2> QED  BY <1>1, <1>3, <1>5, <2>1 DEF Ordered, NothingStale
<1> QED
  BY <1>4, <1>5, <1>6, <1>7 DEF Ordered, InStep, Counted, Quitting

\* New files are empty, and the others keep their data.
LEMMA CreatedData ==
  ASSUME StreamInv, Demultiplexed, NEW h, NEW a, NEW m, CreateFils(h, a, m)
  PROVE  Demultiplexed'
<1>1. PICK R : disk' =
        [ k \in Files |->
            IF k[1] = h.obs_id /\ k[2] < m /\ a[k[2]] = "null"
            THEN [status |-> "open", nsecs |-> h.exposure_sec, data |-> <<>>]
            ELSE DiskAfterClose(First(Superseded), R)[k] ]
  BY DEF CreateFils
<1>2. ASSUME NEW k \in Files
      PROVE  disk'[k].data \in {disk[k].data, <<>>}
  <2>1. DiskAfterClose(First(Superseded), R)[k].data = disk[k].data
    BY ClosingFacts DEF StreamInv
  <2> QED  BY <1>1, <2>1
<1> QED  BY <1>2, SameData

\* A new observation finds nothing but null pointers, and starts from zero.
LEMMA StartedOrdered ==
  ASSUME Orderly, StreamInv, BeamsFit, BeamsFit', Ordered,
         NEW h \in Follows(header), OpenStarted(h)
  PROVE  Ordered'
<1> DEFINE n == h.nbeams
<1>1. h \in Headers /\ header \in Headers /\ ctx \in Contexts
  BY FollowsType DEF StreamInv, TypeOK
<1>2. /\ phase = "header" /\ phase' = "data" /\ header' = h /\ sent' = 0
      /\ ctx' = StartedContext(h) /\ NewObservation(h)
      /\ h.mode = "VALID" /\ h.obs_id > 0 /\ h.obs_id = h.subobs_id
  BY DEF OpenStarted, Receive, StartsObservation, NewObservation, Identified,
     MissedBeginning
<1>3. ctx.obs_id = 0 /\ Superseded = 0 /\ ctx.obs_marker_number = 0
  BY <1>2, NeverSuperseded DEF Superseded, Ordered, NothingStale
<1>4. \A b \in Beams : m_File[b] = "null"
  <2>1. HandlesAfterClose(First(Superseded)) = m_File
    BY <1>3, ClosingNone DEF StreamInv
  <2>2. \A b \in Beams : m_File[b] # "open"
    BY <2>1, ClosingAll
  <2>3. \A b \in Beams : m_File[b] # "stale"
    BY <1>2 DEF Ordered, NothingStale
  <2> QED  BY <2>2, <2>3 DEF StreamInv, TypeOK, Handles
<1>5. PICK a \in Allocated(n) : CreateFils(h, a, n)
  BY DEF OpenStarted
<1>6. \A b \in Beams : a[b] = "null"
  <2>1. HandlesAfterClose(First(Superseded)) = m_File
    BY <1>3, ClosingNone DEF StreamInv
  <2> QED  BY <1>4, <1>5, <2>1 DEF Allocated, Fault, Orderly
<1>7. \A b \in Beams : m_File'[b] = IF b < n THEN "open" ELSE "null"
  BY <1>5, <1>6 DEF CreateFils
<1>8. n \in Nat /\ n > 0 /\ n <= MaxBeams
  BY <1>1, <1>2, HeaderNumbers, HeaderHasBeams DEF BeamsFit
<1>9. /\ ctx'.obs_id = h.obs_id /\ ctx'.nbeams_total = n
      /\ ctx'.block_number = 0 /\ ctx'.obs_marker_number = 0
      /\ ctx'.obs_offset = h.obs_offset /\ ctx'.exposure_sec = h.exposure_sec
  BY <1>1, <1>2, <1>3 DEF StartedContext, Contexts
<1>10. fil_obs' = h.obs_id
  BY <1>5 DEF CreateFils
<1>11. \A b \in Live' : m_File'[b] = "open"
  <2> HIDE DEF n
  <2>1. \A b \in 0 .. n - 1 : b \in Beams /\ b < n
    BY <1>8, UpstreamAssumption DEF Beams
  <2> QED  BY <1>7, <1>9, <2>1 DEF Live
<1>12. h.obs_offset = 0
  <2>1. h.subobs_id = h.obs_id + h.obs_offset
    <3>1. h # [header EXCEPT !.mode = "QUIT"]
      BY <1>1, <1>2 DEF Headers
    <3> QED  BY <1>1, <3>1, FollowsKinds DEF Orderly
  <2> QED  BY <1>1, <1>2, <2>1, HeaderNumbers
<1>13. Demultiplexed'
  BY <1>5, CreatedData DEF Ordered
<1>14. InStep' /\ Quitting'
  BY <1>2, <1>8, <1>9, <1>10, <1>11 DEF InStep, Quitting
<1>15. Counted'
  BY <1>2, <1>8, <1>9, <1>12 DEF Counted
<1>16. MarkerIsQuotient'
  <2>1. 0 \div n = 0
    <3> HIDE DEF n
    <3>1. 0 * n = 0
      BY <1>8
    <3> QED  BY <1>8, <3>1, DivisionWhole
  <2> QED  BY <1>9, <1>11, <2>1 DEF MarkerIsQuotient
<1>17. NothingStale'
  BY <1>2, <1>7, <1>8, <1>9 DEF NothingStale
<1> QED  BY <1>13, <1>14, <1>15, <1>16, <1>17 DEF Ordered

\* The process ends in dada_dbfil_open.
LEMMA DiesOrdered ==
  ASSUME Orderly, StreamInv, BeamsFit, Ordered, NEW h \in Follows(header),
         OpenDies(h) \/ OpenCreateDies(h)
  PROVE  Ordered'
<1>1. /\ phase = "header" /\ phase' = "died" /\ header' = h
      /\ NewObservation(h) /\ h.obs_id # 0
  <2>1. h.obs_id > 0 /\ h \in Headers
    BY FollowsType DEF OpenDies, OpenCreateDies, StartsObservation,
       NewObservation, Identified, StreamInv, TypeOK
  <2>2. h.obs_id # 0
    BY <2>1, HeaderNumbers
  <2> QED  BY <2>2 DEF OpenDies, CloseDies, OpenCreateDies, Receive,
     StartsObservation
<1>2. Demultiplexed'
  <2>1. CASE OpenDies(h)
    <3>1. PICK B, R : disk' = DiskAfterClose(B, R)
      BY <2>1 DEF OpenDies, CloseDies
    <3> QED  BY <3>1, ClosingFacts, SameData DEF Ordered, StreamInv
  <2>2. CASE OpenCreateDies(h)
    <3>1. PICK a, m : CreateFils(h, a, m)
      BY <2>2 DEF OpenCreateDies
    <3> QED  BY <3>1, CreatedData DEF Ordered
  <2> QED  BY <2>1, <2>2
<1>3. ctx'.obs_id = 0 => ctx'.obs_marker_number = 0
  <2>1. CASE OpenDies(h)
    BY <2>1 DEF OpenDies, Ordered, NothingStale
  <2>2. CASE OpenCreateDies(h)
    <3>1. ctx'.obs_id = h.obs_id
      BY <2>2 DEF OpenCreateDies, StartedContext, StreamInv, TypeOK, Contexts
    <3> QED  BY <1>1, <3>1
  <2> QED  BY <2>1, <2>2
<1>4. h.mode = "VALID" => h.nbeams > 0
  BY HeaderHasBeams
<1> QED
  BY <1>1, <1>2, <1>3, <1>4 DEF Ordered, InStep, Counted, Quitting, Recording,
     MarkerIsQuotient, NothingStale

LEMMA OpenOrdered ==
  ASSUME Orderly, StreamInv, BeamsFit, BeamsFit', Ordered, dada_dbfil_open
  PROVE  Ordered'
<1>1. PICK h \in Follows(header) :
        \/ OpenQuit(h) \/ OpenRejected(h) \/ OpenContinued(h)
        \/ OpenNotContinued(h) \/ OpenDies(h) \/ OpenSkipped(h)
        \/ OpenUnreadable(h) \/ OpenNoMetafits(h) \/ OpenStarted(h)
        \/ OpenCreateDies(h)
  BY DEF dada_dbfil_open
<1>2. CASE OpenRejected(h)
  <2>1. /\ header' = h /\ phase = "header" /\ phase' = "failed"
        /\ UNCHANGED <<m_File, disk, ctx>>
    BY <1>2 DEF OpenRejected, Receive
  <2> QED  BY <2>1, StoppedOrdered
<1>3. CASE OpenNotContinued(h)
  <2>1. /\ header' = h /\ phase = "header" /\ phase' = "failed"
        /\ UNCHANGED <<m_File, disk>> /\ ctx' = DurationRead(h)
    BY <1>3 DEF OpenNotContinued, Receive
  <2>2. /\ ctx'.obs_id = ctx.obs_id /\ ctx'.nbeams_total = ctx.nbeams_total
        /\ ctx'.block_number = ctx.block_number
        /\ ctx'.obs_marker_number = ctx.obs_marker_number
    BY <2>1 DEF DurationRead, StreamInv, TypeOK, Contexts
  <2> QED  BY <2>1, <2>2, StoppedOrdered
<1> QED
  BY <1>1, <1>2, <1>3, QuitOrdered, ContinuedOrdered, UnrecordedOrdered,
     StartedOrdered, DiesOrdered

-----------------------------------------------------------------------------
(* Blocks *)

\* Appending the right block keeps the files right.
LEMMA AppendDemultiplexed ==
  ASSUME TypeOK, Demultiplexed, NEW j \in Files, NEW tag \in BlockTags,
         tag = [obs |-> j[1], beam |-> j[2], sec |-> Len(disk[j].data)],
         disk' = [disk EXCEPT ![j].data = Append(@, tag)]
  PROVE  Demultiplexed'
<1> DEFINE d == disk[j].data
<1>1. d \in Seq(BlockTags) /\ disk[j] \in FileRecords
  BY DEF TypeOK, FileRecords
<1>2. disk'[j].data = Append(d, tag)
  BY DEF TypeOK, FileRecords
<1>3. \A k \in Files : k # j => disk'[k] = disk[k]
  BY DEF TypeOK
<1>4. ASSUME NEW i \in DOMAIN disk'[j].data
      PROVE  disk'[j].data[i] = [obs |-> j[1], beam |-> j[2], sec |-> i - 1]
  <2> HIDE DEF d
  <2>1. i \in 1 .. Len(d) + 1
    BY <1>1, <1>2, <1>4
  <2>2. CASE i \in 1 .. Len(d)
    <3>1. disk'[j].data[i] = d[i] /\ i \in DOMAIN d
      BY <1>1, <1>2, <2>2
    <3> QED  BY <3>1 DEF Demultiplexed, d
  <2>3. CASE i = Len(d) + 1
    <3>1. disk'[j].data[i] = tag
      BY <1>1, <1>2, <2>3
    <3>2. i - 1 = Len(d)
      BY <1>1, <2>3
    <3> QED  BY <3>1, <3>2 DEF d
  <2> QED  BY <1>1, <2>1, <2>2, <2>3
<1>5. ASSUME NEW k \in Files, NEW i \in DOMAIN disk'[k].data
      PROVE  disk'[k].data[i] = [obs |-> k[1], beam |-> k[2], sec |-> i - 1]
  <2>1. CASE k = j
    BY <1>4, <1>5, <2>1
  <2>2. CASE k # j
    <3>1. disk'[k] = disk[k]
      BY <1>3, <2>2
    <3> QED  BY <1>5, <3>1 DEF Demultiplexed
  <2> QED  BY <2>1, <2>2
<1> QED  BY <1>5 DEF Demultiplexed

LEMMA WrittenOrdered ==
  ASSUME Orderly, StreamInv, BeamsFit, DealtEvenly, Ordered, IoWritten
  PROVE  Ordered'
<1> DEFINE n == header.nbeams
           k == ctx.block_number
           o == header.obs_offset
           b == sent % n
           q == sent \div n
<1>1. header \in Headers /\ ctx \in Contexts /\ sent \in Nat
  BY DEF StreamInv, TypeOK
<1>2. n \in Nat /\ o \in Nat /\ k \in Nat
  BY <1>1, HeaderNumbers DEF Contexts
<1>3. /\ phase = "data" /\ ctx.obs_id # 0 /\ sent < Blocks(header)
      /\ phase' \in {"data", "died"} /\ sent' = sent + 1
      /\ UNCHANGED <<header, g_quit, m_File, fil_obs>>
  BY DEF IoWritten, BlockReady, Fault
<1>4. Recording
  BY <1>3 DEF Recording
<1>5. /\ header.obs_id = ctx.obs_id /\ header.obs_id = fil_obs
      /\ n = ctx.nbeams_total /\ n > 0 /\ header.mode # "NONE"
      /\ \A c \in Live : m_File[c] = "open"
  BY <1>4 DEF Ordered, InStep
<1>6. header.mode = "VALID"
  BY <1>1, <1>3, <1>5 DEF Blocks, Headers
<1>7. k = o * n + sent
  BY <1>4, <1>6 DEF Ordered, Counted
<1>8. /\ b \in 0 .. n - 1 /\ q \in Nat /\ k % n = b /\ k \div n = o + q
  <2> HIDE DEF n, o, k
  <2>1. n \in Nat \ {0}
    BY <1>2, <1>5
  <2>2. q \in Nat /\ b \in 0 .. n - 1
    BY <1>1, <2>1, Division
  <2>3. (o * n + sent) % n = sent % n /\ (o * n + sent) \div n = o + (sent \div n)
    BY <1>1, <1>2, <2>1, DivisionShift
  <2> QED  BY <1>7, <2>2, <2>3
<1>9. NextBeam = b /\ b \in Live /\ b \in Beams
  BY <1>5, <1>8, LiveBeams DEF NextBeam, Live
<1> DEFINE j == <<fil_obs, b>>
<1>10. j \in Files /\ fil_obs \in ObsIds
  <2>1. fil_obs \in ObsIds
    BY <1>3, <1>5 DEF StreamInv, TypeOK
  <2> QED  BY <1>9, <2>1 DEF Files
<1>11. Len(disk[j].data) = o + q
  <2>1. Len(disk[j].data) = (k \div n) + (IF b < k % n THEN 1 ELSE 0)
    BY <1>3, <1>5, <1>9 DEF DealtEvenly
  <2>2. ~(b < b)
    BY <1>8
  <2>3. (o + q) + 0 = o + q
    BY <1>2, <1>8
  <2> HIDE DEF b, q, n, o, k
  <2> QED  BY <1>8, <2>1, <2>2, <2>3
<1>12. Block(header, sent)
         = [obs |-> j[1], beam |-> j[2], sec |-> Len(disk[j].data)]
  BY <1>5, <1>11 DEF Block
<1>13. Demultiplexed'
  <2>1. Block(header, sent) \in BlockTags
    BY <1>1, <1>3, BlockType
  <2>2. Targets(NextBeam) = {{b}}
    BY <1>5, <1>9 DEF Targets
  <2>3. disk' = [ f \in Files |->
                    IF f[1] = fil_obs /\ f[2] \in {b}
                    THEN [disk[f] EXCEPT !.data = Append(@, Block(header, sent))]
                    ELSE disk[f] ]
    BY <2>2 DEF IoWritten
  <2>4. \A f \in Files : (f[1] = fil_obs /\ f[2] \in {b}) <=> f = j
    BY FilePairs
  <2>5. disk' = [disk EXCEPT ![j].data = Append(@, Block(header, sent))]
    <3> HIDE DEF j
    <3> QED  BY <1>10, <2>3, <2>4 DEF StreamInv, TypeOK
  <2> HIDE DEF j
  <2> QED  BY <1>10, <1>12, <2>1, <2>5, AppendDemultiplexed
           DEF StreamInv, Ordered
<1>14. /\ ctx'.obs_id = ctx.obs_id /\ ctx'.nbeams_total = n
       /\ ctx'.obs_offset = ctx.obs_offset
       /\ ctx'.exposure_sec = ctx.exposure_sec
       /\ ctx'.block_number = k + 1
       /\ ctx'.obs_marker_number = Marked(ctx.obs_marker_number)
  BY <1>1, <1>5 DEF IoWritten, Contexts
<1>15. InStep'
  BY <1>3, <1>4, <1>5, <1>14 DEF Ordered, InStep, Live
<1>16. Counted'
  <2>1. k + 1 = o * n + (sent + 1)
    <3> DEFINE p == o * n
    <3>1. p \in Nat
      BY <1>2
    <3>2. k = p + sent
      BY <1>7
    <3> HIDE DEF p, k
    <3>3. k + 1 = p + (sent + 1)
      BY <1>1, <3>1, <3>2
    <3> QED  BY <3>3 DEF p
  <2> HIDE DEF k, o, n
  <2>2. UNCHANGED <<o, n>>
    BY <1>3 DEF o, n
  <2>3. ctx'.block_number = o' * n' + sent'
    BY <1>3, <1>14, <2>1, <2>2
  <2> QED  BY <1>3, <2>3 DEF Counted, Recording, o, n
<1>17. Quitting'
  BY <1>3, <1>6 DEF Quitting
<1>18. MarkerIsQuotient'
  <2>1. ctx.obs_marker_number = k \div n
    BY <1>3, <1>5, <1>9 DEF Ordered, MarkerIsQuotient
  <2>2. Marked(ctx.obs_marker_number) = (k + 1) \div n
    <3>1. Marked(ctx.obs_marker_number)
            = IF k % n = n - 1 THEN (k \div n) + 1 ELSE k \div n
      BY <1>5, <2>1 DEF Marked, NextBeam
    <3> HIDE DEF n, k
    <3> QED  BY <1>2, <1>5, <3>1, DivisionNext
  <2> QED  BY <1>3, <1>5, <1>14, <2>2 DEF MarkerIsQuotient, Live
<1>19. NothingStale'
  BY <1>3, <1>14 DEF Ordered, NothingStale
<1> QED  BY <1>13, <1>15, <1>16, <1>17, <1>18, <1>19 DEF Ordered

LEMMA IoOrdered ==
  ASSUME Orderly, StreamInv, BeamsFit, DealtEvenly, Ordered, dada_dbfil_io
  PROVE  Ordered'
<1>1. CASE IoIgnored
  BY <1>1 DEF IoIgnored, Ordered, Demultiplexed, InStep, Counted, Quitting,
     Recording, MarkerIsQuotient, NothingStale, Live
<1>2. CASE IoFailed
  <2>1. phase = "data" /\ phase' \in {"failed", "died"}
        /\ UNCHANGED <<header, sent, g_quit, ctx, m_File, fil_obs, disk>>
    BY <1>2 DEF IoFailed, BlockReady
  <2> QED  BY <2>1 DEF Ordered, Demultiplexed, InStep, Counted, Quitting,
     Recording, MarkerIsQuotient, NothingStale, Live
<1> QED  BY <1>1, <1>2, WrittenOrdered DEF dada_dbfil_io

-----------------------------------------------------------------------------
(* The end of a sub-observation *)

LEMMA CloseOrdered ==
  ASSUME Orderly, StreamInv, BeamsFit, Ordered, dada_dbfil_close
  PROVE  Ordered'
<1>1. header \in Headers /\ ctx \in Contexts
  BY DEF StreamInv, TypeOK
<1>2. EndOfData /\ phase = "data"
  BY DEF dada_dbfil_close, CloseWaiting, CloseIdle, CloseOverrun,
     CloseFinished, CloseFinishedDies, EndOfData
<1>3. CASE CloseWaiting
  <2>1. /\ ctx.obs_id # 0 /\ ctx.obs_marker_number < ctx.exposure_sec
        /\ phase' = "returned"
        /\ UNCHANGED <<header, sent, g_quit, ctx, m_File, fil_obs, disk>>
    BY <1>3 DEF CloseWaiting
  <2>2. Recording /\ header.nbeams > 0
    BY <1>2, <2>1 DEF Recording, Ordered, InStep
  <2>3. header.mode = "VALID" => sent = SecsPerSubobs * header.nbeams
    BY <1>2 DEF EndOfData, Blocks, Orderly
  <2>4. Counted'
    BY <2>1, <2>2, <2>3 DEF Ordered, Counted
  <2> QED
    BY <1>2, <2>1, <2>2, <2>4 DEF Ordered, Demultiplexed, InStep, Quitting,
       Recording, MarkerIsQuotient, NothingStale, Live
<1>4. CASE CloseIdle
  BY <1>2, <1>4 DEF CloseIdle, Ordered, Demultiplexed, InStep, Counted, Quitting,
     Recording, MarkerIsQuotient, NothingStale, Live
<1>5. CASE CloseOverrun
  BY <1>5 DEF CloseOverrun, Ordered, Demultiplexed, InStep, Counted, Quitting,
     Recording, MarkerIsQuotient, NothingStale, Live
<1>6. CASE CloseFinished
  <2>1. /\ \A b \in Beams : m_File'[b] = "null"
        /\ ctx' = FinishedContext /\ header' = header
    BY <1>6 DEF CloseFinished
  <2>2. ctx'.obs_id = 0 /\ ctx'.obs_marker_number = 0
    BY <1>1, <2>1 DEF FinishedContext, Contexts
  <2>3. PICK B, R : disk' = DiskAfterClose(B, R)
    BY <1>6 DEF CloseFinished, Closed
  <2>4. Demultiplexed'
    BY <2>3, ClosingFacts, SameData DEF Ordered, StreamInv
  <2> QED
    BY <2>1, <2>2, <2>4 DEF Ordered, InStep, Counted, Quitting, Recording,
       MarkerIsQuotient, NothingStale
<1>7. CASE CloseFinishedDies
  <2>1. phase' = "died" /\ UNCHANGED <<header, ctx>>
    BY <1>7 DEF CloseFinishedDies, CloseDies
  <2>2. PICK B, R : disk' = DiskAfterClose(B, R)
    BY <1>7 DEF CloseFinishedDies, CloseDies
  <2>3. Demultiplexed'
    BY <2>2, ClosingFacts, SameData DEF Ordered, StreamInv
  <2> QED
    BY <2>1, <2>3 DEF Ordered, InStep, Counted, Quitting, Recording,
       MarkerIsQuotient, NothingStale
<1> QED  BY <1>3, <1>4, <1>5, <1>6, <1>7 DEF dada_dbfil_close

-----------------------------------------------------------------------------
(* The specification *)

LEMMA OrderedStep ==
  Orderly /\ StreamInv /\ BeamsFit /\ DealtEvenly /\ Ordered /\ [Next]_vars
    => Ordered'
<1> SUFFICES ASSUME Orderly, StreamInv, BeamsFit, DealtEvenly, Ordered,
                    [Next]_vars
             PROVE  Ordered'
  OBVIOUS
<1>1. CASE dada_dbfil_open
  BY <1>1, OpenOrdered, BeamsFitStep
<1>2. CASE MainLoop
  <2>1. /\ phase \in {"returned", "failed"}
        /\ phase' \in {"header", "exited"}
        /\ g_quit' = (g_quit \/ phase = "failed")
        /\ (g_quit' => phase' = "exited")
        /\ UNCHANGED <<header, sent, ctx, m_File, fil_obs, disk>>
    BY <1>2 DEF MainLoop, Fault
  <2>2. phase = "failed" => phase' = "exited"
    BY <2>1
  <2>3. Recording' => Recording /\ ~g_quit
    BY <2>1, <2>2 DEF Recording
  <2>4. InStep' /\ Counted' /\ Quitting'
    BY <2>1, <2>2, <2>3 DEF Ordered, InStep, Counted, Quitting, Recording, Live
  <2> QED
    BY <2>1, <2>4 DEF Ordered, Demultiplexed, MarkerIsQuotient, NothingStale,
       Live
<1>3. CASE sig_handler
  BY <1>3 DEF sig_handler, Ordered, Demultiplexed, InStep, Counted, Quitting,
     Recording, MarkerIsQuotient, NothingStale, Live
<1>4. CASE HealthFails
  BY <1>4 DEF HealthFails, Ordered, Demultiplexed, InStep, Counted, Quitting,
     Recording, MarkerIsQuotient, NothingStale, Live
<1>5. CASE Restart
  <2>1. /\ ctx'.obs_id = 0 /\ ctx'.obs_marker_number = 0 /\ header' = header
        /\ \A b \in Beams : m_File'[b] = "null"
    BY <1>5 DEF Restart, NoContext
  <2>2. \A k \in Files : disk'[k].data = disk[k].data
    BY <1>5 DEF Restart, StreamInv, TypeOK, FileRecords
  <2>3. Demultiplexed'
    BY <2>2, SameData DEF Ordered
  <2> QED
    BY <2>1, <2>3 DEF Ordered, InStep, Counted, Quitting, Recording,
       MarkerIsQuotient, NothingStale
<1>6. CASE UNCHANGED vars
  BY <1>6 DEF vars, Ordered, Demultiplexed, InStep, Counted, Quitting,
     Recording, MarkerIsQuotient, NothingStale, Live
<1> QED
  BY <1>1, <1>2, <1>3, <1>4, <1>5, <1>6, IoOrdered, CloseOrdered
  DEF Next, Ended

LEMMA OrderedInit == Init => Ordered /\ BeamsFit /\ DealtEvenly
<1> SUFFICES ASSUME Init PROVE Ordered /\ BeamsFit /\ DealtEvenly
  OBVIOUS
<1>1. BeamsFit /\ DealtEvenly
  BY UpstreamAssumption DEF Init, NoContext, NoHeader, Header, BeamsFit,
     DealtEvenly
<1>2. Demultiplexed
  BY DEF Init, NoFile, Demultiplexed
<1>3. InStep /\ Counted /\ Quitting /\ MarkerIsQuotient /\ NothingStale
  BY DEF Init, NoContext, NoHeader, Header, InStep, Counted, Quitting,
     Recording, MarkerIsQuotient, NothingStale
<1> QED  BY <1>1, <1>2, <1>3 DEF Ordered

\* The conjunction that is inductive.
THEOREM OrderlyInvariant == ASSUME Orderly PROVE Spec => []OrderlyInv
<1>1. Init => StreamInv /\ BeamsFit /\ DealtEvenly /\ Ordered
  BY StreamInit, OrderedInit
<1>2. /\ StreamInv /\ BeamsFit /\ DealtEvenly /\ Ordered
      /\ [Next]_vars
      => (StreamInv /\ BeamsFit /\ DealtEvenly /\ Ordered)'
  BY StreamStep, BeamsFitStep, DealtStep, OrderedStep
<1>3. StreamInv /\ BeamsFit /\ DealtEvenly /\ Ordered => OrderlyInv
  BY DEF Ordered, OrderlyInv
<1> QED  BY <1>1, <1>2, <1>3, PTL DEF Spec

\* As long as no observation is cut short, no sub-observation truncated and the
\* heap is clean, the samples of each file are those of its beam of its
\* observation, from the first second on and without a gap.
THEOREM AlwaysDemultiplexed == ASSUME Orderly PROVE Spec => []Demultiplexed
<1>1. OrderlyInv => Demultiplexed
  BY DEF OrderlyInv
<1> QED  BY <1>1, OrderlyInvariant, PTL

\* The marker is the share of every beam if it is the quotient.
LEMMA QuotientCounts ==
  StreamInv /\ DealtEvenly /\ MarkerIsQuotient => MarkerCountsSeconds
<1> SUFFICES ASSUME StreamInv, DealtEvenly, MarkerIsQuotient, NEW k \in Files,
                    disk[k].status = "open", phase # "died"
             PROVE  Len(disk[k].data) =
                      ctx.obs_marker_number
                        + (IF k[2] < ctx.block_number % ctx.nbeams_total
                           THEN 1 ELSE 0)
  BY DEF MarkerCountsSeconds
<1>1. /\ k[1] = ctx.obs_id /\ k[1] = fil_obs /\ k[2] \in Live
      /\ m_File[k[2]] = "open"
  BY DEF StreamInv, NoStreamLeaked
<1>2. k = <<fil_obs, k[2]>> /\ k[2] \in Beams /\ ctx.obs_id # 0
  BY <1>1, FilePairs, UpstreamAssumption
<1>3. /\ \A b \in Live : m_File[b] = "open"
      /\ ctx.obs_marker_number = ctx.block_number \div ctx.nbeams_total
  BY <1>1, <1>2 DEF MarkerIsQuotient
<1> QED  BY <1>1, <1>2, <1>3 DEF DealtEvenly

\* ... and the marker by which the end of the observation is recognised counts
\* the seconds in the files.
THEOREM MarkerAlwaysCounts == ASSUME Orderly PROVE Spec => []MarkerCountsSeconds
<1>1. OrderlyInv => MarkerCountsSeconds
  BY QuotientCounts DEF OrderlyInv
<1> QED  BY <1>1, OrderlyInvariant, PTL

-----------------------------------------------------------------------------
(* The end of an observation *)

\* MODE=QUIT never completes an observation.
QuitShort ==
  Recording /\ header.mode = "QUIT" => ctx.obs_marker_number < ctx.exposure_sec

\* The invariants proved so far.
Proved == StreamInv /\ BeamsFit /\ DealtEvenly /\ Ordered /\ QuitShort

\* MODE=QUIT comes between two sub-observations, and nothing is written after it.
LEMMA QuitKeeps ==
  ASSUME StreamInv, [Next]_vars, Recording', header'.mode = "QUIT"
  PROVE  Recording /\ ctx' = ctx /\ (header.mode = "QUIT" \/ phase = "header")
<1>1. header \in Headers /\ ctx \in Contexts
  BY DEF StreamInv, TypeOK
<1>2. CASE dada_dbfil_open
  <2>1. PICK h \in Follows(header) :
          \/ OpenQuit(h) \/ OpenRejected(h) \/ OpenContinued(h)
          \/ OpenNotContinued(h) \/ OpenDies(h) \/ OpenSkipped(h)
          \/ OpenUnreadable(h) \/ OpenNoMetafits(h) \/ OpenStarted(h)
          \/ OpenCreateDies(h)
    BY <1>2 DEF dada_dbfil_open
  <2>2. header' = h /\ phase = "header"
    BY <2>1 DEF OpenQuit, OpenRejected, OpenContinued, OpenNotContinued,
       OpenDies, OpenSkipped, OpenUnreadable, OpenNoMetafits, OpenStarted,
       OpenCreateDies, Receive
  <2>3. OpenQuit(h) \/ OpenRejected(h)
    BY <2>1, <2>2 DEF OpenContinued, OpenNotContinued, OpenDies, OpenSkipped,
       OpenUnreadable, OpenNoMetafits, OpenStarted, OpenCreateDies,
       StartsObservation, NewObservation, Continuation, Identified
  <2>4. OpenQuit(h) /\ ctx' = ctx
    BY <2>2, <2>3 DEF OpenQuit, OpenRejected
  <2> QED  BY <2>2, <2>4 DEF Recording
<1>3. CASE dada_dbfil_io
  <2>1. header' = header /\ phase = "data" /\ sent < Blocks(header)
    BY <1>3 DEF dada_dbfil_io, IoIgnored, IoWritten, IoFailed, BlockReady
  <2> QED  BY <2>1 DEF Blocks, StreamInv, TypeOK
<1>4. CASE dada_dbfil_close
  <2>1. CASE CloseWaiting \/ CloseIdle
    BY <2>1 DEF CloseWaiting, CloseIdle, EndOfData, Recording
  <2>2. CASE CloseOverrun \/ CloseFinishedDies
    BY <2>2 DEF CloseOverrun, CloseFinishedDies, CloseDies, Recording
  <2>3. CASE CloseFinished
    BY <1>1, <2>3 DEF CloseFinished, FinishedContext, Contexts, Recording
  <2> QED  BY <1>4, <2>1, <2>2, <2>3 DEF dada_dbfil_close
<1>5. CASE MainLoop
  <2>1. phase = "failed" => phase' = "exited"
    BY <1>5 DEF MainLoop
  <2>2. phase \in {"returned", "failed"} /\ UNCHANGED <<header, ctx>>
    BY <1>5 DEF MainLoop
  <2> QED  BY <2>1, <2>2 DEF Recording
<1>6. CASE sig_handler \/ HealthFails \/ UNCHANGED vars
  BY <1>6 DEF sig_handler, HealthFails, vars, Recording
<1>7. CASE Restart
  BY <1>7 DEF Restart, NoContext, Recording
<1> QED  BY <1>2, <1>3, <1>4, <1>5, <1>6, <1>7 DEF Next, Ended

LEMMA ProvedStep == Orderly /\ Proved /\ [Next]_vars => Proved'
<1> SUFFICES ASSUME Orderly, Proved, [Next]_vars PROVE Proved'
  OBVIOUS
<1>1. (StreamInv /\ BeamsFit /\ DealtEvenly /\ Ordered)'
  BY StreamStep, BeamsFitStep, DealtStep, OrderedStep DEF Proved
<1>2. ASSUME Recording', header'.mode = "QUIT"
      PROVE  ctx'.obs_marker_number < ctx'.exposure_sec
  <2>1. Recording /\ ctx' = ctx /\ (header.mode = "QUIT" \/ phase = "header")
    BY <1>2, QuitKeeps DEF Proved
  <2>2. CASE header.mode = "QUIT"
    BY <2>1, <2>2 DEF Proved, QuitShort
  <2>3. CASE header.mode # "QUIT" /\ phase = "header"
    <3>1. header.mode = "VALID"
      BY <2>1, <2>3 DEF Proved, StreamInv, TypeOK, Headers, Ordered, InStep
    <3> QED  BY <2>1, <2>3, <3>1 DEF Proved, Ordered, Counted
  <2> QED  BY <2>1, <2>2, <2>3
<1> QED  BY <1>1, <1>2 DEF Proved, QuitShort

LEMMA ProvedInit == Init => Proved
<1>1. Init => QuitShort
  BY DEF Init, NoContext, QuitShort, Recording
<1> QED  BY <1>1, StreamInit, OrderedInit DEF Proved

LEMMA ProvedAlways == ASSUME Orderly PROVE Spec => []Proved
BY ProvedInit, ProvedStep, PTL DEF Spec

LEMMA Division0 ==
  ASSUME NEW n \in Nat \ {0}, NEW o \in Nat
  PROVE  (o * n) % n = 0
<1>1. o * n = n * o + 0 /\ 0 \in 0 .. n - 1
  OBVIOUS
<1> QED  BY <1>1, DivisionUnique

\* At the end of the observation every file has as many seconds as expected.
LEMMA FinishedWhole ==
  ASSUME Orderly, Proved, EndOfData, ctx.obs_id # 0, EndOfObservation,
         NEW b \in Live
  PROVE  Len(disk[<<fil_obs, b>>].data) = ctx.exposure_sec
<1> DEFINE n == header.nbeams
           o == header.obs_offset
<1>1. header \in Headers /\ ctx \in Contexts /\ phase = "data"
  BY DEF Proved, StreamInv, TypeOK, EndOfData
<1>2. n \in Nat /\ o \in Nat /\ SecsPerSubobs \in Nat
      /\ ctx.exposure_sec \in Nat
  BY <1>1, HeaderNumbers, UpstreamAssumption DEF Contexts
<1>3. Recording
  BY <1>1 DEF Recording
<1>4. n = ctx.nbeams_total /\ n > 0 /\ header.mode # "NONE"
      /\ \A c \in Live : m_File[c] = "open"
  BY <1>3 DEF Proved, Ordered, InStep
<1>5. ctx.obs_marker_number = ctx.exposure_sec
  BY DEF EndOfObservation
<1>6. header.mode = "VALID"
  <2>1. ~(ctx.obs_marker_number < ctx.exposure_sec)
    BY <1>2, <1>5
  <2> QED  BY <1>1, <1>3, <1>4, <2>1 DEF Proved, QuitShort, Headers
<1>7. sent = SecsPerSubobs * n /\ ctx.block_number = o * n + sent
  BY <1>3, <1>6 DEF EndOfData, Blocks, Orderly, Proved, Ordered, Counted
<1>8. ctx.block_number % n = 0
  <2> HIDE DEF n, o
  <2>1. ctx.block_number = (o + SecsPerSubobs) * n
    BY <1>2, <1>7
  <2> QED  BY <1>2, <1>4, <2>1, Division0
<1>9. ctx.obs_marker_number = ctx.block_number \div n
  BY <1>1, <1>4, LiveBeams DEF Proved, Ordered, MarkerIsQuotient
<1>10. Len(disk[<<fil_obs, b>>].data)
         = (ctx.block_number \div n) + (IF b < ctx.block_number % n THEN 1 ELSE 0)
  BY <1>1, <1>4 DEF Proved, DealtEvenly
<1>11. ~(b < 0)
  <2> HIDE DEF n
  <2> QED  BY <1>2, <1>4 DEF Live
<1> HIDE DEF n
<1> QED  BY <1>2, <1>5, <1>8, <1>9, <1>10, <1>11

\* A close that ends an observation: EOF comes from nowhere else.
LEMMA FinishingStep ==
  ASSUME [Next]_vars, ctx.obs_id # 0, FinishesNow
  PROVE  CloseFinished /\ EndOfData /\ EndOfObservation
<1>1. phase = "data" /\ phase' = "returned" /\ ctx'.obs_id = 0
  BY DEF FinishesNow
<1>2. dada_dbfil_close
  BY <1>1 DEF Next, dada_dbfil_open, OpenQuit, OpenRejected, OpenContinued,
     OpenNotContinued, OpenDies, OpenSkipped, OpenUnreadable, OpenNoMetafits,
     OpenStarted, OpenCreateDies, Receive, dada_dbfil_io, IoIgnored, IoWritten,
     IoFailed, Fault, MainLoop, sig_handler, HealthFails, Restart, Ended, vars
<1>3. CloseFinished
  BY <1>1, <1>2 DEF dada_dbfil_close, CloseWaiting, CloseIdle, CloseOverrun,
     CloseFinishedDies, CloseDies
<1> QED  BY <1>3 DEF CloseFinished, ClosesFiles

\* As long as no observation is cut short, no sub-observation truncated and the
\* heap is clean, the client takes an observation for finished only when each
\* of its files holds EXPOSURE_SECS seconds: also when EXPOSURE_SECS changed on
\* the way, headers were lost, repeated or unusable, files failed and the
\* program was started again.
THEOREM FinishedIsReal == ASSUME Orderly PROVE Spec => EndOfObservationIsReal
<1>1. Proved /\ [Next]_vars =>
        [ ctx.obs_id # 0 /\ FinishesNow =>
            \A b \in Live :
              m_File[b] = "open" =>
                Len(disk[<<ctx.obs_id, b>>].data) = ctx.exposure_sec ]_vars
  <2> SUFFICES ASSUME Proved, [Next]_vars, ctx.obs_id # 0, FinishesNow,
                      NEW b \in Live
               PROVE  Len(disk[<<ctx.obs_id, b>>].data) = ctx.exposure_sec
    OBVIOUS
  <2>1. EndOfData /\ EndOfObservation /\ fil_obs = ctx.obs_id
    <3>1. EndOfData /\ EndOfObservation
      BY FinishingStep
    <3>2. Recording
      BY <3>1 DEF EndOfData, Recording
    <3> QED  BY <3>1, <3>2 DEF Proved, Ordered, InStep
  <2> QED  BY <2>1, FinishedWhole
<1> QED  BY <1>1, ProvedAlways, PTL DEF Spec, EndOfObservationIsReal

-----------------------------------------------------------------------------
(* The marker, where sub-observations may be truncated *)

\* A header of another observation comes while one is being recorded.
Supersedes == dada_dbfil_open /\ ctx.obs_id # 0 /\ NewObservation(header')

\* What is needed of the marker and the pointers if that never happens.
Marking ==
  /\ MarkerIsQuotient
  /\ phase # "died" => \A b \in Beams : m_File[b] # "stale"
  /\ ctx.obs_id = 0 => ctx.obs_marker_number = 0

\* Where nothing is being recorded there are no streams, only null pointers.
LEMMA IdleNull ==
  ASSUME StreamInv, Marking, phase # "died", ctx.obs_id = 0
  PROVE  /\ \A b \in Beams : m_File[b] = "null"
         /\ HandlesAfterClose(First(Superseded)) = m_File
<1>1. HandlesAfterClose(First(Superseded)) = m_File
  BY ClosingNone DEF StreamInv, Superseded
<1>2. \A b \in Beams : m_File[b] # "open"
  BY <1>1, ClosingAll
<1> QED  BY <1>1, <1>2 DEF Marking, StreamInv, TypeOK, Handles

\* The pointers and the marker's place stay as they are, or the process dies.
LEMMA MarkingKept ==
  ASSUME StreamInv, Marking,
         ctx'.obs_id = 0 => ctx'.obs_marker_number = 0,
         \/ phase' = "died"
         \/ /\ phase # "died" /\ m_File' = m_File
            /\ ctx'.nbeams_total = ctx.nbeams_total
            /\ ctx'.block_number = ctx.block_number
            /\ ctx'.obs_marker_number = ctx.obs_marker_number
  PROVE  Marking'
BY DEF Marking, MarkerIsQuotient, Live

\* Null pointers satisfy it whatever the counters.
LEMMA MarkingNull ==
  ASSUME \A b \in Beams : m_File'[b] = "null",
         ctx'.obs_id = 0 => ctx'.obs_marker_number = 0
  PROVE  Marking'
BY DEF Marking, MarkerIsQuotient

\* A new observation gets streams for all its beams and starts from zero.
LEMMA StartedMarking ==
  ASSUME "dirtyheap" \notin Faults, StreamInv, BeamsFit', Marking,
         ctx.obs_id = 0, NEW h \in Headers, OpenStarted(h)
  PROVE  Marking'
<1> DEFINE n == h.nbeams
<1>1. /\ phase = "header" /\ header' = h /\ ctx' = StartedContext(h)
      /\ h.obs_id > 0
  BY DEF OpenStarted, Receive, StartsObservation, NewObservation, Identified
<1>2. /\ \A b \in Beams : m_File[b] = "null"
      /\ HandlesAfterClose(First(Superseded)) = m_File
  BY <1>1, IdleNull
<1>3. PICK a \in Allocated(n) : CreateFils(h, a, n)
  BY DEF OpenStarted
<1>4. \A b \in Beams : a[b] = "null"
  BY <1>2, <1>3 DEF Allocated, Fault
<1>5. \A b \in Beams : m_File'[b] = IF b < n THEN "open" ELSE "null"
  BY <1>3, <1>4 DEF CreateFils
<1>6. n \in Nat /\ n <= MaxBeams /\ h.obs_id # 0
  BY <1>1, HeaderNumbers DEF BeamsFit
<1>7. /\ ctx'.obs_id # 0 /\ ctx'.nbeams_total = n
      /\ ctx'.block_number = 0 /\ ctx'.obs_marker_number = 0
  BY <1>1, <1>6 DEF StartedContext, Marking, StreamInv, TypeOK, Contexts
<1>8. \A b \in Live' : m_File'[b] = "open"
  <2> HIDE DEF n
  <2>1. \A b \in 0 .. n - 1 : b \in Beams /\ b < n
    BY <1>6, UpstreamAssumption DEF Beams
  <2> QED  BY <1>5, <1>7, <2>1 DEF Live
<1>9. ASSUME NEW b \in Beams, m_File'[b] = "open"
      PROVE  0 \div n = 0
  <2>1. b < n /\ b \in Nat
    BY <1>5, <1>9 DEF Beams
  <2> HIDE DEF n
  <2>2. n \in Nat \ {0} /\ 0 * n = 0
    BY <1>6, <2>1
  <2> QED  BY <2>2, DivisionWhole
<1>10. MarkerIsQuotient'
  BY <1>7, <1>8, <1>9 DEF MarkerIsQuotient
<1> QED  BY <1>5, <1>7, <1>10 DEF Marking

LEMMA OpenMarking ==
  ASSUME "dirtyheap" \notin Faults, StreamInv, BeamsFit', Marking,
         dada_dbfil_open, ~Supersedes
  PROVE  Marking'
<1> USE DEF Receive
<1>1. PICK h \in Follows(header) :
        \/ OpenQuit(h) \/ OpenRejected(h) \/ OpenContinued(h)
        \/ OpenNotContinued(h) \/ OpenDies(h) \/ OpenSkipped(h)
        \/ OpenUnreadable(h) \/ OpenNoMetafits(h) \/ OpenStarted(h)
        \/ OpenCreateDies(h)
  BY DEF dada_dbfil_open
<1>2. h \in Headers /\ ctx \in Contexts
  BY FollowsType DEF StreamInv, TypeOK
<1>3. header' = h /\ phase = "header"
  BY <1>1 DEF OpenQuit, OpenRejected, OpenContinued, OpenNotContinued,
     OpenDies, OpenSkipped, OpenUnreadable, OpenNoMetafits, OpenStarted,
     OpenCreateDies
<1>4. NewObservation(h) => ctx.obs_id = 0 /\ h.obs_id # 0
  <2>1. NewObservation(h) => ctx.obs_id = 0
    BY <1>3 DEF Supersedes
  <2>2. NewObservation(h) => h.obs_id # 0
    BY <1>2, HeaderNumbers DEF NewObservation, Identified
  <2> QED  BY <2>1, <2>2
<1>5. CASE OpenQuit(h) \/ OpenRejected(h)
  <2>1. UNCHANGED <<ctx, m_File>>
    BY <1>5 DEF OpenQuit, OpenRejected
  <2> QED  BY <1>3, <2>1, MarkingKept DEF Marking
<1>6. CASE OpenContinued(h) \/ OpenNotContinued(h)
  <2>1. /\ ctx'.nbeams_total = ctx.nbeams_total /\ m_File' = m_File
        /\ ctx'.block_number = ctx.block_number
        /\ ctx'.obs_marker_number = ctx.obs_marker_number
        /\ ctx'.obs_id = ctx.obs_id
    BY <1>2, <1>6 DEF OpenContinued, OpenNotContinued, DurationRead, Contexts
  <2> QED  BY <1>3, <2>1, MarkingKept DEF Marking
<1>7. CASE OpenSkipped(h) \/ OpenUnreadable(h) \/ OpenNoMetafits(h)
  <2>1. /\ NewObservation(h)
        /\ m_File' = HandlesAfterClose(First(Superseded))
    BY <1>7 DEF OpenSkipped, OpenUnreadable, OpenNoMetafits, StartsObservation
  <2>2. \A b \in Beams : m_File'[b] = "null"
    BY <1>3, <1>4, <2>1, IdleNull
  <2>3. ctx'.obs_marker_number = ctx.obs_marker_number
    BY <1>2, <1>7
    DEF OpenSkipped, OpenUnreadable, OpenNoMetafits, StartedContext, Contexts
  <2> QED  BY <1>4, <2>1, <2>2, <2>3, MarkingNull DEF Marking
<1>8. CASE OpenDies(h)
  <2>1. phase' = "died" /\ ctx' = ctx
    BY <1>8 DEF OpenDies, CloseDies
  <2> QED  BY <2>1, MarkingKept DEF Marking
<1>9. CASE OpenCreateDies(h)
  <2>1. phase' = "died" /\ ctx' = StartedContext(h) /\ NewObservation(h)
    BY <1>9 DEF OpenCreateDies, StartsObservation
  <2>2. ctx'.obs_id # 0
    BY <1>2, <1>4, <2>1 DEF StartedContext, Contexts
  <2> QED  BY <2>1, <2>2, MarkingKept
<1>10. CASE OpenStarted(h)
  <2>1. ctx.obs_id = 0
    BY <1>4, <1>10 DEF OpenStarted, StartsObservation
  <2> QED  BY <1>2, <1>10, <2>1, StartedMarking
<1> QED  BY <1>1, <1>5, <1>6, <1>7, <1>8, <1>9, <1>10

\* A block raises the marker exactly when it is the last of its second.
LEMMA WrittenMarking ==
  ASSUME StreamInv, Marking, IoWritten
  PROVE  Marking'
<1> DEFINE n == ctx.nbeams_total
           k == ctx.block_number
<1>1. ctx \in Contexts /\ n \in Nat /\ k \in Nat
  BY DEF StreamInv, TypeOK, Contexts
<1>2. /\ phase = "data" /\ m_File' = m_File /\ ctx.obs_id # 0
      /\ ctx'.obs_id = ctx.obs_id /\ ctx'.nbeams_total = n
      /\ ctx'.block_number = k + 1
      /\ ctx'.obs_marker_number = Marked(ctx.obs_marker_number)
  BY <1>1 DEF IoWritten, BlockReady, Contexts
<1>3. ASSUME NEW b \in Beams, m_File[b] = "open"
      PROVE  /\ \A c \in Live : m_File[c] = "open"
             /\ Marked(ctx.obs_marker_number) = (k + 1) \div n
  <2>1. /\ \A c \in Live : m_File[c] = "open"
        /\ ctx.obs_marker_number = k \div n
    BY <1>2, <1>3 DEF Marking, MarkerIsQuotient
  <2>2. n > 0
    <3>1. fil_obs # 0 /\ disk[<<fil_obs, b>>].status = "open"
      BY <1>3 DEF StreamInv, HandlesOpen
    <3>2. <<fil_obs, b>> \in Files
      BY <3>1 DEF StreamInv, TypeOK, Files
    <3>3. b \in Live /\ b \in Nat
      BY <3>1, <3>2 DEF StreamInv, NoStreamLeaked, Beams
    <3> QED  BY <1>1, <3>3 DEF Live
  <2>3. Marked(ctx.obs_marker_number)
          = IF k % n = n - 1 THEN (k \div n) + 1 ELSE k \div n
    BY <2>1 DEF Marked, NextBeam
  <2>4. Marked(ctx.obs_marker_number) = (k + 1) \div n
    <3>1. k \in Nat /\ n \in Nat \ {0}
      BY <1>1, <2>2
    <3> HIDE DEF n, k
    <3>2. (k + 1) \div n = IF k % n = n - 1 THEN (k \div n) + 1 ELSE k \div n
      BY <3>1, DivisionNext
    <3> QED  BY <2>3, <3>2
  <2> QED  BY <2>1, <2>4
<1>4. MarkerIsQuotient'
  BY <1>2, <1>3 DEF MarkerIsQuotient, Live
<1> QED  BY <1>2, <1>4 DEF Marking

LEMMA MarkingStep ==
  ASSUME "dirtyheap" \notin Faults
  PROVE  StreamInv /\ BeamsFit /\ Marking /\ [Next]_vars
           /\ [~Supersedes]_vars => Marking'
<1> SUFFICES ASSUME StreamInv, BeamsFit, Marking, [Next]_vars,
                    [~Supersedes]_vars
             PROVE  Marking'
  OBVIOUS
<1>1. ctx \in Contexts
  BY DEF StreamInv, TypeOK
<1>2. CASE UNCHANGED vars
  BY <1>2 DEF vars, Marking, MarkerIsQuotient, Live
<1>3. CASE dada_dbfil_open
  <2>1. CASE Supersedes
    BY <1>2, <2>1
  <2>2. CASE ~Supersedes
    BY <1>3, <2>2, OpenMarking, BeamsFitStep
  <2> QED  BY <2>1, <2>2
<1>4. CASE dada_dbfil_io
  <2>1. CASE IoIgnored \/ IoFailed
    <3>1. phase = "data" /\ UNCHANGED <<ctx, m_File>>
      BY <2>1 DEF IoIgnored, IoFailed, BlockReady
    <3> QED  BY <3>1, MarkingKept DEF Marking
  <2> QED  BY <1>4, <2>1, WrittenMarking DEF dada_dbfil_io
<1>5. CASE dada_dbfil_close
  <2>1. CASE CloseWaiting \/ CloseIdle \/ CloseOverrun
    <3>1. phase = "data" /\ UNCHANGED <<ctx, m_File>>
      BY <2>1 DEF CloseWaiting, CloseIdle, CloseOverrun, EndOfData
    <3> QED  BY <3>1, MarkingKept DEF Marking
  <2>2. CASE CloseFinished
    <3>1. /\ \A b \in Beams : m_File'[b] = "null"
          /\ ctx'.obs_marker_number = 0
      BY <1>1, <2>2 DEF CloseFinished, FinishedContext, Contexts
    <3> QED  BY <3>1, MarkingNull
  <2>3. CASE CloseFinishedDies
    <3>1. phase' = "died" /\ ctx' = ctx
      BY <2>3 DEF CloseFinishedDies, CloseDies
    <3> QED  BY <3>1, MarkingKept DEF Marking
  <2> QED  BY <1>5, <2>1, <2>2, <2>3 DEF dada_dbfil_close
<1>6. CASE MainLoop \/ sig_handler \/ HealthFails
  <2>1. phase # "died" /\ UNCHANGED <<ctx, m_File>>
    BY <1>6 DEF MainLoop, sig_handler, HealthFails
  <2> QED  BY <2>1, MarkingKept DEF Marking
<1>7. CASE Restart
  <2>1. /\ \A b \in Beams : m_File'[b] = "null"
        /\ ctx'.obs_marker_number = 0
    BY <1>7 DEF Restart, NoContext
  <2> QED  BY <2>1, MarkingNull
<1> QED
  BY <1>2, <1>3, <1>4, <1>5, <1>6, <1>7 DEF Next, Ended

\* The marker counts the seconds in the files as long as no observation has
\* been superseded and the heap is clean, also when sub-observations are
\* truncated, and whatever else upstream, the file system and the threads do:
\* the marker that survives a superseded observation (dada_dbfil.c:242-248
\* does not reset it) and pointers out of a dirty heap are all that can make
\* it wrong.
THEOREM MarkerCountsUnlessSuperseded ==
  ASSUME "dirtyheap" \notin Faults
  PROVE  Spec /\ [][~Supersedes]_vars => []MarkerCountsSeconds
<1>1. Init => StreamInv /\ BeamsFit /\ DealtEvenly /\ Marking
  BY StreamInit, OrderedInit
  DEF Ordered, NothingStale, Marking
<1>2. /\ StreamInv /\ BeamsFit /\ DealtEvenly /\ Marking
      /\ [Next]_vars /\ [~Supersedes]_vars
      => (StreamInv /\ BeamsFit /\ DealtEvenly /\ Marking)'
  BY StreamStep, BeamsFitStep, DealtStep, MarkingStep
<1>3. StreamInv /\ DealtEvenly /\ Marking => MarkerCountsSeconds
  BY QuotientCounts DEF Marking
<1> QED  BY <1>1, <1>2, <1>3, PTL DEF Spec

\* In particular while there is one observation only.
THEOREM MarkerCountsAlone ==
  ASSUME "dirtyheap" \notin Faults, \A i, j \in ObsIds : i = j
  PROVE  Spec => []MarkerCountsSeconds
<1>1. StreamInv /\ [Next]_vars => ~Supersedes
  <2> SUFFICES ASSUME StreamInv, Supersedes PROVE FALSE
    OBVIOUS
  <2>1. PICK h \in Follows(header) : header' = h
    BY DEF Supersedes, dada_dbfil_open, Receive, OpenQuit, OpenRejected,
       OpenContinued, OpenNotContinued, OpenDies, OpenSkipped,
       OpenUnreadable, OpenNoMetafits, OpenStarted, OpenCreateDies
  <2>2. header' \in Headers
    BY <2>1, FollowsType DEF StreamInv, TypeOK
  <2>3. header'.obs_id > 0 /\ header'.obs_id # ctx.obs_id /\ ctx.obs_id # 0
    BY DEF Supersedes, NewObservation, Identified
  <2>4. header'.obs_id \in ObsIds /\ ctx.obs_id \in ObsIds
    BY <2>2, <2>3 DEF Headers, StreamInv, TypeOK, Contexts
  <2> QED  BY <2>3, <2>4
<1>2. StreamInv /\ [Next]_vars => [~Supersedes]_vars
  BY <1>1
<1> QED
  BY <1>2, StreamAlways, MarkerCountsUnlessSuperseded, PTL DEF Spec
=============================================================================
