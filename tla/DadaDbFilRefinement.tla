------------------------ MODULE DadaDbFilRefinement -------------------------
(***************************************************************************)
(* Proof that the client implements BeamArchive, in the environments of    *)
(* DadaDbFilSealing where in addition no sub-observation comes twice.      *)
(***************************************************************************)
EXTENDS DadaDbFilArchive, DadaDbFilSealing

\* The mapping, when every open file belongs to the observation in ctx.
StatusOf(k) ==
  IF disk[k].status = "absent" THEN "absent"
  ELSE IF k[1] = ctx.obs_id THEN "recording" ELSE "sealed"

DeclaredOf(o) ==
  IF Existing(o) = {} THEN 0
  ELSE IF o = ctx.obs_id THEN ctx.exposure_sec
  ELSE disk[LastOf(Existing(o))].nsecs

LEMMA LastFound ==
  ASSUME NEW S \in SUBSET Files, S # {}
  PROVE  LastOf(S) \in S /\ \A j \in S : j[2] <= LastOf(S)[2]
BY LastExists DEF LastOf

LEMMA Mapping ==
  ASSUME NoStreamLeaked
  PROVE  /\ FileStatus = [k \in Files |-> StatusOf(k)]
         /\ ObsDeclared = [o \in ObsIds |-> DeclaredOf(o)]
<1>1. ASSUME NEW k \in Files, disk[k].status # "absent"
      PROVE  InProgress(k) <=> k[1] = ctx.obs_id
  BY <1>1 DEF InProgress, NoStreamLeaked
<1>2. FileStatus = [k \in Files |-> StatusOf(k)]
  BY <1>1 DEF FileStatus, StatusOf
<1>3. ASSUME NEW o \in ObsIds, Existing(o) # {}
      PROVE  (\E k \in Existing(o) : InProgress(k)) <=> o = ctx.obs_id
  BY <1>1, <1>3 DEF Existing
<1>4. ObsDeclared = [o \in ObsIds |-> DeclaredOf(o)]
  BY <1>3 DEF ObsDeclared, DeclaredOf
<1> QED  BY <1>2, <1>4

LEMMA MappingNext ==
  ASSUME NoStreamLeaked'
  PROVE  /\ FileStatus' = [k \in Files |-> StatusOf(k)']
         /\ ObsDeclared' = [o \in ObsIds |-> DeclaredOf(o)']
<1>1. ASSUME NEW k \in Files, disk'[k].status # "absent"
      PROVE  InProgress(k)' <=> k[1] = ctx'.obs_id
  BY <1>1 DEF InProgress, NoStreamLeaked
<1>2. FileStatus' = [k \in Files |-> StatusOf(k)']
  BY <1>1 DEF FileStatus, StatusOf
<1>3. ASSUME NEW o \in ObsIds, Existing(o)' # {}
      PROVE  (\E k \in Existing(o)' : InProgress(k)') <=> o = ctx'.obs_id
  BY <1>1, <1>3 DEF Existing
<1>4. ObsDeclared' = [o \in ObsIds |-> DeclaredOf(o)']
  BY <1>3 DEF ObsDeclared, DeclaredOf
<1> QED  BY <1>2, <1>4

\* What files there are and what they declare only changes with the files, or
\* with the observation in ctx.
LEMMA Undisturbed ==
  ASSUME NoStreamLeaked, NoStreamLeaked',
         \A k \in Files :
           /\ disk'[k].status = "absent" <=> disk[k].status = "absent"
           /\ disk[k].status # "absent" =>
                /\ k[1] = ctx'.obs_id <=> k[1] = ctx.obs_id
                /\ k[1] = ctx.obs_id => ctx'.exposure_sec = ctx.exposure_sec
                /\ k[1] # ctx.obs_id => disk'[k].nsecs = disk[k].nsecs
  PROVE  UNCHANGED <<FileStatus, ObsDeclared>>
<1>1. \A k \in Files : StatusOf(k)' = StatusOf(k)
  BY DEF StatusOf
<1>2. ASSUME NEW o \in ObsIds PROVE DeclaredOf(o)' = DeclaredOf(o)
  <2>1. Existing(o)' = Existing(o) /\ Existing(o) \in SUBSET Files
    BY DEF Existing
  <2>2. CASE Existing(o) = {}
    BY <2>1, <2>2 DEF DeclaredOf
  <2>3. CASE Existing(o) # {}
    <3> DEFINE k == LastOf(Existing(o))
    <3>1. k \in Existing(o) /\ LastOf(Existing(o))' = k
      BY <2>1, <2>3, LastFound
    <3>2. k \in Files /\ k[1] = o /\ disk[k].status # "absent"
      BY <3>1 DEF Existing
    <3> HIDE DEF k
    <3>3. DeclaredOf(o) = IF o = ctx.obs_id THEN ctx.exposure_sec
                          ELSE disk[k].nsecs
      BY <2>3 DEF DeclaredOf, k
    <3>4. DeclaredOf(o)' = IF o = ctx'.obs_id THEN ctx'.exposure_sec
                           ELSE disk'[k].nsecs
      BY <2>1, <2>3, <3>1 DEF DeclaredOf
    <3> QED  BY <3>2, <3>3, <3>4
  <2> QED  BY <2>2, <2>3
<1> QED  BY <1>1, <1>2, Mapping, MappingNext

\* The archive does not notice steps that leave alone what files there are, what
\* they hold and, of those of other observations, what they declare.
LEMMA Unnoticed ==
  ASSUME NoStreamLeaked, NoStreamLeaked',
         \A k \in Files :
           /\ disk'[k].data = disk[k].data
           /\ disk'[k].status = "absent" <=> disk[k].status = "absent"
           /\ disk[k].status # "absent" =>
                /\ k[1] = ctx'.obs_id <=> k[1] = ctx.obs_id
                /\ k[1] = ctx.obs_id => ctx'.exposure_sec = ctx.exposure_sec
                /\ k[1] # ctx.obs_id => disk'[k].nsecs = disk[k].nsecs
  PROVE  UNCHANGED <<FileStatus, ObsDeclared, FileData>>
<1>1. UNCHANGED <<FileStatus, ObsDeclared>>
  BY Undisturbed
<1>2. FileData' = FileData
  BY DEF FileData
<1> QED  BY <1>1, <1>2

-----------------------------------------------------------------------------
(* Headers *)

\* The duration in a header is one of those upstream uses, or that of the
\* header before it, of the same observation.
LEMMA FollowsDuration ==
  ASSUME NEW g \in Headers, NEW h \in Follows(g), h.mode = "VALID"
  PROVE  \/ h.exposure_sec \in Exposures
         \/ h.obs_id = g.obs_id /\ h.exposure_sec = g.exposure_sec
<1> DEFINE P(x) == \/ x.exposure_sec \in Exposures
                   \/ x.obs_id = g.obs_id /\ x.exposure_sec = g.exposure_sec
<1>1. ASSUME NEW x \in Starts(g) PROVE P(x)
  <2>1. PICK o \in {i \in ObsIds : i > g.obs_id},
             offset \in {0, SecsPerSubobs}, e \in Exposures,
             n \in 1 .. MaxBeams : x = Header(o, offset, e, n)
    BY DEF Starts, Fault
  <2> QED  BY <2>1 DEF Header
<1>2. ASSUME NEW x \in Continues(g) PROVE P(x)
  <2>1. PICK offset \in NextOffsets(g), e \in NextExposures(g) :
          x = [Header(g.obs_id, offset, e, g.nbeams) EXCEPT !.nbit = g.nbit]
    BY DEF Continues, Further
  <2>2. e = g.exposure_sec \/ e \in Exposures
    BY DEF NextExposures, Fault
  <2> QED  BY <2>1, <2>2 DEF Header
<1>3. CASE h \in Starts(g) \cup Continues(g)
  BY <1>1, <1>2, <1>3
<1>4. CASE h \in Malformed(Starts(g) \cup Continues(g))
  <2>1. PICK x \in Starts(g) \cup Continues(g), d \in Defects :
          \/ h = [x EXCEPT !.defect = d]
          \/ h = [x EXCEPT !.nbit = 8]
    BY <1>4 DEF Malformed, Fault, Defects
  <2>2. x \in Headers
    BY <2>1, StartsType, ContinuesType
  <2>3. h.obs_id = x.obs_id /\ h.exposure_sec = x.exposure_sec
    BY <2>1, <2>2 DEF Headers
  <2>4. P(x)
    BY <1>1, <1>2, <2>1
  <2> QED  BY <2>3, <2>4
<1>5. CASE h \in Quits(g)
  BY <1>5 DEF Quits, Headers
<1> QED  BY <1>3, <1>4, <1>5 DEF Follows

-----------------------------------------------------------------------------
(* Steps *)

SameArchive == UNCHANGED <<FileStatus, ObsDeclared, FileData>>

\* While the files are left alone, a new duration is a declaration.
LEMMA Redeclared ==
  ASSUME NoStreamLeaked, NoStreamLeaked', disk' = disk,
         ctx'.obs_id = ctx.obs_id, ctx'.exposure_sec \in Exposures
  PROVE  Archive!Redeclare(ctx'.exposure_sec)
<1> DEFINE e == ctx'.exposure_sec
<1>1. \A k \in Files : StatusOf(k)' = StatusOf(k)
  BY DEF StatusOf
<1>2. FileStatus' = FileStatus /\ FileData' = FileData
  BY <1>1, Mapping, MappingNext DEF FileData
<1>3. ASSUME NEW o \in ObsIds
      PROVE  (\E k \in Archive!Recording : k[1] = o)
               <=> Existing(o) # {} /\ o = ctx.obs_id
  <2>1. \A k \in Files : k \in Archive!Recording
          <=> disk[k].status # "absent" /\ k[1] = ctx.obs_id
    BY Mapping DEF Archive!Recording, Archive!Files, Files, Beams, StatusOf
  <2>2. Archive!Recording \subseteq Files
    BY DEF Archive!Recording, Archive!Files, Files, Beams
  <2> QED  BY <2>1, <2>2 DEF Existing
<1>4. ASSUME NEW o \in ObsIds
      PROVE  DeclaredOf(o)' = IF Existing(o) # {} /\ o = ctx.obs_id
                              THEN e ELSE DeclaredOf(o)
  <2>1. Existing(o)' = Existing(o)
    BY DEF Existing
  <2> QED  BY <2>1 DEF DeclaredOf
<1>5. ObsDeclared' = [o \in ObsIds |->
                        IF \E k \in Archive!Recording : k[1] = o
                        THEN e ELSE ObsDeclared[o]]
  BY <1>3, <1>4, Mapping, MappingNext
<1> QED  BY <1>2, <1>5 DEF Archive!Redeclare

\* The first m files of an observation are created, there being none yet.
LEMMA Begun ==
  ASSUME NoStreamLeaked, NoStreamLeaked', TypeOK, ctx.obs_id = 0,
         NEW o \in ObsIds, ctx'.obs_id = o, NEW m \in 0 .. MaxBeams,
         ctx'.exposure_sec \in Exposures,
         \A k \in Files : k[1] = o => disk[k].status = "absent"
                                        /\ disk[k].data = <<>>,
         \A k \in Files :
           disk'[k] = IF k[1] = o /\ k[2] < m
                      THEN [ status |-> "open", nsecs |-> ctx'.exposure_sec,
                             data |-> <<>> ]
                      ELSE disk[k]
  PROVE  SameArchive \/ Archive!Begin(o, m, ctx'.exposure_sec)
<1> DEFINE e == ctx'.exposure_sec
<1>1. 0 \notin ObsIds
  BY UpstreamAssumption
<1>2. \A k \in Files : k[1] # 0
  BY <1>1, FilePairs
<1>3. CASE m = 0
  <2>1. \A k \in Files : disk'[k] = disk[k]
    BY <1>3, FilePairs DEF Beams
  <2> QED  BY <1>2, <2>1, Unnoticed DEF SameArchive
<1>4. CASE m # 0
  <2> DEFINE started == {o} \X (0 .. m - 1)
  <2>1. \A k \in Files : k \in started <=> k[1] = o /\ k[2] < m
    BY FilePairs DEF Beams
  <2>2. Archive!Files = Files
    BY DEF Archive!Files, Files, Beams
  <2>3. Archive!Recording = {}
    BY <1>2, <2>2, Mapping DEF Archive!Recording, StatusOf
  <2>4. \A k \in Files : k[1] = o => FileStatus[k] = "absent"
    BY Mapping DEF StatusOf
  <2>5. \A k \in Files : StatusOf(k)' = IF k \in started THEN "recording"
                                        ELSE StatusOf(k)
    BY <1>2, <2>1 DEF StatusOf
  <2>6. FileStatus' = [k \in Files |-> IF k \in started THEN "recording"
                                       ELSE FileStatus[k]]
    <3> HIDE DEF started
    <3> QED  BY <2>5, Mapping, MappingNext
  <2>7. FileData' = FileData
    <3>1. \A k \in Files : disk'[k].data = disk[k].data
      OBVIOUS
    <3> QED  BY <3>1 DEF FileData
  <2>8. ASSUME NEW p \in ObsIds
        PROVE  DeclaredOf(p)' = IF p = o THEN e ELSE DeclaredOf(p)
    <3>1. CASE p = o
      <4>1. <<o, 0>> \in Files
        BY UpstreamAssumption DEF Files, Beams
      <4>2. disk'[<<o, 0>>].status = "open"
        BY <1>4, <4>1
      <4>3. Existing(p)' # {}
        BY <3>1, <4>1, <4>2 DEF Existing
      <4> QED  BY <3>1, <4>3 DEF DeclaredOf
    <3>2. CASE p # o
      <4>1. Existing(p)' = Existing(p) /\ Existing(p) \in SUBSET Files
        BY <3>2 DEF Existing
      <4>2. CASE Existing(p) = {}
        BY <3>2, <4>1, <4>2 DEF DeclaredOf
      <4>3. CASE Existing(p) # {}
        <5>1. LastOf(Existing(p)) \in Existing(p)
          BY <4>1, <4>3, LastFound
        <5>2. disk'[LastOf(Existing(p))] = disk[LastOf(Existing(p))]
          BY <3>2, <5>1 DEF Existing
        <5> QED  BY <1>1, <3>2, <4>1, <4>3, <5>2 DEF DeclaredOf
      <4> QED  BY <4>2, <4>3
    <3> QED  BY <3>1, <3>2
  <2>9. ObsDeclared' = [ObsDeclared EXCEPT ![o] = e]
    BY <2>8, Mapping, MappingNext
  <2> HIDE DEF started
  <2>10. Archive!Begin(o, m, e)
    BY <2>2, <2>3, <2>4, <2>6, <2>7, <2>9 DEF Archive!Begin, started
  <2> QED  BY <2>10
<1> QED  BY <1>3, <1>4

\* A file that does not exist holds nothing.
AbsentEmpty ==
  \A k \in Files : disk[k].status = "absent" => disk[k].data = <<>>

Refinable == Sealing /\ "repeat" \notin Faults

\* The invariants, before and after a step.
RefinementInv == Proved /\ SealInv /\ AbsentEmpty

\* An observation that starts finds no file of its own, and no pointer in the
\* beams that it is given: each of them gets a new file.
LEMMA StartedBegins ==
  ASSUME Refinable, RefinementInv, NoStreamLeaked', phase = "header",
         NEW h \in Follows(header), StartsObservation(h),
         NEW a \in Allocated(h.nbeams), NEW m \in 0 .. h.nbeams,
         CreateFils(h, a, m), ctx' = StartedContext(h)
  PROVE  SameArchive \/ Archive!Begin(h.obs_id, m, h.exposure_sec)
<1>1. /\ header \in Headers /\ h \in Headers /\ ctx \in Contexts /\ TypeOK
      /\ NewObservation(h) /\ ~MissedBeginning(h)
      /\ h.mode = "VALID" /\ h.obs_id > 0
  BY FollowsType
  DEF RefinementInv, Proved, StreamInv, TypeOK, StartsObservation,
      NewObservation, Identified
<1>2. ctx.obs_id = 0 /\ Superseded = 0
  BY <1>1, NeverSuperseded DEF Superseded, Refinable, Sealing, RefinementInv, Proved
<1>3. \A R \in Rewritten(First(Superseded)) :
        DiskAfterClose(First(Superseded), R) = disk
  BY <1>1, <1>2, ClosingNoFile DEF Refinable
<1>4. \A b \in Beams : m_File[b] = "null"
  <2>1. \A b \in Beams : m_File[b] \in {"null", "open", "stale"}
    BY <1>1 DEF TypeOK, Handles
  <2>2. \A b \in Beams : m_File[b] # "stale"
    BY DEF RefinementInv, Proved, Ordered, NothingStale
  <2>3. ASSUME NEW b \in Beams PROVE m_File[b] # "open"
    <3>1. m_File[b] = "open" => fil_obs \in ObsIds
          /\ disk[<<fil_obs, b>>].status = "open"
      BY <1>1 DEF RefinementInv, Proved, StreamInv, HandlesOpen, TypeOK
    <3>2. m_File[b] = "open" => <<fil_obs, b>> \in Files
      BY <3>1 DEF Files
    <3>3. m_File[b] = "open" => fil_obs = ctx.obs_id
      BY <3>1, <3>2 DEF RefinementInv, Proved, StreamInv, NoStreamLeaked
    <3> QED  BY <1>2, <3>1, <3>3, UpstreamAssumption
  <2> QED  BY <2>1, <2>2, <2>3
<1>5. \A b \in Beams : b < h.nbeams => a[b] = "null"
  <2>1. HandlesAfterClose(First(Superseded)) = m_File
    BY <1>1, <1>2, ClosingNone
  <2> QED
    BY <1>4, <2>1 DEF Allocated, Fault, Refinable, Sealing, Orderly
<1>6. h.obs_id > header.obs_id
  BY <1>1, BeginsLater DEF Refinable
<1>7. \A k \in Files : k[1] = h.obs_id => /\ disk[k].status = "absent"
                                         /\ disk[k].data = <<>>
  BY <1>1, <1>6, HeaderNumbers
  DEF RefinementInv, Proved, StreamInv, NoFutureFile, AbsentEmpty
<1>8. h.obs_id \in ObsIds
  BY <1>1 DEF Headers
<1>9. m \in 0 .. MaxBeams
  <2>1. h.nbeams <= MaxBeams /\ h.nbeams \in Nat
    BY <1>1, FollowsBeams, HeaderNumbers
    DEF RefinementInv, Proved, BeamsFit
  <2> QED  BY <2>1, UpstreamAssumption
<1>10. h.exposure_sec \in Exposures
  BY <1>1, <1>6, FollowsDuration, HeaderNumbers
<1>11. ctx'.obs_id = h.obs_id /\ ctx'.exposure_sec = h.exposure_sec
  BY <1>1 DEF StartedContext, Contexts
<1>12. \A k \in Files :
         disk'[k] = IF k[1] = h.obs_id /\ k[2] < m
                    THEN [ status |-> "open", nsecs |-> ctx'.exposure_sec,
                           data |-> <<>> ]
                    ELSE disk[k]
  <2>1. \A b \in Beams : b < m => a[b] = "null"
    BY <1>1, <1>5, HeaderNumbers DEF Beams
  <2>2. PICK R \in Rewritten(First(Superseded)) :
          disk' = [ k \in Files |->
                      IF k[1] = h.obs_id /\ k[2] < m /\ a[k[2]] = "null"
                      THEN [ status |-> "open", nsecs |-> h.exposure_sec,
                             data |-> <<>> ]
                      ELSE DiskAfterClose(First(Superseded), R)[k] ]
    BY DEF CreateFils
  <2> QED  BY <1>3, <1>11, <2>1, <2>2, FilePairs
<1> QED
  BY <1>1, <1>2, <1>7, <1>8, <1>9, <1>10, <1>11, <1>12, Begun
  DEF RefinementInv, Proved, StreamInv

LEMMA OpenRefines ==
  ASSUME Refinable, RefinementInv, NoStreamLeaked', dada_dbfil_open
  PROVE  SameArchive \/ Archive!ArchiveNext
<1>1. PICK h \in Follows(header) :
        \/ OpenQuit(h) \/ OpenRejected(h) \/ OpenContinued(h)
        \/ OpenNotContinued(h) \/ OpenDies(h) \/ OpenSkipped(h)
        \/ OpenUnreadable(h) \/ OpenNoMetafits(h) \/ OpenStarted(h)
        \/ OpenCreateDies(h)
  BY DEF dada_dbfil_open
<1>2. /\ header \in Headers /\ h \in Headers /\ ctx \in Contexts /\ TypeOK
      /\ phase = "header" /\ NoStreamLeaked
  BY <1>1, FollowsType
  DEF RefinementInv, Proved, StreamInv, TypeOK, OpenQuit, OpenRejected,
      OpenContinued, OpenNotContinued, OpenDies, OpenSkipped, OpenUnreadable,
      OpenNoMetafits, OpenStarted, OpenCreateDies, Receive
<1>3. ASSUME UNCHANGED <<ctx, disk>> PROVE SameArchive
  BY <1>2, <1>3, Unnoticed DEF SameArchive
<1>4. CASE OpenQuit(h) \/ OpenRejected(h)
  BY <1>3, <1>4 DEF OpenQuit, OpenRejected
<1>5. CASE OpenContinued(h) \/ OpenNotContinued(h)
  <2>1. /\ disk' = disk /\ h.obs_id = ctx.obs_id /\ h.obs_id > 0
        /\ h.mode = "VALID"
    BY <1>5 DEF OpenContinued, OpenNotContinued, Continuation, Identified
  <2>2. ctx'.obs_id = ctx.obs_id /\ ctx'.exposure_sec = DurationRead(h).exposure_sec
    BY <1>2, <1>5 DEF OpenContinued, OpenNotContinued, DurationRead, Contexts
  <2>3. CASE ctx'.exposure_sec = ctx.exposure_sec
    BY <1>2, <2>1, <2>2, <2>3, Unnoticed DEF SameArchive
  <2>4. CASE ctx'.exposure_sec # ctx.exposure_sec
    <3>1. ctx'.exposure_sec = h.exposure_sec
      BY <1>2, <2>2, <2>4 DEF DurationRead, Contexts
    <3>2. Recording
      BY <1>2, <2>1, HeaderNumbers DEF Recording
    <3>3. header.exposure_sec = ctx.exposure_sec
      BY <3>2 DEF RefinementInv, Proved, Ordered, InStep
    <3>4. ctx'.exposure_sec \in Exposures
      BY <1>2, <2>1, <2>4, <3>1, <3>3, FollowsDuration
    <3> QED
      BY <1>2, <2>1, <2>2, <3>4, Redeclared DEF Archive!ArchiveNext
  <2> QED  BY <2>3, <2>4
<1>6. ASSUME NewObservation(h)
      PROVE  /\ ctx.obs_id = 0 /\ Superseded = 0
             /\ \A R \in Rewritten(First(Superseded)) :
                  DiskAfterClose(First(Superseded), R) = disk
  <2>1. ctx.obs_id = 0 /\ Superseded = 0
    BY <1>2, <1>6, NeverSuperseded
    DEF Superseded, Refinable, Sealing, RefinementInv, Proved
  <2> QED  BY <1>2, <2>1, ClosingNoFile DEF Refinable
<1>7. CASE OpenDies(h)
  <2>1. CloseDies(0)
    BY <1>6, <1>7 DEF OpenDies
  <2> QED  BY <2>1 DEF CloseDies, First
<1>8. CASE OpenSkipped(h) \/ OpenUnreadable(h) \/ OpenNoMetafits(h)
  <2>1. NewObservation(h) /\ disk' = disk /\ ctx.obs_id = 0
    BY <1>6, <1>8 DEF OpenSkipped, OpenUnreadable, OpenNoMetafits,
       StartsObservation, Closed
  <2>2. ASSUME NEW k \in Files, disk[k].status # "absent"
        PROVE  k[1] # ctx'.obs_id /\ k[1] # ctx.obs_id
    <3>1. k[1] \in Nat /\ k[1] # 0 /\ k[1] <= header.obs_id
      BY <2>2, FilePairs, UpstreamAssumption
      DEF RefinementInv, Proved, StreamInv, NoFutureFile
    <3>2. CASE OpenSkipped(h)
      BY <1>2, <2>1, <3>1, <3>2 DEF OpenSkipped, Contexts
    <3>3. CASE OpenUnreadable(h) \/ OpenNoMetafits(h)
      <4>1. StartsObservation(h) /\ h.mode = "VALID"
        BY <3>3 DEF OpenUnreadable, OpenNoMetafits, StartsObservation,
           NewObservation, Identified
      <4>2. h.obs_id > header.obs_id
        BY <1>2, <4>1, BeginsLater DEF Refinable, StartsObservation
      <4>3. ctx'.obs_id = h.obs_id
        BY <1>2, <3>3 DEF OpenUnreadable, OpenNoMetafits, StartedContext, Contexts
      <4> QED  BY <1>2, <2>1, <3>1, <4>2, <4>3, HeaderNumbers
    <3> QED  BY <1>8, <3>2, <3>3
  <2> QED  BY <1>2, <2>1, <2>2, Unnoticed DEF SameArchive
<1>9. CASE OpenStarted(h) \/ OpenCreateDies(h)
  <2>1. /\ StartsObservation(h) /\ ctx' = StartedContext(h)
        /\ \E a \in Allocated(h.nbeams), m \in 0 .. h.nbeams : CreateFils(h, a, m)
    <3>1. h.nbeams \in 0 .. h.nbeams /\ 0 .. h.nbeams - 1 \subseteq 0 .. h.nbeams
      BY <1>2, HeaderNumbers
    <3> QED  BY <1>9, <3>1 DEF OpenStarted, OpenCreateDies
  <2>2. PICK a \in Allocated(h.nbeams), m \in 0 .. h.nbeams : CreateFils(h, a, m)
    BY <2>1
  <2>3. SameArchive \/ Archive!Begin(h.obs_id, m, h.exposure_sec)
    BY <1>2, <2>1, <2>2, StartedBegins
  <2>4. h.obs_id \in ObsIds /\ m \in 0 .. MaxBeams /\ h.exposure_sec \in Exposures
    <3>1. h.mode = "VALID" /\ h.obs_id > 0 /\ ~MissedBeginning(h)
      BY <2>1 DEF StartsObservation, NewObservation, Identified
    <3>2. h.obs_id > header.obs_id
      BY <1>2, <3>1, BeginsLater DEF Refinable
    <3>3. h.nbeams <= MaxBeams
      BY <1>2, FollowsBeams DEF RefinementInv, Proved, BeamsFit
    <3>4. h.exposure_sec \in Exposures
      BY <1>2, <3>1, <3>2, FollowsDuration, HeaderNumbers
    <3> QED
      BY <1>2, <3>1, <3>3, <3>4, HeaderNumbers, UpstreamAssumption DEF Headers
  <2> QED  BY <2>3, <2>4 DEF Archive!ArchiveNext
<1> QED  BY <1>1, <1>4, <1>5, <1>7, <1>8, <1>9

-----------------------------------------------------------------------------
(* Blocks *)

\* The file whose turn it is for the archive is the one whose turn it is.
LEMMA WriteRefines ==
  ASSUME Refinable, RefinementInv, NoStreamLeaked', Demultiplexed', IoWritten
  PROVE  Archive!ArchiveNext
<1> DEFINE n == ctx.nbeams_total
           b == NextBeam
           j == <<fil_obs, b>>
<1>1. /\ TypeOK /\ ctx \in Contexts /\ n \in Nat /\ ctx.block_number \in Nat
      /\ phase = "data" /\ ctx.obs_id # 0 /\ NoStreamLeaked
  BY DEF RefinementInv, Proved, StreamInv, TypeOK, Contexts, IoWritten, BlockReady
<1>2. Recording
  BY <1>1 DEF Recording
<1>3. /\ fil_obs = ctx.obs_id /\ header.obs_id = ctx.obs_id
      /\ header.nbeams = n /\ n > 0
      /\ \A c \in Live : m_File[c] = "open"
  BY <1>2 DEF RefinementInv, Proved, Ordered, InStep
<1>4. b = ctx.block_number % n /\ b \in 0 .. n - 1
  <2> HIDE DEF n
  <2>1. ctx.block_number % n \in 0 .. n - 1
    BY <1>1, <1>3, Division
  <2> QED  BY <2>1 DEF NextBeam, n
<1>5. b \in Live /\ b \in Beams /\ j \in Files
  <2>1. b \in Live /\ b \in Beams
    BY <1>4, LiveBeams DEF Live, RefinementInv, Proved
  <2>2. fil_obs \in ObsIds
    BY <1>1, <1>3 DEF Contexts
  <2> QED  BY <2>1, <2>2 DEF Files
<1>6. disk[j].status = "open"
  BY <1>2, <1>5, RecordedOpen DEF RefinementInv
<1>7. ASSUME NEW c \in Live
      PROVE  Len(disk[<<fil_obs, c>>].data) =
               (ctx.block_number \div n) + (IF c < b THEN 1 ELSE 0)
  BY <1>1, <1>3, <1>4, <1>7 DEF RefinementInv, Proved, DealtEvenly
<1> HIDE DEF b
<1>8. disk' = [disk EXCEPT ![j].data = Append(@, Block(header, sent))]
  <2>1. Targets(NextBeam) = {{b}}
    BY <1>3, <1>5 DEF Targets, b
  <2>2. disk' = [ f \in Files |->
                    IF f[1] = fil_obs /\ f[2] \in {b}
                    THEN [disk[f] EXCEPT !.data = Append(@, Block(header, sent))]
                    ELSE disk[f] ]
    BY <2>1 DEF IoWritten
  <2>3. \A f \in Files : (f[1] = fil_obs /\ f[2] \in {b}) <=> f = j
    BY FilePairs
  <2> HIDE DEF j
  <2> QED  BY <1>1, <1>5, <2>2, <2>3 DEF TypeOK
<1> DEFINE d == disk[j].data
           tag == [obs |-> j[1], beam |-> j[2], sec |-> Len(d)]
<1>9. disk[j] \in FileRecords /\ d \in Seq(BlockTags) /\ Len(d) \in Nat
  BY <1>1, <1>5 DEF TypeOK, FileRecords
<1>10. disk'[j].data = Append(d, Block(header, sent))
  BY <1>1, <1>5, <1>8, <1>9 DEF TypeOK, FileRecords
<1>11. Block(header, sent) = tag
  <2>1. Block(header, sent) \in BlockTags
    BY <1>1, BlockType DEF TypeOK, IoWritten, BlockReady
  <2> DEFINE e == disk'[j].data
             x == Block(header, sent)
  <2>2. e = Append(d, x)
    BY <1>10
  <2>3. e[Len(d) + 1] = x /\ Len(d) + 1 \in DOMAIN e
    <3> HIDE DEF d, x, e
    <3>1. x \in BlockTags
      BY <2>1 DEF x
    <3> QED  BY <1>9, <2>2, <3>1
  <2>4. e[Len(d) + 1] = [obs |-> j[1], beam |-> j[2], sec |-> (Len(d) + 1) - 1]
    <3> HIDE DEF d, j
    <3> QED  BY <1>5, <2>3 DEF Demultiplexed
  <2>5. (Len(d) + 1) - 1 = Len(d)
    BY <1>9
  <2> QED  BY <2>3, <2>4, <2>5
<1>12. FileData' = [FileData EXCEPT ![j] = Append(@, tag)]
  <2>1. \A k \in Files : k # j => disk'[k] = disk[k]
    BY <1>1, <1>8 DEF TypeOK
  <2>2. disk'[j].data = Append(d, tag)
    BY <1>10, <1>11
  <2> HIDE DEF j, tag
  <2>3. FileData[j] = d
    BY <1>5 DEF FileData
  <2> QED  BY <1>5, <2>1, <2>2, <2>3 DEF FileData
<1>13. UNCHANGED <<FileStatus, ObsDeclared>>
  <2>1. \A k \in Files : /\ disk'[k].status = disk[k].status
                         /\ disk'[k].nsecs = disk[k].nsecs
    BY <1>1, <1>8 DEF TypeOK, FileRecords
  <2>2. ctx'.obs_id = ctx.obs_id /\ ctx'.exposure_sec = ctx.exposure_sec
    BY <1>1 DEF IoWritten, Contexts
  <2> QED  BY <1>1, <2>1, <2>2, Undisturbed
<1>14. Archive!Files = Files
  BY DEF Archive!Files, Files, Beams
<1>15. \A k \in Files :
         k \in Archive!Recording
           <=> disk[k].status # "absent" /\ k[1] = ctx.obs_id
  BY <1>1, <1>14, Mapping DEF Archive!Recording, StatusOf
<1>16. ASSUME NEW i \in Archive!Recording
       PROVE  i \in Files /\ Len(FileData[i]) =
                (ctx.block_number \div n) + (IF i[2] < b THEN 1 ELSE 0)
  <2>1. i \in Files
    BY <1>14 DEF Archive!Recording
  <2>2. disk[i].status # "absent" /\ i[1] = fil_obs
    BY <1>3, <1>15, <1>16, <2>1
  <2>3. i[2] < n
    BY <1>1, <1>3, <2>1, <2>2 DEF RefinementInv, SealInv, FilesFit
  <2>4. i[2] \in Live /\ i = <<fil_obs, i[2]>>
    BY <1>1, <2>1, <2>2, <2>3, FilePairs DEF Live, Beams
  <2> QED  BY <1>7, <2>1, <2>4 DEF FileData
<1>17. j \in Archive!Recording
  BY <1>3, <1>5, <1>6, <1>15
<1>18. ASSUME NEW i \in Archive!Recording \ {j}
       PROVE  Len(FileData[i]) =
                IF i[2] < j[2] THEN Len(FileData[j]) + 1 ELSE Len(FileData[j])
  <2>1. Len(FileData[j]) = (ctx.block_number \div n) + 0
    <3>1. ~(b < b)
      BY <1>4
    <3>2. j[2] = b
      OBVIOUS
    <3> QED  BY <1>16, <1>17, <3>1, <3>2
  <2>2. Len(FileData[i]) =
          (ctx.block_number \div n) + (IF i[2] < b THEN 1 ELSE 0)
    BY <1>16
  <2>3. ctx.block_number \div n \in Nat
    <3> HIDE DEF n
    <3> QED  BY <1>1, <1>3, Division
  <2> HIDE DEF n
  <2> QED  BY <2>1, <2>2, <2>3
<1>19. Archive!Write(j)
  <2>1. FileData' = [FileData EXCEPT ![j] =
                       Append(@, [ obs |-> j[1], beam |-> j[2], sec |-> Len(@) ])]
    <3>1. FileData[j] = d
      BY <1>5 DEF FileData
    <3> HIDE DEF j
    <3> QED  BY <1>5, <1>12, <3>1 DEF FileData
  <2> HIDE DEF j
  <2> QED  BY <1>13, <1>17, <1>18, <2>1 DEF Archive!Write
<1> QED  BY <1>5, <1>14, <1>19 DEF Archive!ArchiveNext

LEMMA IoRefines ==
  ASSUME Refinable, RefinementInv, NoStreamLeaked', Demultiplexed', dada_dbfil_io
  PROVE  SameArchive \/ Archive!ArchiveNext
<1>1. CASE IoIgnored \/ IoFailed
  <2>1. UNCHANGED <<ctx, disk>> /\ NoStreamLeaked
    BY <1>1 DEF IoIgnored, IoFailed, RefinementInv, Proved, StreamInv
  <2> QED  BY <2>1, Unnoticed DEF SameArchive
<1> QED  BY <1>1, WriteRefines DEF dada_dbfil_io

-----------------------------------------------------------------------------
(* The end of a sub-observation *)

\* The close that ends an observation seals its files.
LEMMA SealRefines ==
  ASSUME Refinable, RefinementInv, NoStreamLeaked', CloseFinished,
         ctx.obs_id # 0
  PROVE  Archive!Seal
<1>0. Sealing /\ Proved /\ SealInv /\ NoStreamLeaked
  BY DEF Refinable, RefinementInv, Proved, StreamInv
<1>1. /\ TypeOK /\ ctx \in Contexts /\ phase = "data" /\ EndOfData
      /\ EndOfObservation /\ Recording
  BY DEF RefinementInv, Proved, StreamInv, TypeOK, CloseFinished, EndOfData,
     ClosesFiles, Recording
<1>2. /\ fil_obs = ctx.obs_id /\ header.obs_id = ctx.obs_id
      /\ header.nbeams = ctx.nbeams_total /\ ctx.nbeams_total \in Nat
  BY <1>0, <1>1 DEF Proved, Ordered, InStep, Contexts
<1>3. ctx'.obs_id = 0 /\ \A k \in Files : k[1] # 0
  BY <1>1, FilePairs, UpstreamAssumption
  DEF CloseFinished, FinishedContext, Contexts
<1>4. LastTruthful'
  BY <1>0, FinishedObservation
<1>5. PICK B, R : disk' = DiskAfterClose(B, R)
  BY DEF CloseFinished, Closed
<1>6. ASSUME NEW k \in Files
      PROVE  /\ disk'[k].data = disk[k].data
             /\ disk'[k].status = "absent" <=> disk[k].status = "absent"
             /\ k[1] # ctx.obs_id => disk'[k].nsecs = disk[k].nsecs
             /\ disk'[k].status # "open"
  <2>1. k[1] # ctx.obs_id => disk'[k] = disk[k]
    BY <1>2, <1>5 DEF DiskAfterClose
  <2>2. disk'[k].status # "open"
    BY <1>3 DEF NoStreamLeaked
  <2> QED  BY <1>1, <1>5, <2>1, <2>2, ClosingFacts
<1>7. ASSUME NEW k \in Files, disk[k].status # "absent", k[1] = ctx.obs_id
      PROVE  Len(disk[k].data) = ctx.exposure_sec
  <2>1. k[2] < ctx.nbeams_total
    BY <1>0, <1>1, <1>2, <1>7 DEF SealInv, FilesFit
  <2>2. k[2] \in Live /\ k = <<fil_obs, k[2]>>
    BY <1>2, <1>7, <2>1, FilePairs DEF Live, Beams
  <2> QED  BY <1>0, <1>1, <2>2, FinishedWhole DEF Sealing
<1>8. Archive!Files = Files
  BY DEF Archive!Files, Files, Beams
<1>9. \A k \in Files :
        k \in Archive!Recording
          <=> disk[k].status # "absent" /\ k[1] = ctx.obs_id
  BY <1>0, <1>8, Mapping DEF Archive!Recording, StatusOf
<1>10. ASSUME NEW k \in Archive!Recording PROVE Archive!Complete(k)
  <2>1. k \in Files
    BY <1>8 DEF Archive!Recording
  <2>2. disk[k].status # "absent" /\ k[1] = ctx.obs_id /\ k[1] \in ObsIds
    BY <1>9, <1>10, <2>1, FilePairs
  <2>3. ObsDeclared[k[1]] = ctx.exposure_sec
    <3>1. k \in Existing(k[1])
      BY <2>1, <2>2 DEF Existing
    <3>2. DeclaredOf(k[1]) = ctx.exposure_sec
      BY <2>2, <3>1 DEF DeclaredOf
    <3> QED  BY <1>0, <2>2, <3>2, Mapping
  <2>4. Len(FileData[k]) = ctx.exposure_sec
    BY <1>7, <2>1, <2>2 DEF FileData
  <2> QED  BY <2>3, <2>4 DEF Archive!Complete
<1>11. FileStatus' = [k \in Files |-> IF k \in Archive!Recording THEN "sealed"
                                       ELSE FileStatus[k]]
  <2>1. \A k \in Files : StatusOf(k)' = IF k \in Archive!Recording THEN "sealed"
                                        ELSE StatusOf(k)
    BY <1>3, <1>6, <1>9 DEF StatusOf
  <2> QED  BY <1>0, <2>1, Mapping, MappingNext
<1>12. ASSUME NEW o \in ObsIds PROVE DeclaredOf(o)' = DeclaredOf(o)
  <2>1. Existing(o)' = Existing(o) /\ Existing(o) \in SUBSET Files
    BY <1>6 DEF Existing
  <2>2. CASE Existing(o) = {}
    BY <2>1, <2>2 DEF DeclaredOf
  <2>3. CASE Existing(o) # {}
    <3>1. PICK k \in Existing(o) :
            k = LastOf(Existing(o)) /\ \A i \in Existing(o) : i[2] <= k[2]
      BY <2>1, <2>3, LastFound
    <3>2. LastOf(Existing(o))' = k
      BY <2>1, <3>1
    <3>3. k \in Files /\ k[1] = o /\ disk[k].status # "absent" /\ o # 0
      BY <1>3, <3>1 DEF Existing
    <3>4. DeclaredOf(o)' = disk'[k].nsecs
      BY <1>3, <2>1, <2>3, <3>2, <3>3 DEF DeclaredOf
    <3>5. CASE o # ctx.obs_id
      <4>1. DeclaredOf(o) = disk[k].nsecs
        BY <2>3, <3>1, <3>5 DEF DeclaredOf
      <4> QED  BY <1>6, <3>3, <3>4, <3>5, <4>1
    <3>6. CASE o = ctx.obs_id
      <4>1. DeclaredOf(o) = ctx.exposure_sec
        BY <2>3, <3>6 DEF DeclaredOf
      <4>2. IsLast(k)'
        <5> SUFFICES ASSUME NEW i \in Files, i[1] = k[1], i[2] > k[2],
                            disk'[i].status # "absent"
                     PROVE  FALSE
          BY DEF IsLast
        <5>1. i[2] <= k[2]
          BY <1>6, <3>1, <3>3 DEF Existing
        <5>2. i[2] \in Int /\ k[2] \in Int
          BY <3>3, FilePairs DEF Beams
        <5> QED  BY <5>1, <5>2
      <4>3. disk'[k].status = "closed"
        <5>1. disk'[k] \in FileRecords
          BY <1>1, <1>5, <3>3, DiskAfterCloseType
        <5> QED  BY <1>6, <3>3, <5>1 DEF FileRecords
      <4>4. Len(disk'[k].data) = disk'[k].nsecs
        BY <1>4, <3>3, <4>2, <4>3 DEF LastTruthful
      <4> QED  BY <1>6, <1>7, <3>3, <3>4, <3>6, <4>1, <4>4
    <3> QED  BY <3>5, <3>6
  <2> QED  BY <2>2, <2>3
<1>13. ObsDeclared' = ObsDeclared /\ FileData' = FileData
  BY <1>0, <1>6, <1>12, Mapping, MappingNext DEF FileData
<1> QED  BY <1>8, <1>10, <1>11, <1>13 DEF Archive!Seal

LEMMA CloseRefines ==
  ASSUME Refinable, RefinementInv, NoStreamLeaked', dada_dbfil_close
  PROVE  SameArchive \/ Archive!ArchiveNext
<1>1. /\ TypeOK /\ ctx \in Contexts /\ NoStreamLeaked /\ phase = "data"
      /\ Proved /\ SealInv
  BY DEF RefinementInv, Proved, StreamInv, TypeOK, dada_dbfil_close,
     CloseWaiting, CloseIdle, CloseOverrun, CloseFinished, CloseFinishedDies,
     EndOfData
<1>2. CASE CloseWaiting \/ CloseIdle \/ CloseOverrun
  <2>1. UNCHANGED <<ctx, disk>>
    BY <1>2 DEF CloseWaiting, CloseIdle, CloseOverrun
  <2> QED  BY <1>1, <2>1, Unnoticed DEF SameArchive
<1>3. CASE CloseFinished
  <2>1. CASE ctx.obs_id = 0
    <3>1. disk' = disk /\ ctx'.obs_id = 0
      BY <1>1, <1>3, <2>1, FinishedIdle
      DEF CloseFinished, FinishedContext, Contexts
    <3>2. \A k \in Files : k[1] # 0
      BY FilePairs, UpstreamAssumption
    <3> QED  BY <1>1, <2>1, <3>1, <3>2, Unnoticed DEF SameArchive
  <2>2. CASE ctx.obs_id # 0
    BY <1>3, <2>2, SealRefines DEF Archive!ArchiveNext
  <2> QED  BY <2>1, <2>2
<1>4. CASE CloseFinishedDies
  <2>1. ctx' = ctx
    BY <1>4 DEF CloseFinishedDies
  <2>2. PICK B, R : disk' = DiskAfterClose(B, R)
    BY <1>4 DEF CloseFinishedDies, CloseDies
  <2>3. CASE ctx.obs_id = 0
    <3>1. disk' = disk
      BY <1>1, <2>2, <2>3, IdleClosing
    <3> QED  BY <1>1, <2>1, <3>1, Unnoticed DEF SameArchive
  <2>4. CASE ctx.obs_id # 0
    <3>1. fil_obs = ctx.obs_id
      <4>1. Recording
        BY <1>1, <2>4 DEF Recording
      <4> QED  BY <1>1, <4>1 DEF Proved, Ordered, InStep
    <3>2. ASSUME NEW k \in Files
          PROVE  /\ disk'[k].data = disk[k].data
                 /\ disk'[k].status = "absent" <=> disk[k].status = "absent"
                 /\ k[1] # ctx.obs_id => disk'[k].nsecs = disk[k].nsecs
      <4>1. k[1] # ctx.obs_id => disk'[k] = disk[k]
        BY <2>2, <3>1 DEF DiskAfterClose
      <4> QED  BY <1>1, <2>2, <4>1, ClosingFacts
    <3> QED  BY <1>1, <2>1, <3>2, Unnoticed DEF SameArchive
  <2> QED  BY <2>3, <2>4
<1> QED  BY <1>2, <1>3, <1>4 DEF dada_dbfil_close

-----------------------------------------------------------------------------
(* The specification *)

LEMMA StepRefines ==
  ASSUME Refinable, RefinementInv, NoStreamLeaked', Demultiplexed', [Next]_vars
  PROVE  SameArchive \/ Archive!ArchiveNext
<1>1. CASE MainLoop \/ sig_handler \/ HealthFails \/ UNCHANGED vars
  <2>1. UNCHANGED <<ctx, disk>> /\ NoStreamLeaked
    BY <1>1 DEF MainLoop, sig_handler, HealthFails, vars, RefinementInv, Proved,
       StreamInv
  <2> QED  BY <2>1, Unnoticed DEF SameArchive
<1>2. ~Restart
  BY DEF Restart, Refinable, Sealing
<1> QED
  BY <1>1, <1>2, OpenRefines, IoRefines, CloseRefines DEF Next, Ended

LEMMA AbsentEmptyStep ==
  StreamInv /\ AbsentEmpty /\ [Next]_vars => AbsentEmpty'
<1> SUFFICES ASSUME StreamInv, AbsentEmpty, [Next]_vars,
                    NEW k \in Files, disk'[k].status = "absent"
             PROVE  disk'[k].data = <<>>
  BY DEF AbsentEmpty
<1>1. ASSUME disk' = disk PROVE disk'[k].data = <<>>
  BY <1>1 DEF AbsentEmpty
<1>2. ASSUME NEW B, NEW R, disk'[k] = DiskAfterClose(B, R)[k]
      PROVE  disk'[k].data = <<>>
  BY <1>2, ClosingFacts DEF AbsentEmpty, StreamInv
<1>3. CASE dada_dbfil_open
  <2>1. PICK h \in Follows(header) :
          \/ OpenQuit(h) \/ OpenRejected(h) \/ OpenContinued(h)
          \/ OpenNotContinued(h) \/ OpenDies(h) \/ OpenSkipped(h)
          \/ OpenUnreadable(h) \/ OpenNoMetafits(h) \/ OpenStarted(h)
          \/ OpenCreateDies(h)
    BY <1>3 DEF dada_dbfil_open
  <2>2. CASE OpenQuit(h) \/ OpenRejected(h) \/ OpenContinued(h)
             \/ OpenNotContinued(h)
    BY <1>1, <2>2 DEF OpenQuit, OpenRejected, OpenContinued, OpenNotContinued
  <2>3. CASE OpenDies(h) \/ OpenSkipped(h) \/ OpenUnreadable(h)
             \/ OpenNoMetafits(h)
    <3>1. \E B, R : disk' = DiskAfterClose(B, R)
      BY <2>3 DEF OpenDies, CloseDies, OpenSkipped, OpenUnreadable,
         OpenNoMetafits, Closed
    <3> QED  BY <1>2, <3>1
  <2>4. CASE OpenStarted(h) \/ OpenCreateDies(h)
    <3>1. \E a, m : CreateFils(h, a, m)
      BY <2>4 DEF OpenStarted, OpenCreateDies
    <3>2. \E R : disk'[k] = DiskAfterClose(First(Superseded), R)[k]
      BY <3>1 DEF CreateFils
    <3> QED  BY <1>2, <3>2
  <2> QED  BY <2>1, <2>2, <2>3, <2>4
<1>4. CASE dada_dbfil_io
  <2>1. CASE IoIgnored \/ IoFailed
    BY <1>1, <2>1 DEF IoIgnored, IoFailed
  <2>2. CASE IoWritten
    <3>1. PICK target \in Targets(NextBeam) :
            disk' = [ j \in Files |->
                        IF j[1] = fil_obs /\ j[2] \in target
                        THEN [disk[j] EXCEPT
                                !.data = Append(@, Block(header, sent))]
                        ELSE disk[j] ]
      BY <2>2 DEF IoWritten
    <3>2. disk[k].status = "absent"
      BY <3>1 DEF StreamInv, TypeOK, FileRecords
    <3>3. ~(k[1] = fil_obs /\ k[2] \in target)
      <4>1. k[1] = fil_obs /\ k[2] \in target => m_File[k[2]] = "open"
        BY <3>1 DEF Targets
      <4> QED  BY <3>2, <4>1, FilePairs DEF StreamInv, HandlesOpen
    <3> QED  BY <3>1, <3>2, <3>3 DEF AbsentEmpty
  <2> QED  BY <1>4, <2>1, <2>2 DEF dada_dbfil_io
<1>5. CASE dada_dbfil_close
  <2>1. CASE CloseWaiting \/ CloseIdle \/ CloseOverrun
    BY <1>1, <2>1 DEF CloseWaiting, CloseIdle, CloseOverrun
  <2>2. CASE CloseFinished \/ CloseFinishedDies
    <3>1. \E B, R : disk' = DiskAfterClose(B, R)
      BY <2>2 DEF CloseFinished, Closed, CloseFinishedDies, CloseDies
    <3> QED  BY <1>2, <3>1
  <2> QED  BY <1>5, <2>1, <2>2 DEF dada_dbfil_close
<1>6. CASE MainLoop \/ sig_handler \/ HealthFails \/ UNCHANGED vars
  BY <1>1, <1>6 DEF MainLoop, sig_handler, HealthFails, vars
<1>7. CASE Restart
  BY <1>7 DEF Restart, StreamInv, TypeOK, FileRecords, AbsentEmpty
<1> QED  BY <1>3, <1>4, <1>5, <1>6, <1>7 DEF Next, Ended

LEMMA InitRefines == Init => Archive!ArchiveInit
<1> SUFFICES ASSUME Init PROVE Archive!ArchiveInit
  OBVIOUS
<1>1. Archive!Files = Files
  BY DEF Archive!Files, Files, Beams
<1>2. \A k \in Files : disk[k] = NoFile
  BY DEF Init
<1>3. NoStreamLeaked
  BY <1>2 DEF NoFile, NoStreamLeaked
<1>4. \A k \in Files : StatusOf(k) = "absent"
  BY <1>2 DEF NoFile, StatusOf
<1>5. \A o \in ObsIds : DeclaredOf(o) = 0
  BY <1>2 DEF NoFile, Existing, DeclaredOf
<1>6. FileData = [k \in Files |-> <<>>]
  BY <1>2 DEF NoFile, FileData
<1> QED  BY <1>1, <1>3, <1>4, <1>5, <1>6, Mapping DEF Archive!ArchiveInit

\* Unless an observation is cut short, a sub-observation truncated or sent twice,
\* a header not rewritten or the program started again, the files behave as the
\* archive: the client deals the seconds out to the beams in turn and seals the
\* files of an observation together, when each holds the seconds declared.
THEOREM ClientImplementsArchive ==
  ASSUME Refinable PROVE Spec => ImplementsArchive
<1>1. Init => Archive!ArchiveInit /\ AbsentEmpty
  <2>1. Init => AbsentEmpty
    BY DEF Init, NoFile, AbsentEmpty
  <2> QED  BY <2>1, InitRefines
<1>2. Sealing
  BY DEF Refinable
<1>3. Spec => [](Proved /\ SealInv)
  BY <1>2, SealedAlways
<1>4. Proved /\ AbsentEmpty /\ [Next]_vars => AbsentEmpty'
  BY AbsentEmptyStep DEF Proved
<1>5. /\ Proved /\ SealInv /\ AbsentEmpty /\ Proved' /\ [Next]_vars
      => [Archive!ArchiveNext]_<<FileStatus, ObsDeclared, FileData>>
  <2> SUFFICES ASSUME Proved, SealInv, AbsentEmpty, Proved', [Next]_vars
               PROVE  SameArchive \/ Archive!ArchiveNext
    BY DEF SameArchive
  <2>1. NoStreamLeaked' /\ Demultiplexed'
    BY DEF Proved, StreamInv, Ordered
  <2> QED  BY <2>1, StepRefines DEF RefinementInv
<1> QED
  BY <1>1, <1>3, <1>4, <1>5, PTL
  DEF Spec, ImplementsArchive, Archive!ArchiveSpec, Archive!archive
=============================================================================
