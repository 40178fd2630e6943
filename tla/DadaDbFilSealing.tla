-------------------------- MODULE DadaDbFilSealing --------------------------
(***************************************************************************)
(* Proof that the files closed by an observation hold as many samples as   *)
(* the header of its last beam declares, in the environments of            *)
(* DadaDbFilDemux where, in addition, headers can be rewritten and the     *)
(* program is not started again; and that each file's own header does,     *)
(* where EXPOSURE_SECS never changes. Then, how the program ends: in which *)
(* environments a MODE=QUIT leaves nothing open that is complete, and in   *)
(* which the client never dies.                                            *)
(***************************************************************************)
EXTENDS DadaDbFilDemux, WellFoundedInduction

Sealing == Orderly /\ Faults \cap {"unpatched", "restart"} = {}

\* The header of an open file is right unless the duration has changed, which
\* is then made good at the close.
HeaderCurrent ==
  \A k \in Files :
    disk[k].status = "open" /\ ~ctx.duration_changed
      => disk[k].nsecs = ctx.exposure_sec

\* duration_changed outlives the observation: a MODE=QUIT after it rewrites the
\* header of the last beam once more, with the same number.
RewritingHarmless ==
  ctx.obs_id = 0 /\ ctx.duration_changed =>
    \A k \in Files :
      k[1] = fil_obs /\ k[2] = LastBeam /\ disk[k].status = "closed"
        => disk[k].nsecs = ctx.exposure_sec

\* What SealedComplete says while the process lives.
LastTruthful ==
  \A j, k \in Files :
    /\ disk[j].status = "closed" /\ IsLast(j)
    /\ disk[k].status = "closed" /\ k[1] = j[1]
    => Len(disk[k].data) = disk[j].nsecs

\* The observation upstream is at has no file for a beam that it has not.
FilesFit ==
  \A k \in Files :
    disk[k].status # "absent" /\ k[1] = header.obs_id => k[2] < header.nbeams

SealInv ==
  phase # "died" =>
    LastTruthful /\ FilesFit /\ HeaderCurrent /\ RewritingHarmless

\* Where EXPOSURE_SECS never changes there is nothing to rewrite.
Untimed == phase # "died" => ~ctx.duration_changed /\ \A k \in Files : ~Unsealed(k)

-----------------------------------------------------------------------------
(* Lemmas *)

LEMMA ClosingNoFile ==
  ASSUME TypeOK, Sealing, NEW R \in Rewritten(First(0))
  PROVE  DiskAfterClose(First(0), R) = disk
<1>1. First(0) = {}
  BY DEF First
<1>2. R = {}
  BY <1>1 DEF Rewritten, Fault, Sealing
<1>3. ASSUME NEW k \in Files PROVE DiskAfterClose({}, {})[k] = disk[k]
  BY DEF DiskAfterClose, TypeOK, FileRecords
<1> QED  BY <1>1, <1>2, <1>3 DEF DiskAfterClose, TypeOK

\* While an observation is recorded, its files are those that are open.
LEMMA RecordedOpen ==
  ASSUME Proved, Recording
  PROVE  /\ fil_obs = ctx.obs_id
         /\ \A b \in Live : m_File[b] = "open" /\ disk[<<fil_obs, b>>].status = "open"
<1>1. /\ fil_obs = ctx.obs_id
      /\ \A b \in Live : m_File[b] = "open"
  BY DEF Proved, Ordered, InStep
<1>2. Live \subseteq Beams
  BY LiveBeams DEF Proved
<1> QED  BY <1>1, <1>2 DEF Proved, StreamInv, HandlesOpen

\* LastTruthful is about what is closed: it stays true as long as no file is
\* closed and none is removed.
LEMMA TruthKept ==
  ASSUME LastTruthful,
         \A k \in Files : /\ disk'[k].status = "closed" => disk'[k] = disk[k]
                          /\ disk'[k].status = "absent" => disk[k].status = "absent"
  PROVE  LastTruthful'
<1>1. ASSUME NEW j \in Files, IsLast(j)' PROVE IsLast(j)
  BY <1>1 DEF IsLast
<1> QED  BY <1>1 DEF LastTruthful

\* A header never changes the number of beams of its observation.
LEMMA FitKept ==
  ASSUME Sealing, Proved, FilesFit, NEW h \in Follows(header), header' = h,
         \A k \in Files : disk'[k].status # "absent" =>
           disk[k].status # "absent" \/ (k[1] = h.obs_id /\ k[2] < h.nbeams)
  PROVE  FilesFit'
<1>1. header \in Headers /\ h \in Headers
  BY FollowsType DEF Proved, StreamInv, TypeOK
<1>2. h.obs_id > header.obs_id
      \/ (h.obs_id = header.obs_id /\ h.nbeams = header.nbeams)
  BY <1>1, FollowsKinds DEF Sealing, Orderly, Headers
<1> SUFFICES ASSUME NEW k \in Files, disk'[k].status # "absent", k[1] = h.obs_id
             PROVE  k[2] < h.nbeams
  BY DEF FilesFit
<1>3. CASE disk[k].status # "absent"
  <2>1. k[1] <= header.obs_id
    BY <1>3 DEF Proved, StreamInv, NoFutureFile
  <2>2. ~(h.obs_id > header.obs_id)
    BY <1>1, <2>1, HeaderNumbers
  <2> QED  BY <1>2, <1>3, <2>2 DEF FilesFit
<1> QED  BY <1>3

-----------------------------------------------------------------------------
(* Steps *)

LEMMA OpenSealed ==
  ASSUME Sealing, Proved, SealInv, dada_dbfil_open
  PROVE  SealInv'
<1>1. PICK h \in Follows(header) :
        \/ OpenQuit(h) \/ OpenRejected(h) \/ OpenContinued(h)
        \/ OpenNotContinued(h) \/ OpenDies(h) \/ OpenSkipped(h)
        \/ OpenUnreadable(h) \/ OpenNoMetafits(h) \/ OpenStarted(h)
        \/ OpenCreateDies(h)
  BY DEF dada_dbfil_open
<1>2. /\ header \in Headers /\ h \in Headers /\ ctx \in Contexts /\ TypeOK
      /\ phase = "header" /\ header' = h
  BY <1>1, FollowsType
  DEF Proved, StreamInv, TypeOK, OpenQuit, OpenRejected, OpenContinued,
      OpenNotContinued, OpenDies, OpenSkipped, OpenUnreadable, OpenNoMetafits,
      OpenStarted, OpenCreateDies, Receive
<1> DEFINE Truthful == LastTruthful /\ FilesFit
<1>0. ASSUME disk' = disk PROVE Truthful'
  BY <1>0, <1>2, TruthKept, FitKept DEF SealInv
<1> HIDE DEF Truthful
<1>3. CASE OpenQuit(h)
  <2>1. UNCHANGED <<ctx, fil_obs, disk>>
    BY <1>3 DEF OpenQuit
  <2> QED
    BY <1>0, <1>2, <2>1 DEF Truthful, SealInv, HeaderCurrent,
       RewritingHarmless, LastBeam
<1>4. CASE OpenRejected(h) \/ OpenNotContinued(h)
  <2>1. phase' = "failed" /\ UNCHANGED <<fil_obs, disk>>
        /\ ctx' \in {ctx, DurationRead(h)}
    BY <1>4 DEF OpenRejected, OpenNotContinued
  <2>2. ctx' = DurationRead(h) => ctx.obs_id # 0 \/ ctx' = ctx
    <3>1. CASE OpenRejected(h)
      BY <3>1 DEF OpenRejected
    <3>2. CASE OpenNotContinued(h)
      <4>1. h.obs_id = ctx.obs_id /\ h.obs_id > 0
        BY <3>2 DEF OpenNotContinued, Continuation, Identified
      <4> QED  BY <1>2, <4>1, HeaderNumbers
    <3> QED  BY <1>4, <3>1, <3>2
  <2>3. /\ ctx'.obs_id = ctx.obs_id
        /\ ~ctx'.duration_changed =>
             ~ctx.duration_changed /\ ctx'.exposure_sec = ctx.exposure_sec
        /\ ctx.obs_id = 0 => ctx' = ctx
    BY <1>2, <2>1, <2>2 DEF DurationRead, Contexts
  <2>4. ~Recording'
    BY <2>1 DEF Recording
  <2> QED
    BY <1>0, <1>2, <2>1, <2>3, <2>4 DEF Truthful, SealInv, HeaderCurrent,
       RewritingHarmless, LastBeam
<1>5. CASE OpenContinued(h)
  <2>1. UNCHANGED <<fil_obs, disk>> /\ h.mode = "VALID" /\ ctx.obs_id # 0
    <3>1. h.obs_id = ctx.obs_id /\ h.obs_id > 0 /\ h.mode = "VALID"
      BY <1>5 DEF OpenContinued, Continuation, Identified
    <3> QED  BY <1>2, <1>5, <3>1, HeaderNumbers DEF OpenContinued
  <2>2. /\ ctx'.obs_id = ctx.obs_id
        /\ ~ctx'.duration_changed =>
             ~ctx.duration_changed /\ ctx'.exposure_sec = ctx.exposure_sec
    BY <1>2, <1>5 DEF OpenContinued, DurationRead, Contexts
  <2> QED
    BY <1>0, <1>2, <2>1, <2>2 DEF Truthful, SealInv, HeaderCurrent,
       RewritingHarmless
<1>6. CASE OpenDies(h) \/ OpenCreateDies(h)
  BY <1>6 DEF OpenDies, CloseDies, OpenCreateDies, SealInv
<1>7. ASSUME NewObservation(h)
      PROVE  /\ ctx.obs_id = 0 /\ Superseded = 0
             /\ \A R \in Rewritten(First(Superseded)) :
                  DiskAfterClose(First(Superseded), R) = disk
             /\ \A k \in Files : disk[k].status # "open"
  <2>1. ctx.obs_id = 0 /\ Superseded = 0
    BY <1>2, <1>7, NeverSuperseded DEF Superseded, Sealing, Proved
  <2>2. \A R \in Rewritten(First(Superseded)) :
          DiskAfterClose(First(Superseded), R) = disk
    BY <1>2, <2>1, ClosingNoFile
  <2>3. \A k \in Files : disk[k].status # "open"
    BY <2>1, FilePairs, UpstreamAssumption
    DEF Proved, StreamInv, NoStreamLeaked
  <2> QED  BY <2>1, <2>2, <2>3
<1>8. CASE OpenSkipped(h) \/ OpenUnreadable(h) \/ OpenNoMetafits(h)
  <2>1. NewObservation(h) /\ h.mode = "VALID" /\ fil_obs' = fil_obs
        /\ Closed(Superseded)
    BY <1>8 DEF OpenSkipped, OpenUnreadable, OpenNoMetafits,
       StartsObservation, NewObservation, Identified
  <2>2. disk' = disk /\ \A k \in Files : disk[k].status # "open"
    BY <1>7, <2>1 DEF Closed
  <2>3. RewritingHarmless'
    <3>1. CASE OpenSkipped(h)
      <4>1. /\ ctx'.nbeams_total = ctx.nbeams_total
            /\ ctx'.exposure_sec = ctx.exposure_sec
            /\ ctx'.duration_changed = ctx.duration_changed
        BY <1>2, <3>1 DEF OpenSkipped, Contexts
      <4> QED
        BY <1>2, <1>7, <2>1, <2>2, <4>1 DEF SealInv, RewritingHarmless, LastBeam
    <3>2. CASE OpenUnreadable(h)
      <4>1. ctx'.duration_changed = FALSE
        BY <1>2, <3>2 DEF OpenUnreadable, StartedContext, Contexts
      <4> QED  BY <4>1 DEF RewritingHarmless
    <3>3. CASE OpenNoMetafits(h)
      <4>1. ctx'.duration_changed = FALSE
        BY <1>2, <3>3 DEF OpenNoMetafits, StartedContext, Contexts
      <4> QED  BY <4>1 DEF RewritingHarmless
    <3> QED  BY <1>8, <3>1, <3>2, <3>3
  <2> QED
    BY <1>0, <1>2, <2>1, <2>2, <2>3
    DEF Truthful, SealInv, HeaderCurrent
<1>9. CASE OpenStarted(h)
  <2>1. NewObservation(h) /\ h.mode = "VALID" /\ ctx' = StartedContext(h)
    BY <1>9 DEF OpenStarted, StartsObservation, NewObservation, Identified
  <2>2. ctx'.exposure_sec = h.exposure_sec /\ ctx'.duration_changed = FALSE
    BY <1>2, <2>1 DEF StartedContext, Contexts
  <2>3. PICK a : CreateFils(h, a, h.nbeams)
    BY <1>9 DEF OpenStarted
  <2>4. ASSUME NEW k \in Files
        PROVE  \/ /\ disk'[k].status = "open" /\ disk'[k].nsecs = h.exposure_sec
                  /\ k[1] = h.obs_id /\ k[2] < h.nbeams
               \/ disk'[k] = disk[k] /\ disk[k].status # "open"
    BY <1>7, <2>1, <2>3 DEF CreateFils
  <2>5. LastTruthful'
    BY <1>2, <2>4, TruthKept DEF SealInv
  <2>6. FilesFit'
    BY <1>2, <2>4, FitKept DEF SealInv
  <2> QED
    BY <1>2, <2>1, <2>2, <2>4, <2>5, <2>6 DEF SealInv, HeaderCurrent,
       RewritingHarmless, Identified
<1> QED  BY <1>1, <1>3, <1>4, <1>5, <1>6, <1>8, <1>9

LEMMA IoSealed ==
  ASSUME Sealing, Proved, SealInv, dada_dbfil_io
  PROVE  SealInv'
<1>1. CASE IoIgnored
  BY <1>1, TruthKept DEF IoIgnored, BlockReady, SealInv, FilesFit,
     HeaderCurrent, RewritingHarmless, Recording, LastBeam
<1>2. CASE IoFailed
  BY <1>2, TruthKept DEF IoFailed, BlockReady, SealInv, FilesFit,
     HeaderCurrent, RewritingHarmless, Recording, LastBeam
<1>3. CASE IoWritten
  <2>1. PICK target \in Targets(NextBeam) :
          disk' = [ j \in Files |->
                      IF j[1] = fil_obs /\ j[2] \in target
                      THEN [disk[j] EXCEPT
                              !.data = Append(@, Block(header, sent))]
                      ELSE disk[j] ]
    BY <1>3 DEF IoWritten
  <2>2. ASSUME NEW k \in Files, k[1] = fil_obs, k[2] \in target
        PROVE  disk[k].status = "open"
    <3>1. m_File[k[2]] = "open"
      BY <2>1, <2>2 DEF Targets
    <3> QED  BY <2>2, <3>1, FilePairs DEF Proved, StreamInv, HandlesOpen
  <2>3. ASSUME NEW k \in Files
        PROVE  /\ disk'[k].status = disk[k].status
               /\ disk'[k].nsecs = disk[k].nsecs
               /\ disk[k].status = "closed" => disk'[k] = disk[k]
    BY <2>1, <2>2 DEF Proved, StreamInv, TypeOK, FileRecords
  <2>4. /\ ctx.obs_id # 0 /\ ctx'.obs_id = ctx.obs_id
        /\ ctx'.exposure_sec = ctx.exposure_sec
        /\ ctx'.duration_changed = ctx.duration_changed
    BY <1>3 DEF IoWritten, Proved, StreamInv, TypeOK, Contexts
  <2>5. phase = "data" /\ header' = header /\ header.mode # "QUIT"
    <3>1. phase = "data" /\ header' = header /\ sent < Blocks(header)
      BY <1>3 DEF IoWritten, BlockReady
    <3> QED  BY <3>1 DEF Blocks, Proved, StreamInv, TypeOK
  <2>6. LastTruthful'
    BY <2>3, <2>5, TruthKept DEF SealInv
  <2> QED
    BY <2>3, <2>4, <2>5, <2>6 DEF SealInv, FilesFit, HeaderCurrent,
       RewritingHarmless
<1> QED  BY <1>1, <1>2, <1>3 DEF dada_dbfil_io

\* The close that ends an observation: all its files are equally long, and the
\* header of the last beam agrees with them.
LEMMA FinishedObservation ==
  ASSUME Sealing, Proved, SealInv, CloseFinished, ctx.obs_id # 0
  PROVE  LastTruthful' /\ RewritingHarmless'
<1>1. ctx \in Contexts /\ phase = "data" /\ Recording /\ EndOfData
      /\ EndOfObservation
  BY DEF Proved, StreamInv, TypeOK, CloseFinished, EndOfData, Recording,
     ClosesFiles
<1>2. /\ fil_obs' = fil_obs
      /\ ctx'.nbeams_total = ctx.nbeams_total
      /\ ctx'.exposure_sec = ctx.exposure_sec
  BY <1>1 DEF CloseFinished, FinishedContext, Contexts
<1>3. disk' = DiskAfterClose(Live, Live) /\ Live # {}
  <2>1. header.nbeams > 0 /\ ctx.nbeams_total = header.nbeams
    BY <1>1 DEF Proved, Ordered, InStep
  <2>2. header.nbeams \in Nat
    BY HeaderNumbers DEF Proved, StreamInv, TypeOK
  <2>3. 0 \in Live
    BY <2>1, <2>2 DEF Live
  <2> QED
    BY <2>3 DEF CloseFinished, Closed, Rewritten, Fault, Sealing, Live, First
<1>4. ASSUME NEW k \in Files, k[1] = fil_obs, disk'[k].status = "closed"
      PROVE  /\ k[2] \in Live /\ k[2] <= LastBeam
             /\ Len(disk'[k].data) = ctx.exposure_sec
             /\ k[2] = LastBeam => disk'[k].nsecs = ctx.exposure_sec
  <2>1. /\ header.obs_id = fil_obs /\ header.nbeams = ctx.nbeams_total
        /\ ctx.nbeams_total \in Nat
    BY <1>1 DEF Proved, Ordered, InStep, Contexts
  <2>2. disk[k].status # "absent" /\ disk'[k].data = disk[k].data
    BY <1>3, <1>4, ClosingFacts DEF Proved, StreamInv
  <2>3. k[2] < ctx.nbeams_total
    BY <1>1, <1>4, <2>1, <2>2 DEF SealInv, FilesFit
  <2>4. k[2] \in Live /\ k[2] <= LastBeam /\ k = <<fil_obs, k[2]>>
    BY <1>4, <2>1, <2>3, FilePairs DEF Live, LastBeam, Beams
  <2>5. disk[k].status = "open" /\ m_File[k[2]] = "open"
    BY <1>1, <2>4, RecordedOpen
  <2>6. Len(disk[k].data) = ctx.exposure_sec
    BY <1>1, <2>4, FinishedWhole DEF Sealing
  <2>7. ASSUME k[2] = LastBeam PROVE disk'[k].nsecs = ctx.exposure_sec
    <3>1. CASE ctx.duration_changed
      BY <1>3, <1>4, <2>5, <2>7, <3>1
      DEF DiskAfterClose, Proved, StreamInv, TypeOK, FileRecords
    <3>2. CASE ~ctx.duration_changed
      <4>1. disk[k].nsecs = ctx.exposure_sec
        BY <1>1, <2>5, <3>2 DEF SealInv, HeaderCurrent
      <4> QED
        BY <1>3, <1>4, <2>5, <3>2, <4>1
        DEF DiskAfterClose, Proved, StreamInv, TypeOK, FileRecords
    <3> QED  BY <3>1, <3>2
  <2> QED  BY <2>2, <2>4, <2>6, <2>7
<1>5. RewritingHarmless'
  BY <1>2, <1>4 DEF RewritingHarmless, LastBeam
<1>6. ASSUME NEW j \in Files, NEW k \in Files,
             disk'[j].status = "closed", IsLast(j)',
             disk'[k].status = "closed", k[1] = j[1]
      PROVE  Len(disk'[k].data) = disk'[j].nsecs
  <2>1. CASE j[1] = fil_obs
    <3>1. j[2] \in Live /\ j[2] <= LastBeam
      BY <1>4, <1>6, <2>1
    <3>2. LastBeam \in Live /\ LastBeam \in Beams
      BY <1>1, <3>1, LiveBeams DEF Live, LastBeam, Contexts, Proved
    <3>3. fil_obs \in ObsIds
      BY <1>6, <2>1, FilePairs
    <3>4. disk[<<fil_obs, LastBeam>>].status = "open"
      BY <1>1, <3>2, RecordedOpen
    <3>5. ASSUME NEW i \in Files, i = <<fil_obs, LastBeam>>
          PROVE  ~(i[2] > j[2])
      <4>1. disk'[i].status # "absent"
        BY <1>3, <3>4, <3>5, ClosingFacts DEF Proved, StreamInv
      <4> QED  BY <1>6, <2>1, <3>5, <4>1 DEF IsLast
    <3>6. j[2] = LastBeam
      <4>1. <<fil_obs, LastBeam>> \in Files
        BY <3>2, <3>3 DEF Files
      <4>2. ~(LastBeam > j[2])
        BY <3>5, <4>1
      <4>3. LastBeam \in Int /\ j[2] \in Int
        BY <3>1, <3>2 DEF Live, Beams
      <4> QED  BY <3>1, <4>2, <4>3
    <3> QED  BY <1>4, <1>6, <2>1, <3>6
  <2>2. CASE j[1] # fil_obs
    <3>1. \A i \in Files : i[1] = j[1] => disk'[i] = disk[i]
      BY <1>3, <2>2 DEF DiskAfterClose
    <3>2. IsLast(j)
      BY <1>6, <3>1 DEF IsLast
    <3> QED  BY <1>1, <1>6, <3>1, <3>2 DEF SealInv, LastTruthful
  <2> QED  BY <2>1, <2>2
<1> QED  BY <1>5, <1>6 DEF LastTruthful

\* Closing the beams while nothing is being recorded, as MODE=QUIT asks for,
\* changes nothing.
LEMMA IdleClosing ==
  ASSUME Proved, SealInv, phase = "data", ctx.obs_id = 0, NEW B, NEW R
  PROVE  DiskAfterClose(B, R) = disk
<1>1. ctx \in Contexts /\ TypeOK
  BY DEF Proved, StreamInv, TypeOK
<1>2. \A k \in Files : disk[k].status # "open"
  BY FilePairs, UpstreamAssumption DEF Proved, StreamInv, NoStreamLeaked
<1>3. ASSUME NEW k \in Files PROVE DiskAfterClose(B, R)[k] = disk[k]
  <2>1. disk[k] \in FileRecords
    BY <1>1 DEF TypeOK
  <2>2. CASE k[1] = fil_obs /\ disk[k].status # "absent"
    <3>1. disk[k].status = "closed"
      BY <1>2, <2>1, <2>2 DEF FileRecords
    <3>2. ctx.duration_changed /\ k[2] = LastBeam
            => disk[k].nsecs = ctx.exposure_sec
      BY <2>2, <3>1 DEF SealInv, RewritingHarmless
    <3>3. DiskAfterClose(B, R)[k] =
            [disk[k] EXCEPT !.status = disk[k].status, !.nsecs = disk[k].nsecs]
      BY <2>1, <2>2, <3>1, <3>2 DEF DiskAfterClose, FileRecords
    <3> QED  BY <2>1, <3>3 DEF FileRecords
  <2>3. CASE ~(k[1] = fil_obs /\ disk[k].status # "absent")
    BY <2>3 DEF DiskAfterClose
  <2> QED  BY <2>2, <2>3
<1> QED  BY <1>1, <1>3 DEF TypeOK, DiskAfterClose

LEMMA FinishedIdle ==
  ASSUME Proved, SealInv, CloseFinished, ctx.obs_id = 0
  PROVE  disk' = disk
<1>1. phase = "data" /\ \E B, R : disk' = DiskAfterClose(B, R)
  BY DEF CloseFinished, Closed, EndOfData
<1> QED  BY <1>1, IdleClosing

LEMMA FinishedSealed ==
  ASSUME Sealing, Proved, SealInv, CloseFinished
  PROVE  SealInv'
<1>1. ctx \in Contexts /\ phase = "data" /\ phase' = "returned"
      /\ fil_obs' = fil_obs /\ header' = header
  BY DEF Proved, StreamInv, TypeOK, CloseFinished, EndOfData
<1>2. /\ ctx'.obs_id = 0
      /\ ctx'.nbeams_total = ctx.nbeams_total
      /\ ctx'.exposure_sec = ctx.exposure_sec
      /\ ctx'.duration_changed = ctx.duration_changed
  BY <1>1 DEF CloseFinished, FinishedContext, Contexts
<1>3. PICK B, R : disk' = DiskAfterClose(B, R)
  BY DEF CloseFinished, Closed
<1>4. FilesFit'
  BY <1>1, <1>3, ClosingFacts DEF SealInv, FilesFit, Proved, StreamInv
<1>5. HeaderCurrent'
  <2>1. \A k \in Files : disk'[k].status # "open"
    BY ClosingAll DEF CloseFinished, Closed, Proved
  <2> QED  BY <2>1 DEF HeaderCurrent
<1>6. LastTruthful' /\ RewritingHarmless'
  <2>1. CASE ctx.obs_id = 0
    BY <1>1, <1>2, <2>1, FinishedIdle, TruthKept
    DEF SealInv, RewritingHarmless, LastBeam
  <2>2. CASE ctx.obs_id # 0
    BY <2>2, FinishedObservation
  <2> QED  BY <2>1, <2>2
<1> QED  BY <1>2, <1>4, <1>5, <1>6 DEF SealInv, Recording

LEMMA SealStep ==
  Sealing /\ Proved /\ SealInv /\ [Next]_vars => SealInv'
<1> SUFFICES ASSUME Sealing, Proved, SealInv, [Next]_vars PROVE SealInv'
  OBVIOUS
<1>1. CASE dada_dbfil_open
  BY <1>1, OpenSealed
<1>2. CASE dada_dbfil_io
  BY <1>2, IoSealed
<1>3. CASE dada_dbfil_close
  <2>1. CASE CloseWaiting \/ CloseIdle
    BY <2>1, TruthKept DEF CloseWaiting, CloseIdle, EndOfData, SealInv,
       FilesFit, HeaderCurrent, RewritingHarmless, Recording,
       LastBeam
  <2>2. CASE CloseOverrun \/ CloseFinishedDies
    BY <2>2 DEF CloseOverrun, CloseFinishedDies, CloseDies, SealInv
  <2> QED  BY <1>3, <2>1, <2>2, FinishedSealed DEF dada_dbfil_close
<1>4. CASE MainLoop
  <2>1. /\ phase \in {"returned", "failed"} /\ phase' \in {"header", "exited"}
        /\ phase = "failed" => phase' = "exited"
        /\ UNCHANGED <<header, ctx, fil_obs, disk>>
    BY <1>4 DEF MainLoop, Fault
  <2>2. Recording' => Recording
    BY <2>1 DEF Recording
  <2> QED
    BY <2>1, <2>2, TruthKept DEF SealInv, FilesFit, HeaderCurrent,
       RewritingHarmless, LastBeam
<1>5. CASE sig_handler \/ UNCHANGED vars
  BY <1>5, TruthKept DEF sig_handler, vars, SealInv, FilesFit, HeaderCurrent,
     RewritingHarmless, Recording, LastBeam
<1>6. CASE HealthFails
  BY <1>6 DEF HealthFails, SealInv
<1>7. CASE Restart
  BY <1>7 DEF Restart, Sealing
<1> QED  BY <1>1, <1>2, <1>3, <1>4, <1>5, <1>6, <1>7 DEF Next, Ended

LEMMA SealedAlways == ASSUME Sealing PROVE Spec => [](Proved /\ SealInv)
<1>1. Init => SealInv
  BY DEF Init, SealInv, NoFile, NoContext, NoHeader, LastTruthful, FilesFit,
     HeaderCurrent, RewritingHarmless
<1>2. Proved /\ SealInv /\ [Next]_vars => SealInv'
  BY SealStep
<1> QED  BY <1>1, <1>2, ProvedAlways, PTL DEF Spec, Sealing

\* Unless an observation is cut short, a sub-observation truncated, a header
\* not rewritten or the program started again, the files an observation has
\* closed are equally long and the header of its last beam says how long, also
\* when EXPOSURE_SECS changed, headers were lost or came twice, and after a
\* MODE=QUIT.
THEOREM ClosedFilesComplete == ASSUME Sealing PROVE Spec => []SealedComplete
<1>1. SealInv => SealedComplete
  BY DEF SealInv, LastTruthful, SealedComplete
<1> QED  BY <1>1, SealedAlways, PTL

\* What has ended stays so.
LEMMA LivingOnly ==
  ASSUME Sealing, [Next]_vars, phase' # "died"
  PROVE  phase # "died"
BY DEF Next, dada_dbfil_open, OpenQuit, OpenRejected, OpenContinued,
   OpenNotContinued, OpenDies, OpenSkipped, OpenUnreadable, OpenNoMetafits,
   OpenStarted, OpenCreateDies, Receive, dada_dbfil_io, IoIgnored, IoWritten,
   IoFailed, BlockReady, dada_dbfil_close, CloseWaiting, CloseIdle,
   CloseOverrun, CloseFinished, CloseFinishedDies, EndOfData, MainLoop,
   sig_handler, HealthFails, Restart, Sealing, Ended, vars

\* Files are closed by their observation, when it is finished.
LEMMA ClosedByFinish ==
  ASSUME Sealing, Proved, SealInv, [Next]_vars, phase' # "died",
         NEW k \in Files, disk'[k].status = "closed"
  PROVE  disk'[k] = disk[k] \/ (CloseFinished /\ ctx.obs_id # 0)
<1>1. CASE UNCHANGED disk
  BY <1>1
<1>2. CASE dada_dbfil_open
  <2>1. PICK h \in Follows(header) :
          \/ OpenQuit(h) \/ OpenRejected(h) \/ OpenContinued(h)
          \/ OpenNotContinued(h) \/ OpenDies(h) \/ OpenSkipped(h)
          \/ OpenUnreadable(h) \/ OpenNoMetafits(h) \/ OpenStarted(h)
          \/ OpenCreateDies(h)
    BY <1>2 DEF dada_dbfil_open
  <2>2. phase = "header" /\ TypeOK /\ header' = h
    BY <2>1 DEF Proved, StreamInv, OpenQuit, OpenRejected, OpenContinued,
       OpenNotContinued, OpenDies, OpenSkipped, OpenUnreadable,
       OpenNoMetafits, OpenStarted, OpenCreateDies, Receive
  <2>3. ASSUME NewObservation(h), NEW R \in Rewritten(First(Superseded))
        PROVE  DiskAfterClose(First(Superseded), R) = disk
    <3>1. Superseded = 0
      BY <2>1, <2>2, <2>3, NeverSuperseded DEF Superseded, Sealing, Proved
    <3> QED  BY <2>2, <2>3, <3>1, ClosingNoFile
  <2>4. CASE OpenQuit(h) \/ OpenRejected(h) \/ OpenContinued(h)
             \/ OpenNotContinued(h)
    BY <1>1, <2>4 DEF OpenQuit, OpenRejected, OpenContinued, OpenNotContinued
  <2>5. CASE OpenSkipped(h) \/ OpenUnreadable(h) \/ OpenNoMetafits(h)
    BY <1>1, <2>3, <2>5 DEF OpenSkipped, OpenUnreadable, OpenNoMetafits,
       StartsObservation, Closed
  <2>6. CASE OpenStarted(h)
    <3>1. NewObservation(h) /\ \E a : CreateFils(h, a, h.nbeams)
      BY <2>6 DEF OpenStarted, StartsObservation
    <3> QED  BY <2>3, <3>1 DEF CreateFils
  <2>7. CASE OpenDies(h) \/ OpenCreateDies(h)
    BY <2>7 DEF OpenDies, CloseDies, OpenCreateDies
  <2> QED  BY <2>1, <2>4, <2>5, <2>6, <2>7
<1>3. CASE dada_dbfil_io
  <2>1. CASE IoIgnored \/ IoFailed
    BY <1>1, <2>1 DEF IoIgnored, IoFailed
  <2>2. CASE IoWritten
    <3>1. PICK target \in Targets(NextBeam) :
            disk' = [ j \in Files |->
                        IF j[1] = fil_obs /\ j[2] \in target
                        THEN [disk[j] EXCEPT
                                !.data = Append(@, Block(header, sent))]
                        ELSE disk[j] ]
      BY <2>2 DEF IoWritten
    <3>2. disk[k].status = "closed"
      BY <3>1 DEF Proved, StreamInv, TypeOK, FileRecords
    <3>3. ~(k[1] = fil_obs /\ k[2] \in target)
      <4>1. k[1] = fil_obs /\ k[2] \in target => m_File[k[2]] = "open"
        BY <3>1 DEF Targets
      <4> QED  BY <3>2, <4>1, FilePairs DEF Proved, StreamInv, HandlesOpen
    <3> QED  BY <3>1, <3>3
  <2> QED  BY <1>3, <2>1, <2>2 DEF dada_dbfil_io
<1>4. CASE CloseFinished
  BY <1>1, <1>4, FinishedIdle
<1>5. CASE CloseWaiting \/ CloseIdle \/ CloseOverrun \/ CloseFinishedDies
  BY <1>1, <1>5 DEF CloseWaiting, CloseIdle, CloseOverrun, CloseFinishedDies,
     CloseDies
<1>6. CASE MainLoop \/ sig_handler \/ HealthFails \/ UNCHANGED vars
  BY <1>1, <1>6 DEF MainLoop, sig_handler, HealthFails, vars
<1>7. CASE Restart
  BY <1>7 DEF Restart, Sealing
<1> QED
  BY <1>2, <1>3, <1>4, <1>5, <1>6, <1>7 DEF Next, Ended, dada_dbfil_close

-----------------------------------------------------------------------------
(* Where EXPOSURE_SECS never changes *)

LEMMA FollowsExposure ==
  ASSUME "retime" \notin Faults, NEW g \in Headers, NEW h \in Follows(g),
         h.obs_id = g.obs_id
  PROVE  h.exposure_sec = g.exposure_sec
<1>1. ASSUME NEW x \in Starts(g) PROVE x.obs_id # g.obs_id
  <2>1. PICK o \in {i \in ObsIds : i > g.obs_id},
             offset \in {0, SecsPerSubobs}, e \in Exposures,
             n \in 1 .. MaxBeams : x = Header(o, offset, e, n)
    BY DEF Starts, Fault
  <2>2. x.obs_id = o /\ o \in Nat /\ g.obs_id \in Nat /\ o > g.obs_id
    BY <2>1, UpstreamAssumption, HeaderNumbers DEF Header
  <2> QED  BY <2>2
<1>2. ASSUME NEW x \in Continues(g) PROVE x.exposure_sec = g.exposure_sec
  <2>1. PICK offset \in NextOffsets(g), e \in NextExposures(g) :
          x = [Header(g.obs_id, offset, e, g.nbeams) EXCEPT !.nbit = g.nbit]
    BY DEF Continues, Further
  <2>2. e = g.exposure_sec
    BY DEF NextExposures, Fault
  <2> QED  BY <2>1, <2>2 DEF Header
<1>3. CASE h \in Starts(g) \cup Continues(g)
  BY <1>1, <1>2, <1>3
<1>4. CASE h \in Malformed(Starts(g) \cup Continues(g))
  <2>1. PICK x \in Starts(g) \cup Continues(g), d \in Defects :
          \/ h = [x EXCEPT !.defect = d]
          \/ h = [x EXCEPT !.nbit = 8]
    BY <1>4 DEF Malformed, Fault, Defects
  <2>2. x \in Headers
    BY <2>1, StartsType, ContinuesType
  <2>3. h.obs_id = x.obs_id /\ h.exposure_sec = x.exposure_sec
    BY <2>1, <2>2 DEF Headers
  <2> QED  BY <1>1, <1>2, <2>1, <2>3
<1>5. CASE h \in Quits(g)
  BY <1>5 DEF Quits, Headers
<1> QED  BY <1>3, <1>4, <1>5 DEF Follows

\* No step notes a change of the duration.
LEMMA DurationKept ==
  ASSUME "retime" \notin Faults, Proved, ~ctx.duration_changed, [Next]_vars
  PROVE  ~ctx'.duration_changed
<1>1. ctx \in Contexts /\ header \in Headers
  BY DEF Proved, StreamInv, TypeOK
<1>2. CASE dada_dbfil_open
  <2>1. PICK h \in Follows(header) :
          \/ OpenQuit(h) \/ OpenRejected(h) \/ OpenContinued(h)
          \/ OpenNotContinued(h) \/ OpenDies(h) \/ OpenSkipped(h)
          \/ OpenUnreadable(h) \/ OpenNoMetafits(h) \/ OpenStarted(h)
          \/ OpenCreateDies(h)
    BY <1>2 DEF dada_dbfil_open
  <2>2. CASE OpenContinued(h) \/ OpenNotContinued(h)
    <3>1. phase = "header" /\ Continuation(h)
      BY <2>2 DEF OpenContinued, OpenNotContinued, Receive
    <3>2. h.obs_id = ctx.obs_id /\ h.obs_id > 0
      BY <3>1 DEF Continuation, Identified
    <3>3. Recording
      BY <3>1, <3>2 DEF Recording
    <3>4. header.obs_id = ctx.obs_id /\ header.exposure_sec = ctx.exposure_sec
      BY <3>3 DEF Proved, Ordered, InStep
    <3>5. h.exposure_sec = ctx.exposure_sec
      BY <1>1, <2>1, <3>2, <3>4, FollowsExposure
    <3>6. DurationRead(h) = ctx
      BY <3>5 DEF DurationRead
    <3> QED
      BY <1>1, <2>2, <3>6 DEF OpenContinued, OpenNotContinued, Contexts
  <2>3. CASE OpenQuit(h) \/ OpenRejected(h) \/ OpenDies(h) \/ OpenSkipped(h)
    BY <1>1, <2>3 DEF OpenQuit, OpenRejected, OpenDies, OpenSkipped, Contexts
  <2>4. CASE OpenUnreadable(h)
    BY <1>1, <2>4 DEF OpenUnreadable, StartedContext, Contexts
  <2>5. CASE OpenNoMetafits(h) \/ OpenStarted(h) \/ OpenCreateDies(h)
    BY <1>1, <2>5 DEF OpenNoMetafits, OpenStarted, OpenCreateDies,
       StartedContext, Contexts
  <2> QED  BY <2>1, <2>2, <2>3, <2>4, <2>5
<1>3. CASE dada_dbfil_io
  BY <1>1, <1>3 DEF dada_dbfil_io, IoIgnored, IoWritten, IoFailed, Contexts
<1>4. CASE dada_dbfil_close
  BY <1>1, <1>4 DEF dada_dbfil_close, CloseWaiting, CloseIdle, CloseOverrun,
     CloseFinished, CloseFinishedDies, FinishedContext, Contexts
<1>5. CASE MainLoop \/ sig_handler \/ HealthFails \/ UNCHANGED vars
  BY <1>1, <1>5 DEF MainLoop, sig_handler, HealthFails, vars
<1>6. CASE Restart
  BY <1>6 DEF Restart, NoContext
<1> QED  BY <1>2, <1>3, <1>4, <1>5, <1>6 DEF Next, Ended

\* A step that closes a file finds its header to be right.
LEMMA ClosedSealed ==
  ASSUME Sealing, Proved, SealInv, Untimed, [Next]_vars,
         phase # "died", phase' # "died", NEW k \in Files,
         disk'[k].status = "closed"
  PROVE  ~Unsealed(k)'
<1>1. CASE disk'[k] = disk[k]
  BY <1>1 DEF Untimed, Unsealed
<1>2. CASE CloseFinished /\ ctx.obs_id # 0
  <2>1. Recording /\ EndOfData /\ EndOfObservation
    BY <1>2 DEF CloseFinished, EndOfData, Recording, ClosesFiles
  <2>2. PICK B, R : disk' = DiskAfterClose(B, R)
    BY <1>2 DEF CloseFinished, Closed
  <2>3. /\ disk'[k].nsecs = disk[k].nsecs /\ disk'[k].data = disk[k].data
        /\ disk[k].status \in {"open", "closed"}
    BY <2>2 DEF DiskAfterClose, Untimed, Proved, StreamInv, TypeOK, FileRecords
  <2>4. CASE disk[k].status = "open"
    <3>1. k[1] = fil_obs /\ k[2] \in Live /\ k = <<fil_obs, k[2]>>
      BY <2>4, FilePairs DEF Proved, StreamInv, NoStreamLeaked
    <3>2. Len(disk[k].data) = ctx.exposure_sec
      BY <1>2, <2>1, <3>1, FinishedWhole DEF Sealing
    <3>3. disk[k].nsecs = ctx.exposure_sec
      BY <2>4 DEF SealInv, HeaderCurrent, Untimed
    <3> QED  BY <2>3, <3>2, <3>3 DEF Unsealed
  <2>5. CASE disk[k].status = "closed"
    BY <2>3, <2>5 DEF Untimed, Unsealed
  <2> QED  BY <2>3, <2>4, <2>5
<1> QED  BY <1>1, <1>2, ClosedByFinish

\* In the same environments, if EXPOSURE_SECS never changes during an
\* observation, the header of every file that has been closed declares the
\* samples it holds.
THEOREM ClosedHeadersRight ==
  ASSUME Sealing, "retime" \notin Faults
  PROVE  Spec => []HeadersUpdated
<1>1. Init => Untimed
  BY DEF Init, NoContext, NoFile, Untimed, Unsealed
<1>2. Proved /\ SealInv /\ Untimed /\ [Next]_vars => Untimed'
  <2> SUFFICES ASSUME Proved, SealInv, Untimed, [Next]_vars, phase' # "died"
               PROVE  ~ctx'.duration_changed /\ \A k \in Files : ~Unsealed(k)'
    BY DEF Untimed
  <2>1. phase # "died"
    BY LivingOnly
  <2>2. ASSUME NEW k \in Files PROVE ~Unsealed(k)'
    BY <2>1, ClosedSealed DEF Unsealed
  <2> QED  BY <2>1, <2>2, DurationKept DEF Untimed
<1>3. Untimed => HeadersUpdated
  BY DEF Untimed, HeadersUpdated
<1> QED  BY <1>1, <1>2, <1>3, SealedAlways, PTL DEF Spec

-----------------------------------------------------------------------------
(* Whole sub-observations *)

\* Headers begin at whole sub-observations, an observation that ends is a
\* number of them, and at MODE=QUIT so is what has been recorded.
Whole ==
  phase # "died" =>
    /\ header.obs_offset % SecsPerSubobs = 0
    /\ \A k \in Files :
         disk[k].status = "closed" => Len(disk[k].data) % SecsPerSubobs = 0
    /\ Recording /\ header.mode = "QUIT" =>
         /\ ctx.block_number % ctx.nbeams_total = 0
         /\ (ctx.block_number \div ctx.nbeams_total) % SecsPerSubobs = 0

LEMMA WholeLater ==
  ASSUME NEW o \in Nat, o % SecsPerSubobs = 0
  PROVE  /\ o + SecsPerSubobs \in Nat /\ (o + SecsPerSubobs) % SecsPerSubobs = 0
         /\ (o + 2 * SecsPerSubobs) % SecsPerSubobs = 0
<1>1. SecsPerSubobs \in Nat \ {0}
  BY UpstreamAssumption
<1>2. /\ (1 * SecsPerSubobs + o) % SecsPerSubobs = o % SecsPerSubobs
      /\ (2 * SecsPerSubobs + o) % SecsPerSubobs = o % SecsPerSubobs
  BY <1>1, DivisionShift
<1>3. /\ 1 * SecsPerSubobs + o = o + SecsPerSubobs
      /\ 2 * SecsPerSubobs + o = o + 2 * SecsPerSubobs
      /\ o + SecsPerSubobs \in Nat
  BY <1>1
<1> QED  BY <1>2, <1>3

LEMMA FollowsOffset ==
  ASSUME NEW g \in Headers, g.obs_offset % SecsPerSubobs = 0,
         NEW h \in Follows(g)
  PROVE  h.obs_offset % SecsPerSubobs = 0
<1>0. g.obs_offset \in Nat
  BY HeaderNumbers
<1>1. ASSUME NEW x \in Starts(g) PROVE x.obs_offset % SecsPerSubobs = 0
  <2>1. PICK o \in {i \in ObsIds : i > g.obs_id},
             offset \in {0, SecsPerSubobs}, e \in Exposures,
             n \in 1 .. MaxBeams : x = Header(o, offset, e, n)
    BY DEF Starts, Fault
  <2>2. x.obs_offset = offset
    BY <2>1 DEF Header
  <2>3. (0 * SecsPerSubobs) % SecsPerSubobs = 0 /\ 0 * SecsPerSubobs = 0
        /\ 0 + SecsPerSubobs = SecsPerSubobs
    BY Division0, UpstreamAssumption
  <2>4. SecsPerSubobs % SecsPerSubobs = 0
    BY <2>3, WholeLater
  <2> QED  BY <2>2, <2>3, <2>4
<1>2. ASSUME NEW x \in Continues(g) PROVE x.obs_offset % SecsPerSubobs = 0
  <2>1. PICK offset \in NextOffsets(g), e \in NextExposures(g) :
          x = [Header(g.obs_id, offset, e, g.nbeams) EXCEPT !.nbit = g.nbit]
    BY DEF Continues, Further
  <2>2. x.obs_offset = offset
    BY <2>1 DEF Header
  <2>3. offset \in { g.obs_offset, g.obs_offset + SecsPerSubobs,
                    g.obs_offset + 2 * SecsPerSubobs }
    BY DEF NextOffsets, Fault
  <2> QED  BY <1>0, <2>2, <2>3, WholeLater
<1>3. CASE h \in Starts(g) \cup Continues(g)
  BY <1>1, <1>2, <1>3
<1>4. CASE h \in Malformed(Starts(g) \cup Continues(g))
  <2>1. PICK x \in Starts(g) \cup Continues(g), d \in Defects :
          \/ h = [x EXCEPT !.defect = d]
          \/ h = [x EXCEPT !.nbit = 8]
    BY <1>4 DEF Malformed, Fault, Defects
  <2>2. x \in Headers
    BY <2>1, StartsType, ContinuesType
  <2>3. h.obs_offset = x.obs_offset
    BY <2>1, <2>2 DEF Headers
  <2> QED  BY <1>1, <1>2, <2>1, <2>3
<1>5. CASE h \in Quits(g)
  BY <1>5 DEF Quits, Headers
<1> QED  BY <1>3, <1>4, <1>5 DEF Follows

\* After a complete sub-observation block_number is at a whole one.
LEMMA SubobsWhole ==
  ASSUME Proved, Whole, Recording, header.mode = "VALID",
         sent = SecsPerSubobs * header.nbeams
  PROVE  /\ ctx.nbeams_total \in Nat \ {0}
         /\ ctx.block_number % ctx.nbeams_total = 0
         /\ (ctx.block_number \div ctx.nbeams_total) % SecsPerSubobs = 0
<1> DEFINE n == header.nbeams
           o == header.obs_offset
<1>1. /\ n \in Nat /\ o \in Nat /\ SecsPerSubobs \in Nat
      /\ o % SecsPerSubobs = 0
  BY HeaderNumbers, UpstreamAssumption
  DEF Proved, StreamInv, TypeOK, Whole, Recording
<1>2. n = ctx.nbeams_total /\ n > 0 /\ ctx.block_number = o * n + sent
  BY DEF Proved, Ordered, InStep, Counted
<1>3. /\ o + SecsPerSubobs \in Nat
      /\ (o + SecsPerSubobs) % SecsPerSubobs = 0
  BY <1>1, WholeLater
<1> HIDE DEF n, o
<1>4. sent = SecsPerSubobs * n
  BY DEF n
<1>5. ctx.block_number = (o + SecsPerSubobs) * n
  BY <1>1, <1>2, <1>4
<1>6. n \in Nat \ {0}
  BY <1>1, <1>2
<1>7. ctx.block_number % n = 0 /\ ctx.block_number \div n = o + SecsPerSubobs
  BY <1>3, <1>5, <1>6, Division0, DivisionWhole
<1> QED  BY <1>2, <1>3, <1>6, <1>7

\* Between two sub-observations it is, and MODE=QUIT changes nothing of it.
LEMMA BetweenWhole ==
  ASSUME Proved, Whole, Recording, phase # "data"
  PROVE  /\ ctx.block_number % ctx.nbeams_total = 0
         /\ (ctx.block_number \div ctx.nbeams_total) % SecsPerSubobs = 0
<1>1. CASE header.mode = "QUIT"
  BY <1>1 DEF Whole, Recording
<1>2. CASE header.mode # "QUIT"
  <2>1. header.mode = "VALID"
    BY <1>2 DEF Proved, StreamInv, TypeOK, Headers, Ordered, InStep
  <2>2. sent = SecsPerSubobs * header.nbeams
    BY <2>1 DEF Proved, Ordered, Counted
  <2> QED  BY <2>1, <2>2, SubobsWhole
<1> QED  BY <1>1, <1>2

\* So an observation that is finished is a number of sub-observations long.
LEMMA FinishedMultiple ==
  ASSUME Sealing, Proved, Whole, EndOfData, ctx.obs_id # 0,
         EndOfObservation
  PROVE  ctx.exposure_sec % SecsPerSubobs = 0
<1>1. phase = "data" /\ Recording /\ ctx \in Contexts
  BY DEF EndOfData, Recording, Proved, StreamInv, TypeOK
<1>2. header.mode # "QUIT"
  <2>1. ~(ctx.obs_marker_number < ctx.exposure_sec)
    BY <1>1 DEF EndOfObservation, Contexts
  <2> QED  BY <1>1, <2>1 DEF Proved, QuitShort
<1>3. header.mode = "VALID"
  BY <1>1, <1>2 DEF Proved, StreamInv, TypeOK, Headers, Ordered, InStep
<1>4. sent = SecsPerSubobs * header.nbeams
  BY <1>2 DEF EndOfData, Blocks, Sealing, Orderly
<1>5. /\ ctx.nbeams_total \in Nat \ {0}
      /\ (ctx.block_number \div ctx.nbeams_total) % SecsPerSubobs = 0
  BY <1>1, <1>3, <1>4, SubobsWhole
<1>6. ctx.obs_marker_number = ctx.block_number \div ctx.nbeams_total
  <2>1. 0 \in Live
    BY <1>5 DEF Live
  <2>2. 0 \in Beams /\ m_File[0] = "open"
    BY <1>1, <2>1, LiveBeams DEF Proved, Ordered, InStep
  <2> QED  BY <1>1, <2>2 DEF Proved, Ordered, MarkerIsQuotient
<1> QED  BY <1>5, <1>6 DEF EndOfObservation

LEMMA WholeStep ==
  Sealing /\ Proved /\ SealInv /\ Whole /\ [Next]_vars => Whole'
<1> SUFFICES ASSUME Sealing, Proved, SealInv, Whole, [Next]_vars,
                    phase' # "died"
             PROVE  Whole'
  BY DEF Whole
<1>1. phase # "died"
  BY LivingOnly
<1>2. header \in Headers /\ ctx \in Contexts
  BY DEF Proved, StreamInv, TypeOK
<1>3. header'.obs_offset % SecsPerSubobs = 0
  <2>1. CASE dada_dbfil_open
    <3>1. \E h \in Follows(header) : header' = h
      BY <2>1 DEF dada_dbfil_open, OpenQuit, OpenRejected, OpenContinued,
         OpenNotContinued, OpenDies, OpenSkipped, OpenUnreadable,
         OpenNoMetafits, OpenStarted, OpenCreateDies, Receive
    <3> QED  BY <1>1, <1>2, <3>1, FollowsOffset DEF Whole
  <2>2. CASE ~dada_dbfil_open
    <3>1. header' = header
      BY <2>2 DEF Next, dada_dbfil_io, IoIgnored, IoWritten, IoFailed,
         dada_dbfil_close, CloseWaiting, CloseIdle, CloseOverrun,
         CloseFinished, CloseFinishedDies, MainLoop, sig_handler, HealthFails,
         Restart, Ended, vars
    <3> QED  BY <1>1, <3>1 DEF Whole
  <2> QED  BY <2>1, <2>2
<1>4. ASSUME NEW k \in Files, disk'[k].status = "closed"
      PROVE  Len(disk'[k].data) % SecsPerSubobs = 0
  <2>1. CASE disk'[k] = disk[k]
    BY <1>1, <1>4, <2>1 DEF Whole
  <2>2. CASE CloseFinished /\ ctx.obs_id # 0
    <3>1. Recording /\ EndOfData /\ EndOfObservation
      BY <2>2 DEF CloseFinished, EndOfData, Recording, ClosesFiles
    <3>2. PICK B, R : disk' = DiskAfterClose(B, R)
      BY <2>2 DEF CloseFinished, Closed
    <3>3. disk'[k].data = disk[k].data /\ disk[k].status \in {"open", "closed"}
      BY <1>4, <3>2 DEF DiskAfterClose, Proved, StreamInv, TypeOK, FileRecords
    <3>4. CASE disk[k].status = "open"
      <4>1. k[2] \in Live /\ k = <<fil_obs, k[2]>>
        BY <3>4, FilePairs DEF Proved, StreamInv, NoStreamLeaked
      <4> QED  BY <2>2, <3>1, <3>3, <4>1, FinishedWhole, FinishedMultiple
               DEF Sealing
    <3>5. CASE disk[k].status = "closed"
      BY <1>1, <3>3, <3>5 DEF Whole
    <3> QED  BY <3>3, <3>4, <3>5
  <2> QED  BY <1>4, <2>1, <2>2, ClosedByFinish
<1>5. ASSUME Recording', header'.mode = "QUIT"
      PROVE  /\ ctx'.block_number % ctx'.nbeams_total = 0
             /\ (ctx'.block_number \div ctx'.nbeams_total) % SecsPerSubobs = 0
  <2>1. Recording /\ ctx' = ctx /\ (header.mode = "QUIT" \/ phase = "header")
    BY QuitKeeps, <1>5 DEF Proved
  <2>2. CASE header.mode = "QUIT"
    BY <1>1, <2>1, <2>2 DEF Whole
  <2>3. CASE phase = "header"
    BY <2>1, <2>3, BetweenWhole
  <2> QED  BY <2>1, <2>2, <2>3
<1> QED  BY <1>3, <1>4, <1>5 DEF Whole

\* Among the files of an observation there is one of a last beam.
LEMMA LastExists ==
  ASSUME NEW S \in SUBSET Files, S # {}
  PROVE  \E k \in S : \A j \in S : j[2] <= k[2]
<1> DEFINE T == {MaxBeams - k[2] : k \in S}
<1>1. \A k \in Files : k[2] \in Int /\ k[2] < MaxBeams /\ MaxBeams - k[2] \in Nat
  BY FilePairs, UpstreamAssumption DEF Beams
<1>2. T \subseteq Nat /\ T # {}
  BY <1>1
<1>3. PICK x \in T : \A y \in T : ~(<<y, x>> \in OpToRel(<, Nat))
  <2> HIDE DEF T
  <2> QED  BY <1>2, WFMin, NatLessThanWellFounded
<1>4. \A y \in T : ~(y < x)
  BY <1>2, <1>3 DEF OpToRel
<1>5. PICK k \in S : x = MaxBeams - k[2]
  BY <1>3
<1>6. ASSUME NEW j \in S PROVE j[2] <= k[2]
  <2>1. ~(MaxBeams - j[2] < MaxBeams - k[2])
    BY <1>4, <1>5
  <2>2. j[2] \in Int /\ k[2] \in Int /\ MaxBeams \in Int
    BY <1>1, <1>5, UpstreamAssumption
  <2> HIDE DEF T
  <2> QED  BY <2>1, <2>2
<1> QED  BY <1>6

\* The files of the observation in progress, between two sub-observations.
LEMMA RecordedWhole ==
  ASSUME Proved, SealInv, Whole, Recording, phase # "data",
         NEW k \in Files, disk[k].status # "absent", k[1] = ctx.obs_id
  PROVE  /\ Len(disk[k].data) = ctx.block_number \div ctx.nbeams_total
         /\ Len(disk[k].data) % SecsPerSubobs = 0
<1> DEFINE n == ctx.nbeams_total
<1>1. /\ ctx.block_number % n = 0 /\ (ctx.block_number \div n) % SecsPerSubobs = 0
  BY BetweenWhole
<1>2. /\ n \in Nat /\ n > 0 /\ header.nbeams = n /\ fil_obs = ctx.obs_id
      /\ header.obs_id = ctx.obs_id /\ ctx.block_number \in Nat
      /\ \A b \in Live : m_File[b] = "open"
  BY DEF Proved, StreamInv, TypeOK, Contexts, Ordered, InStep
<1>3. k[2] \in Live /\ k = <<fil_obs, k[2]>>
  <2>1. k[2] < n
    BY <1>2 DEF SealInv, FilesFit, Recording
  <2> QED  BY <1>2, <2>1, FilePairs DEF Live, Beams
<1>4. Len(disk[k].data) = (ctx.block_number \div n) + (IF k[2] < 0 THEN 1 ELSE 0)
  BY <1>1, <1>2, <1>3 DEF Proved, DealtEvenly, Recording
<1>5. ~(k[2] < 0) /\ ctx.block_number \div n \in Nat
  <2>1. n \in Nat \ {0}
    BY <1>2
  <2>2. ~(k[2] < 0)
    BY <1>2, <1>3 DEF Live
  <2> HIDE DEF n
  <2> QED  BY <1>2, <2>1, <2>2, Division
<1> HIDE DEF n
<1>6. Len(disk[k].data) = ctx.block_number \div n
  BY <1>4, <1>5
<1> QED  BY <1>1, <1>6 DEF n

\* In the same environments, whenever main looks at the flag after a
\* sub-observation the files of an observation are equally long and end with a
\* whole sub-observation, also when it is the flag, an error or MODE=QUIT that
\* makes it stop.
THEOREM StopsBetweenSubobservations ==
  ASSUME Sealing PROVE Spec => []WholeSubobservations
<1>1. Init => Whole
  <2>1. 0 % SecsPerSubobs = 0
    <3>1. 0 * SecsPerSubobs = 0 /\ (0 * SecsPerSubobs) % SecsPerSubobs = 0
      BY Division0, UpstreamAssumption
    <3> QED  BY <3>1
  <2> QED
    BY <2>1 DEF Init, NoHeader, Header, NoFile, NoContext, Whole, Recording
<1>2. ASSUME Proved, SealInv, Whole PROVE WholeSubobservations
  <2> SUFFICES ASSUME phase \in {"header", "returned"},
                      NEW j \in Files, NEW k \in Files,
                      disk[j].status # "absent", disk[k].status # "absent",
                      j[1] = k[1]
               PROVE  /\ Len(disk[j].data) = Len(disk[k].data)
                      /\ Len(disk[j].data) % SecsPerSubobs = 0
    BY DEF WholeSubobservations
  <2>1. CASE j[1] = ctx.obs_id
    <3>1. Recording
      BY <2>1, FilePairs, UpstreamAssumption DEF Recording
    <3> QED  BY <1>2, <2>1, <3>1, RecordedWhole
  <2>2. CASE j[1] # ctx.obs_id
    <3> DEFINE S == {i \in Files : i[1] = j[1] /\ disk[i].status # "absent"}
    <3>1. \A i \in S : disk[i].status = "closed"
      <4>1. \A i \in S : disk[i] \in FileRecords /\ disk[i].status # "open"
        BY <1>2, <2>2 DEF Proved, StreamInv, TypeOK, NoStreamLeaked
      <4> QED  BY <4>1 DEF FileRecords
    <3>2. PICK l \in S : \A i \in S : i[2] <= l[2]
      BY LastExists
    <3>3. IsLast(l)
      <4> SUFFICES ASSUME NEW i \in Files, i[1] = l[1], i[2] > l[2],
                          disk[i].status # "absent"
                   PROVE  FALSE
        BY DEF IsLast
      <4>1. i[2] <= l[2]
        BY <3>2
      <4>2. i[2] \in Int /\ l[2] \in Int
        BY <3>2, FilePairs DEF Beams
      <4> QED  BY <4>1, <4>2
    <3>4. j \in S /\ k \in S
      OBVIOUS
    <3>5. /\ Len(disk[j].data) = disk[l].nsecs
          /\ Len(disk[k].data) = disk[l].nsecs
      BY <1>2, <3>1, <3>2, <3>3, <3>4 DEF SealInv, LastTruthful
    <3> QED  BY <1>2, <3>1, <3>4, <3>5 DEF Whole
  <2> QED  BY <2>1, <2>2
<1> QED  BY <1>1, <1>2, WholeStep, SealedAlways, PTL DEF Spec

-----------------------------------------------------------------------------
(* MODE=QUIT *)

\* From MODE=QUIT on, an open file is one that still lacks seconds.
QuitOpenShort ==
  header.mode = "QUIT" /\ phase # "died" =>
    \A k \in Files :
      disk[k].status = "open" => Len(disk[k].data) < ctx.exposure_sec

\* Between two sub-observations every open file has as many seconds as the
\* marker says, and the marker has not met EXPOSURE_SECS.
LEMMA OpenBetweenShort ==
  ASSUME Orderly, Proved, phase = "header", header.mode # "QUIT",
         NEW k \in Files, disk[k].status = "open"
  PROVE  Len(disk[k].data) < ctx.exposure_sec
<1> DEFINE n == header.nbeams
           o == header.obs_offset
<1>1. header \in Headers /\ ctx \in Contexts
  BY DEF Proved, StreamInv, TypeOK
<1>2. n \in Nat /\ o \in Nat /\ SecsPerSubobs \in Nat
  BY <1>1, HeaderNumbers, UpstreamAssumption
<1>3. k[1] = ctx.obs_id /\ k[2] \in Live /\ ctx.obs_id # 0
  <2>1. k[1] \in ObsIds
    BY FilePairs
  <2> QED  BY <2>1, UpstreamAssumption DEF Proved, StreamInv, NoStreamLeaked
<1>4. Recording
  BY <1>3 DEF Recording
<1>5. n = ctx.nbeams_total /\ n > 0 /\ header.mode = "VALID"
  BY <1>1, <1>4 DEF Proved, Ordered, InStep, Headers
<1>6. /\ sent = SecsPerSubobs * n /\ ctx.block_number = o * n + sent
      /\ ctx.obs_marker_number < ctx.exposure_sec
  BY <1>4, <1>5 DEF Proved, Ordered, Counted
<1>7. ctx.block_number % n = 0
  <2> HIDE DEF n, o
  <2>1. ctx.block_number = (o + SecsPerSubobs) * n
    BY <1>2, <1>6
  <2> QED  BY <1>2, <1>5, <2>1, Division0
<1>8. Len(disk[k].data) = ctx.obs_marker_number
                            + (IF k[2] < ctx.block_number % n THEN 1 ELSE 0)
  BY <1>5, QuotientCounts DEF Proved, Ordered, MarkerCountsSeconds
<1>9. ~(k[2] < 0)
  <2> HIDE DEF n
  <2> QED  BY <1>2, <1>3, <1>5 DEF Live
<1>10. ctx.obs_marker_number \in Nat /\ ctx.exposure_sec \in Nat
  BY <1>1 DEF Contexts
<1> HIDE DEF n
<1> QED  BY <1>6, <1>7, <1>8, <1>9, <1>10

\* At MODE=QUIT itself nothing is written; what the close closes is no longer
\* open.
LEMMA QuitOpenShortStep ==
  ASSUME Orderly, Proved, QuitOpenShort, [Next]_vars
  PROVE  QuitOpenShort'
<1>1. header \in Headers /\ ctx \in Contexts /\ sent \in Nat
  BY DEF Proved, StreamInv, TypeOK
<1> SUFFICES ASSUME header'.mode = "QUIT", phase' # "died",
                    NEW k \in Files, disk'[k].status = "open"
             PROVE  Len(disk'[k].data) < ctx'.exposure_sec
  BY DEF QuitOpenShort
<1>2. CASE dada_dbfil_open
  <2>1. PICK h \in Follows(header) :
          \/ OpenQuit(h) \/ OpenRejected(h) \/ OpenContinued(h)
          \/ OpenNotContinued(h) \/ OpenDies(h) \/ OpenSkipped(h)
          \/ OpenUnreadable(h) \/ OpenNoMetafits(h) \/ OpenStarted(h)
          \/ OpenCreateDies(h)
    BY <1>2 DEF dada_dbfil_open
  <2>2. header' = h /\ phase = "header"
    BY <2>1 DEF OpenQuit, OpenRejected, OpenContinued, OpenNotContinued,
       OpenDies, OpenSkipped, OpenUnreadable, OpenNoMetafits, OpenStarted,
       OpenCreateDies, Receive
  <2>3. OpenQuit(h)
    BY <2>1, <2>2 DEF OpenRejected, OpenContinued, OpenNotContinued,
       OpenDies, OpenSkipped, OpenUnreadable, OpenNoMetafits, OpenStarted,
       OpenCreateDies, StartsObservation, NewObservation, Continuation,
       Identified
  <2>4. ctx' = ctx /\ disk' = disk
    BY <2>3 DEF OpenQuit
  <2>5. CASE header.mode = "QUIT"
    BY <2>2, <2>4, <2>5 DEF QuitOpenShort
  <2>6. CASE header.mode # "QUIT"
    BY <2>2, <2>4, <2>6, OpenBetweenShort
  <2> QED  BY <2>5, <2>6
<1>3. CASE Restart
  <2>1. disk'[k] = [disk[k] EXCEPT !.status = IF @ = "open" THEN "closed" ELSE @]
    BY <1>3 DEF Restart
  <2> QED  BY <2>1 DEF Proved, StreamInv, TypeOK, FileRecords
<1>4. CASE dada_dbfil_io
  <2>1. header' = header /\ sent < Blocks(header)
    BY <1>4 DEF dada_dbfil_io, IoIgnored, IoWritten, IoFailed, BlockReady
  <2> QED  BY <1>1, <2>1 DEF Blocks
<1>5. CASE dada_dbfil_close
  <2>1. phase = "data" /\ header' = header
    BY <1>5 DEF dada_dbfil_close, CloseWaiting, CloseIdle, CloseOverrun,
       CloseFinished, CloseFinishedDies, EndOfData
  <2>2. CASE CloseFinished
    <3>1. ctx' = FinishedContext /\ \E B, R : disk' = DiskAfterClose(B, R)
      BY <2>2 DEF CloseFinished, Closed
    <3>2. ctx'.exposure_sec = ctx.exposure_sec
      BY <1>1, <3>1 DEF FinishedContext, Contexts
    <3>3. disk[k].status = "open" /\ disk'[k].data = disk[k].data
      BY <3>1, ClosingFacts DEF Proved, StreamInv
    <3> QED  BY <2>1, <3>2, <3>3 DEF QuitOpenShort
  <2>3. CASE CloseWaiting \/ CloseIdle \/ CloseOverrun
    BY <2>1, <2>3 DEF CloseWaiting, CloseIdle, CloseOverrun, QuitOpenShort
  <2>4. ~CloseFinishedDies
    BY DEF CloseFinishedDies, CloseDies
  <2> QED  BY <1>5, <2>2, <2>3, <2>4 DEF dada_dbfil_close
<1>6. CASE MainLoop \/ sig_handler \/ HealthFails \/ UNCHANGED vars
  <2>1. UNCHANGED <<header, ctx, disk>> /\ phase # "died"
    BY <1>6 DEF MainLoop, sig_handler, HealthFails, vars
  <2> QED  BY <2>1 DEF QuitOpenShort
<1> QED  BY <1>2, <1>3, <1>4, <1>5, <1>6 DEF Next, Ended

\* MODE=QUIT, also in the middle of an observation, never leaves a file open that
\* has all its seconds, unless observations are cut short, sub-observations
\* truncated or the heap is dirty.
THEOREM QuitLeavesNothingComplete ==
  ASSUME Orderly PROVE Spec => []QuitLeavesOnlyShort
<1>1. Init => QuitOpenShort
  BY DEF Init, NoHeader, QuitOpenShort
<1>2. QuitOpenShort => QuitLeavesOnlyShort
  BY DEF QuitOpenShort, QuitLeavesOnlyShort
<1>3. Proved /\ QuitOpenShort /\ [Next]_vars => QuitOpenShort'
  BY QuitOpenShortStep
<1> QED  BY <1>1, <1>2, <1>3, ProvedAlways, PTL DEF Spec

-----------------------------------------------------------------------------
(* The client's own fatal checks *)

\* The environments in which nothing outside the callbacks can end the process
\* and none of the departures that leave a stale pointer or a wrong marker
\* behind happens.  Sub-observations may be missed, lost or sent twice, headers
\* unusable; MODE=QUIT and SIGINT may come at any moment, and the program may
\* be started again.
Steady ==
  Faults \cap {"cut", "truncate", "dirtyheap", "retime", "io", "health"} = {}

\* The duration of every observation is a number of sub-observations.
WholeExposures == \A e \in Exposures : e % SecsPerSubobs = 0

\* Headers are at whole sub-observations, and an observation is recorded only
\* within its duration.
WithinDuration ==
  /\ header.obs_offset % SecsPerSubobs = 0
  /\ header.mode = "VALID" =>
       header.exposure_sec \in Exposures
  /\ Recording /\ header.mode = "VALID" =>
       header.obs_offset < header.exposure_sec

LivingInv ==
  phase # "died" /\ ~ctx.duration_changed /\ WithinDuration

\* The next whole sub-observation ends within a whole duration.
LEMMA NextWithin ==
  ASSUME NEW o \in Nat, NEW e \in Nat, o < e,
         o % SecsPerSubobs = 0, e % SecsPerSubobs = 0
  PROVE  o + SecsPerSubobs <= e
<1> DEFINE s == SecsPerSubobs
           p == o \div s
           q == e \div s
<1>1. s \in Nat \ {0}
  BY UpstreamAssumption
<1>2. p \in Nat /\ q \in Nat /\ o = s * p + 0 /\ e = s * q + 0
  BY <1>1, Division
<1> HIDE DEF s, p, q
<1>3. p < q
  <2> SUFFICES ASSUME ~(p < q) PROVE FALSE
    OBVIOUS
  <2>1. PICK d \in Nat : p = q + d
    <3>1. p - q \in Nat /\ p = q + (p - q)
      BY <1>2
    <3> QED  BY <3>1
  <2>2. s * p = s * q + s * d /\ s * d \in Nat /\ s * q \in Nat
    BY <1>1, <1>2, <2>1
  <2> QED  BY <1>2, <2>2
<1>4. PICK d \in Nat : q = (p + 1) + d
  <2>1. q - (p + 1) \in Nat /\ q = (p + 1) + (q - (p + 1))
    BY <1>2, <1>3
  <2> QED  BY <2>1
<1>5. s * q = s * p + s + s * d /\ s * d \in Nat /\ s * p \in Nat
  BY <1>1, <1>2, <1>4
<1>6. o + s <= e
  BY <1>1, <1>2, <1>5
<1> QED  BY <1>6 DEF s

\* A valid header has one of the durations.
LEMMA FollowsExposures ==
  ASSUME NEW g \in Headers, g.mode = "VALID" => g.exposure_sec \in Exposures,
         NEW h \in Follows(g), h.mode = "VALID"
  PROVE  h.exposure_sec \in Exposures
<1>1. ASSUME NEW x \in Starts(g) \cup Continues(g)
      PROVE  x \in Headers /\ x.exposure_sec \in Exposures
  <2>1. x \in Headers
    BY StartsType, ContinuesType
  <2>2. CASE x \in Starts(g)
    <3>1. PICK o \in ObsIds, offset \in {0, SecsPerSubobs}, e \in Exposures,
               n \in 1 .. MaxBeams : x = Header(o, offset, e, n)
      BY <2>2 DEF Starts, Fault
    <3> QED  BY <2>1, <3>1 DEF Header
  <2>3. CASE x \in Continues(g)
    <3>1. PICK offset \in NextOffsets(g), e \in NextExposures(g) :
            x = [Header(g.obs_id, offset, e, g.nbeams) EXCEPT !.nbit = g.nbit]
      BY <2>3 DEF Continues, Further
    <3>2. e \in Exposures
      BY <2>3 DEF Continues, NextExposures, Fault
    <3> QED  BY <2>1, <3>1, <3>2 DEF Header
  <2> QED  BY <2>1, <2>2, <2>3
<1>2. CASE h \in Malformed(Starts(g) \cup Continues(g))
  <2>1. PICK x \in Starts(g) \cup Continues(g), d \in Defects :
          \/ h = [x EXCEPT !.defect = d]
          \/ h = [x EXCEPT !.nbit = 8]
    BY <1>2 DEF Malformed, Fault, Defects
  <2> QED  BY <1>1, <2>1 DEF Headers
<1>3. h \notin Quits(g)
  BY DEF Quits, Headers
<1> QED  BY <1>1, <1>2, <1>3 DEF Follows
\* While nothing dies, no pointer is stale and closing files cannot end the
\* process.
LEMMA ClosingSafe ==
  ASSUME Steady, Proved, LivingInv, NEW n \in Nat, n <= MaxBeams
  PROVE  ~CloseDies(n)
<1>1. \A b \in Beams : m_File[b] # "stale"
  BY DEF Proved, Ordered, NothingStale, LivingInv
<1>2. First(n) \subseteq Beams
  BY UpstreamAssumption DEF First, Beams
<1>3. "health" \notin Faults /\ ~ctx.duration_changed
  BY DEF Steady, LivingInv
<1> QED  BY <1>1, <1>2, <1>3 DEF CloseDies

LEMMA OpenSurvives ==
  ASSUME Steady, Proved, LivingInv, BeamsFit', dada_dbfil_open
  PROVE  phase' # "died"
<1>1. PICK h \in Follows(header) :
        \/ OpenQuit(h) \/ OpenRejected(h) \/ OpenContinued(h)
        \/ OpenNotContinued(h) \/ OpenDies(h) \/ OpenSkipped(h)
        \/ OpenUnreadable(h) \/ OpenNoMetafits(h) \/ OpenStarted(h)
        \/ OpenCreateDies(h)
  BY DEF dada_dbfil_open
<1>2. /\ header \in Headers /\ h \in Headers /\ TypeOK
      /\ phase = "header" /\ header' = h
  BY <1>1, FollowsType
  DEF Proved, StreamInv, TypeOK, OpenQuit, OpenRejected, OpenContinued,
      OpenNotContinued, OpenDies, OpenSkipped, OpenUnreadable, OpenNoMetafits,
      OpenStarted, OpenCreateDies, Receive
<1>3. ASSUME NewObservation(h) PROVE Superseded = 0
  BY <1>2, <1>3, NeverSuperseded DEF Superseded, Steady, Orderly, Proved
<1>4. CASE OpenDies(h)
  <2>1. CloseDies(0)
    BY <1>3, <1>4 DEF OpenDies
  <2> QED  BY <2>1, ClosingSafe, UpstreamAssumption
<1>5. CASE OpenCreateDies(h)
  <2>1. NewObservation(h)
    BY <1>5 DEF OpenCreateDies, StartsObservation
  <2>2. PICK a \in Allocated(h.nbeams), m \in 0 .. h.nbeams - 1 :
          a[m] = "stale" \/ Faults \cap {"io", "health"} # {}
    BY <1>5 DEF OpenCreateDies
  <2>3. a[m] = "stale"
    BY <2>2 DEF Steady
  <2>4. m \in Beams
    BY <1>2, HeaderNumbers, UpstreamAssumption DEF BeamsFit, Beams
  <2>5. m_File[m] = "stale"
    <3>1. HandlesAfterClose(First(Superseded)) = m_File
      BY <1>2, <1>3, <2>1, ClosingNone
    <3> QED  BY <2>2, <2>3, <2>4, <3>1 DEF Allocated, Fault, Steady
  <2> QED
    BY <2>4, <2>5 DEF Proved, Ordered, NothingStale, LivingInv
<1>6. CASE OpenNoMetafits(h)
  BY <1>6 DEF OpenNoMetafits, Fault, Steady
<1>7. CASE \/ OpenQuit(h) \/ OpenRejected(h) \/ OpenContinued(h)
           \/ OpenNotContinued(h) \/ OpenSkipped(h) \/ OpenUnreadable(h)
           \/ OpenStarted(h)
  BY <1>7 DEF OpenQuit, OpenRejected, OpenContinued, OpenNotContinued,
     OpenSkipped, OpenUnreadable, OpenStarted
<1> QED  BY <1>1, <1>4, <1>5, <1>6, <1>7

\* The stream that a block is for is open.
LEMMA IoSurvives ==
  ASSUME Steady, Proved, LivingInv, dada_dbfil_io
  PROVE  phase' # "died"
<1>1. CASE IoIgnored
  BY <1>1 DEF IoIgnored, BlockReady
<1>2. CASE IoWritten
  BY <1>2 DEF IoWritten, Fault, Steady
<1>3. CASE IoFailed
  <2>1. Recording /\ ctx \in Contexts /\ header \in Headers
    BY <1>3 DEF IoFailed, BlockReady, Recording, Proved, StreamInv, TypeOK
  <2>2. /\ ctx.nbeams_total \in Nat \ {0} /\ ctx.block_number \in Nat
        /\ \A b \in Live : m_File[b] = "open"
    BY <2>1 DEF Proved, Ordered, InStep, Contexts
  <2>3. NextBeam \in Live
    BY <2>2, Division DEF NextBeam, Live
  <2> QED  BY <1>3, <2>2, <2>3 DEF IoFailed
<1> QED  BY <1>1, <1>2, <1>3 DEF dada_dbfil_io

\* The marker does not pass EXPOSURE_SECS.
LEMMA CloseNoOverrun ==
  ASSUME Steady, WholeExposures, Proved, LivingInv
  PROVE  ~CloseOverrun
<1> SUFFICES ASSUME CloseOverrun PROVE FALSE
  OBVIOUS
<1> DEFINE n == header.nbeams
           o == header.obs_offset
           e == header.exposure_sec
<1>1. /\ EndOfData /\ phase = "data" /\ Recording
      /\ header \in Headers /\ ctx \in Contexts
  BY DEF CloseOverrun, EndOfData, Recording, Proved, StreamInv, TypeOK
<1>2. /\ n \in Nat /\ o \in Nat /\ e \in Nat /\ SecsPerSubobs \in Nat
      /\ ctx.obs_marker_number \in Nat
  BY <1>1, HeaderNumbers, UpstreamAssumption DEF Contexts
<1>3. /\ n = ctx.nbeams_total /\ n > 0 /\ header.mode # "NONE"
      /\ e = ctx.exposure_sec
      /\ \A b \in Live : m_File[b] = "open"
  BY <1>1 DEF Proved, Ordered, InStep
<1>4. ctx.obs_marker_number > e
  BY <1>2, <1>3 DEF CloseOverrun, EndOfObservation
<1>5. header.mode = "VALID"
  <2>1. header.mode # "QUIT"
    BY <1>1, <1>2, <1>3, <1>4 DEF Proved, QuitShort
  <2> QED  BY <1>1, <1>3, <2>1 DEF Headers
<1>6. sent = SecsPerSubobs * n /\ ctx.block_number = o * n + sent
  BY <1>1, <1>5 DEF EndOfData, Blocks, Steady, Proved, Ordered, Counted
<1>7. ctx.obs_marker_number = ctx.block_number \div n
  <2>1. 0 \in Live
    BY <1>2, <1>3 DEF Live
  <2>2. m_File[0] = "open" /\ 0 \in Beams
    BY <1>3, <2>1, LiveBeams DEF Proved
  <2> QED
    BY <1>1, <1>3, <2>2 DEF Proved, Ordered, MarkerIsQuotient
<1>8. o < e /\ o % SecsPerSubobs = 0 /\ e % SecsPerSubobs = 0
  BY <1>1, <1>5 DEF LivingInv, WithinDuration, WholeExposures
<1> HIDE DEF n, o, e
<1>9. ctx.block_number = (o + SecsPerSubobs) * n
  <2>1. sent = SecsPerSubobs * n /\ ctx.block_number = o * n + sent
    BY <1>6 DEF n, o
  <2> QED  BY <1>2, <2>1
<1>10. ctx.obs_marker_number = o + SecsPerSubobs
  <2>1. n \in Nat \ {0} /\ o + SecsPerSubobs \in Nat
    BY <1>2, <1>3
  <2>2. ctx.obs_marker_number = ctx.block_number \div n
    BY <1>7 DEF n
  <2> QED  BY <1>9, <2>1, <2>2, DivisionWhole
<1>11. o + SecsPerSubobs <= e
  BY <1>2, <1>8, NextWithin
<1> QED  BY <1>2, <1>4, <1>10, <1>11

LEMMA Survives ==
  ASSUME Steady, WholeExposures, Proved, LivingInv, [Next]_vars
  PROVE  phase' # "died"
<1>1. CASE dada_dbfil_open
  BY <1>1, BeamsFitStep, OpenSurvives DEF Proved
<1>2. CASE dada_dbfil_io
  BY <1>2, IoSurvives
<1>3. CASE dada_dbfil_close
  <2>1. CASE CloseFinishedDies
    <3>1. CloseDies(ctx.nbeams_total)
      BY <2>1 DEF CloseFinishedDies
    <3>2. ctx.nbeams_total \in Nat /\ ctx.nbeams_total <= MaxBeams
      BY DEF Proved, BeamsFit, StreamInv, TypeOK, Contexts
    <3> QED  BY <3>1, <3>2, ClosingSafe
  <2>2. CASE CloseWaiting \/ CloseIdle \/ CloseFinished
    BY <2>2 DEF CloseWaiting, CloseIdle, CloseFinished
  <2> QED  BY <1>3, <2>1, <2>2, CloseNoOverrun DEF dada_dbfil_close
<1>4. CASE MainLoop \/ sig_handler \/ Restart \/ UNCHANGED vars
  BY <1>4 DEF MainLoop, Fault, sig_handler, Restart, vars, LivingInv
<1>5. CASE HealthFails
  BY <1>5 DEF HealthFails, Steady
<1> QED  BY <1>1, <1>2, <1>3, <1>4, <1>5 DEF Next, Ended

\* ... and what is recorded stays within the duration.
LEMMA WithinStep ==
  ASSUME Steady, Proved, LivingInv, [Next]_vars
  PROVE  WithinDuration'
<1>1. header \in Headers /\ ctx \in Contexts
  BY DEF Proved, StreamInv, TypeOK
<1>2. CASE dada_dbfil_open
  <2>1. PICK h \in Follows(header) :
          \/ OpenQuit(h) \/ OpenRejected(h) \/ OpenContinued(h)
          \/ OpenNotContinued(h) \/ OpenDies(h) \/ OpenSkipped(h)
          \/ OpenUnreadable(h) \/ OpenNoMetafits(h) \/ OpenStarted(h)
          \/ OpenCreateDies(h)
    BY <1>2 DEF dada_dbfil_open
  <2>2. header' = h /\ phase = "header" /\ h \in Headers
    BY <1>1, <2>1, FollowsType DEF OpenQuit, OpenRejected, OpenContinued,
       OpenNotContinued, OpenDies, OpenSkipped, OpenUnreadable,
       OpenNoMetafits, OpenStarted, OpenCreateDies, Receive
  <2>3. h.obs_offset % SecsPerSubobs = 0
    BY <1>1, FollowsOffset DEF LivingInv, WithinDuration
  <2>4. h.mode = "VALID" => h.exposure_sec \in Exposures
    BY <1>1, FollowsExposures DEF LivingInv, WithinDuration
  <2>5. ASSUME Recording', h.mode = "VALID"
        PROVE  h.obs_offset < h.exposure_sec
    <3>1. h.exposure_sec \in Nat \ {0}
      BY <2>4, <2>5, UpstreamAssumption
    <3>2. CASE OpenContinued(h)
      <4>1. Recording /\ ctx.obs_id # 0
        BY <2>2, <2>5, <3>2, <1>1, UpstreamAssumption
        DEF OpenContinued, Continuation, Identified, Recording
      <4>2. header.obs_offset = ctx.obs_offset /\ h.obs_id = header.obs_id
        BY <3>2, <4>1 DEF OpenContinued, Continuation, Proved, Ordered, InStep
      <4>3. ~Finished(header)
        BY <2>2, <4>1, MoreToCome DEF Proved, Steady, Orderly
      <4>4. h.exposure_sec = header.exposure_sec
        BY <1>1, <4>2, FollowsExposure DEF Steady
      <4>5. h.obs_offset - header.obs_offset = SecsPerSubobs
        BY <3>2, <4>2 DEF OpenContinued, OffsetIsNext
      <4>6. /\ header.obs_offset \in Nat /\ h.obs_offset \in Nat
            /\ header.exposure_sec \in Nat /\ SecsPerSubobs \in Nat
        BY <1>1, <2>2, HeaderNumbers, UpstreamAssumption
      <4> QED  BY <4>3, <4>4, <4>5, <4>6 DEF Finished
    <3>3. CASE OpenStarted(h)
      <4>1. h.obs_id = h.subobs_id
        BY <3>3 DEF OpenStarted, StartsObservation, MissedBeginning
      <4>2. h.subobs_id = h.obs_id + h.obs_offset
        <5>1. [header EXCEPT !.mode = "QUIT"].mode # "VALID"
          BY <1>1 DEF Headers
        <5> QED  BY <1>1, <2>5, <5>1, FollowsKinds DEF Steady
      <4>3. h.obs_offset = 0
        BY <2>2, <4>1, <4>2, HeaderNumbers
      <4> QED  BY <3>1, <4>3
    <3>4. CASE ~OpenContinued(h) /\ ~OpenStarted(h)
      <4>1. phase' \in {"failed", "died"} \/ ctx'.obs_id = 0 \/ OpenQuit(h)
        BY <1>1, <2>1, <3>4 DEF OpenRejected, OpenNotContinued, OpenDies,
           CloseDies, OpenSkipped, OpenUnreadable, OpenNoMetafits, Fault,
           OpenCreateDies, Contexts
      <4> QED  BY <2>5, <4>1 DEF Recording, OpenQuit
    <3> QED  BY <3>2, <3>3, <3>4
  <2> QED  BY <2>2, <2>3, <2>4, <2>5 DEF WithinDuration
<1>3. CASE ~dada_dbfil_open
  <2>1. header' = header
    BY <1>3 DEF Next, dada_dbfil_io, IoIgnored, IoWritten, IoFailed,
       dada_dbfil_close, CloseWaiting, CloseIdle, CloseOverrun,
       CloseFinished, CloseFinishedDies, MainLoop, sig_handler, HealthFails,
       Restart, Ended, vars
  <2>2. Recording' => Recording
    <3>1. CASE dada_dbfil_io
      BY <1>1, <3>1 DEF dada_dbfil_io, IoIgnored, IoWritten, IoFailed, BlockReady,
         Recording, Contexts
    <3>2. CASE CloseFinished
      BY <1>1, <3>2 DEF CloseFinished, FinishedContext, Contexts, Recording
    <3>3. CASE dada_dbfil_close /\ ~CloseFinished
      BY <3>3 DEF dada_dbfil_close, CloseWaiting, CloseIdle, CloseOverrun,
         CloseFinishedDies, EndOfData, Recording, CloseDies
    <3>4. CASE Restart
      BY <3>4 DEF Restart, NoContext, Recording
    <3>5. CASE MainLoop
      BY <3>5 DEF MainLoop, Fault, Recording
    <3>6. CASE sig_handler \/ HealthFails \/ UNCHANGED vars
      BY <3>6 DEF sig_handler, HealthFails, vars, Recording
    <3> QED  BY <1>3, <3>1, <3>2, <3>3, <3>4, <3>5, <3>6 DEF Next, Ended
  <2> QED  BY <2>1, <2>2 DEF LivingInv, WithinDuration
<1> QED  BY <1>2, <1>3

\* The fatal checks of the callbacks never fire: where the duration of every
\* observation is a number of sub-observations and does not change, the marker
\* meets EXPOSURE_SECS and never passes it, whatever sub-observations are
\* missed, lost or sent twice, whatever headers are unusable, and also after
\* MODE=QUIT, SIGINT and restarts.
THEOREM ClientNeverDies ==
  ASSUME Steady, WholeExposures
  PROVE  Spec => []NeverDies
<1>1. Init => LivingInv
  <2>1. 0 % SecsPerSubobs = 0
    <3>1. 0 * SecsPerSubobs = 0 /\ (0 * SecsPerSubobs) % SecsPerSubobs = 0
      BY Division0, UpstreamAssumption
    <3> QED  BY <3>1
  <2> QED
    BY <2>1 DEF Init, NoHeader, Header, NoContext, LivingInv, WithinDuration,
       Recording
<1>2. Proved /\ LivingInv /\ [Next]_vars => LivingInv'
  <2> SUFFICES ASSUME Proved, LivingInv, [Next]_vars PROVE LivingInv'
    OBVIOUS
  <2>1. ~ctx'.duration_changed
    BY DurationKept DEF LivingInv, Steady
  <2> QED  BY <2>1, Survives, WithinStep DEF LivingInv
<1>3. LivingInv => NeverDies
  BY DEF LivingInv, NeverDies
<1>4. Spec => []Proved
  <2>1. Orderly
    BY DEF Steady, Orderly
  <2> QED  BY <2>1, ProvedAlways
<1> QED  BY <1>1, <1>2, <1>3, <1>4, PTL DEF Spec

=============================================================================
