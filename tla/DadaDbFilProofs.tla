-------------------------- MODULE DadaDbFilProofs ---------------------------
(***************************************************************************)
(* Proofs about DadaDbFil for all ids, exposures, sub-observation lengths, *)
(* numbers of beams and sets of faults.                                    *)
(***************************************************************************)
EXTENDS DadaDbFil, TLAPS

-----------------------------------------------------------------------------
(* Lemmas about the operators *)

\* The fields of a header that are numbers.
LEMMA IdType ==
  ASSUME NEW o \in ObsIds \cup {0}
  PROVE  o \in Nat
BY UpstreamAssumption

LEMMA HeaderNumbers ==
  ASSUME NEW h \in Headers
  PROVE  /\ h.obs_id \in Nat /\ h.subobs_id \in Nat /\ h.obs_offset \in Nat
         /\ h.exposure_sec \in Nat /\ h.nbeams \in Nat /\ h.nbit \in Nat
<1>1. h.obs_id \in ObsIds \cup {0} /\ h.nbit \in {8, 32}
  BY DEF Headers
<1>2. /\ h.subobs_id \in Nat /\ h.obs_offset \in Nat
      /\ h.exposure_sec \in Nat /\ h.nbeams \in Nat
  BY DEF Headers
<1>3. h.nbit \in Nat
  BY <1>1
<1> QED  BY <1>1, <1>2, <1>3, IdType

\* Upstream's headers are headers.
LEMMA StartsType ==
  ASSUME NEW g \in Headers, NEW h \in Starts(g)
  PROVE  h \in Headers
<1>1. PICK o \in ObsIds, offset \in {0, SecsPerSubobs}, e \in Exposures,
           n \in 1 .. MaxBeams : h = Header(o, offset, e, n)
  BY DEF Starts, Fault
<1> QED
  BY <1>1, UpstreamAssumption DEF Header, Headers, Defects

LEMMA ContinuesType ==
  ASSUME NEW g \in Headers, NEW h \in Continues(g)
  PROVE  h \in Headers
<1>1. PICK offset \in NextOffsets(g), e \in NextExposures(g) :
        h = [Header(g.obs_id, offset, e, g.nbeams) EXCEPT !.nbit = g.nbit]
  BY DEF Continues, Further
<1>2. g.obs_id \in Nat /\ g.obs_offset \in Nat /\ g.exposure_sec \in Nat
  BY HeaderNumbers
<1>3. offset \in Nat /\ e \in Nat
  BY <1>1, <1>2, UpstreamAssumption DEF NextOffsets, NextExposures, Fault
<1>4. g.obs_id + offset \in Nat
  BY <1>2, <1>3
<1> QED
  BY <1>1, <1>3, <1>4 DEF Header, Headers, Defects

LEMMA FollowsType ==
  ASSUME NEW g \in Headers, NEW h \in Follows(g)
  PROVE  h \in Headers
<1>1. ASSUME NEW x \in Starts(g) \cup Continues(g)
      PROVE  x \in Headers
  BY <1>1, StartsType, ContinuesType
<1>2. CASE h \in Starts(g) \cup Continues(g)
  BY <1>1, <1>2
<1>3. CASE h \in Malformed(Starts(g) \cup Continues(g))
  <2>1. PICK x \in Starts(g) \cup Continues(g), d \in Defects :
          \/ h = [x EXCEPT !.defect = d]
          \/ h = [x EXCEPT !.nbit = 8]
    BY <1>3 DEF Malformed, Fault, Defects
  <2> QED  BY <1>1, <2>1 DEF Headers
<1>4. CASE h \in Quits(g)
  BY <1>4 DEF Quits, Headers
<1> QED  BY <1>2, <1>3, <1>4 DEF Follows

\* A file is named by an observation and a beam.
LEMMA FilePairs ==
  \A k \in Files : k = <<k[1], k[2]>> /\ k[1] \in ObsIds /\ k[2] \in Beams
BY DEF Files

\* Closing keeps the types.
LEMMA HandlesAfterCloseType ==
  ASSUME TypeOK, NEW B
  PROVE  HandlesAfterClose(B) \in [Beams -> Handles]
BY DEF TypeOK, HandlesAfterClose, Handles

LEMMA DiskAfterCloseType ==
  ASSUME TypeOK, NEW B, NEW R
  PROVE  DiskAfterClose(B, R) \in [Files -> FileRecords]
BY DEF TypeOK, DiskAfterClose, FileRecords, Contexts

LEMMA DurationReadType ==
  ASSUME TypeOK, NEW h \in Headers
  PROVE  DurationRead(h) \in Contexts
BY DEF TypeOK, DurationRead, Contexts, Headers

LEMMA StartedContextType ==
  ASSUME TypeOK, NEW h \in Headers
  PROVE  StartedContext(h) \in Contexts
<1>1. h.obs_id \in ObsIds \cup {0}
  BY DEF Headers
<1> QED  BY <1>1, HeaderNumbers DEF TypeOK, StartedContext, Contexts

\* The tag of a block that is there.
LEMMA BlockType ==
  ASSUME NEW h \in Headers, NEW i \in Nat, i < Blocks(h)
  PROVE  Block(h, i) \in BlockTags
<1>1. h.nbeams \in Nat /\ h.obs_id \in Nat /\ h.obs_offset \in Nat
  BY HeaderNumbers
<1>2. h.nbeams > 0
  <2>1. i < SecsPerSubobs * h.nbeams
    BY <1>1, UpstreamAssumption DEF Blocks
  <2>2. SecsPerSubobs * 0 = 0
    BY UpstreamAssumption
  <2> QED  BY <1>1, <2>1, <2>2
<1>3. i % h.nbeams \in Nat /\ i \div h.nbeams \in Nat
  BY <1>1, <1>2
<1> QED  BY <1>1, <1>3 DEF Block, BlockTags

-----------------------------------------------------------------------------
(* Types *)

LEMMA TypeInit == Init => TypeOK
<1> SUFFICES ASSUME Init PROVE TypeOK
  OBVIOUS
<1>1. header \in Headers
  BY DEF Init, NoHeader, Header, Headers
<1>2. ctx \in Contexts
  BY DEF Init, NoContext, Contexts
<1>3. m_File \in [Beams -> Handles]
  BY DEF Init, Handles
<1>4. disk \in [Files -> FileRecords]
  BY DEF Init, FileRecords, NoFile
<1> QED  BY <1>1, <1>2, <1>3, <1>4 DEF Init, TypeOK, Phases

\* What every way of receiving a header does to the types.
LEMMA ReceiveType ==
  ASSUME TypeOK, NEW h \in Follows(header), Receive(h)
  PROVE  h \in Headers /\ header' = h /\ header' \in Headers /\ sent' \in Nat
BY FollowsType DEF TypeOK, Receive

\* The handles and the disk after the superseded files are closed.
LEMMA SupersededType ==
  ASSUME TypeOK,
         m_File' = HandlesAfterClose(First(Superseded)),
         Closed(Superseded)
  PROVE  m_File' \in [Beams -> Handles] /\ disk' \in [Files -> FileRecords]
BY HandlesAfterCloseType, DiskAfterCloseType DEF Closed

LEMMA CreateFilsType ==
  ASSUME TypeOK, NEW h \in Headers, NEW n, NEW a \in Allocated(n), NEW m,
         CreateFils(h, a, m)
  PROVE  /\ m_File' \in [Beams -> Handles]
         /\ fil_obs' \in ObsIds \cup {0}
         /\ disk' \in [Files -> FileRecords]
<1>1. a \in [Beams -> Handles]
  BY DEF Allocated
<1>2. m_File' \in [Beams -> Handles]
  BY <1>1 DEF CreateFils, Handles
<1>3. fil_obs' \in ObsIds \cup {0}
  BY DEF CreateFils, Headers
<1>4. disk' \in [Files -> FileRecords]
  <2>1. PICK R : disk' =
          [ k \in Files |->
              IF k[1] = h.obs_id /\ k[2] < m /\ a[k[2]] = "null"
              THEN [status |-> "open", nsecs |-> h.exposure_sec, data |-> <<>>]
              ELSE DiskAfterClose(First(Superseded), R)[k] ]
    BY DEF CreateFils
  <2>2. [status |-> "open", nsecs |-> h.exposure_sec, data |-> <<>>]
          \in FileRecords
    BY HeaderNumbers DEF FileRecords
  <2> QED  BY <2>1, <2>2, DiskAfterCloseType
<1> QED  BY <1>2, <1>3, <1>4

LEMMA CloseDiesType ==
  ASSUME TypeOK, NEW n, CloseDies(n)
  PROVE  /\ m_File' \in [Beams -> Handles] /\ disk' \in [Files -> FileRecords]
         /\ phase' \in Phases
BY HandlesAfterCloseType, DiskAfterCloseType DEF CloseDies, Phases

LEMMA OpenType ==
  ASSUME TypeOK, dada_dbfil_open
  PROVE  TypeOK'
<1>1. PICK h \in Follows(header) :
        \/ OpenQuit(h) \/ OpenRejected(h) \/ OpenContinued(h)
        \/ OpenNotContinued(h) \/ OpenDies(h) \/ OpenSkipped(h)
        \/ OpenUnreadable(h) \/ OpenNoMetafits(h) \/ OpenStarted(h)
        \/ OpenCreateDies(h)
  BY DEF dada_dbfil_open
<1>2. Receive(h)
  BY <1>1 DEF OpenQuit, OpenRejected, OpenContinued, OpenNotContinued,
     OpenDies, OpenSkipped, OpenUnreadable, OpenNoMetafits, OpenStarted,
     OpenCreateDies
<1>3. h \in Headers /\ header' \in Headers /\ sent' \in Nat
  BY <1>2, ReceiveType
<1>4. StartedContext(h) \in Contexts /\ DurationRead(h) \in Contexts
  BY <1>3, StartedContextType, DurationReadType
<1> USE DEF TypeOK
<1>5. CASE OpenQuit(h) \/ OpenRejected(h)
  BY <1>3, <1>5 DEF OpenQuit, OpenRejected, Phases
<1>6. CASE OpenContinued(h)
  <2>1. ctx' \in Contexts
    BY <1>3, <1>4, <1>6, HeaderNumbers DEF OpenContinued, Contexts
  <2> QED  BY <1>3, <1>6, <2>1 DEF OpenContinued, Phases
<1>7. CASE OpenNotContinued(h)
  BY <1>3, <1>4, <1>7 DEF OpenNotContinued, Phases
<1>8. CASE OpenDies(h)
  BY <1>3, <1>8, CloseDiesType DEF OpenDies
<1>9. CASE OpenSkipped(h)
  <2>1. ctx' \in Contexts
    BY <1>9 DEF OpenSkipped, Contexts
  <2> QED  BY <1>3, <1>9, <2>1, SupersededType DEF OpenSkipped, Phases
<1>10. CASE OpenUnreadable(h)
  <2>1. PICK offset \in {ctx.obs_offset, h.obs_offset},
             e \in {ctx.exposure_sec, h.exposure_sec},
             n \in {0, h.nbeams}, w \in {0, h.nbit} :
          ctx' = [ StartedContext(h) EXCEPT !.obs_offset = offset,
                     !.exposure_sec = e, !.nbeams_total = n, !.nbit = w ]
    BY <1>10 DEF OpenUnreadable
  <2>2. offset \in Nat /\ e \in Nat /\ n \in Nat /\ w \in Nat
    BY <1>3, HeaderNumbers DEF Contexts
  <2>3. ctx' \in Contexts
    BY <1>4, <2>1, <2>2 DEF Contexts
  <2> QED  BY <1>3, <1>10, <2>3, SupersededType DEF OpenUnreadable, Phases
<1>11. CASE OpenNoMetafits(h)
  BY <1>3, <1>4, <1>11, SupersededType DEF OpenNoMetafits, Phases, Fault
<1>12. CASE OpenStarted(h)
  BY <1>3, <1>4, <1>12, CreateFilsType DEF OpenStarted, Phases
<1>13. CASE OpenCreateDies(h)
  BY <1>3, <1>4, <1>13, CreateFilsType DEF OpenCreateDies, Phases
<1> QED  BY <1>1, <1>5, <1>6, <1>7, <1>8, <1>9, <1>10, <1>11, <1>12, <1>13

LEMMA IoType ==
  ASSUME TypeOK, dada_dbfil_io
  PROVE  TypeOK'
<1> USE DEF TypeOK
<1>1. CASE IoIgnored
  BY <1>1 DEF IoIgnored
<1>2. CASE IoWritten
  <2>1. Block(header, sent) \in BlockTags
    BY <1>2, BlockType DEF IoWritten, BlockReady
  <2>2. disk' \in [Files -> FileRecords]
    <3>1. PICK target :
            disk' = [ k \in Files |->
                        IF k[1] = fil_obs /\ k[2] \in target
                        THEN [disk[k] EXCEPT
                                !.data = Append(@, Block(header, sent))]
                        ELSE disk[k] ]
      BY <1>2 DEF IoWritten
    <3>2. ASSUME NEW k \in Files
          PROVE  [disk[k] EXCEPT !.data = Append(@, Block(header, sent))]
                   \in FileRecords
      <4>1. disk[k] \in FileRecords
        OBVIOUS
      <4>2. disk[k].data \in Seq(BlockTags)
        BY <4>1 DEF FileRecords
      <4>3. Append(disk[k].data, Block(header, sent)) \in Seq(BlockTags)
        BY <2>1, <4>2
      <4> QED  BY <4>1, <4>3 DEF FileRecords
    <3> QED  BY <3>1, <3>2
  <2>3. ctx' \in Contexts
    <3>1. ctx.block_number + 1 \in Nat /\ ctx.obs_marker_number \in Nat
      BY DEF Contexts
    <3>2. Marked(ctx.obs_marker_number) \in Nat
      BY <3>1 DEF Marked
    <3>3. ctx' = [ ctx EXCEPT
                     !.block_number = ctx.block_number + 1,
                     !.obs_marker_number = Marked(ctx.obs_marker_number) ]
      BY <1>2 DEF IoWritten
    <3> QED  BY <3>1, <3>2, <3>3 DEF Contexts
  <2>4. phase' \in Phases
    BY <1>2 DEF IoWritten, Phases, Fault
  <2> QED  BY <1>2, <2>2, <2>3, <2>4 DEF IoWritten
<1>3. CASE IoFailed
  BY <1>3 DEF IoFailed, Phases
<1> QED  BY <1>1, <1>2, <1>3 DEF dada_dbfil_io

LEMMA CloseType ==
  ASSUME TypeOK, dada_dbfil_close
  PROVE  TypeOK'
<1> USE DEF TypeOK
<1>1. CASE CloseWaiting \/ CloseIdle \/ CloseOverrun
  BY <1>1 DEF CloseWaiting, CloseIdle, CloseOverrun, Phases
<1>2. CASE CloseFinished
  <2>1. disk' \in [Files -> FileRecords]
    BY <1>2, DiskAfterCloseType DEF CloseFinished, Closed
  <2>2. m_File' \in [Beams -> Handles]
    BY <1>2 DEF CloseFinished, Handles
  <2>3. ctx' \in Contexts
    BY <1>2 DEF CloseFinished, FinishedContext, Contexts
  <2> QED  BY <1>2, <2>1, <2>2, <2>3 DEF CloseFinished, Phases
<1>3. CASE CloseFinishedDies
  BY <1>3, CloseDiesType DEF CloseFinishedDies
<1> QED  BY <1>1, <1>2, <1>3 DEF dada_dbfil_close

LEMMA TypeStep == TypeOK /\ [Next]_vars => TypeOK'
<1> SUFFICES ASSUME TypeOK, [Next]_vars PROVE TypeOK'
  OBVIOUS
<1>1. CASE MainLoop
  BY <1>1 DEF MainLoop, TypeOK, Phases, Fault
<1>2. CASE sig_handler \/ HealthFails
  BY <1>2 DEF sig_handler, HealthFails, TypeOK, Phases
<1>3. CASE UNCHANGED vars
  BY <1>3 DEF vars, TypeOK
<1>4. CASE Restart
  <2>1. ctx' \in Contexts /\ m_File' \in [Beams -> Handles]
    BY <1>4 DEF Restart, NoContext, Contexts, Handles
  <2>2. disk' \in [Files -> FileRecords]
    BY <1>4 DEF Restart, TypeOK, FileRecords
  <2> QED  BY <1>4, <2>1, <2>2 DEF Restart, TypeOK, Phases
<1> QED
  BY <1>1, <1>2, <1>3, <1>4, OpenType, IoType, CloseType DEF Next, Ended

\* The variables have their types in every environment: in particular file
\* contents, the context and the counters stay numbers of blocks and seconds,
\* and every pointer is NULL, open or stale.
THEOREM TypeCorrect == Spec => []TypeOK
BY TypeInit, TypeStep, PTL DEF Spec

-----------------------------------------------------------------------------
(* Streams *)

LEMMA StreamInit == Init => StreamInv
BY TypeInit DEF Init, StreamInv, NoStreamLeaked, HandlesOpen, NoFutureFile,
   NoFile

\* The ids of upstream's headers do not decrease.
LEMMA FollowsId ==
  ASSUME NEW g \in Headers, NEW h \in Follows(g)
  PROVE  h.obs_id >= g.obs_id
<1>1. ASSUME NEW x \in Starts(g) PROVE x.obs_id > g.obs_id
  <2>1. PICK o \in {i \in ObsIds : i > g.obs_id},
             offset \in {0, SecsPerSubobs}, e \in Exposures,
             n \in 1 .. MaxBeams : x = Header(o, offset, e, n)
    BY DEF Starts, Fault
  <2> QED  BY <2>1 DEF Header
<1>2. ASSUME NEW x \in Continues(g) PROVE x.obs_id = g.obs_id
  <2>1. PICK offset \in NextOffsets(g), e \in NextExposures(g) :
          x = [Header(g.obs_id, offset, e, g.nbeams) EXCEPT !.nbit = g.nbit]
    BY DEF Continues, Further
  <2> QED  BY <2>1 DEF Header
<1>3. ASSUME NEW x \in Starts(g) \cup Continues(g) PROVE x.obs_id >= g.obs_id
  BY <1>1, <1>2, <1>3, HeaderNumbers, StartsType, ContinuesType
<1>4. CASE h \in Malformed(Starts(g) \cup Continues(g))
  <2>1. PICK x \in Starts(g) \cup Continues(g), d \in Defects :
          \/ h = [x EXCEPT !.defect = d]
          \/ h = [x EXCEPT !.nbit = 8]
    BY <1>4 DEF Malformed, Fault, Defects
  <2>2. x \in Headers
    BY <2>1, StartsType, ContinuesType
  <2>3. h.obs_id = x.obs_id
    BY <2>1, <2>2 DEF Headers
  <2> QED  BY <1>3, <2>1, <2>3
<1>5. CASE h \in Quits(g)
  <2>1. h.obs_id = g.obs_id
    BY <1>5 DEF Quits, Headers
  <2> QED  BY <2>1, HeaderNumbers
<1> QED  BY <1>3, <1>4, <1>5 DEF Follows

\* Closing some files: it opens none, removes none and changes no data.
LEMMA ClosingFacts ==
  ASSUME TypeOK, NEW B, NEW R, NEW k \in Files
  PROVE  LET f == DiskAfterClose(B, R)[k]
         IN  /\ f.data = disk[k].data
             /\ f.status = "absent" <=> disk[k].status = "absent"
             /\ f.status = "open" => disk[k].status = "open"
             /\ disk[k].status = "closed" => f.status = "closed"
BY DEF TypeOK, DiskAfterClose, FileRecords

\* Closing all beams of the observation in ctx closes every open stream.
LEMMA ClosingAll ==
  ASSUME StreamInv, NEW n \in {Superseded, ctx.nbeams_total}
  PROVE  /\ \A b \in Beams : HandlesAfterClose(First(n))[b] # "open"
         /\ \A R : \A k \in Files :
              DiskAfterClose(First(n), R)[k].status # "open"
<1> USE DEF StreamInv
<1>1. ASSUME NEW k \in Files, disk[k].status = "open"
      PROVE  k[2] \in First(n) /\ k[1] = fil_obs /\ m_File[k[2]] = "open"
  <2>1. ctx.obs_id # 0
    BY <1>1, FilePairs, UpstreamAssumption DEF NoStreamLeaked
  <2>2. n = ctx.nbeams_total
    BY <2>1 DEF Superseded
  <2> QED  BY <1>1, <2>2 DEF NoStreamLeaked, Live, First
<1>2. ASSUME NEW b \in Beams, m_File[b] = "open"
      PROVE  b \in First(n)
  <2>1. fil_obs \in ObsIds /\ disk[<<fil_obs, b>>].status = "open"
    BY <1>2 DEF HandlesOpen, TypeOK
  <2> QED  BY <1>1, <2>1 DEF Files
<1>3. ASSUME NEW b \in Beams PROVE HandlesAfterClose(First(n))[b] # "open"
  BY <1>2, <1>3 DEF HandlesAfterClose
<1>4. ASSUME NEW R, NEW k \in Files
      PROVE  DiskAfterClose(First(n), R)[k].status # "open"
  <2>1. CASE disk[k].status = "open"
    BY <1>1, <2>1 DEF DiskAfterClose, TypeOK, FileRecords
  <2>2. CASE disk[k].status # "open"
    BY <2>2, ClosingFacts
  <2> QED  BY <2>1, <2>2
<1> QED  BY <1>3, <1>4

\* Closing some of them leaves pointers and files in agreement.
LEMMA ClosingSome ==
  ASSUME StreamInv, NEW n, CloseDies(n), UNCHANGED <<ctx, fil_obs>>
  PROVE  NoStreamLeaked' /\ HandlesOpen'
<1>1. PICK B, R : /\ m_File' = HandlesAfterClose(B)
                  /\ disk' = DiskAfterClose(B, R)
  BY DEF CloseDies
<1> USE DEF StreamInv, TypeOK
<1>2. ASSUME NEW k \in Files, disk'[k].status = "open"
      PROVE  disk[k].status = "open" /\ k[2] \notin B
  <2>1. disk[k].status = "open"
    BY <1>1, <1>2, ClosingFacts
  <2>2. k[1] = fil_obs /\ m_File[k[2]] = "open"
    BY <2>1 DEF NoStreamLeaked
  <2> QED  BY <1>1, <1>2, <2>1, <2>2 DEF DiskAfterClose, FileRecords
<1>3. NoStreamLeaked'
  BY <1>1, <1>2, FilePairs DEF NoStreamLeaked, Live, HandlesAfterClose
<1>4. ASSUME NEW b \in Beams, m_File'[b] = "open"
      PROVE  fil_obs # 0 /\ disk'[<<fil_obs, b>>].status = "open"
  <2>1. b \notin B /\ m_File[b] = "open"
    BY <1>1, <1>4 DEF HandlesAfterClose
  <2>2. /\ <<fil_obs, b>> \in Files /\ fil_obs # 0
        /\ disk[<<fil_obs, b>>].status = "open"
    BY <2>1 DEF HandlesOpen, Files
  <2>3. ASSUME NEW k \in Files, k = <<fil_obs, b>>
        PROVE  disk'[k].status = "open"
    <3>1. disk[k].status = "open" /\ k[2] \notin B
      BY <2>1, <2>2, <2>3
    <3> QED  BY <1>1, <3>1 DEF DiskAfterClose, FileRecords
  <2> QED  BY <2>2, <2>3
<1> QED  BY <1>3, <1>4 DEF HandlesOpen

\* Creating the files of the first m beams after closing all others.
LEMMA Creating ==
  ASSUME StreamInv, NEW h \in Headers, h.obs_id > 0, NEW m \in 0 .. h.nbeams,
         NEW a \in Allocated(h.nbeams), CreateFils(h, a, m),
         ctx' = StartedContext(h)
  PROVE  NoStreamLeaked' /\ HandlesOpen'
<1> USE DEF StreamInv, TypeOK
<1>1. PICK R : disk' =
        [ k \in Files |->
            IF k[1] = h.obs_id /\ k[2] < m /\ a[k[2]] = "null"
            THEN [status |-> "open", nsecs |-> h.exposure_sec, data |-> <<>>]
            ELSE DiskAfterClose(First(Superseded), R)[k] ]
  BY DEF CreateFils
<1>2. \A b \in Beams : a[b] # "open"
  BY ClosingAll DEF Allocated, Fault
<1>3. fil_obs' = h.obs_id
      /\ m_File' = [ b \in Beams |-> IF b < m /\ a[b] = "null"
                                     THEN "open" ELSE a[b] ]
  BY DEF CreateFils
<1>4. ctx'.obs_id = h.obs_id /\ ctx'.nbeams_total = h.nbeams
  BY DEF StartedContext, Contexts
<1>5. ASSUME NEW k \in Files, disk'[k].status = "open"
      PROVE  k[1] = h.obs_id /\ k[2] < m /\ a[k[2]] = "null"
  BY <1>1, <1>5, ClosingAll
<1>6. ASSUME NEW k \in Files, disk'[k].status = "open"
      PROVE  /\ k[1] = ctx'.obs_id /\ k[1] = fil_obs'
             /\ k[2] \in 0 .. ctx'.nbeams_total - 1 /\ m_File'[k[2]] = "open"
  <2>1. k[2] \in Beams /\ k[2] \in 0 .. h.nbeams - 1
    BY <1>5, <1>6, FilePairs, HeaderNumbers DEF Beams
  <2> QED  BY <1>3, <1>4, <1>5, <1>6, <2>1
<1>7. ASSUME NEW b \in Beams, m_File'[b] = "open"
      PROVE  fil_obs' # 0 /\ disk'[<<fil_obs', b>>].status = "open"
  <2>1. b < m /\ a[b] = "null"
    BY <1>2, <1>3, <1>7
  <2>2. h.obs_id \in ObsIds
    BY DEF Headers
  <2>3. <<h.obs_id, b>> \in Files
    BY <2>2 DEF Files
  <2> QED  BY <1>1, <1>3, <2>1, <2>2, <2>3, UpstreamAssumption
<1> QED  BY <1>6, <1>7 DEF NoStreamLeaked, HandlesOpen, Live

\* No file appears of an observation later than the header's.
LEMMA Future ==
  ASSUME StreamInv, NEW h \in Follows(header), header' = h,
         \A k \in Files : disk'[k].status = "absent"
                          \/ disk[k].status # "absent" \/ k[1] = h.obs_id
  PROVE  NoFutureFile'
<1>1. h \in Headers /\ header.obs_id \in Nat /\ h.obs_id \in Nat
  BY FollowsType, HeaderNumbers DEF StreamInv, TypeOK
<1>2. h.obs_id >= header.obs_id
  BY FollowsId DEF StreamInv, TypeOK
<1>3. ASSUME NEW k \in Files, disk'[k].status # "absent"
      PROVE  k[1] <= h.obs_id
  <2>1. k[1] \in Nat
    BY FilePairs, IdType
  <2>2. CASE k[1] = h.obs_id
    BY <1>1, <2>2
  <2>3. CASE disk[k].status # "absent"
    BY <1>1, <1>2, <2>1, <2>3 DEF StreamInv, NoFutureFile
  <2> QED  BY <1>3, <2>2, <2>3
<1> QED  BY <1>3 DEF NoFutureFile

LEMMA OpenStream ==
  ASSUME StreamInv, dada_dbfil_open
  PROVE  NoStreamLeaked' /\ HandlesOpen' /\ NoFutureFile'
<1>1. PICK h \in Follows(header) :
        \/ OpenQuit(h) \/ OpenRejected(h) \/ OpenContinued(h)
        \/ OpenNotContinued(h) \/ OpenDies(h) \/ OpenSkipped(h)
        \/ OpenUnreadable(h) \/ OpenNoMetafits(h) \/ OpenStarted(h)
        \/ OpenCreateDies(h)
  BY DEF dada_dbfil_open
<1>2. Receive(h)
  BY <1>1 DEF OpenQuit, OpenRejected, OpenContinued, OpenNotContinued,
     OpenDies, OpenSkipped, OpenUnreadable, OpenNoMetafits, OpenStarted,
     OpenCreateDies
<1>3. h \in Headers /\ header' = h
  BY <1>2, ReceiveType DEF StreamInv
<1>4. CASE OpenQuit(h) \/ OpenRejected(h)
  <2>1. UNCHANGED <<ctx, m_File, fil_obs, disk>>
    BY <1>4 DEF OpenQuit, OpenRejected
  <2> QED
    BY <1>3, <2>1, Future
    DEF StreamInv, NoStreamLeaked, HandlesOpen, Live
<1>5. CASE OpenContinued(h) \/ OpenNotContinued(h)
  <2>1. UNCHANGED <<m_File, fil_obs, disk>>
    BY <1>5 DEF OpenContinued, OpenNotContinued
  <2>2. ctx'.obs_id = ctx.obs_id /\ ctx'.nbeams_total = ctx.nbeams_total
    BY <1>5 DEF OpenContinued, OpenNotContinued, DurationRead, StreamInv,
       TypeOK, Contexts
  <2> QED
    BY <1>3, <2>1, <2>2, Future
    DEF StreamInv, NoStreamLeaked, HandlesOpen, Live
<1>6. CASE OpenDies(h)
  <2>1. CloseDies(Superseded) /\ UNCHANGED <<ctx, fil_obs>>
    BY <1>6 DEF OpenDies
  <2>2. \A k \in Files : disk'[k].status = "absent" \/ disk[k].status # "absent"
    BY <2>1, ClosingFacts DEF CloseDies, StreamInv
  <2> QED  BY <1>3, <2>1, <2>2, ClosingSome, Future
<1>7. CASE OpenSkipped(h) \/ OpenUnreadable(h) \/ OpenNoMetafits(h)
  <2>1. /\ m_File' = HandlesAfterClose(First(Superseded))
        /\ \E R : disk' = DiskAfterClose(First(Superseded), R)
    BY <1>7 DEF OpenSkipped, OpenUnreadable, OpenNoMetafits, Closed
  <2>2. /\ \A k \in Files : disk'[k].status # "open"
        /\ \A b \in Beams : m_File'[b] # "open"
    BY <2>1, ClosingAll
  <2>3. \A k \in Files : disk'[k].status = "absent" \/ disk[k].status # "absent"
    BY <2>1, ClosingFacts DEF StreamInv
  <2> QED  BY <1>3, <2>2, <2>3, Future DEF NoStreamLeaked, HandlesOpen
<1>8. CASE OpenStarted(h) \/ OpenCreateDies(h)
  <2>1. PICK a \in Allocated(h.nbeams), m \in 0 .. h.nbeams :
          CreateFils(h, a, m)
    BY <1>3, <1>8, HeaderNumbers DEF OpenStarted, OpenCreateDies
  <2>2. ctx' = StartedContext(h) /\ h.obs_id > 0
    BY <1>8 DEF OpenStarted, OpenCreateDies, StartsObservation,
       NewObservation, Identified
  <2>3. \A k \in Files : disk'[k].status = "absent"
                         \/ disk[k].status # "absent" \/ k[1] = h.obs_id
    BY <2>1, ClosingFacts DEF CreateFils, StreamInv
  <2> QED  BY <1>3, <2>1, <2>2, <2>3, Creating, Future
<1> QED  BY <1>1, <1>4, <1>5, <1>6, <1>7, <1>8

LEMMA IoStream ==
  ASSUME StreamInv, dada_dbfil_io
  PROVE  NoStreamLeaked' /\ HandlesOpen' /\ NoFutureFile'
<1>1. UNCHANGED <<header, m_File, fil_obs>>
      /\ ctx'.obs_id = ctx.obs_id /\ ctx'.nbeams_total = ctx.nbeams_total
  BY DEF dada_dbfil_io, IoIgnored, IoWritten, IoFailed, StreamInv, TypeOK,
     Contexts
<1>2. ASSUME NEW k \in Files PROVE disk'[k].status = disk[k].status
  <2>1. CASE IoIgnored \/ IoFailed
    BY <2>1 DEF IoIgnored, IoFailed
  <2>2. CASE IoWritten
    <3>1. PICK target :
            disk' = [ j \in Files |->
                        IF j[1] = fil_obs /\ j[2] \in target
                        THEN [disk[j] EXCEPT
                                !.data = Append(@, Block(header, sent))]
                        ELSE disk[j] ]
      BY <2>2 DEF IoWritten
    <3>2. disk[k] \in FileRecords
      BY DEF StreamInv, TypeOK
    <3> QED  BY <3>1, <3>2 DEF FileRecords
  <2> QED  BY <2>1, <2>2 DEF dada_dbfil_io
<1>3. ASSUME NEW b \in Beams, fil_obs # 0
      PROVE  disk'[<<fil_obs, b>>].status = disk[<<fil_obs, b>>].status
  BY <1>2, <1>3 DEF Files, StreamInv, TypeOK
<1> QED
  BY <1>1, <1>2, <1>3
  DEF StreamInv, NoStreamLeaked, HandlesOpen, NoFutureFile, Live

LEMMA CloseStream ==
  ASSUME StreamInv, dada_dbfil_close
  PROVE  NoStreamLeaked' /\ HandlesOpen' /\ NoFutureFile'
<1>1. CASE CloseWaiting \/ CloseIdle \/ CloseOverrun
  BY <1>1 DEF CloseWaiting, CloseIdle, CloseOverrun, StreamInv,
     NoStreamLeaked, HandlesOpen, NoFutureFile, Live
<1>2. CASE CloseFinished
  <2>1. PICK R : disk' = DiskAfterClose(First(ctx.nbeams_total), R)
    BY <1>2 DEF CloseFinished, Closed
  <2>2. m_File' = [b \in Beams |-> "null"] /\ header' = header
    BY <1>2 DEF CloseFinished
  <2>3. \A k \in Files : disk'[k].status # "open"
    BY <2>1, ClosingAll
  <2>4. \A k \in Files : disk'[k].status = "absent" \/ disk[k].status # "absent"
    BY <2>1, ClosingFacts DEF StreamInv
  <2> QED
    BY <2>2, <2>3, <2>4 DEF StreamInv, NoStreamLeaked, HandlesOpen, NoFutureFile
<1>3. CASE CloseFinishedDies
  <2>1. /\ CloseDies(ctx.nbeams_total)
        /\ UNCHANGED <<header, ctx, fil_obs>>
    BY <1>3 DEF CloseFinishedDies
  <2>2. \A k \in Files : disk'[k].status = "absent" \/ disk[k].status # "absent"
    BY <2>1, ClosingFacts DEF CloseDies, StreamInv
  <2> QED
    BY <2>1, <2>2, ClosingSome DEF StreamInv, NoFutureFile
<1> QED  BY <1>1, <1>2, <1>3 DEF dada_dbfil_close

LEMMA StreamStep == StreamInv /\ [Next]_vars => StreamInv'
<1> SUFFICES ASSUME StreamInv, [Next]_vars PROVE StreamInv'
  OBVIOUS
<1>1. TypeOK'
  BY TypeStep DEF StreamInv
<1>2. CASE MainLoop \/ sig_handler \/ HealthFails \/ UNCHANGED vars
  BY <1>1, <1>2 DEF MainLoop, sig_handler, HealthFails, vars, StreamInv, NoStreamLeaked,
     HandlesOpen, NoFutureFile, Live
<1>3. CASE dada_dbfil_open
  BY <1>1, <1>3, OpenStream DEF StreamInv
<1>4. CASE dada_dbfil_io
  BY <1>1, <1>4, IoStream DEF StreamInv
<1>5. CASE dada_dbfil_close
  BY <1>1, <1>5, CloseStream DEF StreamInv
<1>6. CASE Restart
  <2>1. \A b \in Beams : m_File'[b] # "open"
    BY <1>6 DEF Restart
  <2>2. \A k \in Files : /\ disk'[k].status # "open"
                         /\ disk'[k].status # "absent" => disk[k].status # "absent"
    BY <1>6 DEF Restart, StreamInv, TypeOK, FileRecords
  <2> QED
    BY <1>1, <1>6, <2>1, <2>2
    DEF Restart, StreamInv, NoStreamLeaked, HandlesOpen, NoFutureFile
<1> QED  BY <1>2, <1>3, <1>4, <1>5, <1>6 DEF Next, Ended

LEMMA StreamAlways == Spec => []StreamInv
BY StreamInit, StreamStep, PTL DEF Spec

\* No stream is ever leaked, whatever upstream, the file system and the heap
\* do: not by the end of an observation, by its being cut short, by a header
\* that cannot be used, nor by a failure half way through closing or creating
\* files.
THEOREM StreamsNotLeaked == Spec => []NoStreamLeaked
<1>1. StreamInv => NoStreamLeaked
  BY DEF StreamInv
<1> QED  BY <1>1, StreamAlways, PTL

-----------------------------------------------------------------------------
(* Closed files *)

\* When nothing is sent twice, an observation that begins is a later one.
LEMMA BeginsLater ==
  ASSUME "repeat" \notin Faults, NEW g \in Headers, NEW h \in Follows(g),
         h.mode = "VALID", ~MissedBeginning(h)
  PROVE  h.obs_id > g.obs_id
<1>1. ASSUME NEW x \in Starts(g) PROVE x.obs_id > g.obs_id
  <2>1. PICK o \in {i \in ObsIds : i > g.obs_id},
             offset \in {0, SecsPerSubobs}, e \in Exposures,
             n \in 1 .. MaxBeams : x = Header(o, offset, e, n)
    BY DEF Starts, Fault
  <2> QED  BY <2>1 DEF Header
<1>2. ASSUME NEW x \in Continues(g) PROVE x.obs_id # x.subobs_id
  <2>1. PICK offset \in NextOffsets(g), e \in NextExposures(g) :
          x = [Header(g.obs_id, offset, e, g.nbeams) EXCEPT !.nbit = g.nbit]
    BY DEF Continues, Further
  <2>2. offset \in Nat \ {0}
    BY <2>1, HeaderNumbers, UpstreamAssumption DEF NextOffsets, Fault
  <2>3. x.obs_id = g.obs_id /\ x.subobs_id = g.obs_id + offset
    BY <2>1 DEF Header
  <2> QED  BY <2>2, <2>3, HeaderNumbers
<1>3. CASE h \in Starts(g) \cup Continues(g)
  BY <1>1, <1>2, <1>3 DEF MissedBeginning
<1>4. CASE h \in Malformed(Starts(g) \cup Continues(g))
  <2>1. PICK x \in Starts(g) \cup Continues(g), d \in Defects :
          \/ h = [x EXCEPT !.defect = d]
          \/ h = [x EXCEPT !.nbit = 8]
    BY <1>4 DEF Malformed, Fault, Defects
  <2>2. x \in Headers
    BY <2>1, StartsType, ContinuesType
  <2>3. h.obs_id = x.obs_id /\ h.subobs_id = x.subobs_id
    BY <2>1, <2>2 DEF Headers
  <2> QED  BY <1>1, <1>2, <2>1, <2>3 DEF MissedBeginning
<1>5. CASE h \in Quits(g)
  BY <1>5 DEF Quits, Headers
<1> QED  BY <1>3, <1>4, <1>5 DEF Follows

\* A step leaves a closed file closed and its data as they are.
Frozen(k) ==
  disk[k].status = "closed" =>
    disk'[k].status = "closed" /\ disk'[k].data = disk[k].data

LEMMA CreatingFrozen ==
  ASSUME StreamInv, NEW h \in Headers, h.obs_id > header.obs_id, NEW m,
         NEW n, NEW a \in Allocated(n), CreateFils(h, a, m), NEW k \in Files
  PROVE  Frozen(k)
<1>1. PICK R : disk' =
        [ j \in Files |->
            IF j[1] = h.obs_id /\ j[2] < m /\ a[j[2]] = "null"
            THEN [status |-> "open", nsecs |-> h.exposure_sec, data |-> <<>>]
            ELSE DiskAfterClose(First(Superseded), R)[j] ]
  BY DEF CreateFils
<1>2. header.obs_id \in Nat /\ h.obs_id \in Nat
  BY HeaderNumbers DEF StreamInv, TypeOK
<1>3. ASSUME disk[k].status = "closed" PROVE k[1] # h.obs_id
  <2>1. k[1] <= header.obs_id
    BY <1>3 DEF StreamInv, NoFutureFile
  <2> QED  BY <1>2, <2>1
<1> QED  BY <1>1, <1>3, ClosingFacts DEF Frozen, StreamInv

LEMMA FrozenStep ==
  ASSUME "repeat" \notin Faults, StreamInv, [Next]_vars, NEW k \in Files
  PROVE  Frozen(k)
<1>1. ASSUME \E B, R : disk' = DiskAfterClose(B, R) PROVE Frozen(k)
  BY <1>1, ClosingFacts DEF Frozen, StreamInv
<1>2. CASE UNCHANGED disk
  BY <1>2 DEF Frozen
<1>3. CASE dada_dbfil_open
  <2>1. PICK h \in Follows(header) :
          \/ OpenQuit(h) \/ OpenRejected(h) \/ OpenContinued(h)
          \/ OpenNotContinued(h) \/ OpenDies(h) \/ OpenSkipped(h)
          \/ OpenUnreadable(h) \/ OpenNoMetafits(h) \/ OpenStarted(h)
          \/ OpenCreateDies(h)
    BY <1>3 DEF dada_dbfil_open
  <2>2. CASE OpenQuit(h) \/ OpenRejected(h) \/ OpenContinued(h)
             \/ OpenNotContinued(h)
    BY <1>2, <2>2 DEF OpenQuit, OpenRejected, OpenContinued, OpenNotContinued
  <2>3. CASE OpenDies(h) \/ OpenSkipped(h) \/ OpenUnreadable(h)
             \/ OpenNoMetafits(h)
    BY <1>1, <2>3 DEF OpenDies, OpenSkipped, OpenUnreadable, OpenNoMetafits,
       CloseDies, Closed
  <2>4. CASE OpenStarted(h) \/ OpenCreateDies(h)
    <3>1. h.mode = "VALID" /\ ~MissedBeginning(h)
      BY <2>4 DEF OpenStarted, OpenCreateDies, StartsObservation,
         NewObservation, Identified
    <3>2. h \in Headers /\ h.obs_id > header.obs_id
      BY <3>1, BeginsLater, FollowsType DEF StreamInv, TypeOK
    <3>3. PICK a \in Allocated(h.nbeams) : \E m : CreateFils(h, a, m)
      BY <2>4 DEF OpenStarted, OpenCreateDies
    <3>4. PICK m : CreateFils(h, a, m)
      BY <3>3
    <3> QED  BY <3>2, <3>4, CreatingFrozen
  <2> QED  BY <2>1, <2>2, <2>3, <2>4
<1>4. CASE dada_dbfil_io
  <2>1. CASE IoIgnored \/ IoFailed
    BY <1>2, <2>1 DEF IoIgnored, IoFailed
  <2>2. CASE IoWritten
    <3>1. PICK target \in Targets(NextBeam) :
            disk' = [ j \in Files |->
                        IF j[1] = fil_obs /\ j[2] \in target
                        THEN [disk[j] EXCEPT
                                !.data = Append(@, Block(header, sent))]
                        ELSE disk[j] ]
      BY <2>2 DEF IoWritten
    <3>2. ASSUME k[1] = fil_obs, k[2] \in target
          PROVE  disk[k].status = "open"
      <4>1. m_File[k[2]] = "open"
        BY <3>1, <3>2 DEF Targets
      <4> QED  BY <3>2, <4>1, FilePairs DEF StreamInv, HandlesOpen
    <3> QED  BY <3>1, <3>2 DEF Frozen
  <2> QED  BY <1>4, <2>1, <2>2 DEF dada_dbfil_io
<1>5. CASE dada_dbfil_close
  BY <1>1, <1>2, <1>5 DEF dada_dbfil_close, CloseWaiting, CloseIdle,
     CloseOverrun, CloseFinished, CloseFinishedDies, CloseDies, Closed
<1>6. CASE MainLoop \/ sig_handler \/ HealthFails \/ UNCHANGED vars
  BY <1>2, <1>6 DEF MainLoop, sig_handler, HealthFails, vars
<1>7. CASE Restart
  BY <1>7 DEF Restart, Frozen, StreamInv, TypeOK, FileRecords
<1> QED  BY <1>3, <1>4, <1>5, <1>6, <1>7 DEF Next, Ended

\* Unless upstream sends a sub-observation twice, the data of a closed file
\* never change again: whatever else arrives late, is cut short, is damaged or
\* fails.
THEOREM ClosedFilesFrozen ==
  ASSUME "repeat" \notin Faults
  PROVE  Spec => ClosedDataFrozen
<1>1. StreamInv /\ [Next]_vars =>
        [ \A k \in Files :
            disk[k].status = "closed" =>
              disk'[k].status = "closed" /\ disk'[k].data = disk[k].data ]_vars
  BY FrozenStep DEF Frozen
<1> QED  BY <1>1, StreamAlways, PTL DEF Spec, ClosedDataFrozen

-----------------------------------------------------------------------------
(* Counting on in a division with remainder *)

LEMMA Division ==
  ASSUME NEW k \in Nat, NEW n \in Nat \ {0}
  PROVE  /\ k \div n \in Nat
         /\ k % n \in 0 .. n - 1
         /\ k = n * (k \div n) + (k % n)
OBVIOUS

LEMMA DivisionUnique ==
  ASSUME NEW n \in Nat \ {0}, NEW q \in Nat, NEW r \in 0 .. n - 1
  PROVE  (n * q + r) \div n = q /\ (n * q + r) % n = r
OBVIOUS

LEMMA DivisionNext ==
  ASSUME NEW k \in Nat, NEW n \in Nat \ {0}
  PROVE  /\ k % n = n - 1 => /\ (k + 1) % n = 0
                             /\ (k + 1) \div n = (k \div n) + 1
         /\ k % n # n - 1 => /\ (k + 1) % n = (k % n) + 1
                             /\ (k + 1) \div n = k \div n
<1> DEFINE q == k \div n
           r == k % n
<1>1. q \in Nat /\ r \in 0 .. n - 1 /\ k = n * q + r
  BY Division
<1> HIDE DEF q, r
<1>2. ASSUME r = n - 1
      PROVE  (k + 1) % n = 0 /\ (k + 1) \div n = q + 1
  <2>1. k + 1 = n * (q + 1) + 0
    BY <1>1, <1>2
  <2>2. q + 1 \in Nat /\ 0 \in 0 .. n - 1
    BY <1>1
  <2>3. (n * (q + 1) + 0) \div n = q + 1 /\ (n * (q + 1) + 0) % n = 0
    BY <2>2, DivisionUnique
  <2> QED  BY <2>1, <2>3
<1>3. ASSUME r # n - 1
      PROVE  (k + 1) % n = r + 1 /\ (k + 1) \div n = q
  <2>1. k + 1 = n * q + (r + 1)
    BY <1>1
  <2>2. q \in Nat /\ r + 1 \in 0 .. n - 1
    BY <1>1, <1>3
  <2>3. (n * q + (r + 1)) \div n = q /\ (n * q + (r + 1)) % n = r + 1
    BY <2>2, DivisionUnique
  <2> QED  BY <2>1, <2>3
<1> QED  BY <1>2, <1>3 DEF q, r

\* How many of the first k blocks are for beam b of n.
Share(k, n, b) == (k \div n) + (IF b < k % n THEN 1 ELSE 0)

LEMMA ShareNext ==
  ASSUME NEW k \in Nat, NEW n \in Nat \ {0}, NEW b \in 0 .. n - 1
  PROVE  Share(k + 1, n, b) = IF b = k % n THEN Share(k, n, b) + 1
                                            ELSE Share(k, n, b)
<1>1. k \div n \in Nat /\ k % n \in 0 .. n - 1
  BY Division
<1>2. CASE k % n = n - 1
  <2>1. (k + 1) % n = 0 /\ (k + 1) \div n = (k \div n) + 1
    BY <1>2, DivisionNext
  <2> QED  BY <1>1, <1>2, <2>1 DEF Share
<1>3. CASE k % n # n - 1
  <2>1. (k + 1) % n = (k % n) + 1 /\ (k + 1) \div n = k \div n
    BY <1>3, DivisionNext
  <2> QED  BY <1>1, <1>3, <2>1 DEF Share
<1> QED  BY <1>2, <1>3

LEMMA ShareStart ==
  ASSUME NEW n \in Nat \ {0}, NEW b \in 0 .. n - 1
  PROVE  Share(0, n, b) = 0
<1>1. 0 \in 0 .. n - 1 /\ n * 0 + 0 = 0
  OBVIOUS
<1>2. 0 \div n = 0 /\ 0 % n = 0
  BY <1>1, DivisionUnique
<1> QED  BY <1>2 DEF Share

-----------------------------------------------------------------------------
(* The number of beams *)

LEMMA FollowsBeams ==
  ASSUME NEW g \in Headers, NEW h \in Follows(g), g.nbeams <= MaxBeams
  PROVE  h.nbeams <= MaxBeams
<1>1. ASSUME NEW x \in Starts(g) PROVE x.nbeams <= MaxBeams
  <2>1. PICK o \in {i \in ObsIds : i > g.obs_id},
             offset \in {0, SecsPerSubobs}, e \in Exposures,
             n \in 1 .. MaxBeams : x = Header(o, offset, e, n)
    BY DEF Starts, Fault
  <2>2. x.nbeams = n
    BY <2>1 DEF Header
  <2> QED  BY <2>2, UpstreamAssumption
<1>2. ASSUME NEW x \in Continues(g) PROVE x.nbeams = g.nbeams
  <2>1. PICK offset \in NextOffsets(g), e \in NextExposures(g) :
          x = [Header(g.obs_id, offset, e, g.nbeams) EXCEPT !.nbit = g.nbit]
    BY DEF Continues, Further
  <2> QED  BY <2>1 DEF Header
<1>3. ASSUME NEW x \in Starts(g) \cup Continues(g)
      PROVE  x.nbeams <= MaxBeams
  BY <1>1, <1>2, <1>3
<1>4. CASE h \in Malformed(Starts(g) \cup Continues(g))
  <2>1. PICK x \in Starts(g) \cup Continues(g), d \in Defects :
          \/ h = [x EXCEPT !.defect = d]
          \/ h = [x EXCEPT !.nbit = 8]
    BY <1>4 DEF Malformed, Fault, Defects
  <2>2. x \in Headers
    BY <2>1, StartsType, ContinuesType
  <2>3. h.nbeams = x.nbeams
    BY <2>1, <2>2 DEF Headers
  <2> QED  BY <1>3, <2>1, <2>3
<1>5. CASE h \in Quits(g)
  BY <1>5 DEF Quits, Headers
<1> QED  BY <1>3, <1>4, <1>5 DEF Follows

\* What a header that arrives may do to the context.
LEMMA OpenContext ==
  ASSUME StreamInv, BeamsFit, dada_dbfil_open
  PROVE  BeamsFit'
<1>1. PICK h \in Follows(header) :
        \/ OpenQuit(h) \/ OpenRejected(h) \/ OpenContinued(h)
        \/ OpenNotContinued(h) \/ OpenDies(h) \/ OpenSkipped(h)
        \/ OpenUnreadable(h) \/ OpenNoMetafits(h) \/ OpenStarted(h)
        \/ OpenCreateDies(h)
  BY DEF dada_dbfil_open
<1>2. header' = h
  BY <1>1 DEF Receive, OpenQuit, OpenRejected, OpenContinued,
     OpenNotContinued, OpenDies, OpenSkipped, OpenUnreadable, OpenNoMetafits,
     OpenStarted, OpenCreateDies
<1>3. h \in Headers /\ h.nbeams <= MaxBeams
  BY FollowsType, FollowsBeams DEF StreamInv, TypeOK, BeamsFit
<1> USE DEF StreamInv, TypeOK, Contexts
<1>4. CASE OpenQuit(h) \/ OpenRejected(h) \/ OpenDies(h) \/ OpenSkipped(h)
  <2>1. ctx'.nbeams_total = ctx.nbeams_total
    BY <1>4 DEF OpenQuit, OpenRejected, OpenDies, OpenSkipped
  <2> QED  BY <1>2, <1>3, <2>1 DEF BeamsFit
<1>5. CASE OpenContinued(h) \/ OpenNotContinued(h)
  <2>1. ctx'.nbeams_total = ctx.nbeams_total
    BY <1>5 DEF OpenContinued, OpenNotContinued, DurationRead
  <2> QED  BY <1>2, <1>3, <2>1 DEF BeamsFit
<1>6. CASE OpenUnreadable(h)
  <2>1. ctx'.nbeams_total \in {0, h.nbeams}
    BY <1>6 DEF OpenUnreadable, StartedContext
  <2> QED  BY <1>2, <1>3, <2>1, UpstreamAssumption DEF BeamsFit
<1>7. CASE OpenNoMetafits(h) \/ OpenStarted(h) \/ OpenCreateDies(h)
  <2>1. ctx'.nbeams_total = h.nbeams
    BY <1>7 DEF OpenNoMetafits, OpenStarted, OpenCreateDies, StartedContext
  <2> QED  BY <1>2, <1>3, <2>1 DEF BeamsFit
<1> QED  BY <1>1, <1>4, <1>5, <1>6, <1>7

LEMMA BeamsFitStep == StreamInv /\ BeamsFit /\ [Next]_vars => BeamsFit'
<1> SUFFICES ASSUME StreamInv, BeamsFit, [Next]_vars PROVE BeamsFit'
  OBVIOUS
<1>1. CASE dada_dbfil_open
  BY <1>1, OpenContext
<1>2. CASE dada_dbfil_io \/ dada_dbfil_close
  <2>1. header' = header /\ ctx'.nbeams_total = ctx.nbeams_total
    BY <1>2 DEF dada_dbfil_io, IoIgnored, IoWritten, IoFailed,
       dada_dbfil_close, CloseWaiting, CloseIdle, CloseOverrun, CloseFinished,
       CloseFinishedDies, FinishedContext, StreamInv, TypeOK, Contexts
  <2> QED  BY <2>1 DEF BeamsFit
<1>3. CASE MainLoop \/ sig_handler \/ HealthFails \/ UNCHANGED vars
  BY <1>3 DEF MainLoop, sig_handler, HealthFails, vars, BeamsFit
<1>4. CASE Restart
  BY <1>4, UpstreamAssumption DEF Restart, NoContext, BeamsFit
<1> QED  BY <1>1, <1>2, <1>3, <1>4 DEF Next, Ended

-----------------------------------------------------------------------------
(* Dealing *)

\* The beams of an observation have files.
LEMMA LiveBeams ==
  ASSUME StreamInv, BeamsFit
  PROVE  Live \subseteq Beams
<1>1. ctx.nbeams_total \in Nat /\ ctx.nbeams_total <= MaxBeams
  BY DEF StreamInv, TypeOK, Contexts, BeamsFit
<1> QED  BY <1>1, UpstreamAssumption DEF Live, Beams

\* Nothing is to be shown where no stream is open.
LEMMA NoneOpen ==
  ASSUME StreamInv', BeamsFit', \A b \in Beams : m_File'[b] # "open"
  PROVE  DealtEvenly'
<1>1. Live' \subseteq Beams
  <2>1. ctx'.nbeams_total \in Nat /\ ctx'.nbeams_total <= MaxBeams
    BY DEF StreamInv, TypeOK, Contexts, BeamsFit
  <2> QED  BY <2>1, UpstreamAssumption DEF Live, Beams
<1> QED  BY <1>1 DEF DealtEvenly

\* New files are empty, and no block has been counted.
LEMMA StartedDealt ==
  ASSUME StreamInv, BeamsFit', StreamInv', NEW h \in Headers, h.obs_id > 0,
         NEW a \in Allocated(h.nbeams), CreateFils(h, a, h.nbeams),
         ctx' = StartedContext(h)
  PROVE  DealtEvenly'
<1>1. /\ ctx'.nbeams_total = h.nbeams /\ ctx'.block_number = 0
      /\ h.nbeams \in Nat /\ h.obs_id \in ObsIds
  <2>1. h.obs_id \in ObsIds
    BY DEF Headers
  <2> QED  BY <2>1, HeaderNumbers DEF StartedContext, StreamInv, TypeOK, Contexts
<1>2. SUFFICES ASSUME NEW b \in 0 .. h.nbeams - 1,
                      \A c \in 0 .. h.nbeams - 1 : m_File'[c] = "open"
               PROVE  Len(disk'[<<h.obs_id, b>>].data)
                        = (0 \div h.nbeams)
                            + (IF b < 0 % h.nbeams THEN 1 ELSE 0)
  BY <1>1 DEF DealtEvenly, Live, CreateFils
<1>3. b \in Beams
  BY <1>1, UpstreamAssumption DEF BeamsFit, Beams
<1>4. a[b] = "null"
  <2>1. m_File'[b] = IF b < h.nbeams /\ a[b] = "null" THEN "open" ELSE a[b]
    BY <1>3 DEF CreateFils
  <2>2. a[b] # "open"
    BY <1>3, ClosingAll DEF Allocated, Fault
  <2> QED  BY <1>2, <2>1, <2>2
<1>5. disk'[<<h.obs_id, b>>].data = <<>>
  BY <1>1, <1>3, <1>4 DEF CreateFils, Files
<1>6. Share(0, h.nbeams, b) = 0
  BY <1>1, ShareStart
<1> QED  BY <1>5, <1>6 DEF Share

LEMMA OpenDealt ==
  ASSUME StreamInv, StreamInv', BeamsFit', DealtEvenly, dada_dbfil_open
  PROVE  DealtEvenly'
<1>1. PICK h \in Follows(header) :
        \/ OpenQuit(h) \/ OpenRejected(h) \/ OpenContinued(h)
        \/ OpenNotContinued(h) \/ OpenDies(h) \/ OpenSkipped(h)
        \/ OpenUnreadable(h) \/ OpenNoMetafits(h) \/ OpenStarted(h)
        \/ OpenCreateDies(h)
  BY DEF dada_dbfil_open
<1>2. h \in Headers
  BY FollowsType DEF StreamInv, TypeOK
<1>3. CASE OpenQuit(h) \/ OpenRejected(h)
  BY <1>3 DEF OpenQuit, OpenRejected, Receive, DealtEvenly, Live
<1>4. CASE OpenContinued(h) \/ OpenNotContinued(h)
  <2>1. /\ ctx'.obs_id = ctx.obs_id /\ ctx'.nbeams_total = ctx.nbeams_total
        /\ ctx'.block_number = ctx.block_number
    BY <1>4 DEF OpenContinued, OpenNotContinued, DurationRead, StreamInv,
       TypeOK, Contexts
  <2>2. phase # "died" /\ UNCHANGED <<m_File, fil_obs, disk>>
    BY <1>4 DEF OpenContinued, OpenNotContinued, Receive
  <2> QED  BY <2>1, <2>2 DEF DealtEvenly, Live
<1>5. CASE OpenDies(h) \/ OpenCreateDies(h)
  BY <1>5 DEF OpenDies, CloseDies, OpenCreateDies, DealtEvenly
<1>6. CASE OpenSkipped(h) \/ OpenUnreadable(h) \/ OpenNoMetafits(h)
  <2>1. m_File' = HandlesAfterClose(First(Superseded))
    BY <1>6 DEF OpenSkipped, OpenUnreadable, OpenNoMetafits
  <2> QED  BY <2>1, ClosingAll, NoneOpen
<1>7. CASE OpenStarted(h)
  <2>1. h.obs_id > 0
    BY <1>7 DEF OpenStarted, StartsObservation, NewObservation, Identified
  <2> QED  BY <1>2, <1>7, <2>1, StartedDealt DEF OpenStarted
<1> QED  BY <1>1, <1>3, <1>4, <1>5, <1>6, <1>7

\* A block goes to the beam whose turn it is.
LEMMA WrittenDealt ==
  ASSUME StreamInv, BeamsFit, DealtEvenly, IoWritten
  PROVE  DealtEvenly'
<1> DEFINE n == ctx.nbeams_total
           k == ctx.block_number
<1>1. /\ n \in Nat /\ k \in Nat
      /\ ctx'.nbeams_total = n /\ ctx'.block_number = k + 1
  BY DEF IoWritten, StreamInv, TypeOK, Contexts
<1>2. /\ phase = "data" /\ ctx.obs_id # 0
      /\ UNCHANGED <<m_File, fil_obs>>
  BY DEF IoWritten, BlockReady
<1>3. SUFFICES ASSUME NEW b \in 0 .. n - 1,
                      \A c \in 0 .. n - 1 : m_File[c] = "open"
               PROVE  Len(disk'[<<fil_obs, b>>].data) = Share(k + 1, n, b)
  BY <1>1, <1>2 DEF DealtEvenly, Live, Share
<1>4. Len(disk[<<fil_obs, b>>].data) = Share(k, n, b)
  BY <1>2, <1>3 DEF DealtEvenly, Live, Share
<1>5. n \in Nat \ {0} /\ k % n \in 0 .. n - 1 /\ NextBeam = k % n
  <2>1. n \in Nat \ {0}
    <3> HIDE DEF n
    <3> QED  BY <1>1, <1>3
  <2>2. k % n \in 0 .. n - 1
    <3> HIDE DEF n, k
    <3> QED  BY <1>1, <2>1, Division
  <2> QED  BY <2>1, <2>2 DEF NextBeam
<1>6. Share(k + 1, n, b) = IF b = k % n THEN Share(k, n, b) + 1
                                        ELSE Share(k, n, b)
  BY <1>1, <1>3, <1>5, ShareNext
<1>7. <<fil_obs, b>> \in Files
  <2>1. b \in Beams
    BY <1>3, LiveBeams DEF Live
  <2>2. fil_obs \in ObsIds
    BY <1>3, <2>1 DEF StreamInv, HandlesOpen, TypeOK
  <2> QED  BY <2>1, <2>2 DEF Files
<1>8. Targets(NextBeam) = {{k % n}}
  BY <1>3, <1>5 DEF Targets
<1>9. disk'[<<fil_obs, b>>] =
        IF b = k % n
        THEN [disk[<<fil_obs, b>>] EXCEPT !.data = Append(@, Block(header, sent))]
        ELSE disk[<<fil_obs, b>>]
  BY <1>7, <1>8 DEF IoWritten
<1>10. /\ disk[<<fil_obs, b>>] \in FileRecords
       /\ disk[<<fil_obs, b>>].data \in Seq(BlockTags)
  BY <1>7 DEF StreamInv, TypeOK, FileRecords
<1> HIDE DEF n, k
<1>11. Block(header, sent) \in BlockTags
  BY BlockType DEF IoWritten, BlockReady, StreamInv, TypeOK
<1>12. Len(disk'[<<fil_obs, b>>].data) =
         IF b = k % n THEN Len(disk[<<fil_obs, b>>].data) + 1
                      ELSE Len(disk[<<fil_obs, b>>].data)
  <2>1. CASE b = k % n
    <3>1. disk'[<<fil_obs, b>>].data
            = Append(disk[<<fil_obs, b>>].data, Block(header, sent))
      BY <1>9, <1>10, <2>1 DEF FileRecords
    <3> QED  BY <1>10, <1>11, <2>1, <3>1
  <2>2. CASE b # k % n
    BY <1>9, <2>2
  <2> QED  BY <2>1, <2>2
<1> QED  BY <1>4, <1>6, <1>12

LEMMA DealtStep ==
  StreamInv /\ BeamsFit /\ DealtEvenly /\ [Next]_vars => DealtEvenly'
<1> SUFFICES ASSUME StreamInv, BeamsFit, DealtEvenly, [Next]_vars
             PROVE  DealtEvenly'
  OBVIOUS
<1>1. StreamInv' /\ BeamsFit'
  BY StreamStep, BeamsFitStep
<1>2. CASE dada_dbfil_open
  BY <1>1, <1>2, OpenDealt
<1>3. CASE dada_dbfil_io
  <2>1. CASE IoIgnored
    BY <2>1 DEF IoIgnored, DealtEvenly
  <2>2. CASE IoFailed
    BY <2>2 DEF IoFailed, BlockReady, DealtEvenly, Live
  <2> QED  BY <1>3, <2>1, <2>2, WrittenDealt DEF dada_dbfil_io
<1>4. CASE dada_dbfil_close
  <2>1. CASE CloseWaiting \/ CloseIdle
    BY <2>1 DEF CloseWaiting, CloseIdle, EndOfData, DealtEvenly, Live
  <2>2. CASE CloseOverrun \/ CloseFinishedDies
    BY <2>2 DEF CloseOverrun, CloseFinishedDies, CloseDies, DealtEvenly
  <2>3. CASE CloseFinished
    BY <2>3, <1>1, NoneOpen DEF CloseFinished
  <2> QED  BY <1>4, <2>1, <2>2, <2>3 DEF dada_dbfil_close
<1>5. CASE MainLoop \/ sig_handler \/ UNCHANGED vars
  BY <1>5 DEF MainLoop, sig_handler, vars, DealtEvenly, Live
<1>6. CASE HealthFails
  BY <1>6 DEF HealthFails, DealtEvenly
<1>7. CASE Restart
  BY <1>1, <1>7, NoneOpen DEF Restart
<1> QED  BY <1>2, <1>3, <1>4, <1>5, <1>6, <1>7 DEF Next, Ended

\* In every environment, with observations cut short, sub-observations damaged,
\* repeated or lost, crashes and restarts, and for any number of beams, the
\* blocks written to the files of the observation in progress are dealt out
\* evenly.
THEOREM BlocksDealtEvenly == Spec => []DealtEvenly
<1>1. Init => BeamsFit /\ DealtEvenly
  BY UpstreamAssumption DEF Init, NoContext, NoHeader, Header, BeamsFit,
     DealtEvenly
<1> QED
  BY <1>1, StreamInit, StreamStep, BeamsFitStep, DealtStep, PTL DEF Spec
=============================================================================
