----------------------------- MODULE DadaDbFil ------------------------------
(***************************************************************************)
(* The ring-buffer client of src/dada_dbfil.c with the file writing of     *)
(* src/filwriter.c and src/filfile.c and the main loop of src/main.c.      *)
(*                                                                         *)
(* psrdada calls dada_dbfil_open when a header arrives, dada_dbfil_io for  *)
(* each data block and dada_dbfil_close at end of data.  The callbacks run *)
(* one after the other on the main thread: each is one action, with a      *)
(* disjunct (an action of its own) per way out of it.  A callback that     *)
(* returns -1 makes dada_client_read return at once with a negative value. *)
(***************************************************************************)
EXTENDS Upstream

VARIABLES
  header,  \* client->header: the sub-observation being (or last) read
  sent,    \* how many of its blocks have been passed to dada_dbfil_io
  phase,   \* where the main thread is, see Phases
  g_quit,  \* the flag of src/global.c
  ctx,     \* dada_db_s, the fields that are read again after being written
  m_File,  \* ctx->beams[b].out_filfile_ptr.m_File, see Handles
  fil_obs, \* the obs id in ctx->beams[b].fil_filename, 0 before the first
  disk     \* the .fil files, named by observation and beam

vars == <<header, sent, phase, g_quit, ctx, m_File, fil_obs, disk>>

Beams == 0 .. MaxBeams - 1
Files == ObsIds \X Beams

\* A FILE pointer is NULL, points to an open stream, or points to one that
\* is not open: closed already, or never set by this program.
Handles == {"null", "open", "stale"}

FileRecords ==
  [ status : {"absent", "open", "closed"},
    nsecs  : Nat,               \* the header's nsamples over ntimesteps
    data   : Seq(BlockTags) ]   \* one block of samples per second

NoFile == [status |-> "absent", nsecs |-> 0, data |-> <<>>]

Contexts ==
  [ obs_id            : ObsIds \cup {0},  \* 0: nothing is being recorded
    obs_offset        : Nat,
    exposure_sec      : Nat,
    nbeams_total      : Nat,
    nbit              : Nat,
    block_number      : Nat,
    obs_marker_number : Nat,              \* seconds written
    duration_changed  : BOOLEAN ]

Phases ==
  { "header",    \* in dada_client_read, waiting for the next header
    "data",      \* in dada_client_read, data blocks are being transferred
    "returned",  \* dada_client_read has returned 0 to the main loop
    "failed",    \* dada_client_read has returned a negative value
    "exited",    \* main has returned
    "died" }     \* exit() in a callback, or killed by undefined behaviour

-----------------------------------------------------------------------------
(* close_fil: flush and close the stream, and when the duration changed,  *)
(* open a file by m_szFileName, rewrite its nsamples and close it again.   *)
(* fclose leaves m_File as it was, pointing to a stream that is not open.  *)
(*                                                                         *)
(* m_szFileName points into create_fil's copy of the beam, which has been  *)
(* at the same place on the stack for every beam.  By now that memory      *)
(* holds the name of the beam created last, or no file's name.             *)

LastBeam == ctx.nbeams_total - 1

\* ... for the beams in B
HandlesAfterClose(B) ==
  [ b \in Beams |->
      IF b \in B /\ (m_File[b] # "null" \/ ctx.duration_changed)
      THEN "stale" ELSE m_File[b] ]

\* ... for the beams in B, the rewriting for those in R being a success
DiskAfterClose(B, R) ==
  [ k \in Files |->
      IF k[1] = fil_obs /\ disk[k].status # "absent"
      THEN [ disk[k] EXCEPT
               !.status = IF k[2] \in B /\ m_File[k[2]] = "open"
                          THEN "closed" ELSE @,
               !.nsecs  = IF ctx.duration_changed /\ R # {} /\ k[2] = LastBeam
                          THEN ctx.exposure_sec ELSE @ ]
      ELSE disk[k] ]

\* update_filfile_int may fail to find or write the keyword for some of the
\* beams in B; it returns EXIT_SUCCESS all the same.
Rewritten(B) == {B} \cup Fault("unpatched", SUBSET B)

First(n) == 0 .. n - 1

\* There is no file to reopen: CFilFile_CheckFile calls exit().
CannotReopen ==
  /\ ctx.duration_changed
  /\ \A k \in Files : k = <<fil_obs, LastBeam>> => disk[k].status = "absent"

\* Closing n beams ends the process at beam m: in fclose, given a stream that
\* is not open (should it hit a stream opened since in the same memory, that
\* one is closed by the same loop anyway), or when the name is not that of a
\* file; or before or after the fclose, when the health thread calls exit.
CloseDies(n) ==
  /\ \E m \in First(n) :
       \E B \in {First(m), First(m + 1)}, R \in Rewritten(First(m)) :
         /\ CannotReopen => m = 0
         /\ \/ "health" \in Faults
            \/ B = First(m) /\ m_File[m] = "stale"
            \/ B # First(m) /\ ctx.duration_changed
         /\ m_File' = HandlesAfterClose(B)
         /\ disk' = DiskAfterClose(B, R)
  /\ phase' = "died"

CloseSurvives(n) == CannotReopen => n = 0

\* Variant: the last of them is forgotten.
ClosedButLast(n) ==
  \E R \in Rewritten(First(n - 1)) : disk' = DiskAfterClose(First(n - 1), R)

\* Closing n beams and going on.
Closed(n) == \E R \in Rewritten(First(n)) : disk' = DiskAfterClose(First(n), R)

-----------------------------------------------------------------------------
(* dada_dbfil_open *)

\* The next header h is received; each of the actions below handles it.
Receive(h) ==
  /\ phase = "header"
  /\ header' = h
  /\ sent' = 0

\* MODE=QUIT: the flag is raised and nothing else is looked at.
OpenQuit(h) ==
  /\ Receive(h)
  /\ h.mode = "QUIT"
  /\ phase' = "data"
  /\ g_quit' = TRUE
  /\ UNCHANGED <<ctx, m_File, fil_obs, disk>>

\* MODE, OBS_ID or SUBOBS_ID can be used.
Identified(h) == h.mode = "VALID" /\ h.defect # "ident" /\ h.obs_id > 0

OpenRejected(h) ==
  /\ Receive(h)
  /\ h.mode # "QUIT" /\ ~Identified(h)
  /\ phase' = "failed"
  /\ UNCHANGED <<g_quit, ctx, m_File, fil_obs, disk>>

\* ... the header continues the observation being recorded
Continuation(h) == Identified(h) /\ h.obs_id = ctx.obs_id

\* Variant: the new duration is taken but not noted.
DurationReadUnnoted(h) ==
  IF h.defect = "EXPOSURE_SECS" THEN ctx
  ELSE [ctx EXCEPT !.exposure_sec = h.exposure_sec]

DurationRead(h) ==
  IF h.defect = "EXPOSURE_SECS" \/ h.exposure_sec = ctx.exposure_sec
  THEN ctx
  ELSE [ctx EXCEPT !.exposure_sec = h.exposure_sec, !.duration_changed = TRUE]

\* Variant: any later offset will do.
OffsetIsLater(h) ==
  /\ h.defect \notin {"EXPOSURE_SECS", "OBS_OFFSET"}
  /\ h.obs_offset > ctx.obs_offset

OffsetIsNext(h) ==
  /\ h.defect \notin {"EXPOSURE_SECS", "OBS_OFFSET"}
  /\ h.obs_offset - ctx.obs_offset = SecsPerSubobs

OpenContinued(h) ==
  /\ Receive(h)
  /\ Continuation(h) /\ OffsetIsNext(h)
  /\ ctx' = [DurationRead(h) EXCEPT !.obs_offset = h.obs_offset]
  /\ phase' = "data"
  /\ UNCHANGED <<g_quit, m_File, fil_obs, disk>>

OpenNotContinued(h) ==
  /\ Receive(h)
  /\ Continuation(h) /\ ~OffsetIsNext(h)
  /\ ctx' = DurationRead(h)
  /\ phase' = "failed"
  /\ UNCHANGED <<g_quit, m_File, fil_obs, disk>>

\* ... or it belongs to another observation: the files of the one in
\* progress, if there is one, are closed first.
NewObservation(h) == Identified(h) /\ h.obs_id # ctx.obs_id

\* Variant: they are left open.
SupersededLeft == 0

Superseded == IF ctx.obs_id = 0 THEN 0 ELSE ctx.nbeams_total

OpenDies(h) ==
  /\ Receive(h)
  /\ NewObservation(h)
  /\ CloseDies(Superseded)
  /\ UNCHANGED <<g_quit, ctx, fil_obs>>

\* Variant: every observation is taken from where it is.
MissedNothing(h) == FALSE

\* process_new_observation: one whose beginning was missed is skipped.
MissedBeginning(h) == h.obs_id # h.subobs_id

OpenSkipped(h) ==
  /\ Receive(h)
  /\ NewObservation(h) /\ MissedBeginning(h)
  /\ CloseSurvives(Superseded)
  /\ ctx' = [ctx EXCEPT !.obs_id = 0]
  /\ m_File' = HandlesAfterClose(First(Superseded))
  /\ Closed(Superseded)
  /\ phase' = "data"
  /\ UNCHANGED <<g_quit, fil_obs>>

StartsObservation(h) ==
  /\ NewObservation(h) /\ ~MissedBeginning(h)
  /\ CloseSurvives(Superseded)

\* The context after the resets and a complete read_dada_header.
StartedContext(h) ==
  [ ctx EXCEPT
      !.obs_id           = h.obs_id,
      !.obs_offset       = h.obs_offset,
      !.exposure_sec     = h.exposure_sec,
      !.nbeams_total     = h.nbeams,
      !.nbit             = h.nbit,
      !.block_number     = 0,
      !.duration_changed = FALSE ]

\* read_dada_header fails at some key, each field before it being set; or
\* one of the checks that follow it fails.  The beams are not used again.
OpenUnreadable(h) ==
  /\ Receive(h)
  /\ StartsObservation(h) /\ h.defect # "none"
  /\ \E offset \in {ctx.obs_offset, h.obs_offset},
        e \in {ctx.exposure_sec, h.exposure_sec},
        n \in {0, h.nbeams}, w \in {0, h.nbit} :
       ctx' = [ StartedContext(h) EXCEPT !.obs_offset = offset,
                  !.exposure_sec = e, !.nbeams_total = n, !.nbit = w ]
  /\ m_File' = HandlesAfterClose(First(Superseded))
  /\ Closed(Superseded)
  /\ phase' = "failed"
  /\ UNCHANGED <<g_quit, fil_obs>>

\* The metafits file cannot be opened (exit) or lacks a key (-1).
OpenNoMetafits(h) ==
  /\ Receive(h)
  /\ StartsObservation(h) /\ h.defect = "none"
  /\ ctx' = StartedContext(h)
  /\ m_File' = HandlesAfterClose(First(Superseded))
  /\ Closed(Superseded)
  /\ phase' \in Fault("io", {"died", "failed"}) \cup Fault("health", {"died"})
  /\ UNCHANGED <<g_quit, fil_obs>>

\* What malloc(nbeams_total * sizeof(beam_s)) may leave in m_File: zeroes,
\* the bytes of the array freed on the line before, or anything.
Allocated(n) ==
  { f \in [Beams -> Handles] :
      \A b \in Beams :
        f[b] \in IF b < n
                 THEN {"null", HandlesAfterClose(First(Superseded))[b]}
                      \cup Fault("dirtyheap", {"stale"})
                 ELSE {"null"} }

\* create_fil for the beams 0 .. m-1 of h.  CFilFile_Open opens nothing when
\* m_File is not NULL, and what is written to such a stream is lost.
CreateFils(h, allocated, m) ==
  /\ fil_obs' = h.obs_id
  /\ m_File' = [ b \in Beams |-> IF b < m /\ allocated[b] = "null"
                                 THEN "open" ELSE allocated[b] ]
  /\ \E R \in Rewritten(First(Superseded)) :
       disk' = [ k \in Files |->
                   IF k[1] = h.obs_id /\ k[2] < m /\ allocated[k[2]] = "null"
                   THEN [ status |-> "open", nsecs |-> h.exposure_sec,
                          data |-> <<>> ]
                   ELSE DiskAfterClose(First(Superseded), R)[k] ]

OpenStarted(h) ==
  /\ Receive(h)
  /\ StartsObservation(h) /\ h.defect = "none"
  /\ \E allocated \in Allocated(h.nbeams) :
       CreateFils(h, allocated, h.nbeams)
  /\ ctx' = StartedContext(h)
  /\ phase' = "data"
  /\ UNCHANGED g_quit

\* The header of beam m is written to a stream that could not be opened
\* (CFilFile_CheckFile, CFilFile_WriteString) or is not open.  With m = 0 it
\* stands too for the free of a channels pointer that was never set.
OpenCreateDies(h) ==
  /\ Receive(h)
  /\ StartsObservation(h) /\ h.defect = "none"
  /\ \E allocated \in Allocated(h.nbeams), m \in 0 .. h.nbeams - 1 :
       /\ allocated[m] = "stale" \/ Faults \cap {"io", "health"} # {}
       /\ CreateFils(h, allocated, m)
  /\ ctx' = StartedContext(h)
  /\ phase' = "died"
  /\ UNCHANGED g_quit

dada_dbfil_open ==
  \E h \in Follows(header) :
    \/ OpenQuit(h)
    \/ OpenRejected(h)
    \/ OpenContinued(h)
    \/ OpenNotContinued(h)
    \/ OpenDies(h)
    \/ OpenSkipped(h)
    \/ OpenUnreadable(h)
    \/ OpenNoMetafits(h)
    \/ OpenStarted(h)
    \/ OpenCreateDies(h)

-----------------------------------------------------------------------------
(* dada_dbfil_io *)

BlockReady == phase = "data" /\ sent < Blocks(header)

\* No observation is being recorded: the block is dropped.
IoIgnored ==
  /\ BlockReady /\ ctx.obs_id = 0
  /\ sent' = sent + 1
  /\ UNCHANGED <<header, phase, g_quit, ctx, m_File, fil_obs, disk>>

\* Variant: the block's place in the sub-observation decides.
NextBeamOfSubobs == sent % ctx.nbeams_total

NextBeam == ctx.block_number % ctx.nbeams_total

\* Variants: the last beam is never recognised; the seconds left are counted.
MarkedNever(marker) ==
  IF NextBeam = ctx.nbeams_total THEN marker + 1 ELSE marker

MarkedDown(marker) ==
  IF NextBeam = ctx.nbeams_total - 1 THEN marker - 1 ELSE marker

Marked(marker) ==
  IF NextBeam = ctx.nbeams_total - 1 THEN marker + 1 ELSE marker

\* create_fil_block takes the samples to be floats.
SampleSizeAgrees == ctx.nbit \div 8 = 4

\* The beams in whose files a block for beam b may end up: its own; or, when
\* the pointer is to a stream that is not open, none or that of a stream
\* opened since in the same memory.
Targets(b) ==
  IF m_File[b] = "open"
  THEN {{b}}
  ELSE {{}} \cup {{c} : c \in {d \in Beams : m_File[d] = "open"}}

IoWritten ==
  /\ BlockReady /\ ctx.obs_id # 0
  /\ SampleSizeAgrees
  /\ ctx' = [ ctx EXCEPT !.block_number = @ + 1,
                         !.obs_marker_number = Marked(@) ]
  /\ \E target \in Targets(NextBeam) :
       disk' = [ k \in Files |->
                   IF k[1] = fil_obs /\ k[2] \in target
                   THEN [disk[k] EXCEPT !.data = Append(@, Block(header, sent))]
                   ELSE disk[k] ]
  /\ sent' = sent + 1
  \* the statistics files of the block are opened without a check
  /\ phase' \in {"data"} \cup Fault("io", {"died"})
  /\ UNCHANGED <<header, g_quit, m_File, fil_obs>>

\* The sample size is wrong, or fwrite wrote less than a whole block, or it
\* was given a stream that is not open and the process may not survive.
IoFailed ==
  /\ BlockReady /\ ctx.obs_id # 0
  /\ \/ phase' = "failed" /\ \/ ~SampleSizeAgrees
                             \/ "io" \in Faults
                             \/ m_File[NextBeam] # "open"
     \/ phase' = "died" /\ SampleSizeAgrees /\ m_File[NextBeam] # "open"
  /\ UNCHANGED <<header, sent, g_quit, ctx, m_File, fil_obs, disk>>

dada_dbfil_io == IoIgnored \/ IoWritten \/ IoFailed

-----------------------------------------------------------------------------
(* dada_dbfil_close *)

\* Variant: the flag ends the transfer.
EndOfDataOnQuit ==
  /\ phase = "data"
  /\ sent = Blocks(header) \/ "truncate" \in Faults \/ g_quit

EndOfData ==
  /\ phase = "data"
  /\ sent = Blocks(header) \/ "truncate" \in Faults

\* Did we hit the end of an obs?
EndOfObservation == ctx.obs_marker_number = ctx.exposure_sec

CloseWaiting ==
  /\ EndOfData
  /\ ctx.obs_id # 0 /\ ~EndOfObservation
  /\ ctx.obs_marker_number < ctx.exposure_sec
  /\ phase' = "returned"
  /\ UNCHANGED <<header, sent, g_quit, ctx, m_File, fil_obs, disk>>

CloseIdle ==
  /\ EndOfData
  /\ ctx.obs_id = 0 /\ header.mode # "QUIT"
  /\ phase' = "returned"
  /\ UNCHANGED <<header, sent, g_quit, ctx, m_File, fil_obs, disk>>

\* "We hit the end of the ring buffer, but we shouldn't have!": exit(-1)
CloseOverrun ==
  /\ EndOfData
  /\ ctx.obs_id # 0 /\ ~EndOfObservation
  /\ ~(ctx.obs_marker_number < ctx.exposure_sec)
  /\ phase' = "died"
  /\ UNCHANGED <<header, sent, g_quit, ctx, m_File, fil_obs, disk>>

\* do_close_file
ClosesFiles ==
  IF ctx.obs_id # 0 THEN EndOfObservation ELSE header.mode = "QUIT"

\* Variant: the marker is kept.
FinishedContextMarked == [ctx EXCEPT !.obs_id = 0]

\* The pointers are set to NULL and the context to "no observation".
FinishedContext == [ctx EXCEPT !.obs_id = 0, !.obs_marker_number = 0]

CloseFinished ==
  /\ EndOfData
  /\ ClosesFiles
  /\ CloseSurvives(ctx.nbeams_total)
  /\ Closed(ctx.nbeams_total)
  /\ m_File' = [b \in Beams |-> "null"]
  /\ ctx' = FinishedContext
  /\ phase' = "returned"
  /\ UNCHANGED <<header, sent, g_quit, fil_obs>>

CloseFinishedDies ==
  /\ EndOfData
  /\ ClosesFiles
  /\ CloseDies(ctx.nbeams_total)
  /\ UNCHANGED <<header, sent, g_quit, ctx, fil_obs>>

dada_dbfil_close ==
  CloseWaiting \/ CloseIdle \/ CloseOverrun \/ CloseFinished
    \/ CloseFinishedDies

-----------------------------------------------------------------------------
(* main *)

\* After dada_client_read: an error raises the flag; with the flag up main
\* returns, otherwise the read lock is dropped and taken again.
MainLoop ==
  /\ phase \in {"returned", "failed"}
  /\ g_quit' = (g_quit \/ phase = "failed")
  /\ phase' \in IF g_quit' THEN {"exited"}
                ELSE {"header"} \cup Fault("io", {"exited"})
  /\ UNCHANGED <<header, sent, ctx, m_File, fil_obs, disk>>

sig_handler ==
  /\ "sigint" \in Faults
  /\ phase \notin {"exited", "died"}
  /\ g_quit' = TRUE
  /\ UNCHANGED <<header, sent, phase, ctx, m_File, fil_obs, disk>>

\* health_thread_fn: sendto fails and the thread calls exit, which flushes the
\* streams (between two callbacks; for inside one see CloseDies).
HealthFails ==
  /\ "health" \in Faults
  /\ phase \notin {"exited", "died"}
  /\ phase' = "died"
  /\ UNCHANGED <<header, sent, g_quit, ctx, m_File, fil_obs, disk>>

\* g_ctx before the first header; being static it starts as zeroes.
NoContext ==
  [ obs_id |-> 0, obs_offset |-> 0, exposure_sec |-> 0, nbeams_total |-> 0,
    nbit |-> 0, block_number |-> 0, obs_marker_number |-> 0,
    duration_changed |-> FALSE ]

\* The program is started again, by hand or by whatever supervises it.  What
\* is left of the sub-observation it was reading is lost; the files stay.
Restart ==
  /\ "restart" \in Faults
  /\ phase \in {"exited", "died"}
  /\ phase' = "header"
  /\ g_quit' = FALSE
  /\ ctx' = NoContext
  /\ m_File' = [b \in Beams |-> "null"]
  /\ fil_obs' = 0
  /\ disk' = [ k \in Files |->
                 [disk[k] EXCEPT !.status = IF @ = "open" THEN "closed" ELSE @] ]
  /\ UNCHANGED <<header, sent>>

\* The process is gone.
Ended ==
  /\ phase \in {"exited", "died"}
  /\ UNCHANGED vars

Init ==
  /\ header = NoHeader
  /\ sent = 0
  /\ phase = "header"
  /\ g_quit = FALSE
  /\ ctx = NoContext
  /\ m_File = [b \in Beams |-> "null"]
  /\ fil_obs = 0
  /\ disk = [k \in Files |-> NoFile]

Next ==
  \/ dada_dbfil_open
  \/ dada_dbfil_io
  \/ dada_dbfil_close
  \/ MainLoop
  \/ sig_handler
  \/ HealthFails
  \/ Restart
  \/ Ended

Spec == Init /\ [][Next]_vars

\* Upstream goes on sending and the main thread goes on running.
FairSpec == Spec /\ WF_vars(Next)

-----------------------------------------------------------------------------
(* Properties *)

TypeOK ==
  /\ header \in Headers
  /\ sent \in Nat
  /\ phase \in Phases
  /\ g_quit \in BOOLEAN
  /\ ctx \in Contexts
  /\ m_File \in [Beams -> Handles]
  /\ fil_obs \in ObsIds \cup {0}
  /\ disk \in [Files -> FileRecords]

\* This step is dada_dbfil_close ending an observation.
FinishesNow == phase = "data" /\ phase' = "returned" /\ ctx'.obs_id = 0

\* The beams of the array ctx->beams.
Live == 0 .. ctx.nbeams_total - 1

\* No stream is leaked: a file whose stream is open belongs to the
\* observation in ctx, and the pointer to that stream is in ctx->beams,
\* where the next close will find it.  It is about the three places that
\* drop pointers: the two closing loops, and the free and malloc of the
\* beams in read_dada_header.
NoStreamLeaked ==
  \A k \in Files :
    disk[k].status = "open" =>
      /\ k[1] = ctx.obs_id /\ k[1] = fil_obs
      /\ k[2] \in Live /\ m_File[k[2]] = "open"

\* The samples of a file are those of its own beam of its own observation,
\* from the first second on, in order and without a gap: what the modulus
\* on block_number, its reset at a new observation, the skipping of
\* observations in progress and the OBS_OFFSET check are for.
Demultiplexed ==
  \A k \in Files : \A i \in DOMAIN disk[k].data :
    disk[k].data[i] = [obs |-> k[1], beam |-> k[2], sec |-> i - 1]

\* A closed file whose header declares another number of samples than it holds.
Unsealed(k) ==
  disk[k].status = "closed" /\ Len(disk[k].data) # disk[k].nsecs

\* Of the files of its observation, j is that of the last beam.
IsLast(j) ==
  \A k \in Files : k[1] = j[1] /\ k[2] > j[2] => disk[k].status = "absent"

\* The files that an observation has closed are equally long, and the header of
\* its last beam says how long, also when EXPOSURE_SECS changed during the
\* observation.
SealedComplete ==
  phase # "died" =>
    \A j, k \in Files :
      /\ disk[j].status = "closed" /\ IsLast(j)
      /\ disk[k].status = "closed" /\ k[1] = j[1]
      => Len(disk[k].data) = disk[j].nsecs

\* A file that has been closed by its observation carries as many samples as
\* its header declares: when the duration changes, close_fil is to "Update the
\* header (nsamples)" of each of them (filwriter.c).
HeadersUpdated ==
  phase # "died" => \A k \in Files : ~Unsealed(k)

\* Whenever main gets to look at the flag after a sub-observation, and so
\* whenever SIGINT, MODE=QUIT or an error in the next header makes it stop, the
\* files of an observation are equally long and end with a whole
\* sub-observation.
WholeSubobservations ==
  phase \in {"header", "returned"} =>
    \A j, k \in Files :
      (disk[j].status # "absent" /\ disk[k].status # "absent" /\ j[1] = k[1])
      => /\ Len(disk[j].data) = Len(disk[k].data)
         /\ Len(disk[j].data) % SecsPerSubobs = 0

\* The blocks of the observation in progress are dealt out evenly to its beams:
\* whatever sub-observations are lost, cut short or sent twice, the files
\* differ by the one second in progress, and nothing is lost, as long as the
\* pointers are to the streams of these files.
DealtEvenly ==
  phase # "died" /\ ctx.obs_id # 0 /\ (\A b \in Live : m_File[b] = "open") =>
    \A b \in Live :
      Len(disk[<<fil_obs, b>>].data) =
        (ctx.block_number \div ctx.nbeams_total)
          + (IF b < ctx.block_number % ctx.nbeams_total THEN 1 ELSE 0)

\* obs_marker_number counts the seconds in the files of the observation in
\* progress, whose last second may still be incomplete: block_number deals
\* the blocks out evenly, also when a sub-observation ends early.  The end of
\* the observation is recognised by this number alone.
MarkerCountsSeconds ==
  \A k \in Files :
    (disk[k].status = "open" /\ phase # "died") =>
      Len(disk[k].data) =
        ctx.obs_marker_number
          + (IF k[2] < ctx.block_number % ctx.nbeams_total THEN 1 ELSE 0)

\* In the first observation, in which nothing can be left of another, it does so
\* whatever happens to its sub-observations and to the program, and after any
\* restart, as long as the pointers are to streams.
MarkerCountsFirst ==
  /\ \A o \in ObsIds : ctx.obs_id <= o
  /\ \A b \in Live : m_File[b] = "open"
  => MarkerCountsSeconds

\* With a regular upstream the client's own fatal checks never fire: the
\* marker that counts the seconds written always meets EXPOSURE_SECS.
NeverDies == phase # "died"

\* The samples in a closed file never change: neither a later observation
\* nor the rewriting of nsamples touches them, and what still arrives of an
\* observation after its last expected second does not start its files anew.
ClosedDataFrozen ==
  [][ \A k \in Files :
        disk[k].status = "closed" =>
          disk'[k].status = "closed" /\ disk'[k].data = disk[k].data ]_vars

\* Every observation whose recording started ends with all its files closed.
Recorded(o) ==
  /\ \E k \in Files : k[1] = o /\ disk[k].status = "closed"
  /\ \A k \in Files : k[1] = o => disk[k].status # "open"

EventuallySealed ==
  \A o \in ObsIds : (ctx.obs_id = o) ~> Recorded(o)

\* When the client takes an observation for finished (dada_dbfil.c: "End of
\* observation detected"), each of its files holds EXPOSURE_SECS seconds.
EndOfObservationIsReal ==
  [][ ctx.obs_id # 0 /\ FinishesNow =>
        \A b \in Live :
          m_File[b] = "open" =>
            Len(disk[<<ctx.obs_id, b>>].data) = ctx.exposure_sec ]_vars

\* MODE=QUIT ends the observation in progress and closes its files
\* (dada_dbfil.c: "Observation ends NOW! It got cut short ...").
QuitClosesFiles ==
  (phase = "exited" /\ header.mode = "QUIT") =>
    \A k \in Files : disk[k].status # "open"

\* The files it does not close are those of an observation that still lacks
\* seconds: nothing that is complete is left open, after whatever changes of
\* EXPOSURE_SECS and gaps.
QuitLeavesOnlyShort ==
  (phase = "exited" /\ header.mode = "QUIT") =>
    \A k \in Files :
      disk[k].status = "open" => Len(disk[k].data) < ctx.exposure_sec

-----------------------------------------------------------------------------
(* Why the streams and the closed files are safe *)

\* The converse of NoStreamLeaked: a pointer to an open stream is a pointer to
\* the stream of the file named after fil_obs and its beam.
HandlesOpen ==
  \A b \in Beams :
    m_File[b] = "open" => fil_obs # 0 /\ disk[<<fil_obs, b>>].status = "open"

\* No file belongs to an observation that is still to come.
NoFutureFile ==
  \A k \in Files : disk[k].status # "absent" => k[1] <= header.obs_id

\* There are never more beams than files to deal them to.
BeamsFit == header.nbeams <= MaxBeams /\ ctx.nbeams_total <= MaxBeams

StreamInv == TypeOK /\ NoStreamLeaked /\ HandlesOpen /\ NoFutureFile

-----------------------------------------------------------------------------
(* Why every block ends up in its place *)

\* Without these no observation is superseded and no pointer is stale.
Orderly == Faults \cap {"cut", "truncate", "dirtyheap"} = {}

\* While an observation is recorded, the context agrees with the header it is
\* at; block_number counts the blocks since its beginning, and between two
\* sub-observations more of it is to come.
Recording == ctx.obs_id # 0 /\ phase \in {"header", "data", "returned"}

InStep ==
  Recording =>
    /\ header.obs_id = ctx.obs_id /\ header.obs_id = fil_obs
    /\ header.nbeams = ctx.nbeams_total
    /\ header.obs_offset = ctx.obs_offset
    /\ header.exposure_sec = ctx.exposure_sec
    /\ \A b \in Live : m_File[b] = "open"
    /\ header.nbeams > 0 /\ header.mode # "NONE"

Counted ==
  Recording /\ header.mode = "VALID" =>
    /\ ctx.block_number = header.obs_offset * header.nbeams + sent
    /\ phase # "data" =>
         /\ sent = SecsPerSubobs * header.nbeams
         /\ ctx.obs_marker_number < ctx.exposure_sec

Quitting ==
  Recording /\ header.mode = "QUIT" => g_quit /\ phase # "header"

\* The marker is the quotient whose remainder is the next beam.
MarkerIsQuotient ==
  phase # "died" /\ (\E b \in Beams : m_File[b] = "open") =>
    /\ \A b \in Live : m_File[b] = "open"
    /\ ctx.obs_marker_number = ctx.block_number \div ctx.nbeams_total

NothingStale ==
  /\ phase # "died" => \A b \in Beams : m_File[b] # "stale"
  /\ ctx.obs_id = 0 => ctx.obs_marker_number = 0
  /\ header.mode = "VALID" => header.nbeams > 0

OrderlyInv ==
  /\ StreamInv /\ BeamsFit /\ DealtEvenly /\ Demultiplexed
  /\ InStep /\ Counted /\ Quitting /\ MarkerIsQuotient /\ NothingStale
=============================================================================
