-------------------------- MODULE DadaDbFilArchive --------------------------
(***************************************************************************)
(* The ring-buffer client implements the archive of BeamArchive, as long   *)
(* as observations are not cut short.                                      *)
(***************************************************************************)
EXTENDS DadaDbFil

\* A file is being recorded while its observation is the one in ctx: the
\* closing of the beams one by one counts as one sealing, done when the
\* context is cleared.
InProgress(k) == disk[k].status = "open" \/ k[1] = ctx.obs_id

FileStatus ==
  [ k \in Files |->
      CASE disk[k].status = "absent" -> "absent"
        [] disk[k].status # "absent" /\ InProgress(k) -> "recording"
        [] OTHER -> "sealed" ]

\* The files of observation o, and the one of the last beam among files.
Existing(o) == {k \in Files : k[1] = o /\ disk[k].status # "absent"}

LastOf(files) == CHOOSE k \in files : \A j \in files : j[2] <= k[2]

\* What an observation declares: EXPOSURE_SECS while it is being recorded, then
\* what the header of its last beam says (see close_fil); 0 if it has no files.
ObsDeclared ==
  [ o \in ObsIds |->
      CASE Existing(o) = {} -> 0
        [] \E k \in Existing(o) : InProgress(k) -> ctx.exposure_sec
        [] OTHER -> disk[LastOf(Existing(o))].nsecs ]

FileData == [k \in Files |-> disk[k].data]

Archive == INSTANCE BeamArchive
  WITH Durations <- Exposures, status <- FileStatus,
       declared <- ObsDeclared, data <- FileData

\* The files on disk behave as the archive: each beam is recorded from its
\* first second on, nothing is lost, misplaced or overwritten, and files are
\* given up as finished only when all beams hold exactly the seconds that the
\* header of the last one, rewritten if need be, declares.  It is about the
\* demultiplexing of blocks, the OBS_OFFSET and EXPOSURE_SECS handling, the
\* seconds marker and the closing of files taken together.
ImplementsArchive == Archive!ArchiveSpec
=============================================================================
