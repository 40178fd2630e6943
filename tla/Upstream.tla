------------------------------ MODULE Upstream ------------------------------
(***************************************************************************)
(* What the MWAX beamformer puts in the PSRDADA ring buffer: a header per  *)
(* sub-observation followed by its data blocks.  None of this code is in   *)
(* the repository; it is modelled from how src/dada_dbfil.c uses it.       *)
(*                                                                         *)
(* A well-behaved upstream sends an observation as consecutive             *)
(* sub-observations of SecsPerSubobs seconds, from offset 0 up to          *)
(* EXPOSURE_SECS, each with one block per beam per second.  Faults names   *)
(* the departures from this that an instance allows.                       *)
(***************************************************************************)
EXTENDS Integers, Sequences

CONSTANTS
  ObsIds,         \* the observation ids upstream may use
  Exposures,      \* the values EXPOSURE_SECS may take
  SecsPerSubobs,  \* SECS_PER_SUBOBS: seconds in a sub-observation (8 at MWA)
  MaxBeams,       \* the largest number of beams of an observation
  Faults          \* the irregularities this instance allows

FaultKinds ==
  { "late",       \* the first sub-observation of an observation is missed
    "retime",     \* EXPOSURE_SECS changes during the observation
    "shrink",     \* ... to a value that the observation has already passed
    "cut",        \* a new observation starts before the previous one ended
    "gap",        \* a sub-observation is lost
    "repeat",     \* a sub-observation is sent twice
    "bad",        \* a header lacks a key, or has an invalid value
    "abort",      \* MODE=QUIT arrives in the middle of an observation
    "truncate",   \* end of data before the sub-observation is complete
    "io",         \* the file system fails
    "unpatched",  \* the nsamples keyword of a file cannot be found or written
    "dirtyheap",  \* malloc returns memory holding unrelated bytes
    "sigint",     \* SIGINT is delivered
    "health",     \* the health thread fails and ends the process
    "restart" }   \* a process that has ended is started again

ASSUME UpstreamAssumption ==
  /\ ObsIds \subseteq Nat \ {0}
  /\ Exposures \subseteq Nat \ {0}
  /\ SecsPerSubobs \in Nat \ {0}
  /\ MaxBeams \in Nat \ {0}
  /\ Faults \subseteq FaultKinds

(***************************************************************************)
(* A header.  defect names what the callbacks will fail on when they read  *)
(* it: "ident" stands for MODE, OBS_ID or SUBOBS_ID missing or invalid,    *)
(* "other" for any key, sanity or size check of read_dada_header and       *)
(* process_new_observation.                                                *)
(***************************************************************************)
Defects == {"ident", "EXPOSURE_SECS", "OBS_OFFSET", "other"}

Headers ==
  [ mode         : {"NONE", "VALID", "QUIT"},
    obs_id       : ObsIds \cup {0},
    subobs_id    : Nat,
    obs_offset   : Nat,
    exposure_sec : Nat,
    nbeams       : Nat,
    nbit         : {8, 32},
    defect       : Defects \cup {"none"} ]

Header(o, offset, e, n) ==
  [ mode |-> "VALID", obs_id |-> o, subobs_id |-> o + offset,
    obs_offset |-> offset, exposure_sec |-> e, nbeams |-> n,
    nbit |-> 32, defect |-> "none" ]

\* Nothing has been sent yet.
NoHeader == [Header(0, 0, 0, 0) EXCEPT !.mode = "NONE"]

Fault(kind, S) == IF kind \in Faults THEN S ELSE {}

\* h is the last sub-observation of its observation.
Finished(h) == h.obs_offset + SecsPerSubobs >= h.exposure_sec

\* Headers of a new observation; the ids, being GPS times, only increase.
Starts(h) ==
  { x \in { Header(o, offset, e, n) :
              o \in {i \in ObsIds : i > h.obs_id},
              offset \in {0} \cup Fault("late", {SecsPerSubobs}),
              e \in Exposures,
              n \in 1 .. MaxBeams } :
    /\ x.obs_offset < x.exposure_sec
    /\ Finished(h) \/ "cut" \in Faults }

\* Headers of a further sub-observation of the same observation.
NextOffsets(h) ==
  {h.obs_offset + SecsPerSubobs}
    \cup Fault("gap", {h.obs_offset + 2 * SecsPerSubobs})
    \cup Fault("repeat", {h.obs_offset})

NextExposures(h) == {h.exposure_sec} \cup Fault("retime", Exposures)

Further(h) ==
  { [Header(h.obs_id, offset, e, h.nbeams) EXCEPT !.nbit = h.nbit] :
      offset \in NextOffsets(h), e \in NextExposures(h) }

Continues(h) ==
  { x \in Further(h) :
    /\ h.mode = "VALID"
    /\ \/ x.obs_offset < x.exposure_sec
       \/ "shrink" \in Faults /\ \E e \in Exposures : x.obs_offset < e }

Malformed(H) ==
  Fault("bad", { [x EXCEPT !.defect = d] : x \in H, d \in Defects }
               \cup { [x EXCEPT !.nbit = 8] : x \in H })

Quits(h) ==
  IF Finished(h) \/ "abort" \in Faults
  THEN {[h EXCEPT !.mode = "QUIT"]}
  ELSE {}

\* The headers that may follow h in the header ring.
Follows(h) ==
  LET regular == Starts(h) \cup Continues(h)
  IN  regular \cup Malformed(regular) \cup Quits(h)

\* The number of data blocks of a sub-observation.
Blocks(h) == IF h.mode = "QUIT" THEN 0 ELSE SecsPerSubobs * h.nbeams

(***************************************************************************)
(* Block i of sub-observation h holds one second of one beam, beams        *)
(* varying fastest:                                                        *)
(*    Block 0 == 1st beam timestep 1, Block 1 == 2nd beam timestep 1, ...  *)
(***************************************************************************)
Block(h, i) ==
  [ obs  |-> h.obs_id,
    beam |-> i % h.nbeams,
    sec  |-> h.obs_offset + (i \div h.nbeams) ]

BlockTags == [obs : Nat, beam : Nat, sec : Nat]
=============================================================================
