---------------------------- MODULE BeamArchive -----------------------------
(***************************************************************************)
(* What mwax_beamdb2fil promises of its output directory, abstractly: one  *)
(* file per beam of an observation, recorded second by second, the beams   *)
(* in turn; all the files of an observation are sealed together, when      *)
(* every one of them holds the seconds the observation declares, and a     *)
(* sealed file never changes.  An observation may also be left unsealed,   *)
(* and then is the last one.                                               *)
(***************************************************************************)
EXTENDS Integers, Sequences

CONSTANTS
  ObsIds,     \* the observation ids
  MaxBeams,   \* the largest number of beams of an observation
  Durations   \* the numbers of seconds an observation may declare

VARIABLES
  status,    \* of each file: absent, recording or sealed
  declared,  \* of each observation: its seconds
  data       \* of each file: the seconds it holds

archive == <<status, declared, data>>

Files == ObsIds \X (0 .. MaxBeams - 1)

ArchiveInit ==
  /\ status = [k \in Files |-> "absent"]
  /\ declared = [o \in ObsIds |-> 0]
  /\ data = [k \in Files |-> <<>>]

Recording == {k \in Files : status[k] = "recording"}

\* Recording of n beams of observation o starts, with nothing else going on.
Begin(o, n, e) ==
  LET started == {o} \X (0 .. n - 1)
  IN  /\ Recording = {}
      /\ \A k \in Files : k[1] = o => status[k] = "absent"
      /\ status' = [k \in Files |->
                      IF k \in started THEN "recording" ELSE status[k]]
      /\ declared' = [declared EXCEPT ![o] = e]
      /\ UNCHANGED data

\* The next second of k: it is the turn of k when the beams before it are one
\* second ahead, and the ones after it are not.
Write(k) ==
  /\ k \in Recording
  /\ \A j \in Recording \ {k} :
       Len(data[j]) = IF j[2] < k[2] THEN Len(data[k]) + 1 ELSE Len(data[k])
  /\ data' = [data EXCEPT ![k] =
                Append(@, [obs |-> k[1], beam |-> k[2], sec |-> Len(@)])]
  /\ UNCHANGED <<status, declared>>

\* The observation turns out to be shorter or longer than declared.
Redeclare(e) ==
  /\ declared' = [o \in ObsIds |-> IF \E k \in Recording : k[1] = o
                                   THEN e ELSE declared[o]]
  /\ UNCHANGED <<status, data>>

Complete(k) == Len(data[k]) = declared[k[1]]

Seal ==
  /\ \A k \in Recording : Complete(k)
  /\ status' = [k \in Files |-> IF k \in Recording THEN "sealed" ELSE status[k]]
  /\ UNCHANGED <<declared, data>>

ArchiveNext ==
  \/ \E o \in ObsIds, n \in 0 .. MaxBeams, e \in Durations : Begin(o, n, e)
  \/ \E k \in Files : Write(k)
  \/ \E e \in Durations : Redeclare(e)
  \/ Seal

ArchiveSpec == ArchiveInit /\ [][ArchiveNext]_archive
=============================================================================
