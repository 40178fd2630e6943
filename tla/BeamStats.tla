------------------------------ MODULE BeamStats ------------------------------
(***************************************************************************)
(* The statistics dada_dbfil_io (src/dada_dbfil.c) writes for each block,  *)
(* when the command line of Args gave a directory for them: the power by   *)
(* channel and the power by time step, each in a file of its own, next to  *)
(* the filterbank files that DadaDbFil is about.  One observation, blocks  *)
(* in the order of the ring.                                               *)
(*                                                                         *)
(* A sample is an integer, and a mean is kept as the sum it is computed    *)
(* from.  All beams have the same shape.                                   *)
(***************************************************************************)
EXTENDS Args, SequencesExt

CONSTANTS
  nbeams_total, ntimesteps, nchan, npol,
  Buffers,    \* the contents of blocks: functions on Positions
  MaxSeconds  \* bound on the length of the observation

ASSUME ShapeAssumption ==
  {nbeams_total, ntimesteps, nchan, npol} \subseteq Nat \ {0}

VARIABLES
  stats_dir,  \* of g_ctx, NULL without one
  block_number, obs_marker_number,
  fil,        \* the blocks in the filterbank file of each beam
  stats       \* the statistics directory: the files, by name

stats_vars == <<stats_dir, block_number, obs_marker_number, fil, stats>>
all_vars == <<vars, stats_vars>>

Beams == 0 .. nbeams_total - 1
Positions == 0 .. ntimesteps * nchan * npol - 1

ASSUME BufferAssumption == Buffers \subseteq [Positions -> Int]

-----------------------------------------------------------------------------

\* input_index, which the three loops step through.
input_index(t, ch, pol) == (t * nchan + ch) * npol + pol

power_freq(buffer) ==
  [ ch \in 0 .. nchan - 1 |->
      MapThenSumSet(LAMBDA x : buffer[input_index(x[1], ch, x[2])],
                    (0 .. ntimesteps - 1) \X (0 .. npol - 1)) ]

\* Variant: outside the loop over the polarisations.
power_time_first_pol(buffer) ==
  [ t \in 0 .. ntimesteps - 1 |->
      MapThenSumSet(LAMBDA ch : buffer[input_index(t, ch, 0)],
                    0 .. nchan - 1) ]

power_time(buffer) ==
  [ t \in 0 .. ntimesteps - 1 |->
      MapThenSumSet(LAMBDA x : buffer[input_index(t, x[1], x[2])],
                    (0 .. nchan - 1) \X (0 .. npol - 1)) ]

\* OBSID and channel, the same in all names here, are left out.  Variant: so is
\* the beam.
NamesWithoutBeam(b, marker) ==
  [spec |-> <<0, marker, "spec">>, time |-> <<0, marker, "time">>]

Names(b, marker) ==
  [spec |-> <<b + 1, marker, "spec">>, time |-> <<b + 1, marker, "time">>]

beam == block_number % nbeams_total

\* The last beam's block completes the second.
NextMarker ==
  IF beam = nbeams_total - 1 THEN obs_marker_number + 1 ELSE obs_marker_number

\* The two files are opened with "w"; the marker has been raised by then.
WithStats(buffer) ==
  LET n == Names(beam, NextMarker)
  IN  [ f \in DOMAIN stats \cup {n.spec, n.time} |->
          CASE f = n.spec -> power_freq(buffer)
            [] f = n.time -> power_time(buffer)
            [] OTHER -> stats[f] ]

\* main, with a command line that is accepted: from here on only the settings
\* are looked at.  phase is "recording", or "died" in fprintf.
Start ==
  /\ phase = "accepted"
  /\ phase' = "recording"
  /\ stats_dir' = args["s"]
  /\ line' = <<>> /\ optind' = 1
  /\ UNCHANGED <<args, block_number, obs_marker_number, fil, stats>>

Written(buffer) ==
  /\ phase = "recording"
  /\ obs_marker_number < MaxSeconds
  /\ fil' = [fil EXCEPT ![beam] = Append(@, buffer)]
  /\ obs_marker_number' = NextMarker
  /\ block_number' = block_number + 1
  /\ UNCHANGED <<line, optind, args, stats_dir>>

dada_dbfil_io(buffer) ==
  /\ Written(buffer)
  /\ stats' = IF stats_dir = NULL THEN stats ELSE WithStats(buffer)
  /\ UNCHANGED phase

\* A file that cannot be opened is written to through NULL; the block is in the
\* filterbank file by then.
StatsDie(buffer) ==
  /\ stats_dir # NULL
  /\ Written(buffer)
  /\ phase' = "died"
  /\ UNCHANGED stats

StatsInit ==
  /\ Init
  /\ stats_dir = NULL
  /\ block_number = 0
  /\ obs_marker_number = 0
  /\ fil = [b \in Beams |-> <<>>]
  /\ stats = <<>>

StatsNext ==
  \/ Next /\ UNCHANGED stats_vars
  \/ Start
  \/ \E buffer \in Buffers : dada_dbfil_io(buffer) \/ StatsDie(buffer)

StatsSpec == StatsInit /\ [][StatsNext]_all_vars

-----------------------------------------------------------------------------
(* Properties *)

\* The number in the names for the i-th second of beam b: it counts from 0, but
\* for the last beam from 1.
NumberOf(b, i) == IF b = nbeams_total - 1 THEN i ELSE i - 1

\* If the user asked for statistics, every second of every beam has its own,
\* and they describe the samples at that place in the beam's filterbank file:
\* nothing is overwritten or attributed to another beam, although the counter in
\* the names changes in the middle of a second.  Otherwise there are none.
StatsDescribeData ==
  phase = "recording" =>
    /\ Cardinality(DOMAIN stats) =
         IF args["s"] = NULL THEN 0 ELSE 2 * block_number
    /\ args["s"] # NULL =>
         \A b \in Beams : \A i \in DOMAIN fil[b] :
           LET n == Names(b, NumberOf(b, i))
           IN  /\ {n.spec, n.time} \subseteq DOMAIN stats
               /\ stats[n.spec] = power_freq(fil[b][i])
               /\ stats[n.time] = power_time(fil[b][i])

\* The two statistics of a second are two views of the same samples: both add
\* up to their total.
PowerConserved ==
  \A b \in Beams : \A i \in DOMAIN fil[b] :
    LET total == MapThenSumSet(LAMBDA p : fil[b][i][p], Positions)
        n == Names(b, NumberOf(b, i))
    IN  n.spec \in DOMAIN stats =>
          /\ MapThenSumSet(LAMBDA ch : stats[n.spec][ch], 0 .. nchan - 1)
               = total
          /\ MapThenSumSet(LAMBDA t : stats[n.time][t], 0 .. ntimesteps - 1)
               = total

-----------------------------------------------------------------------------
(* Why they describe it: an inductive invariant *)

\* The blocks go round the beams, and the counter in the names counts rounds.
InTurn ==
  /\ block_number \in Nat /\ obs_marker_number \in Nat
  /\ fil \in [Beams -> Seq(Buffers)]

Rounds ==
  \A b \in Beams :
    Len(fil[b]) = IF b < beam THEN obs_marker_number + 1 ELSE obs_marker_number

\* A second has both statistics or none, and they are its own.
Described ==
  \A b \in Beams : \A i \in DOMAIN fil[b] :
    LET n == Names(b, NumberOf(b, i))
    IN  n.spec \in DOMAIN stats \/ n.time \in DOMAIN stats =>
          /\ {n.spec, n.time} \subseteq DOMAIN stats
          /\ stats[n.spec] = power_freq(fil[b][i])
          /\ stats[n.time] = power_time(fil[b][i])

\* There are no files of other seconds, and those of a second are not missing
\* if they were asked for.
Counted ==
  /\ \A f \in DOMAIN stats : \E b \in Beams : \E i \in DOMAIN fil[b] :
       LET n == Names(b, NumberOf(b, i)) IN f \in {n.spec, n.time}
  /\ IsFiniteSet(DOMAIN stats)
  /\ phase = "recording" =>
       /\ stats_dir = args["s"]
       /\ Cardinality(DOMAIN stats) =
            IF stats_dir = NULL THEN 0 ELSE 2 * block_number
       /\ stats_dir # NULL =>
            \A b \in Beams : \A i \in DOMAIN fil[b] :
              Names(b, NumberOf(b, i)).spec \in DOMAIN stats

Untouched ==
  phase \in {"parsing", "checking", "accepted", "refused"} =>
    /\ stats_dir = NULL /\ block_number = 0 /\ obs_marker_number = 0
    /\ fil = [b \in Beams |-> <<>>] /\ stats = <<>>

StatsInv ==
  InTurn /\ Described /\ Untouched /\ (phase # "died" => Rounds /\ Counted)
=============================================================================
