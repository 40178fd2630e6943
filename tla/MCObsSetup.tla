----------------------------- MODULE MCObsSetup -----------------------------
(***************************************************************************)
(* Instances of ObsSetup for TLC.                                          *)
(***************************************************************************)
EXTENDS ObsSetup, TLC

ThreeBeams == 0 .. 2

Pair(integration, nchan) == [time_integration |-> integration, nchan |-> nchan]

\* 12 Hz wide coarse channels; a second of a beam of <<1, 4>> is 3 time steps
\* of 4 channels.
Regular ==
  [ bandwidth_hz |-> 12, coarse_channel |-> 2, npol |-> 1, nbit |-> 32,
    exposure_sec |-> 2, secs_per_subobs |-> 2, transfer_size |-> 400,
    block_size |-> 100, nbeams_incoherent |-> 2, nbeams_coherent |-> 0,
    beams |-> [b \in ThreeBeams |-> Pair(1, 4)], ra |-> 54015, dec |-> -3661,
    lacks |-> "nothing" ]

\* Observations that follow one another with one or two beams, on two coarse
\* channels; one with a beam that is coherent (and comes with the keys of a
\* second incoherent beam); and one that is refused on the way.
Sequences ==
  { [Regular EXCEPT !.nbeams_incoherent = n, !.coarse_channel = c] :
      n \in {1, 2}, c \in {2, 3} }
  \cup { [Regular EXCEPT !.nbeams_incoherent = 1, !.nbeams_coherent = 1],
         [Regular EXCEPT !.lacks = "metafits key"] }

Symmetry == Permutations(Arrays) \cup Permutations(Regions)

\* Headers with other numbers and another sky: a beam that does not divide, that
\* has no channels or takes too long; sizes that fit exactly or not; angles
\* around the poles, the equator, whole degrees and hours, and in between; and
\* an observation of more samples than an int can count.
Other(pair, npol, nbit, size, ra, dec) ==
  [ Regular EXCEPT
      !.bandwidth_hz = 36, !.coarse_channel = 1, !.npol = npol, !.nbit = nbit,
      !.transfer_size = size, !.nbeams_incoherent = 1,
      !.beams = [b \in ThreeBeams |-> pair], !.ra = ra, !.dec = dec ]

Others ==
  { Other(Pair(3, 0), 1, 32, 100, 0, 0),
    Other(Pair(5, 2), 1, 32, 100, 14, -1),
    Other(Pair(7, 5), 1, 32, 20, 899, -3599),
    Other(Pair(3, 3), 1, 32, 48, 900, -3600),
    Other(Pair(3, 3), 1, 32, 47, 53999, 3600),
    Other(Pair(4, 2), 2, 32, 72, 54000, 96027),
    Other(Pair(1, 5), 2, 8, 70, 823457, -323999),
    Other(Pair(36, 1), 2, 32, 100, 1295999, 324000),
    [Other(Pair(3, 3), 1, 32, 48, 900, 0) EXCEPT !.exposure_sec = 30] }

Refused ==
  { [Regular EXCEPT !.lacks = l] : l \in {"key", "beam key", "metafits"} }
  \cup { [Regular EXCEPT !.secs_per_subobs = 0],
         [Regular EXCEPT !.nbeams_incoherent = 0],
         [Regular EXCEPT !.nbeams_incoherent = 3],
         [Regular EXCEPT !.nbeams_incoherent = 1, !.nbeams_coherent = 2] }

AllHeaders == Sequences \cup Others \cup Refused
=============================================================================
