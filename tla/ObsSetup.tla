------------------------------ MODULE ObsSetup ------------------------------
(***************************************************************************)
(* How an observation is set up: process_new_observation with              *)
(* read_dada_header (src/dada_dbfil.c), the reading of the metafits file   *)
(* (src/metafitsreader.c) and create_fil (src/filwriter.c), one            *)
(* observation after the other.  DadaDbFil takes all this as one step and  *)
(* looks at the streams; here are the numbers, and the one other thing     *)
(* that survives an observation: the arrays of channel frequencies, which  *)
(* the next observation finds, or does not find, in newly allocated beams. *)
(***************************************************************************)
EXTENDS Angles, FiniteSetsExt

CONSTANTS
  Headers,  \* the headers that start an observation
  Beams,    \* 0 .. the largest number of beams, less one
  Regions,  \* where malloc may put ctx->beams
  Arrays,   \* where calloc may put an array of channel frequencies
  Wild,     \* what memory may hold where nothing of the program was written:
            \* neither NULL nor where an array is
  INCOHERENT_BEAMS_MAX, COHERENT_BEAMS_MAX,
  INT_MAX

(***************************************************************************)
(* A header names the key it lacks; a beam is its pair of keys; ra and dec *)
(* are those of its metafits file.  Counts of beams that are negative,     *)
(* which read_dada_header lets pass, are left out, and so are coarse       *)
(* channels so high that their frequency in Hz is no int any more.         *)
(***************************************************************************)
ASSUME HeaderAssumption ==
  \A h \in Headers :
    /\ h.nbeams_incoherent \in Nat /\ h.nbeams_coherent \in Nat
    /\ 0 .. h.nbeams_incoherent + h.nbeams_coherent - 1 \subseteq Beams
    /\ \A b \in Beams :
         h.beams[b].time_integration \in Nat /\ h.beams[b].nchan \in Nat
    /\ {h.coarse_channel, h.bandwidth_hz, h.npol, h.nbit, h.exposure_sec,
        h.secs_per_subobs, h.transfer_size, h.block_size} \subseteq Nat
    /\ h.coarse_channel * h.bandwidth_hz <= INT_MAX
    /\ h.ra \in Int /\ RightAscension(h.ra)
    /\ h.dec \in Int /\ Declination(h.dec)
    /\ h.lacks \in {"nothing", "key", "beam key", "metafits", "metafits key"}

ASSUME ArrayAssumption ==
  0 \notin Arrays /\ Wild \notin Arrays \cup {0} /\ Beams \subseteq Nat

ASSUME LimitAssumption == INT_MAX \in Nat

VARIABLES
  phase,     \* see Phases
  header,    \* the header being processed: the fields of ctx read from it
  beam,      \* the loop variable, in the loops over the beams
  region,    \* where ctx->beams is
  channels,  \* the channels field of a beam, in whichever region: where its
             \* array is, 0 for NULL, or Wild
  live,      \* the arrays calloc'd and not freed
  first,     \* channels[0] of each array, in Hz, and what is read at Wild
  files      \* the header in the file of each beam of this observation

heap_vars == <<region, channels, live, first>>
vars == <<phase, header, beam, heap_vars, files>>

Phases ==
  { "idle",       \* no observation, or the last one is over
    "beams", "channels",      \* in read_dada_header
    "metafits", "checking", "creating",
    "recording",  \* dada_dbfil_open has returned EXIT_SUCCESS
    "failed",     \* ... or -1, and main stops
    "died" }      \* exit(), or killed

Total(h) == h.nbeams_incoherent + h.nbeams_coherent

Live == 0 .. Total(header) - 1

NoFile ==
  [ nsamples |-> 0, nchans |-> 0, nifs |-> 0, nbits |-> 0,
    fch1 |-> 0, foff |-> 0, src_raj |-> 0, src_dej |-> 0 ]

-----------------------------------------------------------------------------
(* The numbers *)

\* Start frequency of the coarse channel.
StartOfCoarseChan(h) ==
  h.coarse_channel * h.bandwidth_hz - h.bandwidth_hz \div 2

\* Time steps per second.
ntimesteps(h, b) ==
  (h.bandwidth_hz \div h.beams[b].time_integration) \div h.beams[b].nchan

Samples(h, b) == ntimesteps(h, b) * h.beams[b].nchan * h.npol

\* "Expected Size of 1s block": all beams, one second.
expected_transfer_size(h) ==
  MapThenSumSet(LAMBDA b : Samples(h, b) * (h.nbit \div 8), 0 .. Total(h) - 1)

\* What dada_dbfil_io takes from a block for beam b, and writes.
out_buffer_bytes(h, b) == Samples(h, b) * 4

\* A long stored in an int: what is beyond its width is dropped.
AsInt(n) == ((n + INT_MAX + 1) % (2 * (INT_MAX + 1))) - (INT_MAX + 1)

\* Variant: of one second.
NSamplesOfSecond(h, b) == AsInt(ntimesteps(h, b))

NSamples(h, b) == AsInt(ntimesteps(h, b) * h.exposure_sec)

-----------------------------------------------------------------------------
(* read_dada_header *)

\* The checks that follow the reading of the keys.
Sane(h) ==
  /\ h.secs_per_subobs > 0 /\ Total(h) > 0
  /\ h.nbeams_incoherent <= INCOHERENT_BEAMS_MAX
  /\ h.nbeams_coherent <= COHERENT_BEAMS_MAX

HeaderRefused(h) ==
  /\ phase = "idle"
  /\ h.lacks = "key" \/ ~Sane(h)
  /\ header' = h
  /\ phase' = "failed"
  /\ files' = [b \in Beams |-> NoFile]
  /\ UNCHANGED <<beam, heap_vars>>

\* The beams are freed and allocated, not set: the memory holds what an array
\* of beams left there, or zeroes, or something else.
BeamsAllocated(h) ==
  /\ phase = "idle"
  /\ h.lacks # "key" /\ Sane(h)
  /\ header' = h
  /\ phase' = "beams"
  /\ beam' = 0
  /\ \E r \in Regions : \E zeroed, wild \in SUBSET (0 .. Total(h) - 1) :
       /\ region' = r
       /\ channels' = [ channels EXCEPT ![r] =
                          [ b \in Beams |-> IF b \in zeroed THEN 0
                                           ELSE IF b \in wild THEN Wild
                                           ELSE @[b] ] ]
  /\ files' = [b \in Beams |-> NoFile]
  /\ UNCHANGED <<live, first>>

\* The keys of the beams are read; a zero among them divides.
BeamsRead ==
  /\ phase = "beams"
  /\ phase' =
       IF header.lacks = "beam key" THEN "failed"
       ELSE IF \E b \in Live : 0 \in {header.beams[b].time_integration,
                                     header.beams[b].nchan}
       THEN "died" ELSE "channels"
  /\ UNCHANGED <<header, beam, heap_vars, files>>

\* The pointer found in the beam, if any, is freed.  A wild one may be one
\* that free accepts; it is then no array that it frees.
Found == channels[region][beam]

Freed == live \ {Found}

\* Variants: a beam that has an array keeps it, as it is; ... frees it and
\* takes it for the new one.
ChannelsCached ==
  /\ phase = "channels" /\ beam < header.nbeams_incoherent
  /\ \E a \in IF Found \in {0, Wild} THEN Arrays \ live ELSE {Found} :
       /\ live' = live \cup {a}
       /\ channels' = [channels EXCEPT ![region][beam] = a]
       /\ first' = [first EXCEPT ![a] =
                      IF a \in live THEN @ ELSE StartOfCoarseChan(header)]
  /\ beam' = beam + 1
  /\ UNCHANGED <<phase, header, region, files>>
ChannelsFreedOnly ==
  /\ phase = "channels" /\ beam < header.nbeams_incoherent
  /\ Found \in live \cup {0, Wild}
  /\ \E a \in IF Found \in {0, Wild} THEN Arrays \ live ELSE {Found} :
       /\ live' = IF Found \in {0, Wild} THEN live \cup {a} ELSE Freed
       /\ channels' = [channels EXCEPT ![region][beam] = a]
       /\ first' = [first EXCEPT ![a] = StartOfCoarseChan(header)]
  /\ beam' = beam + 1
  /\ UNCHANGED <<phase, header, region, files>>

\* The next incoherent beam gets its array; finding no memory ends the process,
\* and so does, or may, freeing what is not allocated.
ChannelsSet ==
  /\ phase = "channels" /\ beam < header.nbeams_incoherent
  /\ Found \in live \cup {0, Wild}
  /\ \E a \in Arrays \ Freed :
       /\ live' = Freed \cup {a}
       /\ channels' = [channels EXCEPT ![region][beam] = a]
       /\ first' = [first EXCEPT ![a] = StartOfCoarseChan(header)]
  /\ beam' = beam + 1
  /\ UNCHANGED <<phase, header, region, files>>

ChannelsDie ==
  /\ phase = "channels" /\ beam < header.nbeams_incoherent
  /\ Found \notin live \cup {0} \/ Arrays \subseteq Freed
  /\ phase' = "died"
  /\ UNCHANGED <<header, beam, heap_vars, files>>

HeaderRead ==
  /\ phase = "channels" /\ beam >= header.nbeams_incoherent
  /\ phase' = "metafits"
  /\ UNCHANGED <<header, beam, heap_vars, files>>

-----------------------------------------------------------------------------
(* process_new_observation, after the header *)

\* open_fits fails: exit(EXIT_FAILURE).  read_metafits fails at some key.
MetafitsRead ==
  /\ phase = "metafits"
  /\ phase' = CASE header.lacks = "metafits" -> "died"
                [] header.lacks = "metafits key" -> "failed"
                [] OTHER -> "checking"
  /\ UNCHANGED <<header, beam, heap_vars, files>>

\* What create_fil writes; foff is given in units of 1/nchan.
FilHeader(b) ==
  [ nsamples |-> NSamples(header, b),
    nchans   |-> header.beams[b].nchan,
    nifs     |-> header.npol,
    nbits    |-> header.nbit,
    fch1     |-> first[channels[region][b]],
    foff     |-> header.bandwidth_hz,
    src_raj  |-> src_raj(header.ra),
    src_dej  |-> src_dej(header.dec) ]

Fits == expected_transfer_size(header) <= header.transfer_size

\* Variant: the files are there already.
SizeCheckedLast ==
  /\ phase = "checking"
  /\ phase' = IF Fits THEN "recording" ELSE "failed"
  /\ files' = [b \in Beams |-> IF b \in Live /\ channels[region][b] # 0
                               THEN FilHeader(b) ELSE NoFile]
  /\ UNCHANGED <<header, beam, heap_vars>>

SizeChecked ==
  /\ phase = "checking"
  /\ phase' = IF Fits THEN "creating" ELSE "failed"
  /\ beam' = 0
  /\ UNCHANGED <<header, heap_vars, files>>

\* create_fil for the next beam.  A coherent beam has been given no array:
\* channels[0] is read through what malloc left, be it NULL.
FilCreated ==
  /\ phase = "creating" /\ beam \in Live
  /\ Found # 0
  /\ files' = [files EXCEPT ![beam] = FilHeader(beam)]
  /\ beam' = beam + 1
  /\ UNCHANGED <<phase, header, heap_vars>>

FilDies ==
  /\ phase = "creating" /\ beam \in Live
  /\ Found \in {0, Wild}
  /\ phase' = "died"
  /\ UNCHANGED <<header, beam, heap_vars, files>>

SetUp ==
  /\ phase = "creating" /\ beam \notin Live
  /\ phase' = "recording"
  /\ UNCHANGED <<header, beam, heap_vars, files>>

\* The observation is over, or cut short.
Over ==
  /\ phase = "recording"
  /\ phase' = "idle"
  /\ UNCHANGED <<header, beam, heap_vars, files>>

Init ==
  /\ phase = "idle"
  /\ header \in Headers  \* any: none has been read
  /\ beam = 0
  /\ region \in Regions
  /\ channels = [r \in Regions |-> [b \in Beams |-> 0]]
  /\ live = {}
  /\ first = [a \in Arrays \cup {Wild} |-> 0]
  /\ files = [b \in Beams |-> NoFile]

Next ==
  \/ \E h \in Headers : HeaderRefused(h) \/ BeamsAllocated(h)
  \/ BeamsRead \/ ChannelsSet \/ ChannelsDie \/ HeaderRead
  \/ MetafitsRead \/ SizeChecked
  \/ FilCreated \/ FilDies \/ SetUp \/ Over

Spec == Init /\ [][Next]_vars

-----------------------------------------------------------------------------
(* Properties *)

TypeOK ==
  /\ phase \in Phases
  /\ header \in Headers
  /\ beam \in Nat
  /\ region \in Regions
  /\ channels \in [Regions -> [Beams -> Arrays \cup {0, Wild}]]
  /\ live \in SUBSET Arrays
  /\ first \in [Arrays \cup {Wild} -> Int]

\* No array is freed twice, although its pointer outlives the beams it was in
\* and observations with different numbers of beams follow one another: a
\* pointer to an array that is found in a new beam is to one that is
\* allocated.  And what create_fil reads for an incoherent beam is an array that
\* is allocated and no other beam's.  Nothing is said of the wild pointers that
\* read_dada_header may free, nor of what create_fil reads for a coherent beam.
PointersValid ==
  /\ phase = "channels" /\ beam < header.nbeams_incoherent =>
       Found \in live \cup {0, Wild}
  /\ phase = "creating" /\ beam < header.nbeams_incoherent =>
       /\ Found \in live
       /\ \A b \in Live \ {beam} : channels[region][b] # Found

\* The frequency in a file is that of its own observation's coarse channel, and
\* not one left from an earlier observation.
OwnFrequency ==
  \A b \in Beams :
    files[b] # NoFile /\ b < header.nbeams_incoherent =>
      files[b].fch1 = StartOfCoarseChan(header)

\* An observation that is refused leaves no file behind: every check precedes
\* the first create_fil.
RefusedLeavesNoFile == phase = "failed" => \A b \in Beams : files[b] = NoFile

\* A file with EXPOSURE_SECS blocks in it is as long as its header declares,
\* when the samples are floats and their number in the file fits in an int.
SizesAgree ==
  phase = "recording" /\ header.nbit = 32 =>
    \A b \in Live :
      ntimesteps(header, b) * header.exposure_sec <= INT_MAX =>
        files[b].nsamples * files[b].nchans * files[b].nifs
            * (files[b].nbits \div 8)
          = header.exposure_sec * out_buffer_bytes(header, b)

\* The right ascension in a file, read as hhmmss.s, is that of the metafits file
\* of its observation.
RightAscensionKept ==
  \A b \in Beams :
    files[b] # NoFile =>
      /\ WellFormed(files[b].src_raj, 15)
      /\ ReadAs(files[b].src_raj, 15, 900) = header.ra

\* So is the declination, read as ddmmss.s, but for the degree south of the
\* equator: there the whole number of degrees is zero and the sign is lost.
DeclinationKept ==
  \A b \in Beams :
    files[b] # NoFile /\ ~AlmostZero(header.dec) =>
      /\ WellFormed(files[b].src_dej, 1)
      /\ ReadAs(files[b].src_dej, 1, 60) = header.dec

-----------------------------------------------------------------------------
(* Why the pointers are valid: an inductive invariant *)

\* Wherever in memory an array of beams has been, the pointers it holds are to
\* allocated arrays, each to one of its own.
Owned ==
  \A r, q \in Regions : \A b, c \in Beams :
    channels[r][b] \notin {0, Wild} =>
      /\ channels[r][b] \in live
      /\ channels[r][b] = channels[q][c] => r = q /\ b = c

\* The beams that have got their array in this observation.
Filled ==
  CASE phase = "channels" -> {b \in Beams : b < beam}
    [] phase \in {"metafits", "checking", "creating"} -> Beams
    [] OTHER -> {}

FrequenciesSet ==
  \A b \in Filled :
    b < header.nbeams_incoherent =>
      /\ channels[region][b] \in Arrays
      /\ first[channels[region][b]] = StartOfCoarseChan(header)

NoFilesYet ==
  phase \in {"beams", "channels", "metafits", "checking", "failed"} =>
    \A b \in Beams : files[b] = NoFile

OwnCoordinates ==
  \A b \in Beams :
    files[b] # NoFile => /\ files[b].src_raj = src_raj(header.ra)
                         /\ files[b].src_dej = src_dej(header.dec)

SetupInv ==
  /\ TypeOK /\ Owned /\ FrequenciesSet /\ NoFilesYet
  /\ OwnFrequency /\ OwnCoordinates
  /\ phase = "beams" => beam = 0

(* And why the sizes agree *)

\* Past BeamsRead no beam has a key that is zero.
NoZeroKey ==
  phase \in {"channels", "metafits", "checking", "creating", "recording"} =>
    \A b \in Live : 0 \notin {header.beams[b].time_integration,
                            header.beams[b].nchan}

\* The beams that have got their file in this observation.
Created ==
  CASE phase = "creating" -> {b \in Live : b < beam}
    [] phase = "recording" -> Live
    [] OTHER -> {}

OwnSizes ==
  \A b \in Created :
    /\ files[b].nsamples = NSamples(header, b)
    /\ files[b].nchans = header.beams[b].nchan
    /\ files[b].nifs = header.npol /\ files[b].nbits = header.nbit

SizesInv ==
  /\ TypeOK
  /\ files = [b \in Beams |-> files[b]]
  /\ NoZeroKey
  /\ OwnSizes
=============================================================================
