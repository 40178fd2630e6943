# A TLA+ model of mwax_beamdb2fil

`mwax_beamdb2fil` reads beam data of the MWA telescope from a PSRDADA ring
buffer and writes one filterbank (`.fil`) file per beam and observation. This
directory holds TLA+ modules that model the program, TLC configurations that
check them on small instances, and TLAPS proofs about them for all instances.
`PROJECT.json` maps every definition to the source lines it stands for, and
lists the runs, a mutant of the code that each property rejects, the findings
and the hazards. Source paths below are relative to `src/src/`.

    tlc -workers 2 -config MCDadaDbFil_uncut.cfg MCDadaDbFil   # a run
    tlapm DadaDbFilSealing.tla                                 # some of the proofs


## 1. The system

### Components

| component | source | state | operations |
|---|---|---|---|
| ring-buffer client | `dada_dbfil.c`, `global.h` | the context `dada_db_s`: observation id, offset, duration, beams, block number, seconds marker, `duration_changed` | callbacks `dada_dbfil_open` (with `process_new_observation`, `read_dada_header`), `dada_dbfil_io`, `dada_dbfil_close` |
| filterbank writer | `filwriter.c`, `filfile.c` | a `FILE *` and a name per beam; the files on disk | `create_fil`, `create_fil_block`, `close_fil`, `update_filfile_int` |
| main program | `main.c` | local `quit`, HDU connection, logger | start-up, main loop, shutdown, `sig_handler` |
| quit flag | `global.c` | `g_quit`, `g_quit_mutex` | `initialise_quit`, `set_quit`, `get_quit`, `destroy_quit` |
| health thread | `health.c` | socket, local `quit` | one UDP message per second with the ring buffer's counters |
| metafits reader | `metafitsreader.c` | none that lasts | `open_fits`, `read_metafits`, `close_fits` |
| utilities | `util.c` | none | angles, `binary_strstr` |
| command line | `args.c` | none | `process_args` |
| keyword table | `filfiletypes.c` | a constant table | none; nothing reads it |
| psrdada, beamformer | outside the repository | header ring, data ring | see "Upstream" |

### How they interact

`main` connects to the ring buffer, starts the health thread and calls
`dada_client_read` in a loop. psrdada calls back on the main thread: `open` for
the header of a sub-observation (8 s at the MWA), `io` for each data block (one
second of one beam), `close` at end of data. The callbacks keep their state in
the global `g_ctx`, create the files when an observation starts, append blocks,
and close the files when the observation has ended. Between two
sub-observations `main` reads `g_quit`. The flag is raised by a MODE=QUIT
header, by an error return of `dada_client_read`, and by SIGINT, whose handler
runs on top of whichever thread the kernel picks. The health thread polls the
flag, and `main` joins it before tearing anything down.

### What is hard

- *Long protocols.* An observation spans many callbacks; it may be joined late,
  cut short, prolonged, shortened, have gaps and repeats, or be interrupted by
  MODE=QUIT. Each path must leave the seconds marker, the block number,
  `duration_changed` and the `FILE` pointers right for the next one.
- *Pointers that outlive what they point to.* `fclose` does not clear `m_File`;
  the array of beams is freed and malloced again without being cleared, with
  the `FILE` and channel pointers in it; the file name kept for reopening is in
  a local variable of `create_fil`.
- *Failure half way.* The process may die in the middle of a loop that closes
  files, or between closing a file and rewriting its header.
- *Two threads and a signal handler* share a flag, a mutex, a logger and the
  ring buffer connection.
- *Counting.* The end of an observation is an equality of two counters; an
  overshoot is fatal. Blocks are dealt to beams by a counter alone.
- *Unsynchronised reporting.* The health thread samples the status and the
  counters one by one while others change them.

### What makes each component correct

- Client and writer: each file holds its own beam of its own observation,
  second by second from 0, without gap or overlap; a finished file declares the
  number of samples it holds; finished files are never touched again; no stream
  is leaked; the fatal checks do not fire with a regular upstream; what is
  started is finished.
- Main, quit flag, health thread: a request to quit is not lost and ends the
  process; the health thread stops promptly and never uses what is gone.
- Setting up: no array is freed twice or shared by two beams, each file gets the
  numbers of its own observation, and an observation that is refused leaves no
  file.
- Header: what a reader of the file finds is what was written, with `nsamples`
  the original or the corrected number.
- Health reports: the last one is final, and none reports what cannot have been.
- Utilities: a coordinate written as a number reads back as itself; a search
  finds what it is for.
- Command line: the program runs with what the usage text says the user asked
  for.
- Statistics: every block has files of its own, and they describe it.


## 2. The modules

    Upstream <- DadaDbFil <- DadaDbFilArchive <- MCDadaDbFil       (<- : EXTENDS)
                    ^              | INSTANCE
                    |          BeamArchive
                    +-- DadaDbFilProofs <- DadaDbFilDemux <- DadaDbFilSealing
                                 DadaDbFilSealing <- DadaDbFilRefinement

    QuitProtocol <- HealthReport <- HealthReportProofs

    Angles <- ObsSetup <- MCObsSetup
                  ^-- ObsSetupProofs

    Args <- BeamStats <- MCBeamStats              FilHeader <- MCFilHeader
                  ^-- BeamStatsProofs                 ^-- FilHeaderProofs

`DadaDbFilRefinement` also extends `DadaDbFilArchive`. A module of proofs has those
of every module it extends: `HealthReportProofs` those about `QuitProtocol`,
`BeamStatsProofs` those about `Args`.

### Upstream (external)

The headers a beamformer may send after a given one (`Follows`), and the order
of the data blocks (`Block`, from the comment and the modulus at
`dada_dbfil.c:359`). The constant `Faults` names the irregularities an instance
allows, from `late` (the client missed the beginning) to `dirtyheap` (malloc
returns memory with other bytes in it), `health` (the health thread ends the
process at any moment) and `restart` (the program is started again after it has
ended, in the middle of whatever upstream is sending). Assumed of the outside:

- observation ids are GPS times and only increase; an observation's id is the id
  of its first sub-observation (the code's own criterion at `dada_dbfil.c:232`);
- all sub-observations of an observation have the same beams, and the same
  SECS_PER_SUBOBS;
- a MODE=QUIT header carries no data blocks, and repeats the ids of the last;
- a callback that returns -1 makes `dada_client_read` return a negative value
  at once, without a call of `close`;
- blocks of an observation arrive in order (they come from a ring buffer);
- what is left of a sub-observation whose reader has died is not read again.

### DadaDbFil

The client, the writer and the main loop as one process, since the callbacks
run one after the other on the main thread. One action per way out of a
callback:

| variable | in the code |
|---|---|
| `header`, `sent` | `client->header`, and how many of its blocks have been read |
| `phase` | where the main thread is: waiting for a header, transferring, returned, failed, exited, died |
| `g_quit` | `g_quit` |
| `ctx` | the fields of `dada_db_s` that are read again after they are written |
| `m_File` | `beams[b].out_filfile_ptr.m_File`: NULL, an open stream, or `stale` |
| `fil_obs` | the observation in `beams[b].fil_filename` |
| `disk` | the files: absent, open or closed; seconds declared; blocks held |

| action | code |
|---|---|
| `OpenQuit`, `OpenRejected` | `dada_dbfil_open` up to line 101 |
| `OpenContinued`, `OpenNotContinued` | lines 143-212: EXPOSURE_SECS and OBS_OFFSET of a further sub-observation |
| `OpenDies` | closing the superseded files ends the process (106-131) |
| `OpenSkipped` | an observation joined late (231-240) |
| `OpenUnreadable`, `OpenNoMetafits` | `read_dada_header` or the metafits reader fails |
| `OpenStarted`, `OpenCreateDies` | the files of a new observation are created, or the process dies at one |
| `IoIgnored`, `IoWritten`, `IoFailed` | `dada_dbfil_io` |
| `CloseWaiting`, `CloseIdle`, `CloseOverrun`, `CloseFinished`, `CloseFinishedDies` | `dada_dbfil_close` |
| `MainLoop`, `sig_handler` | `main.c:175-211`, `main.c:39-48` |
| `HealthFails` | `exit` in the health thread (`health.c:107`), while main is between two callbacks or in one; inside the loops over the beams it is in `CloseDies` and `OpenCreateDies` |
| `Restart` | a new process: `NoContext`, no streams, the files as they are |

Undefined behaviour is a choice over its outcomes: a write to a closed stream
may be lost, fail, land in a stream opened since in the same memory, or kill the
process; closing a closed stream kills it, or does nothing that another step of
the same loop does not do; a malloced `m_File` is NULL, what the freed array
held, or (fault `dirtyheap`) anything. `m_szFileName`, which `close_fil` uses to
reopen a file whose duration has changed, points into `create_fil`'s local copy
of the beam (`filwriter.c:36`, `filfile.c:13`). `create_fil` has had that copy at
the same place for every beam, so by then the memory holds the name of the beam
created last, or something that is no file's name: `DiskAfterClose` rewrites the
last beam's header, and `CannotReopen` and `CloseDies` stand for the `exit` in
`CFilFile_CheckFile`.

Data that no property tells apart is left out: a second of a beam is a tag
(observation, beam, second); `nsamples` is counted in seconds, all files of a
beam having the same number of time steps per second; `subobs_id` and `mode`
are not kept, being read only together with the header they come from.

### BeamArchive and DadaDbFilArchive

`BeamArchive` says what the program promises of its output directory without
callbacks, markers, pointers or faults: an observation begins with nothing else
being recorded, its beams are written in turn, its duration may be redeclared,
and its files are sealed together when all hold the seconds declared.
`DadaDbFilArchive` maps the client to it. A file counts as recording while its
observation is in `ctx`: the beam by beam closing is one sealing, done when the
context is cleared. What an observation declares is `ctx.exposure_sec` while it
is being recorded, because headers on disk are rewritten only at the end, and
after that what the header of its last beam says: the others are not rewritten
(finding 4), so the archive keeps one duration per observation and not one per
file.

### QuitProtocol

`main`, the health thread and a SIGINT handler on top of each of them, as four
frames with a program counter each; a thread under a handler does not run.
`set_quit` and `get_quit` are three steps (lock, access, unlock). The mutex is
the default one, which does not know its owner. The model keeps the lifetimes
of the ring buffer connection, the logger and the mutex, and counts the health
messages sent after the flag was raised (`late`, a history variable).

### HealthReport

`QuitProtocol` with the contents of the messages: the status that main writes
(`main.c:191`), the write and read counts of the data ring, and the health
thread sampling them one by one, in the order of `health.c` (`Order`), while
upstream writes blocks and main reads them. `data` is the message being filled
in, `last` the one sent last. Every step is a step of `QuitProtocol` or leaves
its variables alone (proved: `ReportImplementsQuitProtocol`), so the run
`report` checks the properties of both.

### ObsSetup and Angles

What `DadaDbFil` takes as one step, the setting up of an observation, as one
action per step: `HeaderRefused`, `BeamsAllocated`, `BeamsRead`, `ChannelsSet`
or `ChannelsDie` per beam, `HeaderRead` (`read_dada_header`), `MetafitsRead`,
`SizeChecked` (`process_new_observation`), `FilCreated` or `FilDies` per beam
(`create_fil`), then `Over`, and the next observation. It keeps the numbers
(time steps, sizes, frequencies, coordinates, in the header of each file) and
the heap: arrays of beams may be put in any of `Regions`, where the malloc at
`dada_dbfil.c:705` leaves in each `channels` what an array of beams left there,
zeroes, or anything else (`Wild`: neither NULL nor where an array is, since the
program writes such an address nowhere else). What is found is freed and
allocated again (762-769): freeing `Wild` kills the process or does nothing that
concerns us. Coherent beams get no array, and `create_fil` reads the first
frequency through whatever malloc left (`filwriter.c:86`): through NULL it dies,
through `Wild` it dies or reads some number. The number of samples is a long
stored in an int (`filwriter.c:85`, `filfile.h:24`); `AsInt` is that conversion,
for ints up to `INT_MAX`.

`Angles` holds the conversions of `util.c` as operators. An angle is a whole
number of seconds of arc, so that each step of the code is exact; the rounding
of doubles is not modelled. `ReadAs` is the reader's side of hhmmss.s.

### FilHeader

One file as a sequence of cells: `WriteHeader` writes the 23 keywords in the
order of `create_fil`, blocks are appended, and after the close the file may be
reopened and `update_filfile_int` applied: at most `BUFF_SIZE` cells are read,
`binary_strstr` looks for the keyword, the number is written where the match
ends. `ReadHeader` is a reader of the format, which walks the file keyword by
keyword.

### Args and BeamStats

`Args` is `process_args`, one step per call of `getopt_long` over any line of
`Lines`, then the checks for the mandatory options. An argument may be an empty
text, which the code accepts for a path or an address (`args.c:57-67`, `97-116`);
NULL is for no argument at all, and for a number that reads as zero. What the user
asked for (`Asked`, `Unusable`) is measured by the usage text (`args.c:132-145`,
`src/README.md`), not by the tables the code gives to `getopt_long`.

`BeamStats` goes on with the accepted line: `Start` hands the statistics path to
`stats_dir`, and `dada_dbfil_io` writes each block to its beam's filterbank file
and, if asked, its power by channel and by time step to files named after the beam
and the seconds marker.


## 3. What is checked

| run | faults, signals or inputs | properties | states |
|---|---|---|---|
| `regular` | `late`; fair | `NeverDies`, `HeadersUpdated`, `EventuallySealed` | 1 108 |
| `uncut` | all but `cut`, `truncate`, `repeat`, `unpatched`, `dirtyheap`, `restart` | `SealedComplete`, `Demultiplexed`, `WholeSubobservations`, `QuitLeavesOnlyShort`, `MarkerCountsSeconds`, `ImplementsArchive`, `EndOfObservationIsReal` | 120 000 |
| `all` | all but `repeat` | `TypeOK`, `NoStreamLeaked`, `DealtEvenly`, `MarkerCountsFirst`, `ClosedDataFrozen` | 3 070 000 |
| `report` | 1 signal; fair | `HealthProvided`, `HealthStopsPromptly`, `ShutdownIsFinal`, `BacklogFitsRing`, `QuitNeverLost`, `QuitEnds` | 257 000 |
| `header` | file names of several lengths | `ReadsBack`, `CorrectedWithinBuffer` | 2 000 |
| `setup` | 22 headers, in any order | `PointersValid`, `OwnFrequency`, `SizesAgree`, `RefusedLeavesNoFile`, `RightAscensionKept`, `DeclinationKept` | 103 000 |
| `stats` | command lines, 4 blocks | `AsAsked`, `StatsDescribeData`, `PowerConserved` | 194 000 |
| `cut_marker` | `cut` | `EndOfObservationIsReal`: violated | |
| `abort` | `abort` | `QuitClosesFiles`: violated | |
| `deadlock` | 1 signal; fair | `SigintEnds`: violated | |
| `retime` | `retime` | `HeadersUpdated`: violated | |
| `usage` | command lines | `UsageTextHolds`: violated | |

The questions differ in the faults they admit because the code keeps its
promises only under some of them: a cut-short observation breaks the seconds
marker (finding 1) and with it completeness; a dirty heap or a stale pointer
breaks everything about contents; a change of EXPOSURE_SECS leaves all headers
but the last beam's wrong (finding 4), so that `SealedComplete` is about the
header of the last beam and `HeadersUpdated` holds in `regular` only; an
observation that is aborted leaves its files open (finding 2), so that what is
left to ask of MODE=QUIT is that nothing complete is among them
(`QuitLeavesOnlyShort`, with `abort`); a
sub-observation that ends early shifts the blocks that follow to other beams,
so that `all` counts them and does not ask whose they are, and counts them in
the first observation only, before a superseded one has left its seconds on the
marker. `NoStreamLeaked`, `DealtEvenly` and `ClosedDataFrozen` survive even
those, and are checked, and proved, with them.

No run admits `repeat`, a sub-observation that is sent again: with it `all` is
too large. It is left to the theorems: `TypeCorrect`, `StreamsNotLeaked`,
`BlocksDealtEvenly` and those of `DadaDbFilDemux` hold with it.

### Bounds

- `DadaDbFil`: two observation ids (a new observation against an old one, with
  everything that is left over from the old one) or, in `retime`, one; two beams,
  so that one can be written, closed or created and the other not;
  sub-observations of two seconds, so that a second and a sub-observation
  differ, and one second in `all`, the largest run, where they need not;
  durations of one to three sub-observations, so that an observation can be
  continued, prolonged, shortened and left unfinished. Nothing else grows: the
  state is finite without a state constraint, since ids increase and offsets
  stay below the durations.
- `HealthReport`: one signal (at any step of either thread, inside and outside
  the critical sections), a ring of one block that is filled twice, so that it
  is empty, full and reused; the counter `late` stops at `MaxLate` = 3, one more
  than the property allows.
- `FilHeader`: a buffer of 72 cells, so that a header with short names is
  shorter than the buffer unless blocks follow, and with two long names the
  keyword stands at the end of the buffer, across it or behind it; up to 3
  blocks.
- `ObsSetup`: observations of one and two beams on two coarse channels, one with
  a coherent beam, no beams, and one more of each kind than their maxima (2 and
  1); ints up to 63, which one observation's samples exceed; sizes that fit
  exactly, are one byte short or are divided with a remainder, zero divisors, 8
  and 32 bits, one and two polarisations, an integration longer than the coarse
  channel is wide, angles at the poles, the equator and around it, whole hours
  and the last second; two places for an array of beams and four for channels:
  as many as the arrays of two beams in both places can hold, so that the memory
  for them can run out.
- `BeamStats`: three beams, two seconds, blocks of 2 time steps by 3 channels by
  2 polarisations: the three sizes are told apart by their products, and a block
  with a single bright sample tells each position from the others. Command
  lines: each mandatory option absent, with its argument attached or in the next
  word, empty, or without it, and one further phrase before or after.

A run has `CHECK_DEADLOCK FALSE` where the program does stop: a SIGINT inside
`set_quit` or `get_quit` stops that thread for good (`report`, `deadlock`:
finding 3); an observation that cannot be set up ends the process (`setup`); a
command line may be refused and an observation ends (`stats`, `usage`); a file
is done (`header`). All runs of `DadaDbFil` check for deadlock.

### Fairness

- `regular`: weak fairness of the whole next-state relation. The main thread
  runs on, and upstream goes on sending until MODE=QUIT; which of its choices
  it makes is left open. In a cycle-free state space no stronger condition is
  needed.
- `report`, `deadlock`: weak fairness of each frame's own steps (a thread that
  can run runs; `dada_client_read` returns because upstream keeps sending) and
  strong fairness of taking the mutex (a mutex that is free again and again
  is not kept from a thread for ever: its critical sections are a few
  instructions long, the rounds a second). In `HealthReport` the conditions are
  on the same steps of `QuitProtocol`; the sampling inside a round is finite.

`QuitEnds` says that once the flag is up the process ends, unless a handler
waits for the mutex that its own thread holds (`Stuck`): that is finding 3.

### Findings

1. `cut_marker`: `process_new_observation` does not reset `obs_marker_number`.
   After an observation that another one supersedes, the next is declared
   finished too early, or the process exits (`dada_dbfil.c:532`).
2. `abort`: MODE=QUIT in the middle of an observation closes no file
   (`dada_dbfil.c:535` is an `else` of "an observation is in progress").
3. `deadlock`: the SIGINT handler locks `g_quit_mutex`, which the thread it
   interrupts may hold.
4. `retime`: when EXPOSURE_SECS changes, the header of each file should be
   updated (`filwriter.c:232`); the name used to reopen it is a dangling pointer
   (`filwriter.c:41`), and only the last beam's file is, if any.
5. `usage`: the usage text offers `-s` (`args.c:144`), and so does
   `src/README.md:39`; `process_args` refuses it (`args.c:32`).

Seen while modelling, and in the models, without a run of their own:

- The loop at `dada_dbfil.c:118` leaves `m_File` pointing to closed streams; if
  malloc at 705 returns the freed memory, `CFilFile_Open` (`filfile.c:11`) opens
  no file for the new observation.
- A sub-observation that ends early shifts the blocks after it to other beams,
  because `block_number` does not restart with a sub-observation
  (`dada_dbfil.c:366`).
- `binary_strstr` never looks at the last possible position (`util.c:84`),
  although what is "found within buffer" is to be returned (`util.c:74`): a
  keyword that ends exactly with the buffer stays uncorrected.
  `CorrectedWithinBuffer` says nothing of that position, which the instance of
  the run `header` does reach; it says what happens on either side of it. A file
  shorter than the buffer is not searched at all. A file name or source name with
  "nsamples" in it would be matched first (`filwriter.c:154`); the instances of
  `FilHeader` have none.
- Memory from malloc is not cleared (`dada_dbfil.c:705`), and whatever it holds
  where a beam's `channels` is gets freed, if it is not NULL (762). A heap that
  hands out new memory first hides it.
- Coherent beams get no array of frequencies (`dada_dbfil.c:741`) and
  `create_fil` reads one for every beam (`filwriter.c:86`), through NULL or worse;
  `OwnFrequency` and `PointersValid` are about incoherent ones.
- The number of samples of an observation is stored in an int without a check
  (`filwriter.c:85`, `233`); `SizesAgree` excludes the numbers it cannot hold.
- `channels` holds lower edges (`dada_dbfil.c:772`) where `global.h:40` speaks of
  centres.
- The size check is about one second (`dada_dbfil.c:298`, `735`), while the
  comment and the message next to it speak of a sub-observation (295-300); the
  check of the block size is commented out (304). A file gets what its blocks hold
  either way, so that `SizesAgree` does not depend on it.
- The sign of an angle between -1 and 0 degrees is lost (`util.c:62`):
  `DeclinationKept` excludes it.
- A negative number of beams of one kind passes (`dada_dbfil.c:679`).
- Files for statistics are opened without a check (`dada_dbfil.c:438`).


## 4. What is proved

By TLAPS, for all ids, durations, sub-observation lengths, numbers of beams,
sets of faults, numbers of signals, sizes of ring, headers and places in
memory, names and lengths of files, command lines, and shapes and contents of
blocks. The only assumptions
are the types of the constants: `UpstreamAssumption`, `SigintAssumption`,
`RingAssumption`, `ArrayAssumption` (neither NULL nor `Wild` is where an array
is), `LimitAssumption` (INT_MAX is a number), `LinesAssumption` (a command line
is a sequence of words; an argument attached to a short option is not empty),
`ShapeAssumption`, `BufferAssumption` (a block is a number at each position),
`NamesAssumption` (the name of a file is not empty, and a buffer has a size), and
`HeaderAssumption` (numbers of beams are not negative, which the code does not
check; a frequency in Hz is an int, without which the product at
`dada_dbfil.c:757` is undefined; the right ascension is from 0 to 360 degrees and
the declination within 90). A theorem that needs a better upstream
than `Follows` allows says so in its hypotheses, as a set of faults that are not
in `Faults`; each has a run whose faults satisfy them.

`DadaDbFilProofs`, for every set of faults:

- `TypeCorrect`: `Spec => []TypeOK`. The work is in the headers (ids are not
  just natural numbers: they are in `ObsIds`), in `Block` (a block exists only
  when there is a beam, so that the modulus is defined) and in the closing
  operators.
- `StreamsNotLeaked`: `Spec => []NoStreamLeaked`. The inductive invariant is
  `StreamInv`. `NoStreamLeaked` says that an open file belongs to the
  observation in `ctx` and is pointed to from its beam; it is not inductive
  alone, because a pointer taken for open must lead back to an open file of the
  same observation, or closing it would close nothing (`HandlesOpen`), and
  because a new observation must not find its files already there
  (`NoFutureFile`, from the increasing ids).
- `BlocksDealtEvenly`. The lemmas count on in a division with remainder
  (`DivisionNext`, `ShareNext`): one more block raises the share of exactly the
  beam that it goes to. Needs `BeamsFit`.
- `ClosedFilesFrozen`: without repeated sub-observations, the samples in a
  closed file never change. It follows from `StreamInv` and the step: blocks
  go only to files whose stream is open, and only files that do not exist yet
  are created. The excluded case is real: `CFilFile_Open` truncates.

`DadaDbFilDemux`, where observations are not cut short, sub-observations not
truncated and the heap is clean (`Orderly`): `AlwaysDemultiplexed` and
`MarkerAlwaysCounts`, from the inductive invariant `OrderlyInv`
(`OrderlyInvariant`). Besides what is proved already it says that, while an
observation is recorded, the context agrees with the header upstream is at
(`InStep`); that `block_number` is the place in the observation, offset and
block together (`Counted`, the link between the two moduli, of upstream and of
the code); that the marker is the quotient to the next beam's remainder
(`MarkerIsQuotient`); that MODE=QUIT ends it (`Quitting`); and that no pointer
is stale (`NothingStale`). `FinishedIsReal` follows from it for the step that
ends an observation: `EndOfObservationIsReal`, the property that the run
`cut_marker` refutes, holds in every environment without cut-short observations,
truncated sub-observations and a dirty heap. Where those are absent no other
fault, neither a restart nor a repeat nor a change of EXPOSURE_SECS, makes the
marker wrong.

With truncated sub-observations blocks are in the wrong files, but the marker
still counts: `MarkerCountsUnlessSuperseded`, in every environment with a clean
heap and in every behaviour in which no header of another observation arrives
while one is being recorded (`Supersedes`). Its invariant, `Marking`, is what is
left of `OrderlyInv` without upstream: the marker is the quotient, no pointer is
stale, and with nothing recorded the marker is 0. The two exclusions are the two
ways the code goes wrong, the marker that is not reset (finding 1) and memory
that is not cleared. `MarkerCountsAlone` draws the conclusion for a single
observation. `MarkerCountsFirst` in the run `all` is the same in the first of
several, with a dirty heap too as long as no pointer comes from it.

`DadaDbFilSealing`, where in addition headers can be rewritten and the program
is not started again (`Sealing`): `ClosedFilesComplete`, that is,
`SealedComplete`; and, where EXPOSURE_SECS never changes, `ClosedHeadersRight`,
that is, `HeadersUpdated`. `SealInv` adds to `OrderlyInv` that the header of an
open file is right or `duration_changed` is set (`HeaderCurrent`), and that the
flag, which outlives its observation, does no harm (`RewritingHarmless`).
`StopsBetweenSubobservations`, that is, `WholeSubobservations`, adds `Whole`: the
offsets of headers and the lengths of finished observations are multiples of
SECS_PER_SUBOBS, and at a MODE=QUIT so is what has been recorded, because nothing
is written after it (`QuitKeeps`).

The same module proves how the program ends.

- `QuitLeavesNothingComplete`: in the environments of `DadaDbFilDemux`, a
  MODE=QUIT at any moment, also in the middle of an observation, leaves open only
  files that still lack seconds (`QuitLeavesOnlyShort`). That it leaves those open
  is finding 2. Between two sub-observations the open files have as many
  seconds as the marker says, and the marker has not met EXPOSURE_SECS
  (`OpenBetweenShort`), or the close before would have closed them; from the
  MODE=QUIT on nothing is written, and EXPOSURE_SECS is read no more. The
  invariant is `QuitOpenShort`.
- `ClientNeverDies`: the fatal checks never fire (`NeverDies`), if every
  EXPOSURE_SECS is a number of sub-observations (`WholeExposures`) and does not
  change, and none of the faults that `Steady` lists occurs. Sub-observations may
  still be missed, lost or sent twice, headers unusable, and MODE=QUIT, SIGINT and
  restarts come at any moment. The invariant is `LivingInv`: the
  offset of an observation being recorded is a multiple of SECS_PER_SUBOBS below
  EXPOSURE_SECS (`WithinDuration`), so that there is room for the sub-observation
  being read (`NextWithin`), and the marker, counted by `OrderlyInv`, cannot pass
  EXPOSURE_SECS without meeting it. Without `WholeExposures` it can
  (`dada_dbfil.c:518`), and the client exits.

`DadaDbFilRefinement`, where in addition to `Sealing` no sub-observation comes
twice (`Refinable`): `ClientImplementsArchive`, that is, every step of the
client is a step of `BeamArchive` or a stutter. From `NoStreamLeaked` the
mapping is a matter of one comparison with `ctx.obs_id` (`Mapping`), and
`Unnoticed` says which changes of pointers, markers and headers the archive
cannot see: all but the creation of files (`StartedBegins`: no observation is
superseded, so all its pointers are NULL and its files are not there), a new
EXPOSURE_SECS (`Redeclared`), a block (`WriteRefines`: by `DealtEvenly` the file
whose turn it is for `block_number` is the one whose turn it is for the archive)
and the close that ends an observation (`SealRefines`: its files are complete by
`FinishedWhole`, and what the header of the last beam says is what was
declared).

`HealthReportProofs`, about `QuitProtocol`: `TypeCorrect`, and from the
inductive invariant `SafetyInv`: `HealthIsProvided`, `HealthIsPrompt`,
`QuitIsNeverLost`. `SafetyInv` says that the health thread lives strictly
between main's start and teardown (`Enclosed`), that nobody raises the flag
before main sets it to 0 (`QuietStart`), and relates the messages sent after the
flag to the place in the health thread's round and its copy of the flag
(`RoundsLeft`). Without the last the bound on `late` is not inductive.

About `HealthReport`: `ReportImplementsQuitProtocol` (`ReportSpec => Spec`), and
from `ReportInv`: `ShutdownReportIsFinal` and `ReportedBacklogFits`. The
counters only grow, so a sampled one bounds the present one; a status of
SHUTTING_DOWN is sampled before the counters and written after main's last read
(`FinalCount`); once both counters are sampled their difference is settled
(`Sampled`).

`ObsSetupProofs`: `RightAscensionReadsBack` and `DeclinationReadsBack`, by
integer arithmetic over degrees, minutes and seconds; `PointersAlwaysValid`,
`FrequencyAlwaysOwn`, `RefusedNeverLeavesFile`, `RightAscensionAlwaysKept` and
`DeclinationAlwaysKept` from `SetupInv`, whose core is `Owned`: every pointer to
an array that memory still holds, in any place where beams have been, is to an
allocated array of its own. Memory may hold any bytes besides but an array's
address, and no theorem says that freeing those is harmless. `FrequenciesSet`
adds that each incoherent beam has been given an array by the time `create_fil`
reads it. `SizesAlwaysAgree` is from `SizesInv`: past the beams no key that
divides is zero (`NoZeroKey`), and each file that has been created has the
numbers of this observation (`OwnSizes`, for the beams in `Created`); a number
of samples that an int can hold is not changed by being stored in one
(`IntKept`). The divisions with remainder cancel because `create_fil` multiplies
the same time steps again that the size was computed from.

`FilHeaderProofs`: `FilesReadBack` and `CountsCorrectedWithinBuffer`, that is,
`ReadsBack` and `CorrectedWithinBuffer`. A header is 23 pieces, a keyword with its
value each, and `Laid` says that they lie one after the other in a file
(`HeaderLaid`, from the recursion of `FlattenSeq`). The reader, at the beginning
of a piece, gets its keyword and value and ends at the beginning of the next
(`PieceRead`, by the kind of the value), so that a file with the pieces laid and
nothing but blocks behind them reads back (`HeaderRead`, `BlocksCounted`). For
the correction it matters that the keyword occurs once: a piece begins with a
number, so no match reaches from one piece into the next, and neither a name nor
another keyword contains it (`KeyInPiece`, `KeyOnce`); hence the first match, if
the buffer has one, is the place where the number is due (`KeyOccurs`), and the
write changes one cell, which leaves all pieces laid, with the new number in
one of them (`CountLaid`, `UpdateFacts`). The position that ends with the buffer is
left out of the statement. The invariant, `FileInv`, says so of the
file with the present value of `nsamples`. The hypothesis of both theorems,
`KeylessNames`, is that no name contains the keyword; the code does not see to that
(`filwriter.c:154`), and names made of an observation id and a beam number, in
directories called otherwise, do not (nor do those of the run `header`).

`BeamStatsProofs`, about `Args`: `AlwaysAsAsked`, that a line is accepted exactly
if it is right by the usage text, and what the program runs with then. Its
hypothesis `StatsAttached` leaves out the lines with `-s`, for which it is false
(finding 5), and with `--stats-path` and its path as two words, which
`getopt_long` does not take together. `ArgsInv` says that each setting
is the last of those read so far (`LastRead`), that nothing unusable was passed,
and why a line was refused. It is about `Proper` lines, where no option has been
given another one for its argument: there the word that is skipped is a plain one
and hides no option (`OptionKeepsLast`).

About `BeamStats`, from `StatsInv`: `StatsAlwaysDescribeData`, that every second of
every beam has two files of its own. `Rounds` ties the counter in the names to
the length of each beam's file, on either side of the beam whose turn it is, so
that the names of a new block are new (`NewNames`), although the counter changes in
the middle of a second; `Described` and `Counted` say that the files are those of
the seconds there are. And `PowerAlwaysConserved`, that for any shape and contents
of a block both statistics add up to the sum of its samples: the three loops
visit every position once (`IndexIsPosition`, `PositionHasIndex`, `IndexOnce`), and
a sum may be taken in parts, and over other names (`SumOfParts`, `SumRenamed`).
What is needed of sums is proved from the definition of `MapThenSumSet`, which
chooses a recursive function on the subsets and an element of each.

The schemas for induction and recursion cannot be instantiated here, so in
`BeamStatsProofs` and `FilHeaderProofs` each induction is for a concrete set: a
least element of what is left of Nat would have a predecessor in it (`EveryNat`),
and a property of subsets goes from those without one element to the whole
(`EverySubset`). That a recursive function exists is shown by giving it.

Only model-checked: the liveness properties `EventuallySealed` and `QuitEnds`,
which need fairness and ENABLED, and `MarkerCountsFirst`, of which
`MarkerCountsAlone` is the case of a single observation. Every other property of a
passing run is proved. Of those that a run refutes, `EndOfObservationIsReal` and
`HeadersUpdated` are proved for the environments without the fault that the run
shows them with.


## 5. What is not modelled

- `filfiletypes.c`: a table that nothing reads; `version.h`, the build files and
  scripts: no behaviour.
- The values of the metafits file, beyond the coordinates: they are passed from
  cfitsio to the header. Its outcomes are in `ObsSetup` and `DadaDbFil`.
- The counters of the header ring in the health message, sampled like those of
  the data ring, and the bytes of the UDP packet.
- The rounding of doubles, in angles and in power sums; the division of the sums
  by their number (`dada_dbfil.c:441`, `455`), which the properties do not see.
- The overflow of the `int` product at `dada_dbfil.c:757` (`HeaderAssumption`): it
  cannot happen with the 256 coarse channels of 1.28 MHz that the telescope has.
- Bytes in uncleared memory that happen to be the address of an array that is in
  use.
- A partial block: a write that fails leaves the file as it was, while a short
  `fwrite` may have written part of its data before the client gives up.
- "--" and abbreviated long options of `getopt_long`.
- cfitsio, psrdada and sockets, beyond their outcomes.
- Logging, and memory leaks (of the arrays of channels that an observation with
  fewer beams does not visit).


## 6. Plan

Done: the client, its abstraction and its block accounting; shutdown and health
reports; setting up; file contents; statistics and command line; proofs of all
safety properties of the passing runs but `MarkerCountsFirst`.

What a next step could add: the hazards without a property (`PROJECT.json`), of
which a finished observation whose first sub-observation is sent again
(`filfile.c:15`) needs only upstream to be widened; a smaller instance with
repeated sub-observations; a partial block after a short write; and the rewriting of
`nsamples` in names that contain the keyword, as a run of its own.
