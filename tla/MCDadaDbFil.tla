---------------------------- MODULE MCDadaDbFil -----------------------------
(***************************************************************************)
(* Instances of DadaDbFil and DadaDbFilArchive for TLC: the fault sets of  *)
(* the runs.                                                               *)
(***************************************************************************)
EXTENDS DadaDbFilArchive

\* What a working beamformer does.
Regular == {"late"}

\* Everything but observations cut short, damaged or repeated
\* sub-observations, files whose header cannot be rewritten, a heap that is not
\* clean and restarts.
Uncut == FaultKinds \ {"cut", "truncate", "repeat", "unpatched", "dirtyheap",
                       "restart"}

\* Everything but sub-observations sent twice.
NoRepeat == FaultKinds \ {"repeat"}
=============================================================================
