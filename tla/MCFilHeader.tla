---------------------------- MODULE MCFilHeader ----------------------------
(***************************************************************************)
(* Instances of FilHeader for TLC.  Cells before the keyword: 45 and the   *)
(* two names; cells after the names and nsamples: 23.  With a buffer of 72 *)
(* cells a header with short names is shorter than the buffer, and with    *)
(* two long names the keyword stands at its end, across it or behind it.   *)
(***************************************************************************)
EXTENDS FilHeader

Long(k) == [i \in 1 .. k |-> "x"]

\* Names without the keyword: of several lengths, and with its parts at their
\* beginning and end.
PlainNames ==
  {Long(1), Long(2), Long(12), Long(13), <<"s", "n">>, <<"x", "n">>}
=============================================================================
