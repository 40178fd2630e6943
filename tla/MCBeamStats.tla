----------------------------- MODULE MCBeamStats -----------------------------
(***************************************************************************)
(* Instances of Args and BeamStats for TLC.  Command lines: one phrase for *)
(* each mandatory option, in every combination of forms, and a further     *)
(* phrase before or after them.  Blocks: one with a single bright sample   *)
(* tells every position from every other; one has all samples different.   *)
(***************************************************************************)
EXTENDS BeamStats

Plain(v) == [form |-> "plain", option |-> "", value |-> v]
Short(o, v) == [form |-> "short", option |-> o, value |-> v]
Long(o, v) == [form |-> "long", option |-> o, value |-> v]

\* Absent; its argument in the next word; attached; an argument missing.
Phrases(o, v) ==
  {<<>>, <<Short(o, NULL), Plain(v)>>, <<Long(o, v)>>, <<Short(o, NULL)>>}

Usual(o) == {<<Short(o, NULL), Plain("a")>>, <<Long(o, "a")>>}

\* Among others: -s PATH, --stats-path=PATH and --stats-path PATH; and
\* arguments that are empty.
Extras ==
  UNION {Phrases(o, v) : o \in {"k", "d", "p"}, v \in {"b", "none"}}
  \cup { <<Short("s", NULL), Plain("b")>>, <<Long("s", "b")>>,
         <<Long("s", NULL), Plain("b")>>, <<Long("?", NULL)>>,
         <<Short("x", NULL)>>, <<Plain("b")>> }
  \cup UNION {{<<Short(o, NULL), Plain("")>>, <<Long(o, "")>>} :
                o \in {"k", "d", "m"}}
  \cup {<<Long("s", "")>>}

AllLines ==
  { IF first THEN e \o l ELSE l \o e :
      first \in BOOLEAN, e \in Extras,
      l \in { k \o d \o m \o i \o p :
                k \in Phrases("k", "a"), d \in Phrases("d", "a"),
                m \in Phrases("m", "a"), i \in Usual("i"), p \in Usual("p") } }

Single == {[p \in Positions |-> IF p = q THEN 1 ELSE 0] : q \in {0, 7, 11}}

Blocks == Single \cup {[p \in Positions |-> p * p]}
=============================================================================
