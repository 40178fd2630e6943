------------------------------- MODULE Angles -------------------------------
(***************************************************************************)
(* The coordinates in a filterbank header: create_fil (src/filwriter.c)    *)
(* turns the RA and DEC of the metafits file, in degrees, into numbers     *)
(* that are read as hhmmss.s and ddmmss.s, with the functions of           *)
(* src/util.c.                                                             *)
(*                                                                         *)
(* An angle is a whole number of seconds of arc, 3600 to the degree, and a *)
(* second of time is 15 of them; so every intermediate result of the code  *)
(* is exact, and what doubles round away is not looked at.                 *)
(***************************************************************************)
EXTENDS Integers

Abs(x) == IF x < 0 THEN -x ELSE x

\* (int)(x / y) truncates toward zero.
Truncated(x, y) == IF x < 0 THEN -((-x) \div y) ELSE x \div y

\* Variant: without fabs.
DmsSigned(a) ==
  LET d == Truncated(a, 3600)
      rest == a - d * 3600
      m == Truncated(rest, 60)
  IN  [d |-> d, m |-> m, s |-> rest - m * 60]

degrees_to_dms(a) ==
  LET d == Truncated(a, 3600)
      rest == Abs(a - d * 3600)
      m == Truncated(rest, 60)
  IN  [d |-> d, m |-> m, s |-> rest - m * 60]

\* Variant: minutes of arc.
HmsArcMinutes(a) ==
  LET h == Truncated(a, 54000)
      rest == a - h * 54000
      m == Truncated(rest, 60)
  IN  [d |-> h, m |-> m, s |-> rest - m * 60]

\* s is in fifteenths of a second.
degrees_to_hms(a) ==
  LET h == Truncated(a, 54000)
      rest == a - h * 54000
      m == Truncated(rest, 900)
  IN  [d |-> h, m |-> m, s |-> rest - m * 900]

\* The result is in units of one second, or a unit-th of it, as t.s is.
format_angle(t, unit) ==
  IF t.d < 0
  THEN -((Abs(t.d) * 10000 + t.m * 100) * unit + t.s)
  ELSE (t.d * 10000 + t.m * 100) * unit + t.s

\* The fields of the header.
src_raj(a) == format_angle(degrees_to_hms(a), 15)
src_dej(a) == format_angle(degrees_to_dms(a), 1)

\* -90 to 90 degrees, and 0 to less than 360.
Declination(a) == -324000 <= a /\ a <= 324000
RightAscension(a) == 0 <= a /\ a < 1296000

-----------------------------------------------------------------------------
(* The reader's side *)

\* The fields of a number that is read as ddmmss.s (or hhmmss.s).
Seconds(x, unit) == Abs(x) % (100 * unit)
Minutes(x, unit) == (Abs(x) \div (100 * unit)) % 100
Degrees(x, unit) == Abs(x) \div (10000 * unit)

\* ... and the angle they stand for, a minute being so many seconds of arc.
ReadAs(x, unit, minute) ==
  LET size == Degrees(x, unit) * 60 * minute
                + Minutes(x, unit) * minute + Seconds(x, unit)
  IN  IF x < 0 THEN -size ELSE size

WellFormed(x, unit) == Minutes(x, unit) < 60 /\ Seconds(x, unit) < 60 * unit

\* A declination just south of the equator.
AlmostZero(a) == -3600 < a /\ a < 0
=============================================================================
