SPECIFICATION Spec
CONSTANTS
  Headers <- AllHeaders
  Beams <- ThreeBeams
  Regions = {r1, r2}
  Arrays = {a1, a2, a3, a4}
  Wild = Wild
  INCOHERENT_BEAMS_MAX = 2
  COHERENT_BEAMS_MAX = 1
  INT_MAX = 63
INVARIANTS PointersValid OwnFrequency SizesAgree RefusedLeavesNoFile
           RightAscensionKept DeclinationKept
SYMMETRY Symmetry
\* an observation that cannot be set up ends the process
CHECK_DEADLOCK FALSE
