SPECIFICATION Spec
CONSTANTS
  Pixels = {p, q}
  Uses <- MCUses
  MaxSteps = 4
SYMMETRY Symmetry
INVARIANTS TypeOK FrameTrue ReadsTrue
