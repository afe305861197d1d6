\* Every mix of the candidate percentages with a generic_rp in 0..100.
CONSTANTS
  PercValues <- MCPercValues
  RpValues <- MCRpValid
  Garbage = Garbage
SPECIFICATION Spec
INVARIANT MixExact
INVARIANT InBounds
