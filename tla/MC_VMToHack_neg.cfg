CONSTANTS
  Dirs <- DirsNeg
  Dirs7 <- NoDirs
SPECIFICATION Spec
\* The program ends in an endless loop, so the machine never stops.
PROPERTY VMSpecRefined
