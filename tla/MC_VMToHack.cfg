CONSTANTS
  Dirs <- DirsPass
  Dirs7 <- Dirs7Pass
SPECIFICATION Spec
\* The translator stops at a command it cannot handle, and the assembler
\* rejects what it cannot assemble: both end the toolchain.
CHECK_DEADLOCK FALSE
INVARIANT TypeOK
PROPERTY VMSpecRefined
