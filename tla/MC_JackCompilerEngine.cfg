\* The parser on the tokens of classes built from the grammar, and on every
\* proper prefix of some of them.
CONSTANTS
  Letters <- MCLetters
  Inputs <- MCInputs
SPECIFICATION Spec
INVARIANTS
  TypeOK
  GrammarRoundTrip
  EndOfInputFails
\* A compilation parses once and stops.
CHECK_DEADLOCK FALSE
