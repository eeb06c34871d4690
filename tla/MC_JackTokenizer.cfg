\* The tokenizer handing out the tokens of every file of up to three lines.
CONSTANTS
  Letters <- MCLetters
  Files <- MCFiles
SPECIFICATION Spec
INVARIANTS
  TypeOK
  TokensMatchSpec
\* The iterator ends: StopIteration or an exception, after which the parser
\* makes no further call.
CHECK_DEADLOCK FALSE
