\* Violation run: spec 4.1 against the tokens of CommentAcrossCalls.
CONSTANTS
  Letters <- MCLetters
  Files <- CommentAcrossCalls
SPECIFICATION Spec
INVARIANT
  TokensMatchSpec
\* The iterator ends: StopIteration or an exception.
CHECK_DEADLOCK FALSE
