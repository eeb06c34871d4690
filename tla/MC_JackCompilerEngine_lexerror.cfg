\* The tokenizer and the parser together on a file with an invalid word
\* after an if statement.
CONSTANTS
  Letters <- MCLetters
  Inputs <- LexErrorAfterIf
SPECIFICATION Spec
INVARIANT SourceTokensInTree
CHECK_DEADLOCK FALSE
