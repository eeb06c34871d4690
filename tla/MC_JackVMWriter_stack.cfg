\* Violation run: a do statement leaves its call's value on the stack.
CONSTANTS
  ClassName = "Main"
  Names = {"s", "a", "n", "p", "x", "o"}
  Types = {"int", "Array", "Foo"}
  SubNames = {"f", "g"}
  ClassVarDecChoices <- MCClassVarDecChoices
  SubroutineDecs <- MCSubroutineDecs
  MaxSubroutines = 2
  FunList <- MCFunList
  MaxSteps = 200
  MaxLoops = 3
SPECIFICATION Spec
INVARIANT
  StackBalancedAtLabels
\* Compilation ends: after close() or when an exception aborts it.
CHECK_DEADLOCK FALSE
