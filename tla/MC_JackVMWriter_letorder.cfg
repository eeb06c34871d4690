\* Violation run: spec 4.4 says the index of an indexed let is evaluated before its value.
CONSTANTS
  ClassName = "Main"
  Names = {"s", "a", "n", "p", "x", "o"}
  Types = {"int", "Array", "Foo"}
  SubNames = {"f", "g"}
  ClassVarDecChoices <- MCClassVarDecChoices
  SubroutineDecs <- MCSubroutineDecs
  MaxSubroutines = 2
  FunList <- MCFunList
  MaxSteps = 200
  MaxLoops = 3
SPECIFICATION Spec
INVARIANT
  ArrayLetIndexFirst
\* Compilation ends: after close() or when an exception aborts it.
CHECK_DEADLOCK FALSE
