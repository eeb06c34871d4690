\* The writer compiling up to two subroutines of class Main, each function
\* written checked against what its source means.
CONSTANTS
  ClassName = "Main"
  Names = {"s", "a", "n", "p", "x", "o"}
  Types = {"int", "Array", "Foo"}
  SubNames = {"f", "g"}
  ClassVarDecChoices <- MCClassVarDecChoices
  SubroutineDecs <- MCSubroutineDecs
  MaxSubroutines = 2
  FunList <- MCFunList
  MaxSteps = 200
  MaxLoops = 3
SPECIFICATION Spec
INVARIANTS
  TypeOK
  LabelsUnique
  CompiledCodeMatchesSource
\* Compilation ends: after close() or when an exception aborts it.
CHECK_DEADLOCK FALSE
