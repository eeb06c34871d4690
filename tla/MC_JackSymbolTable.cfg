CONSTANTS
  Names <- MCNames
  Types <- MCTypes
  SubNames <- MCSubNames
  MaxArgBumps = 2
SPECIFICATION Spec
INVARIANTS
  TypeOK
  SymbolMatchesHistory
\* a failed define assertion aborts the compiler: no step follows it
CHECK_DEADLOCK FALSE
