CONSTANTS
  Pdbs <- MCPdbs
  Sections <- MCSections
  Names <- MCNames
SPECIFICATION Spec
INVARIANTS
  TypeOK
  FindsSymbols
CHECK_DEADLOCK FALSE
