CONSTANTS
  CommandLines <- MCCommandLines
  Dcap = TRUE
SPECIFICATION Spec
INVARIANTS
  TypeOK
  ServesAsAsked
