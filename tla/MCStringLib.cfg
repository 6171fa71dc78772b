CONSTANTS
  MEM_SIZE <- MCMemSize
  Bytes <- MCBytes
  MaxCmpLen <- MCMaxCmpLen

SPECIFICATION Spec

INVARIANT TypeOK
INVARIANT MemOpsMatchReference
INVARIANT ReadOpsMatchReference
