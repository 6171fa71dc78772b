CONSTANTS
  MAX_HARTS <- MCMaxHarts
  ZERO_HART <- MCZeroHart

SPECIFICATION Spec

INVARIANT TypeOK
PROPERTY BarrierRefines
