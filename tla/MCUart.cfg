CONSTANTS
  Writers <- MCWriters
  TXCAP <- MCTxCap
  LineLen <- MCLineLen
  Exclusive = TRUE
  UART_IN_FREQ <- MCInFreq
  UART_BAUDRATE <- MCBaudrate

SPECIFICATION Spec

INVARIANT TypeOK
INVARIANT LinesIntact
PROPERTY AllLinesSent
