CONSTANTS
  Writers <- MCWriters
  TXCAP <- MCTxCap
  LineLen <- MCLineLen
  Exclusive = FALSE
  UART_IN_FREQ <- MCInFreq
  UART_BAUDRATE <- MCBaudrate

SPECIFICATION Spec

INVARIANT LinesIntact
