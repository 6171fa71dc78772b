CONSTANTS
  BUFSIZE <- MCBufSize
  InputChars <- MCInputChars
  MaxTyped <- MCMaxTyped
  RXCAP <- MCRxCap

SPECIFICATION Spec

INVARIANT TypeOK
INVARIANT LineIsEditOfInput

\* getchar spins until a character arrives, so readline can wait forever;
\* the run also stops once MaxTyped characters were typed in one call.
CHECK_DEADLOCK FALSE
