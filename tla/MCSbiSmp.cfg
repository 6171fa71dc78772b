CONSTANTS
  MAX_HARTS <- MCMaxHarts
  ZERO_HART <- MCZeroHart
  Msgs <- MCMsgs
  InputChars <- MCInputChars
  SIZE_T_WRAP <- MCSizeTWrap
  MaxRounds <- MCMaxRounds
  OperatorAfterBoot = FALSE
  m1 = m1
  m2 = m2
  NoMsg = NoMsg
  Torn = Torn

SPECIFICATION Spec

INVARIANT TypeOK
INVARIANT MailboxIntegrity
INVARIANT UartExclusive
PROPERTY MailboxRefines
PROPERTY RoundAnswered

\* The firmware can hang (see the runs lost_ipi and sweep_hang), and the
\* test loop stops after MaxRounds rounds.
CHECK_DEADLOCK FALSE
