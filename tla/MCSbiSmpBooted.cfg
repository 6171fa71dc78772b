CONSTANTS
  MAX_HARTS <- MCMaxHarts
  ZERO_HART <- MCZeroHart
  Msgs <- MCMsgs
  InputChars <- MCInputChars
  SIZE_T_WRAP <- MCSizeTWrap
  MaxRounds <- MCMaxRounds
  OperatorAfterBoot = TRUE
  m1 = m1
  m2 = m2
  NoMsg = NoMsg
  Torn = Torn

SPECIFICATION Spec

PROPERTY EveryRoundAnswered

\* The test loop stops after MaxRounds rounds.
CHECK_DEADLOCK FALSE
