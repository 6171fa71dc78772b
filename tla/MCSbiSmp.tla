------------------------------ MODULE MCSbiSmp ------------------------------
(* Three harts (ZERO_HART and two secondaries), two messages, three rounds *)
(* of test_ipi: enough for two rounds to go to the same target and to      *)
(* different targets, and for a round to start while a secondary is still  *)
(* in the rendezvous.  The target-id line starts with NUL (empty line) or  *)
(* with one of the digits '0' .. '3', so every branch of the range check   *)
(* is taken.                                                               *)
EXTENDS SbiSmp

CONSTANTS m1, m2

MCMaxHarts == 3
MCZeroHart == 0
MCMsgs == {m1, m2}
MCInputChars == {0} \cup {48 + d : d \in 0 .. MCMaxHarts}
MCSizeTWrap == 2^30
MCMaxRounds == 3
==============================================================================
