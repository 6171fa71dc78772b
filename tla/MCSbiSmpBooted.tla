--------------------------- MODULE MCSbiSmpBooted ---------------------------
(* Five harts, MAX_HARTS of smp.h (ZERO_HART and four secondaries), two    *)
(* messages and three rounds, with the operator typing only after the      *)
(* boot.  Four targets let a round go to a hart that answered before or    *)
(* to a fresh one, and the secondaries leave the rendezvous in any order.  *)
EXTENDS SbiSmp

CONSTANTS m1, m2

MCMaxHarts == 5
MCZeroHart == 0
MCMsgs == {m1, m2}
MCInputChars == {0} \cup {48 + d : d \in 0 .. MCMaxHarts}
MCSizeTWrap == 2^30
MCMaxRounds == 3
==============================================================================
