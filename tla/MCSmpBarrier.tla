---------------------------- MODULE MCSmpBarrier ----------------------------
(* The boot rendezvous with four harts: hart 0 broadcasts and three        *)
(* secondaries wait, enough for a secondary to poll the msip word of a     *)
(* hart with a lower and of one with a higher id than its own.             *)
EXTENDS SmpBarrier

MCMaxHarts == 4
MCZeroHart == 0
==============================================================================
