-------------------------------- MODULE Clint --------------------------------
(***************************************************************************)
(* The software-interrupt half of the core-local interruptor               *)
(* (devices/clint/clint.c, clint.h).  Each hart has one 32-bit msip        *)
(* register at CLINT_SOFT(base, hartid); only bit 0 is implemented, so the *)
(* register is modelled as 0 or 1.  The register file is the function      *)
(* msip from hart ids to that bit.  The msip words are device registers,   *)
(* accessed in each hart's program order; the fences of writew and readw   *)
(* matter for the shared page and are modelled in SbiSmp (io_bw, io_ar).   *)
(***************************************************************************)
EXTENDS Naturals

VARIABLE msip

\* CLINT_SOFT(base, hartid): one msip word per hart, of which bit 0 exists.
MsipValue == {0, 1}

\* clint_check_soft(hartid): readw of the hart's msip word.
clint_check_soft(h) == msip[h]

\* clint_send_soft(hartid): writew(1, CLINT_SOFT(clint_base, hartid)).
clint_send_soft(h) == msip' = [msip EXCEPT ![h] = 1]

\* clint_clear_soft(hartid): writew(0, CLINT_SOFT(clint_base, hartid)).
clint_clear_soft(h) == msip' = [msip EXCEPT ![h] = 0]
==============================================================================
