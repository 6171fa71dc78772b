------------------------------ MODULE SmpBarrier ------------------------------
(***************************************************************************)
(* The boot rendezvous of include/smp.h: smp_pause followed, on hart       *)
(* ZERO_HART, by smp_resume.  Every hart resets at smp_pause, which writes *)
(* mie = MIP_MSIP and sends every hart but ZERO_HART to label 42 of        *)
(* smp_resume.  ZERO_HART falls through and, in smp_resume, stores 1 into  *)
(* the msip word of every hart in increasing order (loop 41), then joins   *)
(* the others at 42.  At 42 a hart waits with wfi until its mip.MSIP is    *)
(* set, clears its own msip, and then every hart (not only ZERO_HART)      *)
(* polls all msip words in increasing order until each reads 0 (the second *)
(* loop 41).  pc names the point of the macro a hart is at:                *)
(*   "pause"   smp_pause                                                   *)
(*   "resume"  smp_resume, first loop 41 (raising), reg1 = idx             *)
(*   "park"    smp_resume, loop 42 (wfi until mip.MSIP)                    *)
(*   "sweep"   smp_resume, second loop 41 (polling), reg1 = idx            *)
(*   "entry"   past the macro: the hart-local entry code                   *)
(* A composing module moves harts on from "entry".                         *)
(***************************************************************************)
EXTENDS Naturals

CONSTANTS MAX_HARTS,  \* smp.h MAX_HARTS
          ZERO_HART   \* smp.h ZERO_HART, the hart that broadcasts

VARIABLES msip,  \* CLINT msip bit of each hart
          mie,   \* mie.MSIE of each hart (the csrw of smp_pause)
          pc,    \* position of each hart in the macros
          idx    \* reg1 of each hart, as a hart index into the msip words

barrierVars == <<msip, mie, pc, idx>>

Harts == 0 .. MAX_HARTS - 1

Clint == INSTANCE Clint

\* The labels inside the rendezvous; "entry" and whatever follows it lie past it.
BarrierPcs == {"pause", "resume", "park", "sweep"}

Init ==
  /\ msip = [h \in Harts |-> 0]
  /\ mie = [h \in Harts |-> FALSE]
  /\ pc = [h \in Harts |-> "pause"]
  /\ idx = [h \in Harts |-> 0]

(* smp_pause: csrw mie, MIP_MSIP; ZERO_HART continues into smp_resume,     *)
(* whose first instruction sets reg1 to the msip word of hart 0; any other *)
(* hart branches forward to label 42.                                      *)
smp_pause(h) ==
  /\ pc[h] = "pause"
  /\ mie' = [mie EXCEPT ![h] = TRUE]
  /\ pc' = [pc EXCEPT ![h] = IF h = ZERO_HART THEN "resume" ELSE "park"]
  /\ idx' = [idx EXCEPT ![h] = 0]
  /\ UNCHANGED msip

(* Fault-injected variants of the raising loop, used by the mutation runs: *)
(* the loop run to CLINT_END_HART_IPI inclusive, the harts raised in       *)
(* decreasing order, and the loop started at hart 1 instead of hart 0.     *)
smp_resume_raise_past_end(h) ==
  /\ pc[h] = "resume"
  /\ msip' = [msip EXCEPT ![idx[h]] = 1]
  /\ idx' = [idx EXCEPT ![h] = idx[h] + 1]
  /\ pc' = [pc EXCEPT ![h] = IF idx[h] + 1 <= MAX_HARTS THEN "resume" ELSE "park"]
  /\ UNCHANGED mie

smp_resume_raise_decreasing(h) ==
  /\ pc[h] = "resume"
  /\ Clint!clint_send_soft(MAX_HARTS - 1 - idx[h])
  /\ idx' = [idx EXCEPT ![h] = idx[h] + 1]
  /\ pc' = [pc EXCEPT ![h] = IF idx[h] + 1 < MAX_HARTS THEN "resume" ELSE "park"]
  /\ UNCHANGED mie

(* smp_resume, first loop 41: sw 1 into the msip word at reg1, advance     *)
(* reg1 by one word, and loop while reg1 < CLINT_END_HART_IPI.             *)
smp_resume_raise(h) ==
  /\ pc[h] = "resume"
  /\ Clint!clint_send_soft(idx[h])
  /\ idx' = [idx EXCEPT ![h] = idx[h] + 1]
  /\ pc' = [pc EXCEPT ![h] = IF idx[h] + 1 < MAX_HARTS THEN "resume" ELSE "park"]
  /\ UNCHANGED mie

(* smp_resume, loop 42 and what follows it: wfi returns once an enabled    *)
(* interrupt is pending, so the hart leaves the loop when its mip.MSIP is  *)
(* set and mie.MSIE is on; it then stores zero into its own msip word and  *)
(* points reg1 back at the msip word of hart 0.  While the bit is clear    *)
(* the loop only re-executes wfi, which changes nothing.                   *)
smp_resume_park(h) ==
  /\ pc[h] = "park"
  /\ Clint!clint_check_soft(h) = 1
  /\ mie[h]
  /\ Clint!clint_clear_soft(h)
  /\ pc' = [pc EXCEPT ![h] = "sweep"]
  /\ idx' = [idx EXCEPT ![h] = 0]
  /\ UNCHANGED mie

(* smp_resume, second loop 41: lw the msip word at reg1 and spin while it  *)
(* is non-zero; once it reads zero advance reg1, and leave the macro when  *)
(* reg1 reaches CLINT_END_HART_IPI.  A spin iteration changes nothing.     *)
smp_resume_sweep(h) ==
  /\ pc[h] = "sweep"
  /\ Clint!clint_check_soft(idx[h]) = 0
  /\ idx' = [idx EXCEPT ![h] = idx[h] + 1]
  /\ pc' = [pc EXCEPT ![h] = IF idx[h] + 1 < MAX_HARTS THEN "sweep" ELSE "entry"]
  /\ UNCHANGED <<msip, mie>>

\* One instruction-level step of hart h inside the rendezvous.
BarrierStep(h) ==
  \/ smp_pause(h)
  \/ smp_resume_raise(h)
  \/ smp_resume_park(h)
  \/ smp_resume_sweep(h)

\* Once every hart is past the rendezvous this module has nothing left to do.
BarrierDone ==
  /\ \A h \in Harts : pc[h] = "entry"
  /\ UNCHANGED barrierVars

Next == (\E h \in Harts : BarrierStep(h)) \/ BarrierDone

(* Harts run in parallel on their own cores: each hart that can execute    *)
(* its next instruction eventually does.                                   *)
Fairness == \A h \in Harts : WF_barrierVars(BarrierStep(h))

Spec == Init /\ [][Next]_barrierVars /\ Fairness

-----------------------------------------------------------------------------

TypeOK ==
  /\ msip \in [Harts -> Clint!MsipValue]
  /\ mie \in [Harts -> BOOLEAN]
  /\ pc \in [Harts -> BarrierPcs \cup {"entry"}]
  /\ idx \in [Harts -> 0 .. MAX_HARTS]

(* The refinement mapping: a hart has arrived once it has acknowledged its *)
(* wake by clearing its own msip, and is released once it is past the      *)
(* macro.  Harts a composing module moves on from "entry" stay released.   *)
Arrived == {h \in Harts : pc[h] \notin {"pause", "resume", "park"}}
Released == {h \in Harts : pc[h] \notin BarrierPcs}

Abstract == INSTANCE BootBarrier WITH Harts <- Harts,
                                      arrived <- Arrived,
                                      released <- Released

(* Barrier safety and progress of smp_pause/smp_resume: no hart leaves the *)
(* polling loop before every hart has cleared its own msip after being     *)
(* woken, and every hart eventually leaves it.  Secondary harts poll too,  *)
(* so this rests on ZERO_HART raising its own msip first and clearing it   *)
(* only after the whole broadcast.                                         *)
BarrierRefines == Abstract!Spec
==============================================================================
