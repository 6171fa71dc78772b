----------------------------- MODULE BootBarrier -----------------------------
(***************************************************************************)
(* What the boot rendezvous promises, independent of how it is built: a    *)
(* hart arrives at the barrier once it has been woken and acknowledged the *)
(* wake, and no hart is released past the barrier before every hart has    *)
(* arrived.  Under fairness, every hart is eventually released.            *)
(***************************************************************************)
CONSTANT Harts

VARIABLES arrived, released

vars == <<arrived, released>>

Init == arrived = {} /\ released = {}

Arrive(h) ==
  /\ h \notin arrived
  /\ arrived' = arrived \cup {h}
  /\ UNCHANGED released

Release(h) ==
  /\ arrived = Harts
  /\ h \in arrived \ released
  /\ released' = released \cup {h}
  /\ UNCHANGED arrived

Next == \E h \in Harts : Arrive(h) \/ Release(h)

Safety == Init /\ [][Next]_vars

Spec == Safety /\ \A h \in Harts : WF_vars(Arrive(h)) /\ WF_vars(Release(h))
==============================================================================
