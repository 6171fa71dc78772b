------------------------------- MODULE Mailbox -------------------------------
(***************************************************************************)
(* What the shared-page mailbox of the SBI firmware promises, independent  *)
(* of the page, the fences and the msip bits that carry it: one round at a *)
(* time, the sender posts a message for one receiver, that receiver        *)
(* delivers exactly that message once, and the sender learns of the        *)
(* delivery before it may post the next round.                             *)
(***************************************************************************)
CONSTANTS Receivers,  \* the harts a message can be sent to
          Msgs,       \* the messages
          NoMsg       \* what a receiver has delivered before any round

VARIABLES phase,      \* "idle", "sent" or "delivered"
          round,      \* receiver and message of the current or last round
          delivered   \* each receiver: the message it delivered last

vars == <<phase, round, delivered>>

Init ==
  /\ phase = "idle"
  /\ delivered = [r \in Receivers |-> NoMsg]

Send(r, m) ==
  /\ phase = "idle"
  /\ round' = [to |-> r, msg |-> m]
  /\ phase' = "sent"
  /\ UNCHANGED delivered

Deliver ==
  /\ phase = "sent"
  /\ delivered' = [delivered EXCEPT ![round.to] = round.msg]
  /\ phase' = "delivered"
  /\ UNCHANGED round

Answer ==
  /\ phase = "delivered"
  /\ phase' = "idle"
  /\ UNCHANGED <<round, delivered>>

Next == (\E r \in Receivers, m \in Msgs : Send(r, m)) \/ Deliver \/ Answer

Safety == Init /\ [][Next]_vars
==============================================================================
