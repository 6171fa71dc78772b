-------------------------------- MODULE SbiSmp --------------------------------
(***************************************************************************)
(* The whole inter-hart protocol of the SBI firmware: the boot rendezvous  *)
(* of SmpBarrier, then, past it, main/test_ipi on ZERO_HART and other_main *)
(* on every other hart (sbi/main.c).  ZERO_HART repeatedly reads a target  *)
(* hart id and a message from the console, copies the message into the     *)
(* shared page at SMP_ADDR, raises the target's msip and waits in wait_ipi *)
(* for its own msip.  A secondary waits in wait_ipi, prints the page and   *)
(* raises ZERO_HART's msip as the answer.                                  *)
(*                                                                         *)
(* The message is abstracted to a member of Msgs; Torn stands for a page   *)
(* holding a mix of the old and new bytes.                                 *)
(*                                                                         *)
(* Memory is weakly ordered (RVWMO) and the page is written and read with  *)
(* plain stores and loads.  memcpy's stores become visible to the other    *)
(* harts some time after they execute (the page is Torn while only some    *)
(* are); the fence w,o in front of every writew waits until they all are.  *)
(* A secondary's page loads may be satisfied early, at any point after its *)
(* last fence i,r (the one after every readw): seen holds the values the   *)
(* page has had since then, and a load may return any of them.             *)
(* The console's readline is abstracted to the line it returns: its first  *)
(* character for the target id and a member of Msgs for the message.       *)
(***************************************************************************)
EXTENDS Naturals

CONSTANTS MAX_HARTS, ZERO_HART,
          Msgs,         \* messages typed on the console
          NoMsg,        \* the page before anything is copied into it
          Torn,         \* the page while memcpy is part way through
          InputChars,   \* first characters of the target-id line
          SIZE_T_WRAP,  \* 2^width of size_t, reduced to fit TLC integers
          MaxRounds,    \* bound on the iterations of test_ipi's loop
          OperatorAfterBoot \* the first line is typed only once every
                            \* secondary waits in other_main's loop

VARIABLES msip, mie, pc, idx,  \* as in SmpBarrier
          mbox,    \* content of the shared page at SMP_ADDR
          tx,      \* to_hartid and message of ZERO_HART's current round
          rx,      \* what each hart last read from the page and printed
          rounds,  \* iterations of test_ipi's loop started so far
          pending, \* ZERO_HART has page stores not yet visible to all harts
          seen     \* each hart: page values since its last fence i,r

vars == <<msip, mie, pc, idx, mbox, tx, rx, rounds, pending, seen>>

B == INSTANCE SmpBarrier

Harts == B!Harts

Clint == INSTANCE Clint

Secondaries == Harts \ {ZERO_HART}

PostPcs == {"entry", "t_input", "t_copy", "t_send", "t_wait",
            "o_wait", "o_puts", "o_print", "o_send"}

Init ==
  /\ B!Init
  /\ mbox = NoMsg
  /\ tx = [to |-> ZERO_HART, msg |-> NoMsg]
  /\ rx = [h \in Harts |-> NoMsg]
  /\ rounds = 0
  /\ pending = FALSE
  /\ seen = [h \in Harts |-> {NoMsg}]

(* to_hartid = readline(NULL)[0] - '0': the character is promoted to int,  *)
(* 48 is subtracted and the result converted to size_t, so an empty line   *)
(* (first character NUL) wraps to a huge id.                               *)
ToHartid(c) == IF c >= 48 THEN c - 48 ELSE SIZE_T_WRAP + c - 48

\* Fault-injected variant: the upper bound of the range check off by one.
InRangePastEnd(t) == t >= ZERO_HART + 1 /\ t <= MAX_HARTS

\* test_ipi's acceptance test for the target hart id.
InRange(t) == t >= ZERO_HART + 1 /\ t <= MAX_HARTS - 1

(* read_csr(mip) & MIP_MSIP: the CLINT drives mip.MSIP from the hart's     *)
(* msip bit.                                                               *)
read_csr_mip_msip(h) == Clint!clint_check_soft(h) = 1

\* set_csr(mie, MIP_MSIP): csrrs sets mie.MSIE; it is the only bit modelled.
set_csr_mie(h) == mie' = [mie EXCEPT ![h] = TRUE]

(* Fault-injected variant: clint_clear_soft moved in front of the loop; a  *)
(* raise that lands before the clear is erased.                            *)
wait_ipi_clear_first(h, next) ==
  \/ msip[h] = 1 /\ Clint!clint_clear_soft(h) /\ UNCHANGED pc
  \/ read_csr_mip_msip(h) /\ Clint!clint_clear_soft(h)
     /\ pc' = [pc EXCEPT ![h] = next]

(* wait_ipi(hartid): loop on mip.MSIP with wfi, then clint_clear_soft.     *)
(* mie.MSIE is always on here, and an iteration of the loop while the bit  *)
(* is clear changes nothing.  Reading the bit and clearing it are merged:  *)
(* only the hart itself clears its msip, so a store of 1 by another hart   *)
(* between the two has the same effect in either order.                    *)
wait_ipi(h, next) ==
  /\ read_csr_mip_msip(h)
  /\ Clint!clint_clear_soft(h)
  /\ pc' = [pc EXCEPT ![h] = next]

(* writew: __io_bw(), i.e. fence w,o, then the store.  The device store    *)
(* waits until every earlier memory store of the hart is visible.          *)
io_bw == ~pending

\* Fault-injected variant: readw without its trailing fence i,r.
io_ar_none(h) == UNCHANGED seen

(* readw: the load, then __io_ar(), i.e. fence i,r.  A device load is not  *)
(* performed speculatively, so it follows the mip read that ended the      *)
(* preceding wait; memory loads after the fence cannot be satisfied        *)
(* before it, so they return what the page holds from now on.              *)
io_ar(h) == seen' = [seen EXCEPT ![h] = {mbox}]

(* main on ZERO_HART, up to the test loop of test_ipi: uart_init,          *)
(* clint_init, the console test, then clint_clear_soft(hartid) and         *)
(* set_csr(mie, MIP_MSIP).  Only the clear touches shared state.           *)
main(h) ==
  /\ h = ZERO_HART
  /\ pc[h] = "entry"
  /\ Clint!clint_clear_soft(h)
  /\ set_csr_mie(h)
  /\ pc' = [pc EXCEPT ![h] = "t_input"]
  /\ UNCHANGED <<idx, mbox, tx, rx, rounds, pending, seen>>

(* The operator has waited for the boot: every secondary is in its loop.   *)
Booted == \A s \in Secondaries : pc[s] \in {"o_wait", "o_puts", "o_print", "o_send"}

(* test_ipi: read lines until one starts with an id in range (a rejected   *)
(* line changes nothing), and read the message.                            *)
test_ipi_input(h) ==
  /\ pc[h] = "t_input"
  /\ rounds < MaxRounds
  /\ OperatorAfterBoot => Booted
  /\ \E c \in InputChars, m \in Msgs :
       /\ InRange(ToHartid(c))
       /\ tx' = [to |-> ToHartid(c), msg |-> m]
  /\ pc' = [pc EXCEPT ![h] = "t_copy"]
  /\ rounds' = rounds + 1
  /\ UNCHANGED <<msip, mie, idx, mbox, rx, pending, seen>>

(* test_ipi: memcpy(SMP_ADDR, m, strlen(m) + 1) executes its stores; they  *)
(* reach the other harts later, by page_drain.                             *)
test_ipi_copied(h) ==
  /\ pc[h] = "t_copy"
  /\ pending' = TRUE
  /\ pc' = [pc EXCEPT ![h] = "t_send"]
  /\ UNCHANGED <<msip, mie, idx, mbox, tx, rx, rounds, seen>>

(* memcpy's stores becoming visible: first some of them (the page is torn) *)
(* and eventually all.  Every hart's pending loads may return the value.   *)
page_drain ==
  /\ pending
  /\ \/ mbox # Torn /\ mbox' = Torn /\ UNCHANGED pending
     \/ mbox' = tx.msg /\ pending' = FALSE
  /\ seen' = [h \in Harts |-> seen[h] \cup {mbox'}]
  /\ UNCHANGED <<msip, mie, pc, idx, tx, rx, rounds>>

(* test_ipi: the puts and uart_put_hex of the target, then                 *)
(* clint_send_soft(to_hartid); all of them store with writew.              *)
test_ipi_send(h) ==
  /\ pc[h] = "t_send"
  /\ io_bw
  /\ Clint!clint_send_soft(tx.to)
  /\ pc' = [pc EXCEPT ![h] = "t_wait"]
  /\ UNCHANGED <<mie, idx, mbox, tx, rx, rounds, pending, seen>>

\* Fault-injected variant: test_ipi goes on without waiting for the answer.
test_ipi_wait_no_answer(h) ==
  /\ pc[h] = "t_wait"
  /\ Clint!clint_clear_soft(h)
  /\ pc' = [pc EXCEPT ![h] = "t_input"]
  /\ UNCHANGED <<mie, idx, mbox, tx, rx, rounds, pending, seen>>

\* test_ipi: wait_ipi(hartid) for the answer, then the next iteration.
test_ipi_wait(h) ==
  /\ pc[h] = "t_wait"
  /\ wait_ipi(h, "t_input")
  /\ UNCHANGED <<mie, idx, mbox, tx, rx, rounds, pending, seen>>

(* other_main: uart_init, clint_init, clint_clear_soft(hartid) and         *)
(* set_csr(mie, MIP_MSIP) before the receive loop.  uart_init only writes  *)
(* UART registers, so no fence i,r is executed.                            *)
other_main(h) ==
  /\ h # ZERO_HART
  /\ pc[h] = "entry"
  /\ Clint!clint_clear_soft(h)
  /\ set_csr_mie(h)
  /\ pc' = [pc EXCEPT ![h] = "o_wait"]
  /\ UNCHANGED <<idx, mbox, tx, rx, rounds, pending, seen>>

\* Fault-injected variant: the answer raised as soon as the IPI is taken.
other_main_wait_answer_first(h) ==
  /\ pc[h] = "o_wait"
  /\ read_csr_mip_msip(h)
  /\ msip' = [msip EXCEPT ![h] = 0, ![ZERO_HART] = 1]
  /\ pc' = [pc EXCEPT ![h] = "o_puts"]
  /\ UNCHANGED <<mie, idx, mbox, tx, rx, rounds, pending, seen>>

\* other_main's loop: wait_ipi(hartid).
other_main_wait(h) ==
  /\ pc[h] = "o_wait"
  /\ wait_ipi(h, "o_puts")
  /\ UNCHANGED <<mie, idx, mbox, tx, rx, rounds, pending, seen>>

(* other_main's loop: puts("Software interrupt from Hart 0") and puts(     *)
(* "Message from Hart 0: "); each uart_putc reads TXDATA with readw.       *)
other_main_puts(h) ==
  /\ pc[h] = "o_puts"
  /\ io_ar(h)
  /\ pc' = [pc EXCEPT ![h] = "o_print"]
  /\ UNCHANGED <<msip, mie, idx, mbox, tx, rx, rounds, pending>>

(* other_main's loop: uart_puts(SMP_ADDR), plain loads of the page, each   *)
(* satisfied with a value the page has had since the last fence i,r.       *)
other_main_print(h) ==
  /\ pc[h] = "o_print"
  /\ \E v \in seen[h] : rx' = [rx EXCEPT ![h] = v]
  /\ pc' = [pc EXCEPT ![h] = "o_send"]
  /\ UNCHANGED <<msip, mie, idx, mbox, tx, rounds, pending, seen>>

\* Fault-injected variant: the answer sent to the secondary's own msip.
other_main_reply_self(h) ==
  /\ pc[h] = "o_send"
  /\ Clint!clint_send_soft(h)
  /\ pc' = [pc EXCEPT ![h] = "o_wait"]
  /\ UNCHANGED <<mie, idx, mbox, tx, rx, rounds, pending, seen>>

\* other_main's loop: clint_send_soft(ZERO_HART), the answer.
other_main_reply(h) ==
  /\ pc[h] = "o_send"
  /\ Clint!clint_send_soft(ZERO_HART)
  /\ pc' = [pc EXCEPT ![h] = "o_wait"]
  /\ UNCHANGED <<mie, idx, mbox, tx, rx, rounds, pending, seen>>

PostStep(h) ==
  \/ main(h) \/ test_ipi_input(h) \/ test_ipi_copied(h)
  \/ test_ipi_send(h) \/ test_ipi_wait(h)
  \/ other_main(h) \/ other_main_wait(h) \/ other_main_puts(h)
  \/ other_main_print(h) \/ other_main_reply(h)

HartStep(h) ==
  \/ B!BarrierStep(h) /\ UNCHANGED <<mbox, tx, rx, rounds, pending, seen>>
  \/ PostStep(h)

Next == (\E h \in Harts : HartStep(h)) \/ page_drain

(* Each hart runs on its own core; the operator at the console eventually  *)
(* types the next line; buffered stores eventually become visible.         *)
Spec == Init /\ [][Next]_vars /\ \A h \in Harts : WF_vars(HartStep(h))
          /\ WF_vars(page_drain)

-----------------------------------------------------------------------------

TypeOK ==
  /\ msip \in [Harts -> Clint!MsipValue]
  /\ mie \in [Harts -> BOOLEAN]
  /\ pc \in [Harts -> B!BarrierPcs \cup PostPcs]
  /\ idx \in [Harts -> 0 .. MAX_HARTS]
  /\ mbox \in Msgs \cup {NoMsg, Torn}
  /\ tx \in [to : Harts, msg : Msgs \cup {NoMsg}]
  /\ rx \in [Harts -> Msgs \cup {NoMsg, Torn}]
  /\ rounds \in 0 .. MaxRounds
  /\ pending \in BOOLEAN
  /\ seen \in [Harts -> SUBSET (Msgs \cup {NoMsg, Torn})]

(* Mailbox integrity of test_ipi/other_main: a secondary that has printed  *)
(* the page and is about to answer was the target of ZERO_HART's current   *)
(* round and printed exactly the message copied in that round, never a     *)
(* torn page or the message of another round or another target.            *)
MailboxIntegrity ==
  \A h \in Harts \ {ZERO_HART} :
    pc[h] = "o_send" => tx.to = h /\ rx[h] = tx.msg

(* A hart is inside puts/uart_puts/uart_put_hex: ZERO_HART in main's       *)
(* prints, the prompts and echo of test_ipi and its report lines;          *)
(* a secondary between taking the IPI and answering it.                    *)
Printing(h) ==
  pc[h] \in IF h = ZERO_HART THEN {"entry", "t_input", "t_send"}
                             ELSE {"o_puts", "o_print"}

(* The harts never print at the same time, although every hart prints      *)
(* through the one UART and uart_putc has no lock: the IPI handshake alone *)
(* serialises them (a secondary prints only between taking an IPI and      *)
(* raising the answer, while ZERO_HART is in wait_ipi).  This is the       *)
(* discipline under which Uart!LinesIntact holds.                          *)
UartExclusive ==
  \A h1, h2 \in Harts : h1 # h2 => ~(Printing(h1) /\ Printing(h2))

(* The round of the mailbox in which ZERO_HART is: a round is sent once    *)
(* test_ipi has accepted a line, and delivered once its target has printed *)
(* the page (and not yet gone back to waiting) or has answered.            *)
Delivered == pc[tx.to] = "o_send" \/ msip[ZERO_HART] = 1

MboxPhase ==
  CASE pc[ZERO_HART] \in {"t_copy", "t_send"} -> "sent"
    [] pc[ZERO_HART] = "t_wait" -> IF Delivered THEN "delivered" ELSE "sent"
    [] OTHER -> "idle"

Mbox == INSTANCE Mailbox WITH Receivers <- Secondaries, phase <- MboxPhase,
          round <- tx, delivered <- [h \in Secondaries |-> rx[h]]

(* test_ipi and other_main implement the mailbox: every step of the        *)
(* firmware is a step of Mailbox or leaves its state alone, so each round  *)
(* is delivered once, by its target, with exactly the message test_ipi     *)
(* copied, and test_ipi starts the next round only after the answer.  The  *)
(* page stores, the fences and the msip bits are the implementation.       *)
MailboxRefines == Mbox!Safety

(* No IPI of test_ipi is lost: while ZERO_HART waits in wait_ipi for the   *)
(* answer, the target's msip is still set, or the target has taken it and  *)
(* not yet answered, or the answer is already in ZERO_HART's msip.         *)
IpiNeverLost ==
  pc[ZERO_HART] = "t_wait" =>
    \/ msip[tx.to] = 1
    \/ pc[tx.to] \in {"o_puts", "o_print", "o_send"}
    \/ msip[ZERO_HART] = 1

(* A round whose IPI reaches its target is answered: once the target is    *)
(* waiting in other_main's loop with its msip set, ZERO_HART eventually    *)
(* leaves wait_ipi for the next line.  The handshake needs the target to   *)
(* take the IPI, print and raise ZERO_HART's msip, and nobody but          *)
(* ZERO_HART to clear that bit meanwhile.                                  *)
RoundAnswered ==
  \A h \in Secondaries :
    (pc[ZERO_HART] = "t_wait" /\ tx.to = h /\ pc[h] = "o_wait" /\ msip[h] = 1)
      ~> pc[ZERO_HART] = "t_input"

(* Every round test_ipi starts is answered, so its loop goes on for good,  *)
(* as long as the operator types the first line only after the boot: then  *)
(* the message is published, the IPI is raised and taken, the target       *)
(* prints and answers, and wait_ipi on ZERO_HART sees the answer.  (Typed  *)
(* earlier, the runs lost_ipi and sweep_hang show the round can hang.)     *)
EveryRoundAnswered == pc[ZERO_HART] = "t_copy" ~> pc[ZERO_HART] = "t_input"

(* Every hart eventually gets past smp_resume's polling loop, even when    *)
(* test_ipi starts raising msip bits while some hart is still polling.     *)
BarrierLeft == \A h \in Harts : <>(pc[h] \notin B!BarrierPcs)
==============================================================================
