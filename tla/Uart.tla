--------------------------------- MODULE Uart ---------------------------------
(***************************************************************************)
(* The UART driver of devices/uart/uart.c and the transmitter it drives.   *)
(* Every hart calls uart_init and prints through uart_puts, one            *)
(* uart_putc per character; uart_putc reads TXDATA until its full bit is   *)
(* clear and then stores the character into TXDATA.  The read and the      *)
(* store are two separate accesses, and the transmitter shifts a character *)
(* out of the FIFO whenever TXEN is set.  A store into a full FIFO is      *)
(* ignored by the device, so a character can only be lost when the FIFO    *)
(* fills between a writer's read and its store.                            *)
(*                                                                         *)
(* A character is the pair of its writer and its position in the writer's  *)
(* line.  When Exclusive is TRUE a writer starts its line only while no    *)
(* other writer is inside uart_puts: the discipline the IPI protocol of    *)
(* main.c gives the harts (SbiSmp!UartExclusive).                          *)
(***************************************************************************)
EXTENDS Naturals, SequencesExt, UartFormat

CONSTANTS Writers,        \* the harts that print
          TXCAP,          \* depth of the transmit FIFO
          LineLen,        \* characters of the line each writer prints
          Exclusive,      \* writers take turns (TRUE) or print at will
          UART_IN_FREQ,   \* main.c DEFAULT_UART_FREQ
          UART_BAUDRATE   \* main.c DEFAULT_UART_BAUDRATE

VARIABLES regs,    \* the control registers TXCTRL, RXCTRL, IE, DIV
          txfifo,  \* characters the transmit FIFO holds, oldest first
          wire,    \* characters shifted out on the serial line
          upc,     \* each writer: "init", "idle", "poll", "store", "done"
          pos,     \* each writer: position of the character it is printing
          lost     \* characters whose store the full FIFO ignored

vars == <<regs, txfifo, wire, upc, pos, lost>>

\* uart.h register indices and control bits.
UART_REG_TXCTRL == 2
UART_REG_RXCTRL == 3
UART_REG_IE == 4
UART_REG_DIV == 6
UART_TXCTRL_TXEN == 1
UART_RXCTRL_RXEN == 1

CtrlRegs == {UART_REG_TXCTRL, UART_REG_RXCTRL, UART_REG_IE, UART_REG_DIV}

Char(w, k) == [w |-> w, k |-> k]

Chars == {Char(w, k) : w \in Writers, k \in 1 .. LineLen}

(* The transmitter is off and the registers are zero until uart_init.      *)
Init ==
  /\ regs = [r \in CtrlRegs |-> 0]
  /\ txfifo = <<>>
  /\ wire = <<>>
  /\ upc = [w \in Writers |-> "init"]
  /\ pos = [w \in Writers |-> 1]
  /\ lost = {}

\* Fault-injected variant: uart_init without the TXCTRL store.
uart_init_no_txen(w) ==
  /\ upc[w] = "init"
  /\ regs' = [regs EXCEPT
                ![UART_REG_DIV] = IF UART_IN_FREQ # 0
                                    THEN uart_min_clk_divisor(UART_IN_FREQ, UART_BAUDRATE)
                                    ELSE @,
                ![UART_REG_IE] = 0,
                ![UART_REG_RXCTRL] = UART_RXCTRL_RXEN]
  /\ upc' = [upc EXCEPT ![w] = "idle"]
  /\ UNCHANGED <<txfifo, wire, pos, lost>>

(* uart_init(base, in_freq, baudrate): DIV only if in_freq is non-zero,    *)
(* then IE = 0, TXCTRL = TXEN, RXCTRL = RXEN.                              *)
uart_init(w) ==
  /\ upc[w] = "init"
  /\ regs' = [regs EXCEPT
                ![UART_REG_DIV] = IF UART_IN_FREQ # 0
                                    THEN uart_min_clk_divisor(UART_IN_FREQ, UART_BAUDRATE)
                                    ELSE @,
                ![UART_REG_IE] = 0,
                ![UART_REG_TXCTRL] = UART_TXCTRL_TXEN,
                ![UART_REG_RXCTRL] = UART_RXCTRL_RXEN]
  /\ upc' = [upc EXCEPT ![w] = "idle"]
  /\ UNCHANGED <<txfifo, wire, pos, lost>>

(* uart_puts(s) is entered; with Exclusive, only while no other writer is  *)
(* printing.                                                               *)
uart_puts(w) ==
  /\ upc[w] = "idle"
  /\ Exclusive => \A v \in Writers \ {w} : upc[v] \in {"init", "idle", "done"}
  /\ upc' = [upc EXCEPT ![w] = "poll"]
  /\ UNCHANGED <<regs, txfifo, wire, pos, lost>>

\* get_reg(UART_REG_TXDATA) & UART_TXDATA_FULL: the full bit of TXDATA.
TxFull == Len(txfifo) >= TXCAP

\* Fault-injected variant: the busy-wait read skipped.
uart_putc_poll_no_wait(w) ==
  /\ upc[w] = "poll"
  /\ upc' = [upc EXCEPT ![w] = "store"]
  /\ UNCHANGED <<regs, txfifo, wire, pos, lost>>

(* uart_putc, while (get_reg(TXDATA) & TXDATA_FULL): the read that finds   *)
(* the FIFO not full ends the loop.                                        *)
uart_putc_poll(w) ==
  /\ upc[w] = "poll"
  /\ ~TxFull
  /\ upc' = [upc EXCEPT ![w] = "store"]
  /\ UNCHANGED <<regs, txfifo, wire, pos, lost>>

\* The same loop: a read that finds the FIFO full, and the loop goes round.
uart_putc_spin(w) ==
  /\ upc[w] = "poll"
  /\ TxFull
  /\ UNCHANGED vars

\* Fault-injected variant: uart_puts stepping over the terminating NUL.
uart_putc_store_past_nul(w) ==
  /\ upc[w] = "store"
  /\ IF TxFull
       THEN lost' = lost \cup {Char(w, pos[w])} /\ UNCHANGED txfifo
       ELSE txfifo' = Append(txfifo, Char(w, pos[w])) /\ UNCHANGED lost
  /\ pos' = [pos EXCEPT ![w] = pos[w] + 1]
  /\ upc' = [upc EXCEPT ![w] = IF pos[w] > LineLen THEN "done" ELSE "poll"]
  /\ UNCHANGED <<regs, wire>>

(* uart_putc, set_reg(TXDATA, ch): the device enqueues the character, or   *)
(* ignores the store when the FIFO is full.  uart_puts then moves to the   *)
(* next character and returns at the end of the line.                      *)
uart_putc_store(w) ==
  /\ upc[w] = "store"
  /\ IF TxFull
       THEN lost' = lost \cup {Char(w, pos[w])} /\ UNCHANGED txfifo
       ELSE txfifo' = Append(txfifo, Char(w, pos[w])) /\ UNCHANGED lost
  /\ pos' = [pos EXCEPT ![w] = pos[w] + 1]
  /\ upc' = [upc EXCEPT ![w] = IF pos[w] = LineLen THEN "done" ELSE "poll"]
  /\ UNCHANGED <<regs, wire>>

(* The transmitter (hardware): while TXEN is set it shifts the oldest      *)
(* character of the FIFO out onto the line.                                *)
uart_tx ==
  /\ regs[UART_REG_TXCTRL] % 2 = UART_TXCTRL_TXEN
  /\ txfifo # <<>>
  /\ wire' = Append(wire, Head(txfifo))
  /\ txfifo' = Tail(txfifo)
  /\ UNCHANGED <<regs, upc, pos, lost>>

Writer(w) ==
  \/ uart_init(w) \/ uart_puts(w)
  \/ uart_putc_poll(w) \/ uart_putc_spin(w) \/ uart_putc_store(w)

\* Every writer has printed its line and the transmitter has sent it all.
Finished ==
  /\ \A w \in Writers : upc[w] = "done"
  /\ txfifo = <<>>
  /\ UNCHANGED vars

Next == (\E w \in Writers : Writer(w)) \/ uart_tx \/ Finished

(* Each hart runs on its own core, and the transmitter runs off the baud   *)
(* clock: each keeps taking its steps.                                     *)
Spec == Init /\ [][Next]_vars
          /\ \A w \in Writers : WF_vars(Writer(w))
          /\ WF_vars(uart_tx)
-----------------------------------------------------------------------------

TypeOK ==
  /\ regs \in [CtrlRegs -> Nat]
  /\ txfifo \in Seq(Chars) /\ Len(txfifo) <= TXCAP
  /\ wire \in Seq(Chars)
  /\ upc \in [Writers -> {"init", "idle", "poll", "store", "done"}]
  /\ pos \in [Writers -> 1 .. LineLen + 1]
  /\ lost \subseteq Chars

\* The characters of writer w in a sequence of characters, in their order.
OfWriter(seq, w) == SelectSeq(seq, LAMBDA c : c.w = w)

(* No character of uart_puts is lost or reordered although uart_putc's     *)
(* full test and its store are separate accesses: what each writer has     *)
(* stored so far is on the line or in the FIFO, in the order it was        *)
(* printed.  This needs the writers to take turns; uart_putc itself does   *)
(* nothing against another writer filling the FIFO between its read and    *)
(* its store.                                                              *)
LinesIntact ==
  \A w \in Writers :
    OfWriter(wire \o txfifo, w) = [k \in 1 .. pos[w] - 1 |-> Char(w, k)]

(* Every writer's uart_puts returns and the transmitter sends its whole    *)
(* line: the busy-wait of uart_putc ends because the transmitter drains    *)
(* the FIFO once uart_init has set TXEN.                                   *)
AllLinesSent ==
  <>(\A w \in Writers : Len(OfWriter(wire, w)) = LineLen)
==============================================================================
