------------------------------- MODULE Console -------------------------------
(***************************************************************************)
(* readline of libs/console.c, called repeatedly as test_ipi does, and     *)
(* the receive path under it: getchar calls uart_getc (devices/uart) until *)
(* the UART's receive FIFO is not empty; the read of RXDATA dequeues the   *)
(* oldest byte and uart_getc returns it masked with 0xff, so every         *)
(* character is in 0 .. 255 and readline's c < 0 branch is never taken.    *)
(* The receiver is enabled, as uart_init leaves it.  The line              *)
(* buffer is static: it keeps its bytes from one call to the next, and a   *)
(* backspace only moves the index back, so stale bytes lie beyond it.  The *)
(* echo to the UART is not modelled.                                       *)
(***************************************************************************)
EXTENDS Naturals, SequencesExt

CONSTANTS BUFSIZE,     \* console.h BUFSIZE
          InputChars,  \* characters typed, as byte values
          MaxTyped,    \* bound on the characters typed in one call
          RXCAP        \* depth of the receive FIFO

VARIABLES buf,    \* static char buf[BUFSIZE]
          i,      \* readline's index into buf
          pc,     \* "idle" between calls, "reading" inside readline
          typed,  \* the characters getchar returned in the current call
          ret,    \* the string the last call returned
          rxfifo  \* bytes the UART has received and not yet delivered

vars == <<buf, i, pc, typed, ret, rxfifo>>

Index == 0 .. BUFSIZE - 1

BS == 8
LF == 10
CR == 13
SPACE == 32

\* The C string at buf: its bytes up to the first NUL.
CString(b) ==
  LET t == SelectInSeq([k \in 1 .. BUFSIZE |-> b[k - 1]], LAMBDA x : x = 0)
  IN  [k \in 1 .. t - 1 |-> b[k - 1]]

(* Nothing in the repository clears .bss, so the buffer's first contents   *)
(* are any bytes.                                                          *)
Init ==
  /\ buf \in [Index -> InputChars \cup {0}]
  /\ i = 0
  /\ pc = "idle"
  /\ typed = <<>>
  /\ ret = <<>>
  /\ rxfifo = <<>>

\* readline(NULL): no prompt, i = 0.
readline ==
  /\ pc = "idle"
  /\ pc' = "reading" /\ i' = 0 /\ typed' = <<>>
  /\ UNCHANGED <<buf, ret, rxfifo>>

(* The receiver (hardware): a byte arrives on the line and is queued.  The *)
(* operator types no faster than readline takes the bytes, so the FIFO     *)
(* never overruns.                                                         *)
uart_rx(c) ==
  /\ Len(rxfifo) < RXCAP
  /\ Len(typed) + Len(rxfifo) < MaxTyped
  /\ rxfifo' = Append(rxfifo, c)
  /\ UNCHANGED <<buf, i, pc, typed, ret>>

(* get_reg(UART_REG_RXDATA): the read dequeues the oldest byte; bit 31,    *)
(* UART_RXDATA_EMPTY, is set when there is none.                           *)
RXDATA == IF rxfifo = <<>> THEN [empty |-> TRUE, data |-> 0]
                           ELSE [empty |-> FALSE, data |-> Head(rxfifo)]

\* Fault-injected variant: the byte passed back through a signed char.
uart_getc_signed(reg) ==
  IF ~reg.empty THEN (IF reg.data >= 128 THEN reg.data - 256 ELSE reg.data)
                ELSE -1

\* uart_getc: reg & UART_RXDATA_MASK unless UART_RXDATA_EMPTY is set, else -1.
uart_getc(reg) == IF ~reg.empty THEN reg.data % 256 ELSE -1

(* getchar: uart_getc until it returns other than -1.  A call on an empty  *)
(* FIFO changes nothing; the call that finds a byte dequeues it and        *)
(* getchar returns c.  typed records the bytes the UART delivered.         *)
getchar(c) ==
  /\ pc = "reading"
  /\ rxfifo # <<>>
  /\ c = uart_getc(RXDATA)
  /\ c # -1
  /\ rxfifo' = Tail(rxfifo)
  /\ typed' = Append(typed, Head(rxfifo))

\* Fault-injected variant: the room test i < BUFSIZE.
readline_store_past_end(c) ==
  /\ getchar(c)
  /\ c >= SPACE /\ i < BUFSIZE
  /\ buf' = [buf EXCEPT ![i] = c]
  /\ i' = i + 1
  /\ UNCHANGED <<pc, ret>>

\* c >= ' ' && i < BUFSIZE - 1: echo it and buf[i++] = c.
readline_store(c) ==
  /\ getchar(c)
  /\ c >= SPACE /\ i < BUFSIZE - 1
  /\ buf' = [buf EXCEPT ![i] = c]
  /\ i' = i + 1
  /\ UNCHANGED <<pc, ret>>

\* c == '\b' && i > 0: echo it and i--.
readline_backspace(c) ==
  /\ getchar(c)
  /\ ~(c >= SPACE /\ i < BUFSIZE - 1)
  /\ c = BS /\ i > 0
  /\ i' = i - 1
  /\ UNCHANGED <<buf, pc, ret>>

\* Fault-injected variant: returning without terminating the line.
readline_return_unterminated(c) ==
  /\ getchar(c)
  /\ ~(c >= SPACE /\ i < BUFSIZE - 1) /\ ~(c = BS /\ i > 0)
  /\ c \in {LF, CR}
  /\ pc' = "idle"
  /\ ret' = CString(buf)
  /\ UNCHANGED <<buf, i>>

\* c == '\n' || c == '\r': echo it, buf[i] = '\0', return buf.
readline_return(c) ==
  /\ getchar(c)
  /\ ~(c >= SPACE /\ i < BUFSIZE - 1) /\ ~(c = BS /\ i > 0)
  /\ c \in {LF, CR}
  /\ buf' = [buf EXCEPT ![i] = 0]
  /\ pc' = "idle"
  /\ ret' = CString(buf')
  /\ UNCHANGED i

\* Any other character: a control character, a printable one with the
\* buffer full, or a backspace at the start of the line; it is dropped.
readline_ignore(c) ==
  /\ getchar(c)
  /\ ~(c >= SPACE /\ i < BUFSIZE - 1) /\ ~(c = BS /\ i > 0)
  /\ c \notin {LF, CR}
  /\ UNCHANGED <<buf, i, pc, ret>>

Next ==
  \/ readline
  \/ \E c \in InputChars : uart_rx(c)
  \/ LET c == uart_getc(RXDATA) IN
       \/ readline_store(c) \/ readline_backspace(c)
       \/ readline_return(c) \/ readline_ignore(c)

Spec == Init /\ [][Next]_vars

-----------------------------------------------------------------------------

TypeOK ==
  /\ buf \in [Index -> InputChars \cup {0}]
  /\ i \in Index
  /\ pc \in {"idle", "reading"}
  /\ typed \in Seq(InputChars)
  /\ ret \in Seq(InputChars)
  /\ rxfifo \in Seq(InputChars) /\ Len(rxfifo) <= RXCAP

(* Reference line editor: printable characters are appended while the line *)
(* is shorter than BUFSIZE - 1, a backspace removes the last character     *)
(* kept, anything else is dropped.                                         *)
Edit(line, c) ==
  IF c >= SPACE /\ Len(line) < BUFSIZE - 1 THEN Append(line, c)
  ELSE IF c = BS /\ line # <<>> THEN Front(line)
  ELSE line

(* The string readline returns is the edit of what was typed in that call, *)
(* never longer than BUFSIZE - 1: the bytes left in the static buffer by   *)
(* earlier calls and by characters erased with backspace never show up in  *)
(* it.  This bounds what test_ipi copies into the SMP page.                *)
LineIsEditOfInput ==
  pc = "idle" /\ typed # <<>> =>
    ret = FoldLeft(Edit, <<>>, SubSeq(typed, 1, Len(typed) - 1))
==============================================================================
