---------------------------- MODULE MCUartFormat ----------------------------
(* The conversions of UartFormat checked against reference definitions,    *)
(* one input per state.  uart_put_hex is checked on the values main prints *)
(* (to_hartid 1 .. 4 and 0x12345678), on each digit boundary and on the    *)
(* largest value TLC's integers hold; uart_min_clk_divisor on every clock  *)
(* up to 12 and rate up to 4, exact multiples included (a rate of 0 would  *)
(* divide by zero and is never passed).                                    *)
EXTENDS UartFormat, SequencesExt

VARIABLES hex,           \* the argument of uart_put_hex
          in_freq,       \* the arguments of uart_min_clk_divisor
          max_target_hz

vars == <<hex, in_freq, max_target_hz>>

HexInputs == {0, 1, 2, 3, 4, 9, 10, 15, 16, 255, 256, 305419896, 2147483647}

Init ==
  /\ hex \in HexInputs
  /\ in_freq \in 0 .. 12
  /\ max_target_hz \in 1 .. 4

Next == UNCHANGED vars

Spec == Init /\ [][Next]_vars

\* Reference: the lower-case hex digits, and the value of a string of them.
HexDigits == <<48, 49, 50, 51, 52, 53, 54, 55, 56, 57, 97, 98, 99, 100, 101, 102>>

ParseHex(seq) ==
  FoldLeft(LAMBDA acc, ch : acc * 16 + SelectInSeq(HexDigits, LAMBDA x : x = ch) - 1,
           0, seq)

(* uart_put_hex prints "0x" and exactly eight hex digits, which read back  *)
(* as the value printed (main prints to_hartid and 0x12345678 with it).    *)
HexRoundTrip ==
  LET out == uart_put_hex(hex)
  IN  /\ Len(out) = 10 /\ SubSeq(out, 1, 2) = <<48, 120>>
      /\ \A k \in 3 .. 10 : out[k] \in ToSet(HexDigits)
      /\ ParseHex(SubSeq(out, 3, 10)) = hex

(* The divisor uart_init would program is the least one whose clock does   *)
(* not exceed the target: in_freq / (div + 1) <= max_target_hz, and with   *)
(* div - 1 it would (the quotient is rounded up, not down).                *)
DivisorIsMinimal ==
  LET div == uart_min_clk_divisor(in_freq, max_target_hz)
  IN  /\ in_freq <= max_target_hz * (div + 1)
      /\ div > 0 => in_freq > max_target_hz * div
==============================================================================
