------------------------------ MODULE UartFormat ------------------------------
(***************************************************************************)
(* The two conversions of devices/uart/uart.c: the hex digits uart_put_hex *)
(* prints, as byte values, and the clock divisor uart_init programs.       *)
(***************************************************************************)
EXTENDS Naturals, Sequences

\* Fault-injected variant: the quotient rounded down.
uart_min_clk_divisor_floor(in_freq, max_target_hz) ==
  LET quotient == in_freq \div max_target_hz
  IN  IF quotient = 0 THEN 0 ELSE quotient - 1

(* uart_min_clk_divisor(in_freq, max_target_hz): the quotient rounded up,  *)
(* minus one unless it is zero (the underflow guard).                      *)
uart_min_clk_divisor(in_freq, max_target_hz) ==
  LET quotient == (in_freq + max_target_hz - 1) \div max_target_hz
  IN  IF quotient = 0 THEN 0 ELSE quotient - 1

\* Fault-injected variant: the digit test c <= 0xa.
HexDigit_off_by_one(c) == IF c <= 10 THEN 48 + c ELSE 97 + c - 10

\* c < 0xa ? ('0' + c) : ('a' + c - 0xa)
HexDigit(c) == IF c < 10 THEN 48 + c ELSE 97 + c - 10

(* uart_put_hex(hex): "0x", then the nibbles of the 32-bit value from idx  *)
(* = 7 down to 0, nibble idx being (hex >> (idx * 4)) & 0xf.               *)
uart_put_hex(hex) ==
  <<48, 120>> \o [k \in 1 .. 8 |-> HexDigit((hex \div 2^(4 * (8 - k))) % 16)]
==============================================================================
