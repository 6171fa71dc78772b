------------------------------- MODULE MCUart -------------------------------
(* Three writers (ZERO_HART and two secondaries) each print a line of      *)
(* three characters through a FIFO of depth two, so writers wait on the    *)
(* full bit and the FIFO holds characters of two writers at once.  The     *)
(* clock settings are those main.c passes to uart_init.                    *)
EXTENDS Uart

MCWriters == {0, 1, 2}
MCTxCap == 2
MCLineLen == 3
MCInFreq == 0
MCBaudrate == 115200
==============================================================================
