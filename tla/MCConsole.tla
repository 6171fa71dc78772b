----------------------------- MODULE MCConsole -----------------------------
(* A three-byte buffer (lines of up to two characters), two printable      *)
(* characters so stale bytes can be told apart, a byte above 127 (where a  *)
(* sign-extended return would turn negative), a backspace, a control       *)
(* character, CR, and up to five characters per call: enough to fill the   *)
(* buffer, overflow it, erase and retype.  Two bytes of receive FIFO let   *)
(* the next line start arriving before readline has returned.              *)
EXTENDS Console

MCBufSize == 3
MCInputChars == {1, BS, CR, 65, 66, 200}
MCMaxTyped == 5
MCRxCap == 2
==============================================================================
