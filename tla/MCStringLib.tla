---------------------------- MODULE MCStringLib ----------------------------
(* Four bytes of memory holding NUL, 'A' or 200: buffers of every length   *)
(* overlap in both directions, strings of every length end in a NUL, and   *)
(* memcmp meets a byte at or above 128.                                    *)
EXTENDS StringLib

MCMemSize == 4
MCBytes == {0, 65, 200}
MCMaxCmpLen == 3
==============================================================================
