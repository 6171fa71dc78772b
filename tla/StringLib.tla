------------------------------ MODULE StringLib ------------------------------
(***************************************************************************)
(* The memory routines of libs/string.c on a small byte-addressed memory.  *)
(* memset, memcpy and memmove are store loops: a call computes its start   *)
(* pointers (memmove picks its copy direction), and every loop iteration   *)
(* is one step, so the result is built store by store exactly as the code  *)
(* does.  strlen and memcmp only read, and are recursive operators that    *)
(* follow their loops; they are compared with reference definitions on     *)
(* every memory the store loops produce.                                   *)
(***************************************************************************)
EXTENDS Naturals, Integers, SequencesExt

CONSTANTS MEM_SIZE,  \* bytes of the memory the routines work on
          Bytes,     \* byte values the memory may hold (0 .. 255)
          MaxCmpLen  \* longest memcmp compared with the reference

VARIABLES mem,   \* the memory, address -> byte
          pc,    \* "idle", or the loop the running call is in
          s,     \* the loop's source pointer
          d,     \* the loop's destination pointer
          n,     \* the loop's remaining count
          call   \* the last call: routine, arguments, memory before it

vars == <<mem, pc, s, d, n, call>>

Addr == 0 .. MEM_SIZE - 1

\* (dst, len) is a buffer of the memory.
Buffer(p, len) == p + len <= MEM_SIZE

Calls == {"none", "memset", "memcpy", "memmove"}

Init ==
  /\ mem \in [Addr -> Bytes]
  /\ pc = "idle"
  /\ s = 0 /\ d = 0 /\ n = 0
  /\ call = [op |-> "none", dst |-> 0, src |-> 0, c |-> 0, len |-> 0, pre |-> mem]

Enter(op, dst, src, c, len) ==
  call' = [op |-> op, dst |-> dst, src |-> src, c |-> c, len |-> len, pre |-> mem]

\* memset(s, c, n): p = s, then *p++ = c while n-- > 0.
memset(p, c, len) ==
  /\ pc = "idle"
  /\ Enter("memset", p, p, c, len)
  /\ pc' = "memset" /\ d' = p /\ n' = len
  /\ UNCHANGED <<mem, s>>

\* Fault-injected variant: the loop test n-- >= 0, one store too many.
memset_loop_past_end ==
  /\ pc = "memset" /\ n >= 0
  /\ mem' = [mem EXCEPT ![d] = call.c]
  /\ d' = d + 1 /\ n' = n - 1
  /\ UNCHANGED <<pc, s, call>>

memset_loop ==
  /\ pc = "memset" /\ n > 0
  /\ mem' = [mem EXCEPT ![d] = call.c]
  /\ d' = d + 1 /\ n' = n - 1
  /\ UNCHANGED <<pc, s, call>>

(* memcpy(dst, src, n): *d++ = *s++ while n-- > 0.  Overlapping buffers    *)
(* are undefined in C, so calls are made on disjoint ones only.            *)
memcpy(dst, src, len) ==
  /\ pc = "idle"
  /\ dst + len <= src \/ src + len <= dst
  /\ Enter("memcpy", dst, src, 0, len)
  /\ pc' = "memcpy" /\ s' = src /\ d' = dst /\ n' = len
  /\ UNCHANGED mem

\* One iteration of an upward copy loop.
CopyUp ==
  /\ n > 0
  /\ mem' = [mem EXCEPT ![d] = mem[s]]
  /\ s' = s + 1 /\ d' = d + 1 /\ n' = n - 1

memcpy_loop == pc = "memcpy" /\ CopyUp /\ UNCHANGED <<pc, call>>

\* Fault-injected variant: memmove without the overlap test, always upward.
memmove_always_up(dst, src, len) ==
  /\ pc = "idle"
  /\ Enter("memmove", dst, src, 0, len)
  /\ pc' = "memmove_up" /\ s' = src /\ d' = dst /\ n' = len
  /\ UNCHANGED mem

(* memmove(dst, src, n): if s < d && s + n > d the buffers overlap with    *)
(* the source first, so both pointers move past the end and the copy runs  *)
(* downward; otherwise it runs upward.                                     *)
memmove(dst, src, len) ==
  /\ pc = "idle"
  /\ Enter("memmove", dst, src, 0, len)
  /\ IF src < dst /\ src + len > dst
       THEN pc' = "memmove_down" /\ s' = src + len /\ d' = dst + len
       ELSE pc' = "memmove_up" /\ s' = src /\ d' = dst
  /\ n' = len
  /\ UNCHANGED mem

\* memmove, downward loop: *--d = *--s while n-- > 0.
memmove_down_loop ==
  /\ pc = "memmove_down" /\ n > 0
  /\ mem' = [mem EXCEPT ![d - 1] = mem[s - 1]]
  /\ s' = s - 1 /\ d' = d - 1 /\ n' = n - 1
  /\ UNCHANGED <<pc, call>>

\* memmove, upward loop: *d++ = *s++ while n-- > 0.
memmove_up_loop == pc = "memmove_up" /\ CopyUp /\ UNCHANGED <<pc, call>>

\* n-- > 0 fails: the routine returns.
Return ==
  /\ pc # "idle" /\ n = 0
  /\ pc' = "idle"
  /\ UNCHANGED <<mem, s, d, n, call>>

Next ==
  \/ \E p \in Addr, len \in 0 .. MEM_SIZE, c \in Bytes :
       Buffer(p, len) /\ memset(p, c, len)
  \/ \E dst, src \in Addr, len \in 0 .. MEM_SIZE :
       /\ Buffer(dst, len) /\ Buffer(src, len)
       /\ memcpy(dst, src, len) \/ memmove(dst, src, len)
  \/ memset_loop \/ memcpy_loop \/ memmove_down_loop \/ memmove_up_loop
  \/ Return

Spec == Init /\ [][Next]_vars

-----------------------------------------------------------------------------
(* The read-only routines.  A string is read from p up to its NUL; the     *)
(* loop of strlen counts until *s is '\0'.                                 *)
RECURSIVE strlen(_, _)
strlen(m, p) == IF m[p] = 0 THEN 0 ELSE 1 + strlen(m, p + 1)

\* Fault-injected variant: the difference of the bytes read as signed char.
SignedChar(b) == IF b >= 128 THEN b - 256 ELSE b

RECURSIVE memcmp_signed(_, _, _, _)
memcmp_signed(m, a, b, len) ==
  IF len = 0 THEN 0
  ELSE IF m[a] # m[b] THEN SignedChar(m[a]) - SignedChar(m[b])
  ELSE memcmp_signed(m, a + 1, b + 1, len - 1)

(* memcmp(v1, v2, n): at the first differing byte return the difference    *)
(* of the two bytes as unsigned char; 0 if the n bytes are equal.          *)
RECURSIVE memcmp(_, _, _, _)
memcmp(m, a, b, len) ==
  IF len = 0 THEN 0
  ELSE IF m[a] # m[b] THEN m[a] - m[b]
  ELSE memcmp(m, a + 1, b + 1, len - 1)

-----------------------------------------------------------------------------

TypeOK ==
  /\ mem \in [Addr -> Bytes]
  /\ pc \in {"idle", "memset", "memcpy", "memmove_down", "memmove_up"}
  /\ s \in 0 .. MEM_SIZE /\ d \in 0 .. MEM_SIZE /\ n \in 0 .. MEM_SIZE
  /\ call.op \in Calls

\* The bytes of (p, len) as a sequence.
Slice(m, p, len) == [i \in 1 .. len |-> m[p + i - 1]]

\* Reference: (dst, len) holds what (src, len) held before the call.
Moved(m, dst, src, len) ==
  [a \in Addr |-> IF a \in dst .. dst + len - 1 THEN m[src + a - dst] ELSE m[a]]

\* Reference: (p, len) holds c.
Filled(m, p, c, len) ==
  [a \in Addr |-> IF a \in p .. p + len - 1 THEN c ELSE m[a]]

(* memset, memcpy and memmove compute their reference result: once a call  *)
(* has returned, the destination holds the fill byte or the bytes the      *)
(* source held at the call, overlapping buffers included, and no byte      *)
(* outside the destination has changed.                                    *)
MemOpsMatchReference ==
  pc = "idle" /\ call.op # "none" =>
    mem = IF call.op = "memset"
            THEN Filled(call.pre, call.dst, call.c, call.len)
            ELSE Moved(call.pre, call.dst, call.src, call.len)

\* Reference: a byte string read as a base-256 number, most significant first.
Value(seq) == FoldLeft(LAMBDA acc, b : acc * 256 + b, 0, seq)

Sign(x) == IF x > 0 THEN 1 ELSE IF x < 0 THEN -1 ELSE 0

(* strlen and memcmp agree with their references on every memory the       *)
(* store loops reach: strlen is the position of the first NUL, and the     *)
(* sign of memcmp orders the two buffers as unsigned numbers, so a byte    *)
(* of 128 or more compares greater than every smaller byte.                *)
ReadOpsMatchReference ==
  /\ \A p \in Addr :
       LET t == SelectInSeq(Slice(mem, p, MEM_SIZE - p), LAMBDA b : b = 0)
       IN  t # 0 => strlen(mem, p) = t - 1
  /\ \A a, b \in Addr, len \in 0 .. MaxCmpLen :
       Buffer(a, len) /\ Buffer(b, len) =>
         Sign(memcmp(mem, a, b, len))
           = Sign(Value(Slice(mem, a, len)) - Value(Slice(mem, b, len)))
==============================================================================
