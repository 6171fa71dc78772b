# TLA+ models of the tCore SBI firmware

The repository has bare-metal RISC-V machine-mode firmware (`src/sbi`). This
directory holds TLA+ models of its inter-hart signalling, and TLC
configurations that check them. The signalling has two parts: the boot
rendezvous and the IPI/mailbox test loop.

## Inventory

| Component | Source | State | Operations |
|---|---|---|---|
| CLINT software interrupts | `devices/clint/clint.c`, `clint.h` | One msip word per hart (only bit 0 is implemented). Also `mtime` and `mtimecmp`, which the firmware never uses. | `clint_send_soft`, `clint_clear_soft`, `clint_check_soft`, `clint_init`. The timer calls exist but are unused. |
| Boot rendezvous | `include/smp.h` (`smp_pause`, `smp_resume`) | Per hart: `mie`, `reg1` (an index into the msip words) and its position in the macro. | Park; broadcast; wfi-wait; acknowledge; poll. |
| IPI / mailbox loop | `main.c` (`main`, `test_ipi`, `other_main`, `wait_ipi`), `include/mem.h` | The shared page at `SMP_ADDR` (4 KiB). Hart 0 also holds its `to_hartid`. | Hart 0: read the target and the message, `memcpy` into the page, raise the target's msip, then `wait_ipi`. Secondaries: `wait_ipi`, print the page, raise msip 0. |
| Console | `libs/console.c` | A static 1024-byte line buffer. | `getchar`, `readline`: backspace, the `BUFSIZE-1` cap, stop at CR/LF. |
| String library | `libs/string.c` | None. | `strlen`, `memset`, `memmove`, `memcpy`, `memcmp`. |
| UART | `devices/uart/uart.c` | The UART registers. | `uart_putc` (busy-waits on TX full), `uart_getc`, `uart_init`, `uart_puts`, `uart_put_hex`. |
| Register I/O | `include/io.h`, `include/riscv.h` | None. | `readX`/`writeX` with fences (`fence i,r` after reads, `fence w,o` before writes). CSR macros and `wfi`. |
| Trap frame | `trap/trap.h` | Saved registers and cause. | None: `trap_handler` is empty. |

How the parts interact:
- The harts run truly in parallel and share only two things: the CLINT msip words and the SMP page. All of them also write to the one UART.
- Every hart resets into `smp_pause`. This sets `mie = MIP_MSIP`. Every hart except hart 0 then branches to label `42` inside `smp_resume`.
- Hart 0 falls into `smp_resume`. It stores 1 into msip 0, 1, …, `MAX_HARTS-1`, in that order, and then goes to `42` as well.
- At `42` a hart waits with `wfi` until its own `mip.MSIP` is set. It then clears its msip and polls every msip word, from 0 upwards, until each one reads 0.
- The entry code that calls the macros, and then `main` or `other_main`, is not in the repository. The spec describes that order, and it is assumed here.
- `mstatus.MIE` is never set. Interrupts are only ever observed by polling `mip` after `wfi`, and no trap is ever taken.

What makes this hard:
- The harts interleave with no lock. They synchronise only through the msip words.
- Every wait is unbounded. There is no timeout.
- All the harts poll the msip words, not only hart 0, and they keep doing so while hart 0 has already started sending messages.
- The page is read and written with plain loads and stores, and memory is weakly ordered (RVWMO). The only ordering comes from the fences in the register accessors: `fence w,o` before every `writew` store and `fence i,r` after every `readw` load.
- Every hart prints through the one UART, and `uart_putc` has no lock.

What makes each part correct:
- **Rendezvous.** No hart leaves before every hart has acknowledged its wake, and every hart eventually leaves.
- **Mailbox.** A receiver prints exactly the message sent to it, never a torn page or another round's message. No IPI is lost, and every send is answered. `Mailbox` states this as an abstract specification: one round at a time, send, deliver once, answer.
- **Console.** A returned line has fewer than `BUFSIZE` characters, so it fits the SMP page.
- **String library.** Each routine matches its reference definition. This includes `memmove` on overlapping buffers.
- **UART.** No character is dropped or reordered, and every line is eventually sent. This holds only because the harts take turns, and the IPI handshake is what makes them. The hex and divisor conversions are exact.

## Modules

| Module | Models | Composes |
|---|---|---|
| `Clint` | The msip register file: `clint_check_soft`, `clint_send_soft`, `clint_clear_soft`. | — |
| `BootBarrier` | The abstract promise of the rendezvous. A hart arrives; nobody is released until all have arrived. With fairness, everyone is released. | — |
| `SmpBarrier` | `smp_pause` and `smp_resume`, one action per store or poll that is visible to other harts. It refines `BootBarrier` (see the mapping below). | `Clint` |
| `Mailbox` | The abstract promise of the mailbox. The sender posts one round for one receiver; the receiver delivers exactly that message once; the sender sees the answer before it posts again. | — |
| `SbiSmp` | The whole protocol: the rendezvous, then `main`/`test_ipi` on hart 0 and `other_main` on the others, with `wait_ipi`. It refines `Mailbox`. | `SmpBarrier`, `Clint`, `Mailbox` |
| `Console` | `readline`, one action per branch of the loop, over the static buffer that keeps stale bytes between calls. Under it, `getchar` calls `uart_getc`, which reads RXDATA and takes a byte off the UART's receive FIFO; the receiver that fills the FIFO is the device's. | — |
| `Uart` | `uart_init`, `uart_puts` and `uart_putc` (the full-bit poll, its spin, and the store into TXDATA), for several writers. Also the transmit FIFO and the transmitter, which the device provides. | `UartFormat` |
| `UartFormat` | `uart_put_hex`'s digits and `uart_min_clk_divisor`, as operators. | — |
| `StringLib` | `memset`, `memcpy`, `memmove` as store loops (one step per iteration), and `strlen`, `memcmp` as recursive operators following their loops. | — |
| `MCSmpBarrier`, `MCSbiSmp`, `MCSbiSmpBooted`, `MCConsole`, `MCStringLib`, `MCUart` | The constants for TLC. | — |
| `MCUartFormat` | Checks the two conversions against reference definitions. Each state holds one input. | `UartFormat` |

How `SmpBarrier` corresponds to the code:
- `pc[h]` is the hart's point in the macros. `"resume"` is the first loop `41`, `"park"` is loop `42`, and `"sweep"` is the second loop `41`.
- `idx[h]` is `reg1` expressed as a hart index.
- `mie[h]` is `mie.MSIE`.
- A loop iteration that changes nothing (a `wfi` spin, or a poll that reads 1) is a stuttering step, so it is left out.
- The refinement mapping to `BootBarrier`:
  - a hart has *arrived* once it has cleared its own msip (`pc` is `"sweep"` or later);
  - it is *released* once it is past the macro.

How `SbiSmp` corresponds to the code:
- `mbox` is the SMP page as the other harts see it.
- Memory is weakly ordered, modelled this way:
  - `test_ipi_copied` executes `memcpy`'s stores into hart 0's buffer, so `pending` becomes TRUE.
  - `page_drain` makes the stores visible, first some of them (the page is `Torn`) and then all of them.
  - `io_bw`, the `fence w,o` at the head of every `writew`, lets the msip store happen only once `pending` is FALSE.
  - `seen[h]` holds every value the page has had since hart `h`'s last `fence i,r`. Hart `h`'s next page load may return any of them.
  - `io_ar(h)` is the `fence i,r` after a `readw`. It resets `seen[h]` to the current page.
- The secondary runs `io_ar` in `other_main_puts`: the two `puts` calls at `main.c:115-116`, whose `uart_putc` reads TXDATA through `readw`.
  - This rests on one assumption: a device load is not performed speculatively, so it follows the `csrr mip` that ended the wait.
  - `wait_ipi` itself has no fence.
- The secondary's page loads complete before its answer. Each loaded byte decides the loop of `uart_puts`, and RVWMO keeps a control dependency from a load to a later store. So the next round's stores cannot be read by this round.
- `tx` is hart 0's `to_hartid` and the message of the current round.
- `rx[h]` is what hart `h` last printed from the page.
- `readline` is abstracted to the line it returns:
  - the first character of the target line comes from `InputChars`: NUL (an empty line), or a digit from '0' to '`MAX_HARTS`';
  - the message comes from `Msgs`.
- `ToHartid` does the `- '0'` arithmetic and the size_t wrap. `SIZE_T_WRAP` is reduced to 2^30 so that it fits in TLC's integers. The range check compares only against `MAX_HARTS-1`, so any wrap value of at least 2^8 gives the same verdict.
- The refinement mapping to `Mailbox`:
  - `round` is `tx`, and `delivered` is `rx` of the secondaries;
  - the round is *sent* from the moment `test_ipi` accepts a line (`t_copy`) until the target has printed;
  - it is *delivered* once the target has printed (`o_send`) or answered (msip 0 set) while hart 0 waits;
  - it is *idle* once hart 0 has left `wait_ipi`.
- `wait_ipi` merges reading `mip.MSIP` with the following clear. Only the hart itself ever clears its msip, so a store of 1 by another hart between the two steps ends the same way in either order.

## Runs

| Run | cfg | Expect | What it shows |
|---|---|---|---|
| `barrier` | `MCSmpBarrier.cfg` | pass | With 4 harts, `SmpBarrier` implements `BootBarrier!Spec`, safety and liveness (`BarrierRefines`). This holds even though secondaries poll the msip words too. |
| `ipi` | `MCSbiSmp.cfg` | pass | All of these hold over weakly ordered memory:<br>- `MailboxIntegrity`: a secondary about to answer is the target of the current round and printed exactly its message.<br>- `UartExclusive`: two harts never print at the same time.<br>- `MailboxRefines`: the firmware implements `Mailbox!Safety`. Each round is delivered once, by its target, with the copied message, and the next round starts only after the answer.<br>- `RoundAnswered`: once the target waits in `other_main`'s loop with its msip set, hart 0 eventually leaves `wait_ipi`. |
| `lost_ipi` | `MCSbiSmpLost.cfg` | violation | `IpiNeverLost` fails. Hart 0 leaves the rendezvous and sends to hart 1 before hart 1 runs `other_main`, whose `clint_clear_soft(hartid)` (`main.c:110`) erases the IPI. Both harts then wait forever. |
| `console` | `MCConsole.cfg` | pass | `LineIsEditOfInput`: over repeated calls, `readline` returns exactly the edit of the bytes the UART received, as `uart_getc` takes them off the receive FIFO (append while there is room, backspace removes the last kept character). The line is never longer than `BUFSIZE-1`, and no stale byte of the static buffer leaks into it. `CHECK_DEADLOCK FALSE`: `getchar` really may wait forever. |
| `stringlib` | `MCStringLib.cfg` | pass | `MemOpsMatchReference`: after `memset`, `memcpy` or `memmove` returns, memory is the reference result, including `memmove` on buffers that overlap in either direction. `ReadOpsMatchReference`: `strlen` is the position of the first NUL, and the sign of `memcmp` orders the buffers as unsigned base-256 numbers. |
| `uart` | `MCUart.cfg` | pass | `LinesIntact`: three writers that take turns lose no character, and none is reordered, although the FIFO fills while a writer waits. `AllLinesSent`: every line is eventually transmitted once `uart_init` has set TXEN. |
| `uart_race` | `MCUartRace.cfg` | violation | `LinesIntact` fails when the writers do not take turns. Two writers read "not full" and both store, and the device ignores the second store. |
| `uart_format` | `MCUartFormat.cfg` | pass | `HexRoundTrip`: `uart_put_hex` prints `0x` and eight lower-case digits, which read back as the value. `DivisorIsMinimal`: `uart_min_clk_divisor` is the least divisor whose clock does not exceed the target. The firmware never reaches it, because both callers pass `in_freq` 0 (`DEFAULT_UART_FREQ`). The check is about the driver, for a caller that passes a real clock. |
| `sweep_hang` | `MCSbiSmpHang.cfg` | violation | `BarrierLeft` fails. Hart 1 is still polling the msip words when hart 0 raises msip 1 for a message. Hart 1 spins on its own bit (`smp.h:63`) and hart 0 waits forever. |
| `ipi_booted` | `MCSbiSmpBooted.cfg` | pass | With the real five harts, and with the operator typing the first line only once every secondary waits in `other_main`'s loop (`OperatorAfterBoot`): `EveryRoundAnswered` holds: every round `test_ipi` starts is answered end to end (page drain, send, take, print, answer), so the test loop goes on for good. The boot races of `lost_ipi` and `sweep_hang` are excluded by the guard, so this run is about the handshake itself. |

The `ipi` runs use `CHECK_DEADLOCK FALSE`. The firmware really can stop, for the two reasons above, and the test loop is cut off after `MaxRounds` rounds.

**Mutants.** Every property of a passing run is shown to fail on a plausible bug of the code it covers. Each bug is defined in the modules as a fault-injected variant:
- the raising loop runs one word past `CLINT_END_HART_IPI` (breaks `TypeOK`);
- it raises the harts in decreasing order (breaks `BarrierRefines`);
- the range check on `to_hartid` is off by one (breaks `TypeOK`);
- `readw` has no trailing `fence i,r` (breaks `MailboxIntegrity`);
- `writew` has no leading `fence w,o` (also breaks `MailboxIntegrity`: the target can read a torn page);
- `other_main` answers as soon as it takes the IPI, before printing (breaks `UartExclusive`);
- `uart_puts` steps over the NUL (breaks `TypeOK` of `uart`);
- `uart_putc` skips its busy-wait (breaks `LinesIntact`);
- `uart_init` omits the TXCTRL store (breaks `AllLinesSent`);
- `uart_put_hex`'s digit test is `c <= 0xa` (breaks `HexRoundTrip`);
- the divisor quotient is rounded down (breaks `DivisorIsMinimal`);
- `readline`'s room test is `i < BUFSIZE` (breaks `TypeOK`);
- `readline` returns without storing the NUL (breaks `LineIsEditOfInput`);
- `memset`'s loop test is `n-- >= 0` (breaks `TypeOK`);
- `memmove` has no overlap test (breaks `MemOpsMatchReference`);
- `memcmp` compares signed chars (breaks `ReadOpsMatchReference`);
- `test_ipi` goes on without waiting for the answer (breaks `MailboxRefines`);
- `other_main` sends the answer to its own msip (breaks `RoundAnswered`);
- `wait_ipi` clears msip before its loop instead of after it, so an answer that is already there is erased (breaks `EveryRoundAnswered`);
- `uart_getc` passes the byte back through a signed char (also breaks `LineIsEditOfInput`: byte 200 becomes negative and is dropped).

**The mailbox read has no fence of its own.** The spec's register contract puts a read-ordering fence after the pending-bit check. `wait_ipi` reads `mip` with a plain `csrr` and no fence. The page loads are still ordered, but only through the `readw` fences of the two `puts` calls that happen to come first. The `readw` mutant shows that integrity breaks without them.

**The spec is wrong about the broadcast order.** It says the order "has no correctness effect". In the code it does: secondaries poll msip 0 first, and only hart 0's own bit (raised first, cleared last) keeps them from reading a 0 that simply has not been raised yet.

### Bounds

| Model | Bounds | Why they are enough |
|---|---|---|
| `barrier` | 4 harts | A secondary polls words of both lower and higher harts than itself. |
| `ipi_booted` | 5 harts (`MAX_HARTS`), 2 messages, 3 rounds | The real hart count, so every target id that `test_ipi` accepts occurs. |
| `ipi` | 3 harts, 2 messages, 3 rounds | Two targets exist, so two rounds can go to the same hart or to different harts. Secondaries can still be in the rendezvous when the first round starts. |
| `console` | `BUFSIZE` = 3, 5 characters per call, characters {control, BS, CR, 'A', 'B', 200}, receive FIFO of 2, any initial buffer | Fills the buffer, overflows it, erases and retypes, and reuses a buffer that holds stale bytes. Bytes of the next line can wait in the FIFO while `readline` returns, and a byte above 127 tests `uart_getc`'s mask. |
| `uart` | 3 writers, FIFO depth 2, lines of 3 characters | The FIFO fills while a writer waits, and it holds the characters of two writers at once. |
| `uart_format` | the hex values main prints, the digit boundaries, 2^31-1; clocks 0..12, rates 1..4 | Every nibble value and every remainder of the divisor occur. Values of 2^31 and above do not fit in TLC's integers. |
| `stringlib` | 4 bytes, values {0, 'A', 200}, `memcmp` up to 3 bytes | Every overlap of two buffers occurs, and a byte at or above 128 is compared. |

### Fairness

Each hart is a separate core, so every hart that can execute its next instruction eventually does. This is weak fairness per hart. Stuck polls and `wfi` loops are left out as stuttering steps, so weak fairness does not force progress on a bit that stays set. For the console, the operator is assumed to eventually type the next line. In `ipi_booted` the operator's input is also held back until the boot is over (a guard, not a fairness condition): a person at the console types seconds after reset, while the boot takes microseconds. That run shows the hangs come only from input during the boot. `RoundAnswered` uses only the per-hart fairness: the target takes its pending IPI, prints and answers, and hart 0 takes the answer. Buffered stores eventually become visible (`WF` of `page_drain`). The transmitter shifts out a character on every baud tick while TXEN is set (`WF` of `uart_tx`).

### Assumptions and omissions

- **Memory model.** Only `SbiSmp` models weak ordering, and only for the page, which is the one location written with plain stores and read by another hart. The msip words are device registers, accessed in program order. A hart's stores to the UART and to the CLINT are assumed to perform in program order too. `fence w,o` does not order one device store after another, so this is a platform assumption about its I/O regions. Without it, hart 0 could start printing before the secondary's last character has reached the UART (listed as a hazard with no property). The other modules are single-threaded, or (for `Uart`) device-only.
- **UART device behaviour.** A store into a full TX FIFO is ignored. The control registers are zero at reset, so the transmitter is off until `uart_init`. A read of RXDATA dequeues the byte it returns. The receive FIFO never overruns: the operator types no faster than `readline` consumes, since each byte is echoed at the same baud rate.
- **Not modelled:**
  - the timer registers (`clint_get_mtime`, `clint_set_timecmp`). They are never called, and the only promise about them (successive reads do not decrease) follows from the counter alone, because `readd` is one 64-bit load;
  - `smp_disable`;
  - `smp_memcpy` (never called);
  - the trap frame, which is pure layout, with `trap_handler` empty and `mstatus.MIE` never set;
  - `readline`'s echo;
  - the unused `__intr_save`/`__intr_restore`;
  - the register accessors that no modelled path calls (`readb`/`readh`/`readd`, `writeb`/`writeh`/`writed`, `swap_csr`, `clear_csr`), and the constant tables of `riscv.h` and `common.h`. The callers of the byte and 64-bit accessors are `smp_memcpy` and the timer calls, which are never called themselves. This is why the CLINT and register-I/O components are only partly modelled.
- `puts`' "[HART n]" prefix is part of the abstract line a writer prints.
- **`readline` and DEL.** `readline` treats DEL (127, which many terminals send for the backspace key) as a printable character, because its test is `c >= ' '`. `Console` keeps that behaviour.

## Plan

1. Done: `Clint`, `SmpBarrier` refining `BootBarrier`, and the `barrier` run.
2. Done: `SbiSmp`, which composes the rendezvous with the IPI loop, plus the runs `ipi`, `lost_ipi` and `sweep_hang`.
3. Done: `SbiSmp` liveness. Every round is answered (`EveryRoundAnswered`) when the operator types after the boot (`ipi_booted`). Otherwise `lost_ipi` and `sweep_hang` show the two ways it fails.
4. Done: `Console` (`readline`) and the `console` run.
5. Done: `StringLib` and the `stringlib` run.
6. Done: `Uart`, `UartFormat`, and the runs `uart`, `uart_race` and `uart_format`.
7. Done: weak memory ordering of the page in `SbiSmp`, with the fences of `readw` and `writew`.
8. Done: `Mailbox`, refined by `SbiSmp` (`MailboxRefines`), and the liveness `RoundAnswered`.
9. Done: the receive path, `uart_getc` feeding `getchar` from the RX FIFO.
