# Verification of the Nios V software of the Altera workshops

The repository is a set of laboratory exercises for the AXC3000 board. Most of
its files are generated hardware, documents and images. The code with behaviour
worth proving runs on the Nios V soft processor: the board support package
(BSP) of `axc3000/NIOSV_lab/software/bsp`, and the camera applications of the
MIPI and ONE AI labs, which are linked with it. It has what makes small systems
hard: interrupt handlers that share rings, shadow registers, message buffers
and lists with the program without locks, 64-bit values accessed in halves, and
waits that end only because somebody else does something.

This directory models that code in TLA+, checks the models with TLC on small
instances, and proves what matters most about them with TLAPS, for every value
of the constants. `PROJECT.json` lists components, runs, mutants, hazards and
theorems, and maps every definition to the lines it translates. Paths below are
relative to `src/axc3000/NIOSV_lab/software/bsp/` unless they start with
`axc3000/`; the camera programs are called `mipi`
(`axc3000/MIPI_CSI2_lab/software/mipi_app/niosv_mipi_mira220.c`) and `oneware`
(`axc3000/OneWare_AI_lab/software/OneWare_app/niosv_mira220.c`).

## The system

The BSP is built single-threaded (`ALT_SINGLE_THREADED`): one program, and
interrupt handlers that preempt it. Interrupts are not nested: a handler runs
to its end before the program, or another handler, goes on. `Interrupts` checks
that; the other modules take it from there.

| Component | State | Operations | Modelled in |
|---|---|---|---|
| LW UART driver | two byte rings, shadow of the control register, callbacks | write, read, close, set_trbk, init_eh, init_eop; the handler | `LwUart` |
| JTAG UART driver | two byte rings, interrupt enables, host-presence counter | write, read, close, ioctl; the handler; an alarm once a second | `JtagUart` |
| Small drivers | registers only | polled write and read of both UARTs | `Polled` |
| HAL files | device list, 32 descriptors, high-water mark | boot, open, close, TIOCEXCL/TIOCNXCL | `Files` |
| Calls on descriptors | flags, termios, putbuf | read, write, fstat, isatty, lseek, fcntl, ioctl, putchar and its kin, in every build | `Calls` |
| HAL clock | machine timer, tick count, alarm list | handler, alt_alarm_start/stop, usleep | `Clock` |
| Time of day | reset time | gettimeofday, settimeofday, times | `TimeOfDay` |
| Interrupt dispatch | handler table, mie, mip, mstatus | trap entry in two modes, registration, enabling, critical sections | `Interrupts` |
| CLIC | registers of four bytes behind MISELECT | level, priority, attributes, enable | `Clic` |
| Profiler and heap | arcs, slabs, histogram, heap end | mcount, sampler, sbrk | `Profile` |
| Log | the JTAG UART's FIFO | messages of main and of two handlers | `Log` |
| Number formatters | | alt_printf, the log's formatter, the camera's | `Text` |
| DFL walker | stack of parents, interface table | walk of a list in hardware | `Dfl` |
| Start-up, exit | sections, interrupt enables, driver states | crt0, alt_load, alt_main, alt_sys_init twice, exit, kill | `Startup` |
| Caches | lines of a write-back cache | flushes, ECC registration | `Cache` |
| Camera applications | exposure index, wData, sensor registers, frame writer | set-up, commands, button, frames | `Camera` |
| Everything else | | generated hardware, wiring, display scripts, stubs | no |

How they interact:

- The program calls `open`, `read`, `write`, `ioctl`, `close` of the HAL, which
  calls the driver through the descriptor's device. Nothing below the HAL knows
  about descriptors, except for the flag `O_NONBLOCK`.
- A driver and its handler share the rings. The program moves one index of each
  ring, the handler the other; both change the interrupt enables.
- The timer handler calls `alt_tick()`, which calls the alarms; the JTAG UART's
  host detection is one of them, and the profiler's sampler another, so that
  they run inside the timer handler.
- `alt_main()` enables interrupts, then calls `alt_sys_init()`, then
  `alt_io_redirect()`, then `main()`. `main()` of two of the programs calls
  `alt_sys_init()` again (`axc3000/NIOSV_lab/software/app/main.c:13`,
  `mipi:1014`).
- The drivers are initialised before the timer, so that in this BSP the JTAG
  UART's alarm is refused (`-ENOTSUP`) and its host detection does not work: a
  second `alt_sys_init()` starts the alarm, but the time limit stays at INT_MAX.
- The camera programs talk to the sensor over I2C through `poke()` and
  `peek()`, which build their message in one global array; the button's handler
  calls them too.

What makes each correct:

- *UART drivers*: each direction is a FIFO under every interleaving; an
  interrupt that is needed is never off for good; a call that waits returns
  when what it waits for has happened.
- *Files and calls*: a device locked with `TIOCEXCL` has one user; a failed
  `open()` leaves no trace; every device can be found and every search ends; a
  descriptor moves no data against the way it was opened.
- *Clock, time of day*: no torn value is acted upon, the clock neither stops
  nor ticks early, an alarm is called in the tick it is due in, and how far the
  time reported may be off.
- *Interrupts, CLIC*: registration is atomic to the handlers, critical sections
  nest, every request is served, no call disturbs a neighbouring line.
- *Camera*: the sensor exposes for the time chosen, a dump reads one frame,
  outputs are shown under their own numbers.
- *The rest*: no interrupt during start-up does harm, no call is missing from
  the profile, blocks of the heap do not overlap, a flush reaches memory, the
  log loses nothing but what is named, numbers are printed as numbers.

## The modules

    Ring          rings: succ, full, contents      DataTheorems
    ByteChannel   a bounded FIFO, byte by byte
    LwUart        the LW UART driver and its core  LwUartProofs     MCLwUart, MCLwDirections
    BlockChannel  a bounded FIFO, in blocks
    JtagUart      the JTAG UART driver, its core   JtagUartProofs   MCJtagOneWay
                  and the host
    Llist         alt_llist.h: insert, remove,     DataTheorems
                  walk
    DeviceLocks   exclusive use of devices
    Files         the HAL's files and boot         FilesProofs      MCFiles
    Clock         timer, ticks, alarms, sleep      ClockProofs      MCClock
    Camera        both camera programs             CameraProofs     MCCamera
    Registry      what the interrupt API promises
    Interrupts    traps, dispatch, registration    HalProofs        MCHal
    ClicLines     what the CLIC calls promise
    Clic          the CLIC calls                   HalProofs        MCHal
    Calls         calls on descriptors, ioctl      HalProofs        MCHal
    Polled        the small drivers                HalProofs        MCHal
    Profile       profiler and sbrk                MemoryProofs     MCHal
    TimeOfDay     gettimeofday and its kin         HalProofs        MCHal
    Log           the log                          HalProofs        MCHal
    Text          number formatters                                 MCHal
    Dfl           device feature lists                              MCHal
    Startup       reset, exit, both initialisations HalProofs       MCHal
    Cache         the flushes                      MemoryProofs     MCHal

The third column names the module with the proofs, the fourth the one with the
run. `DataTheorems` has the lemmas several of them need.

`ByteChannel`, `BlockChannel`, `DeviceLocks`, `Registry` and `ClicLines` are
the abstract specifications; `LwUart`, `JtagUart`, `Files`, `Interrupts` and
`Clic` instantiate them with a refinement mapping at the end of the module.

### Ring

Both drivers use the same ring: `start` (moved by the consumer), `end` (moved
by the producer), one slot always empty. `Contents` is the data, oldest first.
The LW UART wraps an index with `& mask`, which is `% depth` because its depth
is a power of two (`DepthAssumption`); the JTAG UART uses `%`.

### LwUart

A step of the program or the handler is one access to something the other side
changes: a volatile index, the shadow word `ctrl`, a device register.

- `pc` is where the program is: `w_check .. w_done` in `intel_lw_uart_write`,
  `r_loop .. r_done` in `intel_lw_uart_read`, `c_wait` in `close`, `o_*` in the
  three control calls, whose read-modify-write of `ctrl` is not protected and
  therefore is three steps. `write_enable_interrupt` and
  `read_enable_interrupt` run with interrupts off and are one step.
- `ipc` is where `intel_lw_uart_irq` is. Within it the core goes on: STATUS may
  change between any two reads, and does so in the model.
- `control`, `sticky`, `cts`, `txlevel`, `rxfifo` are the core, modelled from
  how the driver uses it (marked external). `sticky` are the flags that stay
  until STATUS is written.
- A byte is its position in the stream. `accepted`, `sent`, `arrived`, `saved`,
  `delivered`, `lost`, `bad` are history.

`MCLwDirections` chooses in the initial state whether the program only writes
(and breaks, closes and registers callbacks), only reads, or does both: rings
deep enough to fill and wrap, with liveness, have too many states in both
directions at once.

### JtagUart

As above. `write()` copies blocks: `W_Space` reads the indices and computes the
run that fits, `W_Copy` fills it, `W_Publish` moves `tx_in`. When it gives up on
an absent host it returns what it has queued, or `-EIO`, and leaves the ring as
it is (`altera_avalon_jtag_uart_write.c:195-210`). The reset of the ring at
`:199-208` is compiled in only with
`ALTERA_AVALON_JTAG_UART_IGNORE_FIFO_FULL_ERROR`, which nothing in the
repository defines (`settings.bsp` has it false), and is not modelled.
The handler reads CONTROL, empties the read FIFO (`I_RxPop`, `I_RxEnd`), fills
the write FIFO (`I_Tx`) and looks again. `irq_enable` stands for the driver's
word and the core's bits, which are changed together with interrupts off.
`Alarm` is `altera_avalon_jtag_uart_timeout`. The host comes, goes, takes and
types. The initialisation has two outcomes, and the initial states are both:
the alarm was started, or it was refused and the time limit is INT_MAX
(`HasAlarm`, `altera_avalon_jtag_uart_init.c:88-95`); the second is what this
BSP's boot order makes of it.

### Files

`links` is the device list with its pointers, both directions, head included;
`alt_llist_insert` is the four stores of `alt_llist.h`. `fd` is `alt_fd_list`.
No handler touches any of it, so a call is one step; only `alt_find_dev` walks
the list step by step, since whether that walk ends is a question. `stage` and
`todo` are the progress of `alt_main()`; `alt_io_redirect` opens through the
same steps as the program. `alt_dev_null` is the device no driver registers.
The access mode is kept as `alt_open` stores it. Two limits: nothing in the
repository registers a file system, so the prefix search always fails, and the
program closes only descriptors that are open.

### Clock

`mtime` advances between any two steps. `alt_niosv_mtime_get()` is `M_High`,
`M_Low`, `M_Check`; `alt_niosv_mtimecmp_set()` is `C_Max`, `C_Low`, `C_High`;
both are run by the handler and by the program, which the handler interrupts
anywhere. `T_Count`, `T_Alarm`, `T_Done` are `alt_tick()`, one alarm at a time;
what a callback returns is chosen from `Periods`. `alt_alarm_start` and
`alt_alarm_stop` run with interrupts off and are one step. `TimerInit` may
happen twice.

### Interrupts

`mie`, `mpie`, `enable`, `pending` are the bits of `mstatus`, `mie` and `mip`;
`alt_irq` is the table, two fields an entry, stored in two steps. `pc` is main:
the two steps of enabling at boot, idle, or the four of
`alt_iic_isr_register()`. `contexts` is what nested `alt_irq_disable_all()`
calls have returned and not yet got back. `trap` is the dispatcher: in the
direct mode `handle_trap` looks at the cause, the pending lines are read, each
is called, and the pending lines read again until none is left; in the vectored
mode a wrapper calls one line's handler. A handler clears its device's request.
`served` is history, for `Registry`. `break`, `endless` and `wild` are ends of
the code that the properties say something about: an exception nobody handles,
a loop that does not end and a call of address 0.

### Camera

Both programs in one module; `app` is which. `pc` is the set-up, in its order,
then the command loop. A call of `poke()` is the stores into `wData`, one step
each, then the transfer, which takes the bytes from `wData` one at a time and
may be refused. Handlers run between any two of main's steps. A command is a
`plan` of accesses. The frame writer (`vfw`) fills one of a number of buffers
while the sensor runs and interrupts when it has.

### The services of MCHal

Eleven modules that have no state in common are checked in one run; the initial
state chooses which one moves.

- `Clic` packs fields into bytes and bytes into registers as the inline calls
  do. A number is the set of its bits, so that shifts and masks are set
  operations.
- `Dfl` walks every hierarchy of interfaces up to a size, written down in every
  order a list allows, with `frames` as the C stack and `head`, `top`, `size` as
  the stack of parents that grows.
- `Text` runs the formatters character of the format by character, and compares
  what comes out with a definition of a numeral that does not compute one.
- `Calls` is every system call on a descriptor in every build, with an outcome
  chosen for the driver's part.
- `Polled` is the small drivers, one register access a step.
- `Profile` interleaves main's walk of a list of arcs, its loads and stores of
  a count and its allocations with a handler's calls, which are one step.
- `TimeOfDay` loads the tick count in two halves, in either order.
- `Log` has two threads print into one FIFO: a poll and a store per character.
- `Startup` takes interrupts from the moment they are on. The handler of the LW
  UART is one step there, and what its transmit half leaves is taken from the
  ways its loop ends: with the ring empty, with the core not ready, or with CTS
  low, after as many bytes as one likes (`Ends`, `intel_lw_uart_txirq`);
  `intel_lw_uart_dctsirq` may turn the interrupt on again. Flow control is a
  property of the build (`program.fc`); this BSP has none
  (`LW_UART_USE_CTS_RTS` is 0, `system.h:284`). `LwUart` has the steps between.
- `Cache` does one cache-block instruction a step, on a cache with fewer lines
  than memory.

## The runs

States are distinct states; every passing run is complete, nothing is cut off
by a time limit. Twelve runs:

| Run | States | Shows |
|---|---|---|
| `lw_live` | 354 000 | LW UART, one direction at a time, rings of four slots that fill and wrap: each ring is a FIFO, what is written drains, every call returns |
| `lw_flow` | 4 460 000 | both directions with flow control, timeouts and bad characters: no loss, every character accounted for, no more thrown away than came in corrupted, RTS held |
| `lw_cts` | violation | `DrainsOnceCleared`: a change of CTS is cleared unseen |
| `lw_corrupt` | violation | `CorruptDiscarded`: a corrupted character is delivered as sound |
| `jtag_live` | 225 000 | JTAG UART, with a host that leaves and comes back, or one that types, with the alarm and without: FIFOs, drains, calls return |
| `files_table` | 110 000 | from reset to a full pool: locks are exclusive, failures leave no trace, devices are found |
| `files_lock` | violation | `HolderIsAlone`: a lock granted with another descriptor open |
| `files_reinit` | violation | `OpenReturns`: after a second `alt_sys_init()` the device list has no end |
| `clock_ticks` | 510 000 | two alarms, a sleeper and a second initialisation over rollovers of the low word |
| `camera` | 616 000 | both camera programs, with the button pressed and transfers refused at any moment, frames coming in |
| `camera_poke` | violation | `PokeWrites`: the button's handler overwrites the message main is building |
| `hal` | 307 000 | the eleven services of `MCHal` |

What the properties of `hal` say, service by service:

- `RegistryRefined`, `CriticalSections`, `RequestServed` (interrupts): the
  five steps of a registration are one to the handlers; no interrupt is taken
  in a critical section or a trap; a pending request of an enabled line is
  served or switched off.
- `ClicRefined`: a call changes the field it names of the line it names and
  nothing else, in `ClicLines`' terms. (One call does not, see below.)
- `DflTableRight`: every interface is found once, with its registers, identity,
  parameters and parent, and a second scan finds the same; or the hierarchy was
  too deep, and at what depth that is.
- `TextRight`: what is printed is the number, in its base and field.
- `AccessKept`, `SettingsAgree`: no data through a descriptor not opened for
  it, whatever `fcntl()` was asked; the divisor of the UART is that of the
  recorded speed after any sequence of requests.
- `OutputExact`: characters of the small drivers, and of the buffer in front of
  semihosting, go out in order, as many as the calls report.
- `CallsCounted`, `BlocksDisjoint`: calls are neither missed nor invented, with
  one exception that is stated; blocks handed out are disjoint, aligned and
  inside the heap until the heap is exhausted.
- `TimeOfDayRight`: exactly how far `gettimeofday()` may be off.
- `LogRight`: what may be lost, how often, and when reports come.
- `EarlyInterruptsSafe`, `NothingStranded` (start-up): interrupts taken before
  the drivers have buffers do no harm; nothing printed waits without an
  interrupt to send it, except from the moment CTS was found low, or the drivers
  were initialised again, to the next byte printed or sent (`mark` is that
  moment). The exception of the second initialisation is the code's fault, and
  as long as the fault lasts; what is printed after it must go out, with what
  was waiting.
- `FlushesReachMemory`: which stores a flush must bring to memory, and which it
  may lose.

Several of these say where the code is wrong by naming the case in which the
plain property fails (`DflTableRight`, `CallsCounted`, `LogRight`,
`NothingStranded`, `FlushesReachMemory`, `TimeOfDayRight`): the exception is
part of the statement, as narrow as the run allows, so that any wider failure
is a violation.

### Bounds

- *Rings* have 2, 3 or 4 slots, so 1 to 3 bytes: enough for empty, full,
  wrapped and partly full, and for a block that ends at the wrap. Streams are
  longer than the ring, so that every slot is used again while old data could
  still be seen (`TxTotal`, `RxTotal`).
- *Core FIFOs* hold one character, which makes overrun and "not ready" happen
  all the time. A longer FIFO only delays them.
- *Lengths* of calls include 0 (a path of its own) and more than the ring holds
  (the call must wait).
- *The host* changes twice: away and back.
- *Descriptors*: five, three of them standard. Two more are enough for two
  users of a device, a full pool and an `open()` that is refused. The topmost
  one, which `alt_fd_lock()` does not look at, is among them.
- *Alarms*: two, so that one has a neighbour on the list. Words have four
  values, the period is two: a rollover falls between any two accesses.
- *Interrupts*: two lines, two handlers, both modes, nesting to depth two, and
  three calls of main with two requests at any moment: a line, its neighbour
  and a registration under way.
- *CLIC*: five lines, so that two registers are in use, of which three are
  configured: the first and second of a register and one in the next; one bit
  of level and one of priority beside six of neither.
- *Hierarchies* have up to four interfaces, and the stack grows by three: deep
  enough to grow, and to overrun.
- *Numbers* to print: zero, the edges of every digit count, of the sign and of
  the width; words of 16 bits.
- *Exposures*: a table of two entries; two presses or refused transfers.
- *Heap* of 60 bytes and slabs of three entries: exhausted in the run, in the
  middle of a slab's use too.
- *Cache*: fewer lines than memory, so that lines evict each other; lines of
  four bytes, with ranges that start inside one and end in it or in the next.
- *Start-up*: builds with and without flash, direct drivers, exit and
  destructors, and one with flow control; two bytes printed, so that a handler
  can send a part, and two received.
- *Counts* that would grow for ever stop at a bound named in the module's
  constants (`TxTotal`, `RxTotal`, `MaxBad`, `MaxCts`, `MaxHostChanges`,
  `MaxTime`, `MaxInits`, `MaxOps`, `MaxRequests`, `MaxPresses` and so on;
  `host_inactive` stops at `IntMax - 2`, where the code stops counting too).

Each passing property has a mutant in the modules: an operator with the
mistake a programmer could make there, under which the property fails in the
same run. It stands above the definition it changes.

### Fairness

- *Program*: a call that has begun is executed (`WF` of its steps). Weak: a
  handler that is entered again and again starves the program, as in the code.
  Nothing makes the program begin a call.
- *Handler*: the processor takes an interrupt that stays pending, and a handler
  that has begun goes on.
- *Core and host*: the LW UART's shifter shifts; the JTAG host takes bytes
  while it is there; the timer's alarm comes. Nothing makes the other side
  send, and nothing makes CTS rise: `DrainsOnceCleared` assumes that it does,
  `TxDrains` of the JTAG UART that the host stays, `CallsReturn` of the JTAG UART
  that there is the alarm or the host stays, and `TxDrains` of the LW UART is checked without flow control.
- *Interrupts*: main finishes what it began (boot, registration, the end of a
  critical section), and traps run.
- *Camera*: the program and the handlers run on; nobody is obliged to type or
  to press, and frames are not obliged to come: `LedShowsVideo` assumes them.

### Disagreements between code and documentation

Five runs end in a violation; `PROJECT.json` quotes the text each contradicts.

1. `lw_cts`. The handler throttles on CTS low, reads STATUS a second time,
   then clears STATUS. If CTS rises between the last two, its flag is cleared
   unseen, and with the transmit interrupt off nothing sends the rest of the
   ring (until the next `write()` or change of CTS).
2. `lw_corrupt`. On PE or FE the handler returns without reading the
   character, although the comment says it is discarded. The flags are then
   cleared, and the next interrupt stores it as sound.
3. `files_lock`. `alt_fd_lock()` promises the lock if no other open descriptor
   refers to the device, but scans `i < alt_max_fd`, and `alt_max_fd` is the
   highest index in use. With descriptors 3 and 4 open on one device, 3 is given
   the lock and 4 goes on. `DeviceLocks` has the guard with this one exception
   (`Topmost`), so that `LocksRefined` says what is left of the promise.
4. `files_reinit`. The second `alt_sys_init()` inserts the drivers into the
   device list a second time. The two drivers then point at each other, and a
   search for any other name does not end.
5. `camera_poke`. The button's handler calls `poke()` while main is inside one
   and overwrites the message; main's transfer succeeds, with another address
   and value.

Seen while reading. Those marked * the modules behave by, so that they can be
found in their states; none has a run of its own.

*LW and JTAG UART.* The limit of `read()` counts rounds of its loop over all its
waits, and is not looked at again against the ring, so that a `read()` may give
up with ETIME although a character has come*, against "if no data is received
after n cycles" (`intel_lw_uart_read.c:262`); the character is there for the next
one. This BSP switches the limits off (`toolchain.cmake:43-45`); `lw_flow` has
them on. The write timeout is compared with the read timeout's
constant* (`intel_lw_uart_write.c:257`). A `write()` that fails after it has
queued bytes does not say how many* (`:309-318`). Registering a callback is an
unprotected read-modify-write of `sp->ctrl`* (`intel_lw_uart_init.c:702`), after
which the shadow word and the register may differ, although `lw_live` finds that
nothing waits for ever because of it;
errors that arise after the second read of STATUS are cleared before the
callback sees them* (`:201-210`). A blocking JTAG `write()` gives up as soon as
the host has missed one poll, and may say `-EIO` before the timeout*
(`altera_avalon_jtag_uart_write.c:183`). `tx_in` and `rx_out` are not volatile
although handlers read them (`altera_avalon_jtag_uart.h:110-113`).

*Small drivers.* The LW UART's `write()` of length 0 sends a character, and
blocking runs on until its count wraps*; a non-blocking one sends at most one
character*; both return 0 with `errno` where the comment says -EWOULDBLOCK*;
`read()` clears STATUS after reading it, with the errors of the next character*.

*Start-up.* The LW UART is enabled before its driver has buffers*
(`drivers/inc/intel_lw_uart_fd.h:133`), and a build with direct drivers never
gives it any: an interrupt-driven LW UART can neither send nor receive there*.
A second `alt_sys_init()` turns the transmit interrupt off with bytes queued;
they wait for the next interrupt or `write()`*, and a `close()` waits for ever.
The JTAG UART's alarm is refused at the first `alt_sys_init()` and started by a
second one, but the time limit stays at INT_MAX, so that the host is never taken
for gone.
The clearing of .bss in `crt0.S` is a do-while.

*Files and calls.* Calls on a released descriptor go through a null device. Before
`alt_io_redirect()` standard output is `/dev/null` opened for reading, so that
`write()` fails with EACCES*. In direct builds `read()`, `write()` and
`ioctl()` return the driver's negative number without setting `errno`*, and
`fstat()` fails without it*; `alt_putchar()` and its kin test for -1 only*, and
the semihosting ones ignore what `read()` returns*. `TIOCMSET` with speed 0
divides by zero. `alt_putbufflush()` drops what `write()` refused*.

*Interrupts.* The dispatcher of the direct mode would call address 0 for a line
enabled without a handler, and would loop for ever on a request that is gone
when it first reads the pending lines (`wild` and `endless`, which nothing in
the model leads to: `RegistryRefined` and the devices see to it);
`alt_iic_isr_register()` tests a signed
number from above only (`alt_iic_isr_register.c:72`). In the CLIC calls the
mask of the trigger mode is `0x6 << (irq & 0x3)` (`sys/alt_irq.h:780`, against
the comment at `:766`): it hits other bits for lines that are not the first of
their register*; MISELECT and the access behind it are not protected against a
handler that moves it (`:442`).

*Clock.* The next tick is set from the time the handler reads, so that ticks
drift* (`mtimer.c:71-72`, against the comment above). A callback that stops the
next alarm on the list would make `alt_tick()` walk for ever
(`alt_tick.c:102`). `usleep()` multiplies in 32 bits, and is short for more
than 42.9 s at 100 MHz (`alt_busy_sleep.c`). `alt_nticks()` loads 64 bits in
two*; `gettimeofday()` is exact only for tick rates that divide a million, and
otherwise wrong by up to two seconds, even backwards* (`alt_gettod.c:93`).

*Profiler and heap.* A failure of `sbrk()` is not checked (`alt_gmon.c:139`,
`:229`)*: after it `mcount_allocate()` goes on from address -1, so that the
blocks it hands out next are neither in the heap nor aligned*; the sampler may be started twice* (`:164-169`); a sample of the last
bytes of the text is counted one bucket past the histogram* (`:263-266`); a
handler's count of an arc is undone if main had just loaded it*. The comment
that `alt_sbrk()` does no bounds checking is out of date.

*Log.* A handler that prints takes the room that main has polled for, and main's
character is lost* (`alt_log_printf.c:98`); a log printed by a handler waits for
a host for ever. The heartbeat comes every `INTERVAL + 1` ticks*, because the count
starts again when it is greater than the interval (`:479`), where the comment says every
`ALT_LOG_SYS_CLK_INTERVAL` (`:473-474`); nothing is stated about it, and this BSP
has the heartbeat off (`ALT_LOG_FLAGS=0`). An echo of a
`write()` is one character short*, and of fewer than two shows nothing*.

*DFL.* With nested branches the stack of parents is written one entry past its
end* (`intel_fpga_api_cmn_dfl.c:150`); an interface with two branches gives the
second's children another parent than the header's comment says* (`:439`,
`intel_fpga_platform_api_niosv.h:78`); the count of parameters includes a
terminating block without data* (`:654`).

*Camera.* `byte2bcd()` omits the middle zero of 100 to 109 and 200 to 209*
(`mipi:1284`); `byte2bcd4()` is wrong above 9999; the exposure index goes to 12
in a table of 12 (`mipi:1424`)*; `VFW_isr()` acknowledges and then clears, and
so may forget a frame* (`oneware:1480`); the menu of `oneware` offers commands
that are not served (`oneware:1224-1226`).

*Caches.* `alt_dcache_flush_no_writeback()` takes one line more than the range
touches when the start is misaligned, and drops the stores in it although it
lies wholly behind the range*; `alt_uncached_malloc()`
returns cached memory, against `alt_cache.h`. The board's core has no data
cache.

## The proofs

All are checked by tlapm with Z3, Zenon and LS4. What is assumed are the named
`ASSUME`s of the modules, which TLC evaluates in every run: ring depths are
powers of two (LW) or at least two (JTAG), FIFOs hold something, there are more
than two descriptors, the names of devices differ from each other's sentinels,
there is an interrupt line, there are finitely many alarms (they are C
objects), each driver is registered once by one run of `alt_sys_init()`.
`FilesAssumption` and `LogAssumption` say `Seq(STRING)`, because TLC has to be
able to evaluate it; nothing depends on what a string is. A module that `MCHal`
instantiates states its assumption as a definition (`CallsAssumption` and so
on), and `MCHal` assumes them together (`ServicesAssumption`).

**DataTheorems**: the lemmas about data that the others share.

- *Rings*: appending, taking one and taking a block from a ring is appending,
  taking the head of and cutting its contents. No induction is needed: contents
  are functions on `1 .. Used`, compared point by point.
- *Lists*: a walk of `alt_llist` that starts at the head goes round the circle,
  and meets every node that is linked into it; insertion and removal, store by
  store, keep what they leave alone. A walk is defined by recursion. The library's
  induction theorem takes an operator as a parameter, which the provers cannot
  instantiate; `Induction` says the same of a *set* of numbers, follows from the
  least element of a non-empty set, and can be cited. It gives that a walk of any
  length exists and is unique.
- *Time*: a quotient and a remainder are unique; two words read one after the
  other make a count that was, if the high word is unchanged; the time that `n`
  ticks make, as the code computes it in microseconds, is wrong by less than a
  second, and not at all if the rate divides a million.

**LwUartProofs**: `TypeCorrect`, `Invariance`, `TxRefines`, `RxRefines`,
`NoLoss`, `EveryCharacterAccounted`, `DiscardsArePaidFor`, `RtsHeld`. Types
alone are not inductive: at `w_put` the code uses a slot it found free several
steps ago. `IInv` adds what each thread knows at each of its steps and the other
side cannot undo: at `w_put` the ring is not full (only the program fills it), at
`tx_send` it is not empty (only the handler, and a flush under a break, empties
it, and the program does not run then), at `w_publish` the slot holds the byte
being written, and the break bit is set only if somebody sets it. From these each
step of the driver maps to `Put`, `Get`, `Flush` or a stutter of `ByteChannel`.
`NoLoss` is an invariant of its own, inductive given `IInv`. For the receive side
`StoredInv` and `ArrivedInv` follow a character through its three places: what was
saved is what was delivered and what the ring holds, and what has arrived is what
was saved, lost or is still in the core, with the character in the handler's hands
counted once. `DiscardsArePaidFor` is about the error flags, which are sticky and name
no character: a sound one may be thrown away for another's flag. The invariant
(`PaidInv`) counts a debt: the characters thrown away so far, and one more while STATUS shows
an error flag that the handler may still act on, are no more than the corrupted ones that
were not lost. The handler leaves its loop when it has thrown one away, and clears the
flags before it looks again. `RtsInv` says that while something waits in the transmit
ring, every copy of the control word (the shadow, the register, the one a control
call has loaded and not yet stored) has RTS up and the TMT interrupt off: an old
copy that is stored back does no harm, because all of them agree.

**JtagUartProofs**: `TypeCorrect`, `TxNothingLost`, `RxNothingLost`,
`TxRefines`, `RxRefines`. `IInv` says slot by slot what the rings hold: the
k-th slot in use holds the number `Len(sent) + k`, so that the whole stream
is `sent`, the ring, and what is to come. `SpaceInv` is what makes the type of
`wlevel` (no overrun of the core) inductive: the room the handler read
earlier plus the level stays within the FIFO, because the host only takes. All of them hold from both
initial states, with the alarm and without.

**ClockProofs**: `ClockTypes`, `SleepsLongEnough`, `TicksComeOnTime`,
`AlarmsOnTime`. `CountInv` has three parts. `CountTypes` are the types. `SleepInv` says
what the words are that a thread has read: those of two counts between the
beginning of the sleep and now, the high word's the earlier. If the high word is
still the same when it is read again, the two make a count that was, so `usleep()`
never compares with one ahead of the timer. `CompareInv` is about the compare
register, set in three stores by the handler and by the program it interrupts:
after the first store its high word is all ones, beyond any count, so the
program cannot be interrupted there; when nobody is between the stores it is the
value last set in full, at most a period away. `AlarmInv` is about the list: the
running alarms are on a chain from its head, any other alarm is alone or was never
started, and `alt_tick()` stands at a node of the chain or back at the head, with
the alarms before it due later and the others not before now. That a callback
may end its own alarm, and the program start or stop one between two ticks, is
a lemma of `DataTheorems` each. The callback that stops the next alarm, named
above, is not among the model's callbacks.

**FilesProofs**: `TypeCorrect`, `OneHolderHolds`, `FailedOpenLeavesNoTrace`,
`ImplementsLocks`, `DevicesAreReachable`. The question is whether the scan of
`alt_fd_lock()`, which ends one short of `alt_max_fd`, can grant a lock twice. It
cannot, and the reason is `LockInv`: *every other descriptor of a locked device
lies above the one that locked it*. The scan misses the topmost descriptor only.
If `i` holds the lock and `j` asks, then `j > i`, so that `i` is below
`j <= alt_max_fd` and is scanned. For this `alt_max_fd` must cover every
descriptor that can hold (`MaxInv`), and no descriptor may come to refer to a
locked device, which is the complete scan of `open()`. A freed descriptor must
lose its flags, hence `FdType`. `LinksInv` keeps the search inside the list's
nodes, also after a second `alt_sys_init()`: these theorems hold for
`MainReinits` of either value. `DevicesAreReachable` is for `~MainReinits`, since
`files_reinit` shows that it fails otherwise: `ChainInv` says that the registered
devices are a chain from the head, less those whose `alt_dev_reg()` is still to
come.

**CameraProofs**: `DumpReadsOneFrame`, from `Stopped`: between the stop of
`dump_vfb()` and its restart the frame writer starts nothing, and the sleep
ends what it was writing. `ExposureIsFollowed`, from `ExposureInv`: in the command loop, for
each of the two exposure registers, *what is still to be sent, the handler's calls
first, leaves it at the byte of the current index*: the last call to that register
says so, or there is none and the sensor has it (`Settles`). The index is read when
a call begins, so that after a press between two pokes the second sends the
byte of the new one. `Turns` has the bytes in the array be those of the message that is being sent,
which is what a press inside a `poke()` (`clash`) destroys. `OutputsAreInOrder`,
from `PlanInv`: each access of the rest of a command seeks its output, or the
window is at its output after the access before it.

**HalProofs** and **MemoryProofs** have the services of `MCHal`, for every value of
its constants; the second those about memory: caches, heap and profiler. A
service is proved about in its own terms and then as the one that moves, since
the others leave its variables alone.

- *Interrupts*: `TypeCorrect`, `CriticalSectionsHold`, `ImplementsApi`, for any
  number of lines and handlers and both modes. `Masked` says that of the
  contexts that are held only the outermost can say that interrupts were on, and
  that a trap taken in a critical section will not turn them on when it returns:
  with it the nesting is inductive. `Placed` ties a registration to the context
  it holds, so that no trap is taken in it. `Entered` is the table: outside a
  registration an entry has the context of its handler and an enabled line has a
  handler. `Dispatched` says that what the dispatcher is about to serve is
  enabled. Each step of the code then is one of `Registry` or a stutter: the
  registration takes effect at its first store for the handler, and its other
  steps are hidden by the mapping until the line is switched.
- `AccessIsKept`, from the invariant that `fcntl()` leaves the mode bits a
  descriptor was opened with. `SettingsAlwaysAgree`: the two places that write the
  speed also write the divisor, or are undone.
- `EarlyInterruptsAreSafe`, `NothingIsStranded`, from `BootInv`: interrupts are off
  until every section is in place, and a line is enabled together with its
  handler; the receive mask is set after the buffer, for good, so that a mask
  other than 0 means a buffer; what is queued has its interrupt, or the last thing
  that touched the queue or the interrupt was the handler that found CTS low or the
  second initialisation, since a byte printed turns the interrupt on, and a handler
  that sends leaves it on with bytes left; what has been destructed mirrors what was
  constructed.
- `TimesAreRight`, from `TimeInv`: the words loaded are those of counts the clock
  had since the call began to load, and the offset kept is the difference of two
  times, each with the error of `DataTheorems`.
- `LogIsRight`, from `LogInv`: the room that a handler has seen is still there when it
  stores, and that which main has seen may be gone by as much as handlers have stored
  since (`RoomInv`); each character that main has lost had a run of a handler of its own
  after its poll (`LossInv`); the reports and what the alarm has still to come down to
  make up the ticks (`ReportInv`), so that the quotient the property names follows from
  its uniqueness.
- `OutputIsExact`, from `PollInv` and `BufferInv`. For output the count of a call tells
  how many of its characters were put out, and one that was not given goes out only
  after the count has passed zero (`SentInv`). For input, what is in the core
  continues what has left it (`LineInv`), what has left it was handed on or was bad
  (`GotInv`), and what `read()` saw in the status register still holds of the
  character it takes two accesses later (`FlagInv`). Of what was given to
  `alt_putcharbuf()` what is written and what waits are together in order, and a
  flush writes a prefix and refuses the rest, so that order is never lost.
- `ImplementsLines`: the CLIC calls implement `ClicLines`, for any number of lines and
  any widths of the two fields that fit a byte. `Encoded` and `Decoded` are the packing
  of a byte, `LineStored` that of a register: two lines differ in their register or in
  their slice. The only invariant needed is that the registers hold bytes.
- `FlushesReach`, from `CacheInv`: a line that is not dirty in the cache is in
  memory, unless it was given up, and the lines of the range that the index of a
  call has passed are in memory, but for what a handler stored since.
- `BlocksAreDisjoint`, from `ProfileInv`: blocks lie apart from each other, *and from
  what is left of the slab* (`Tidy`), which is what the next entry is cut from; once
  the heap was refused it stays too small for another slab or for the histogram
  (`Exhausted`). The sampler stays in the histogram, or in the bucket behind it, because
  the sampled address is inside the text.
- `CallsAreCounted`, from `CountInv`, over a list of entries each with a list of arcs to
  which main and handlers add without a lock. `Balanced` sets the sum over the copies of
  an arc between the calls that have ended and those that began, with the one main is in
  counted on the side it has got to. `ListInv` has what main found, or is about to
  link, still be there and at its place after any calls of handlers, which only add in
  front. `Loaded` says of the moment between main's load and store that the copy holds
  no less than what was loaded, and that the difference, which the store undoes, is not
  among the calls that count as ended. A sum is a recursive function, of which
  `Induction` gives that it is a number and how it moves when one summand does or one is
  added; two entries with one address, which a store could confuse, are excluded because
  each address is that of a block that was handed out (`Backed`) and `ProfileInv` has
  these apart. That an arc is given by its two ends is the only assumption of its own.

Every invariant was model-checked, in a run of the same instance, before it was
proved. Three attempts found the model wrong or a property weaker than it looked:
`BlocksDisjoint` held after the heap was exhausted only because 96 bytes are
never exhausted in the middle of a slab; the loop of
`alt_dcache_flush_no_writeback()` had been modelled one line short; and
`ClicLines` began with level 0, which is not what the code sets if a level has
eight bits (`intel_niosv_irq.c:75`), a width no run has.

Only model-checked:

- all liveness (`TxDrains`, `CallsReturn`, `TickReturns`, `LedShowsVideo`,
  `RequestServed`): the prover cannot treat fairness;
- `DflTableRight`, `TextRight`: what they compare with the code is defined by
  recursion over data of any size (a hierarchy of interfaces, the digits of a
  number), and the run goes over all of a size.

## What is left out

- The steps of `LwUart` and `JtagUart` and the second initialisation are in
  different modules: `Startup` has the LW UART driver's state without the positions
  inside its calls and its handler, and nothing of the JTAG UART's but its line.
- The reset of the JTAG UART's ring under
  `ALTERA_AVALON_JTAG_UART_IGNORE_FIFO_FULL_ERROR` (see JtagUart).
- Callbacks registered with the drivers are the program's code; they are taken
  not to touch the driver.
- The trap entry of the CLIC mode, which saves registers and calls the handlers
  that `Interrupts` has.
- `alt_timestamp()`, the time zone, the texts of messages and menus, the
  contents of `gmon.out`, the settings of the video pipeline.
- The multi-threaded builds (MicroC/OS-II, FreeRTOS), in which semaphores do
  what single threading does here.
- Caches under the drivers, the memory order of the processor (in order, one
  core) and the compiler: an access to a variable of a driver is taken to
  happen where it is written.
- `uart_tx.vhd` of the SignalTap lab: a clocked shift register in one process,
  with nothing to interleave. The other hardware of the labs is wiring and
  counters, or generated.
- The host's Python and Tcl, which display and convert frames.
- Proofs that would come next: that the digits of `TextRight` are those of the
  number, by the induction that `CallsAreCounted` uses; and the drivers under the
  dispatcher of `Interrupts` instead of the assumption that a handler runs alone.
