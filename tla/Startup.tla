------------------------------- MODULE Startup -------------------------------
(***************************************************************************)
(* From reset into main() and out of it: crt0.S, alt_load(), alt_main(),   *)
(* alt_irq_init(), alt_sys_init(), constructors and destructors, exit(),   *)
(* kill().  Interrupts are on from alt_irq_init(), before the first driver *)
(* is initialised, and the UART's driver is initialised in two halves: its *)
(* receiver is enabled before it has buffers.  main() of the labs calls    *)
(* alt_sys_init() once more.                                               *)
(***************************************************************************)
EXTENDS Integers, Sequences

CONSTANTS
    Programs,        \* builds: [flash, direct, exits, clean, fc : BOOLEAN]
    READ_DEPTH,      \* of the UART's buffer
    Constructors,    \* how many
    MaxBytes,        \* bound: bytes received
    MaxPrints        \* bound: bytes printed

\* What the constants may be.
StartupAssumption ==
    /\ Programs \subseteq [flash : BOOLEAN, direct : BOOLEAN, exits : BOOLEAN, clean : BOOLEAN,
                    fc : BOOLEAN]    \* fc: INTEL_LW_UART_FC in the driver's flags
    /\ READ_DEPTH \in Nat \ {0, 1} /\ {Constructors, MaxBytes, MaxPrints} \subseteq Nat

Sections == {"bss", "rwdata", "exceptions", "rodata"}
Lines == {"jtag", "lw", "timer"}

VARIABLES
    program,               \* the build
    pc, again,             \* place of the program; alt_sys_init() runs a second time
    placed,                \* sections with their contents in place
    mie, MIE,              \* lines enabled; interrupts enabled
    handlers,              \* lines with a handler
    ctrl, rx_buf, rx_mask, rx_start, rx_end, tx,   \* of the UART's driver; tx: bytes queued
    rxfifo,                \* bytes in the UART
    constructed, destructed,      \* what has run, in order
    arrived, got, printed, sent,  \* history: bytes received, read, printed, sent
    mark                          \* history: where the driver last turned the transmitter's
                                  \* interrupt off whatever is queued: the cause, printed, sent
vars == <<program, pc, again, placed, mie, MIE, handlers, ctrl, rx_buf, rx_mask, rx_start, rx_end,
          tx, rxfifo, constructed, destructed, arrived, got, printed, sent, mark>>

cpu == <<placed, mie, MIE, handlers>>
buffers == <<rx_buf, rx_mask>>
uart == <<ctrl, buffers, rx_start, rx_end, tx, rxfifo, got, sent, arrived, printed,
          mark>>
objects == <<constructed, destructed>>

\* At reset interrupts are off, and mie holds anything; a program that is not run
\* from flash has been loaded, but nobody has cleared its bss.
Init == /\ program \in Programs /\ pc = "_start" /\ again = FALSE
        /\ placed = IF program.flash THEN {} ELSE Sections \ {"bss"}
        /\ mie \in SUBSET Lines /\ MIE = FALSE /\ handlers = {}
        /\ ctrl = {} /\ rx_buf = "NULL" /\ rx_mask = 0 /\ rx_start = 0 /\ rx_end = 0 /\ tx = 0
        /\ rxfifo = 0
        /\ constructed = <<>> /\ destructed = <<>>
        /\ arrived = 0 /\ got = 0 /\ printed = 0 /\ sent = 0
        /\ mark = <<"none", 0, 0>>

Goes(here, there) == pc = here /\ pc' = there /\ UNCHANGED program

-----------------------------------------------------------------------------
(***************************************************************************)
(* Start-up.                                                               *)
(***************************************************************************)
_start == /\ Goes("_start", "alt_load")
          /\ mie' = {} /\ MIE' = FALSE /\ placed' = placed \cup {"bss"}
          /\ UNCHANGED <<again, handlers, uart, objects>>

\* A section whose load address is its address is left alone.
alt_load_section(s) == IF program.flash THEN s ELSE {}

alt_load == /\ Goes("alt_load", "alt_irq_init")
            /\ placed' = placed \cup alt_load_section({"rwdata", "exceptions", "rodata"})
            /\ UNCHANGED <<again, mie, MIE, handlers, uart, objects>>

alt_irq_init == /\ Goes("alt_irq_init", "jtag")
                /\ mie' = {} /\ MIE' = TRUE
                /\ UNCHANGED <<again, placed, handlers, uart, objects>>

alt_ic_isr_register(line) == handlers' = handlers \cup {line} /\ mie' = mie \cup {line}

\* JtagUart has what this driver is left in.
JtagInit == /\ Goes("jtag", "lw_state") /\ alt_ic_isr_register("jtag")
            /\ UNCHANGED <<again, placed, MIE, uart, objects>>

\* The control word is set, not added to: the second time, with bytes queued, the
\* transmitter's interrupt goes off.
INTEL_LW_UART_STATE_INIT ==
    /\ Goes("lw_state", IF program.direct THEN "timer" ELSE "rx_buf")
    /\ ctrl' = {"RRDY"} \cup (IF program.fc THEN {"DCTS"} ELSE {})
    /\ mark' = <<"init", printed, sent>>
    /\ alt_ic_isr_register("lw")
    /\ UNCHANGED <<again, placed, MIE, buffers, rx_start, rx_end, tx, rxfifo, got, sent, arrived,
                   printed, objects>>

\* Mutant: the mask is set before the pointer.
SetRxBuf_MaskFirst == /\ Goes("rx_buf", "rx_mask") /\ rx_mask' = READ_DEPTH - 1
                      /\ UNCHANGED <<again, cpu, ctrl, rx_buf, rx_start, rx_end, tx, rxfifo, got, sent,
                                     arrived, printed, mark, objects>>

\* INTEL_LW_UART_BUFF_INIT, of which the receiver's half matters here.
SetRxBuf == /\ Goes("rx_buf", "rx_mask") /\ rx_buf' = "lw_uart_rx_buf"
            /\ UNCHANGED <<again, cpu, ctrl, rx_mask, rx_start, rx_end, tx, rxfifo, got, sent,
                           arrived, printed, mark, objects>>
SetRxMask == /\ Goes("rx_mask", "timer") /\ rx_mask' = READ_DEPTH - 1
             /\ UNCHANGED <<again, cpu, ctrl, rx_buf, rx_start, rx_end, tx, rxfifo, got, sent,
                            arrived, printed, mark, objects>>

\* alt_io_redirect() follows; the files are not in this module.
INTEL_NIOSV_M_INIT ==
    /\ Goes("timer", IF again THEN "main" ELSE "_do_ctors")
    /\ alt_ic_isr_register("timer")
    /\ UNCHANGED <<again, placed, MIE, uart, objects>>

_do_ctors == /\ Len(constructed) < Constructors
             /\ Goes("_do_ctors", "_do_ctors")
             /\ constructed' = Append(constructed, Len(constructed) + 1)
             /\ UNCHANGED <<again, cpu, uart, destructed>>

\* atexit(_do_dtors) is the next step, and leaves a mark only at the end.
CallMain == /\ Len(constructed) = Constructors
            /\ Goes("_do_ctors", "main")
            /\ UNCHANGED <<again, cpu, uart, objects>>

-----------------------------------------------------------------------------
(***************************************************************************)
(* main(): it may call alt_sys_init(), print, read, return, exit and kill  *)
(* itself.  Constructors may print.                                        *)
(***************************************************************************)
alt_sys_init == /\ ~again /\ Goes("main", "jtag") /\ again' = TRUE
                /\ UNCHANGED <<cpu, uart, objects>>

\* write() of a byte: into the buffer, and the transmitter's interrupt on.  LwUart has
\* the steps in between.
PrintByte == /\ pc \in {"_do_ctors", "main"} /\ ~program.direct /\ printed < MaxPrints
             /\ printed' = printed + 1 /\ tx' = tx + 1 /\ ctrl' = ctrl \cup {"TRDY"}
             /\ UNCHANGED <<program, pc, again, cpu, buffers, rx_start, rx_end, rxfifo, got, sent,
                            arrived, mark, objects>>

\* read(): what the buffer holds, and the receiver's interrupt on; without the
\* buffers of a direct build nothing ever comes, nor does anything go out.
Read == /\ pc = "main"
        /\ ctrl' = ctrl \cup {"RRDY"}
        /\ got' = got + ((rx_end - rx_start) % (rx_mask + 1))
        /\ rx_start' = rx_end
        /\ UNCHANGED <<program, pc, again, cpu, buffers, rx_end, tx, rxfifo, sent, arrived,
                       printed, mark, objects>>

\* main() returns: close(STDOUT_FILENO) waits until what was printed is out.
ReturnFromMain == /\ program.exits /\ (~program.direct => tx = 0)
                  /\ Goes("main", "exit")
                  /\ UNCHANGED <<again, cpu, uart, objects>>

exit == /\ program.exits /\ Goes("main", "exit")
        /\ UNCHANGED <<again, cpu, uart, objects>>

\* exit() runs what atexit() was given, which is _do_dtors() if the build says so.
_do_dtors == /\ program.clean /\ Len(destructed) < Len(constructed)
             /\ Goes("exit", "exit")
             /\ destructed' = Append(destructed, constructed[Len(constructed) - Len(destructed)])
             /\ UNCHANGED <<again, cpu, uart, constructed>>

_exit == /\ Goes("exit", "spin")
         /\ program.clean => Len(destructed) = Len(constructed)
         /\ UNCHANGED <<again, cpu, uart, objects>>

\* kill(): a signal to this process that is not ignored or refused ends it at once,
\* without destructors; there is no other process.
Signals == {"null", "SIGCHLD", "SIGTERM", "SIGHUP"}
ALT_KILL == \E pid \in {0, 1}, sig \in Signals :
    /\ pc = "main" /\ program.exits
    /\ pc' = IF pid <= 0 /\ sig = "SIGTERM" THEN "spin" ELSE pc
    /\ UNCHANGED <<program, again, cpu, uart, objects>>

-----------------------------------------------------------------------------
(***************************************************************************)
(* Interrupts.                                                             *)
(***************************************************************************)
Receive == /\ arrived < MaxBytes /\ arrived' = arrived + 1 /\ rxfifo' = rxfifo + 1
           /\ UNCHANGED <<program, pc, again, cpu, ctrl, buffers, rx_start, rx_end, tx, got, sent,
                          printed, mark, objects>>

Room == (rx_start - rx_end - 1) % (rx_mask + 1)
Held == (rx_end - rx_start) % (rx_mask + 1)
Interrupts(line) == MIE /\ line \in mie

\* The loop of intel_lw_uart_txirq(), when it has sent k of the bytes queued, ends with
\* the queue empty, with the UART full, or because CTS is low; and what that makes of
\* control word c.
Ends(k) == IF k = tx THEN {"empty"} ELSE {"full"} \cup (IF program.fc THEN {"cts"} ELSE {})

\* Mutant: the interrupt is off after every call, with bytes left too.
intel_lw_uart_txirq_Off(c, k, end) == c \ {"TRDY"}

intel_lw_uart_txirq(c, k, end) ==
    IF end # "full" THEN c \ {"TRDY"} ELSE IF k > 0 THEN c \cup {"TRDY"} ELSE c

\* intel_lw_uart_dctsirq(), when CTS has gone up.
intel_lw_uart_dctsirq(c, risen) == IF risen THEN c \cup {"TRDY"} ELSE c

\* The UART's handler, with TRDY and DCTS as seen in the status, which it goes by and not
\* by what is enabled.  It takes bytes while the next slot is not the first full one, and
\* disables the receiver's interrupt when it is; then it sends k of those queued.
intel_lw_uart_irq(seen, k, end, risen) ==
    LET n == IF rxfifo < Room THEN rxfifo ELSE Room
        c == ctrl \ (IF n < rxfifo THEN {"RRDY"} ELSE {})
        c1 == IF seen = {} THEN c ELSE intel_lw_uart_txirq(c, k, end)
    IN  /\ rx_end' = (rx_end + n) % (rx_mask + 1) /\ rxfifo' = rxfifo - n
        /\ ctrl' = intel_lw_uart_dctsirq(c1, risen)
        /\ tx' = tx - k /\ sent' = sent + k
        /\ mark' = IF end = "cts" THEN <<"cts", printed, sent + k>> ELSE mark
        /\ UNCHANGED <<program, pc, again, cpu, buffers, rx_start, got, arrived, printed,
                       objects>>

LwTrap ==
    /\ Interrupts("lw")
    /\ \E seen \in SUBSET {"TRDY", "DCTS"}, risen \in {FALSE, program.fc} :
          /\ ctrl \cap (seen \cup (IF rxfifo > 0 THEN {"RRDY"} ELSE {})) # {}
          /\ IF seen = {} THEN intel_lw_uart_irq(seen, 0, "none", risen)
             ELSE \E k \in 0 .. tx : \E end \in Ends(k) : intel_lw_uart_irq(seen, k, end, risen)

Next == \/ _start \/ alt_load \/ alt_irq_init \/ JtagInit \/ INTEL_LW_UART_STATE_INIT \/ SetRxBuf
        \/ SetRxMask \/ INTEL_NIOSV_M_INIT \/ _do_ctors \/ CallMain \/ alt_sys_init \/ PrintByte \/ Read
        \/ ReturnFromMain \/ exit \/ _do_dtors \/ _exit \/ ALT_KILL \/ Receive \/ LwTrap

Spec == Init /\ [][Next]_vars

-----------------------------------------------------------------------------
\* Interrupts that come during start-up do no harm, whenever they come.  Once they
\* are on, every section is in place and a line that is enabled has a handler.  The
\* UART's handler stores no byte before it has a buffer, because the mask it starts
\* with leaves no room: it leaves the byte in the UART and goes deaf, until a read.
\* So none is lost, and a driver that is deaf in main() is full or was too early.
EarlyInterruptsSafe ==
    /\ MIE => placed = Sections /\ mie \subseteq handlers
    /\ Interrupts("lw") /\ rxfifo > 0 /\ Room > 0 => rx_buf # "NULL"
    /\ arrived = rxfifo + Held + got

\* What was printed is sent, or the transmitter's interrupt is on to send it, although
\* the handler may send a part only.  With bytes queued it is off in two cases: under flow
\* control since CTS was found low, and since main() has called alt_sys_init() a second
\* time; and only as long as no byte has been printed or sent since.  Destructors run in
\* the reverse order of the constructors, if at all, and all of them if any.
NothingStranded ==
    /\ printed = sent + tx
    /\ tx > 0 /\ "TRDY" \notin ctrl =>
          \/ again /\ mark = <<"init", printed, sent>>
          \/ program.fc /\ mark = <<"cts", printed, sent>>
    /\ pc = "spin" /\ destructed # <<>> => \A i \in 1 .. Constructors :
                                              destructed[i] = constructed[Constructors + 1 - i]
=============================================================================
