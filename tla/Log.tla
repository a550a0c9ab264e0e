--------------------------------- MODULE Log ---------------------------------
(***************************************************************************)
(* alt_log: messages that the HAL prints on the JTAG UART when it is built *)
(* with ALT_LOG_ENABLE (alt_log_printf.h, alt_log_printf.c).  main prints  *)
(* while it starts and echoes what it writes; the timer's handler prints a *)
(* heartbeat and reports, the UART's handler its status and, from the      *)
(* driver's buffer, the data themselves, into the same FIFO.  Each         *)
(* character waits for room and is then stored; main's may be interrupted  *)
(* between the two.                                                        *)
(***************************************************************************)
EXTENDS Integers, Sequences

CONSTANTS
    Flags,           \* values of ALT_LOG_FLAGS
    Space,           \* depth of the FIFO
    INTERVAL,        \* ALT_LOG_SYS_CLK_INTERVAL
    JTAG_UART_TICKS, \* ALT_LOG_JTAG_UART_TICKS, once the timer has a rate
    ECHO_LEN,        \* ALT_LOG_WRITE_ECHO_LEN
    Texts,           \* what main writes
    MaxTicks, MaxWrites, MaxInterrupts    \* bounds

\* What the constants may be.
LogAssumption == /\ Flags \subseteq -1 .. 3 /\ {Space, ECHO_LEN, JTAG_UART_TICKS} \subseteq Nat \ {0}
                 /\ INTERVAL \in Nat /\ {MaxTicks, MaxWrites, MaxInterrupts} \subseteq Nat
                 /\ Texts \subseteq Seq(STRING)

VARIABLES
    ALT_LOG_FLAGS,         \* chosen by the build
    phase,                 \* of main: "boot", "driver", "run", "again"
    todo, polled,          \* per thread: characters still to print; the next one's room was seen
    running,               \* the handler that runs: "none", "tick", "jtag"
    fifo, host,            \* characters in the FIFO; the set of those the host has read
    tx,                    \* characters in the driver's transmit buffer
    alt_log_sys_clk_count,
    alarm, reports,        \* ticks until the alarm of the report, or Off; reports printed
    started,               \* history: ticks when the alarm was started
    ticks, writes, interrupts,    \* history: how many so far
    ahead, lost            \* history: stores by a handler between main's poll and store; per
                           \* thread: characters stored in a full FIFO
vars == <<ALT_LOG_FLAGS, phase, todo, polled, running, fifo, host, tx, alt_log_sys_clk_count,
          alarm, reports, started, ticks, writes, interrupts, ahead, lost>>

report == <<alarm, reports, started>>
clock == <<alt_log_sys_clk_count, ticks, report>>
port == <<fifo, host, ahead, lost>>
Threads == {"main", "isr"}

\* The flags of a level; any other level has those of 0.
alt_log_boot_on_flag == ALT_LOG_FLAGS # -1
alt_log_sys_clk_on_flag == ALT_LOG_FLAGS \in {1, 2, 3}
alt_log_write_on_flag == ALT_LOG_FLAGS \in {2, 3}
alt_log_jtag_uart_alarm_on_flag == ALT_LOG_FLAGS \in {2, 3}
alt_log_jtag_uart_startup_info_on_flag == ALT_LOG_FLAGS \in {1, 2, 3}
alt_log_jtag_uart_isr_on_flag == ALT_LOG_FLAGS = 3

Off == -1
CtrlD == "^D"
Message(kind) == <<kind, "\n">>

Init == /\ ALT_LOG_FLAGS \in Flags /\ phase = "boot"
        /\ todo = [t \in Threads |-> <<>>] /\ polled = [t \in Threads |-> FALSE]
        /\ running = "none" /\ fifo = <<>> /\ host = {} /\ tx = <<>>
        /\ alt_log_sys_clk_count = 0
        /\ alarm = Off /\ reports = 0 /\ started = 0
        /\ ticks = 0 /\ writes = 0 /\ interrupts = 0
        /\ ahead = 0 /\ lost = [t \in Threads |-> 0]

-----------------------------------------------------------------------------
\* alt_log_txchar(): wait until the device has room, then store the character.
Thread == IF running = "none" THEN "main" ELSE "isr"

alt_log_txchar_Poll ==
    /\ todo[Thread] # <<>> /\ ~polled[Thread] /\ Len(fifo) < Space
    /\ polled' = [polled EXCEPT ![Thread] = TRUE]
    /\ UNCHANGED <<ALT_LOG_FLAGS, phase, todo, running, port, tx, clock, writes, interrupts>>

\* Mutant: no wait.
Ready_Always == todo[Thread] # <<>>

Ready == todo[Thread] # <<>> /\ polled[Thread]

Overtakes(n) == ahead' = IF polled["main"] THEN ahead + n ELSE 0

alt_log_txchar_Store ==
    /\ Ready
    /\ IF Len(fifo) < Space
       THEN fifo' = Append(fifo, Head(todo[Thread])) /\ UNCHANGED lost
       ELSE lost' = [lost EXCEPT ![Thread] = @ + 1] /\ UNCHANGED fifo
    /\ IF Thread = "isr" THEN Overtakes(1) ELSE ahead' = 0
    /\ todo' = [todo EXCEPT ![Thread] = Tail(@)]
    /\ polled' = [polled EXCEPT ![Thread] = FALSE]
    /\ UNCHANGED <<ALT_LOG_FLAGS, phase, running, host, tx, clock, writes, interrupts>>

HostReads == /\ fifo # <<>> /\ host' = host \cup {Head(fifo)} /\ fifo' = Tail(fifo)
             /\ UNCHANGED <<ALT_LOG_FLAGS, phase, todo, polled, running, tx, clock, writes,
                            interrupts, ahead, lost>>

-----------------------------------------------------------------------------
Prints(t, text) == todo' = [todo EXCEPT ![t] = text]
Idle == running = "none" /\ todo["main"] = <<>>

\* ALT_LOG_PRINT_BOOT, of alt_main().
ALT_LOG_PRINT_BOOT ==
    /\ Idle /\ phase = "boot" /\ phase' = "driver"
    /\ Prints("main", IF alt_log_boot_on_flag THEN Message("boot") ELSE <<>>)
    /\ UNCHANGED <<ALT_LOG_FLAGS, polled, running, port, tx, clock, writes, interrupts>>

\* In the driver's init.  alt_alarm_start() fails while the timer has no rate; it has
\* one when main, before it writes, calls alt_sys_init() again.
ALT_LOG_JTAG_UART_ALARM_REGISTER ==
    /\ Idle
    /\ \/ phase = "driver" /\ phase' = "run" /\ UNCHANGED report
       \/ /\ phase = "run" /\ writes = 0 /\ phase' = "again"
          /\ alarm' = IF alt_log_jtag_uart_alarm_on_flag THEN JTAG_UART_TICKS + 1 ELSE Off
          /\ started' = ticks /\ UNCHANGED reports
    /\ Prints("main", IF alt_log_jtag_uart_startup_info_on_flag THEN Message("start") ELSE <<>>)
    /\ UNCHANGED <<ALT_LOG_FLAGS, polled, running, port, tx, alt_log_sys_clk_count,
                   ticks, writes, interrupts>>

Running == phase \in {"run", "again"}

Escaped(c) == IF c = CtrlD THEN "D" ELSE c

\* The last of the characters echoed is overwritten with the end of the line.
Echo(text) ==
    LET length == IF ECHO_LEN > Len(text) THEN Len(text) ELSE ECHO_LEN
    IN  IF length < 2 THEN <<>>
        ELSE <<"echo">> \o [i \in 1 .. length - 1 |-> Escaped(text[i])] \o <<"\n">>

\* write(): alt_log_write(), then the driver's buffer.
alt_log_write ==
    /\ Idle /\ Running /\ writes < MaxWrites /\ writes' = writes + 1
    /\ \E text \in Texts :
          /\ Prints("main", IF alt_log_write_on_flag THEN Echo(text) ELSE <<>>)
          /\ tx' = tx \o [i \in 1 .. Len(text) |-> "data"]
    /\ UNCHANGED <<ALT_LOG_FLAGS, phase, polled, running, port, clock, interrupts>>

-----------------------------------------------------------------------------
\* altera_avalon_jtag_uart_report_log() asks to be called again.
altera_avalon_jtag_uart_report_log == JTAG_UART_TICKS

\* alt_niosv_timer_sc_isr(): alt_log_system_clock(), and the alarm in alt_tick().
Tick ==
    LET due == alt_log_sys_clk_on_flag /\ alt_log_sys_clk_count + 1 > INTERVAL
        expires == alarm = 1
    IN
    /\ running = "none" /\ Running /\ ticks < MaxTicks /\ running' = "tick"
    /\ ticks' = ticks + 1
    /\ alt_log_sys_clk_count' =
          IF due THEN 0 ELSE alt_log_sys_clk_count + (IF alt_log_sys_clk_on_flag THEN 1 ELSE 0)
    /\ alarm' = IF expires THEN altera_avalon_jtag_uart_report_log
                ELSE IF alarm = Off THEN Off ELSE alarm - 1
    /\ reports' = IF expires THEN reports + 1 ELSE reports
    /\ Prints("isr", (IF due THEN Message("beat") ELSE <<>>)
                     \o (IF expires THEN Message("alarm") ELSE <<>>))
    /\ UNCHANGED <<ALT_LOG_FLAGS, phase, polled, port, tx, started, writes, interrupts>>

\* altera_avalon_jtag_uart_irq(): the log, and then the driver's own characters.
JtagInterrupt ==
    /\ running = "none" /\ Running /\ interrupts < MaxInterrupts /\ running' = "jtag"
    /\ interrupts' = interrupts + 1
    /\ Prints("isr", IF alt_log_jtag_uart_isr_on_flag THEN Message("irq") ELSE <<>>)
    /\ UNCHANGED <<ALT_LOG_FLAGS, phase, polled, port, tx, clock, writes>>

Return ==
    LET n == IF running = "jtag" /\ Len(tx) > Space - Len(fifo) THEN Space - Len(fifo)
             ELSE IF running = "jtag" THEN Len(tx) ELSE 0
    IN  /\ running # "none" /\ todo["isr"] = <<>> /\ running' = "none"
        /\ fifo' = fifo \o SubSeq(tx, 1, n) /\ tx' = SubSeq(tx, n + 1, Len(tx))
        /\ Overtakes(n)
        /\ UNCHANGED <<ALT_LOG_FLAGS, phase, todo, polled, host, lost, clock, writes, interrupts>>

Next == \/ alt_log_txchar_Poll \/ alt_log_txchar_Store \/ HostReads
        \/ ALT_LOG_PRINT_BOOT \/ ALT_LOG_JTAG_UART_ALARM_REGISTER \/ alt_log_write
        \/ Tick \/ JtagInterrupt \/ Return

Spec == Init /\ [][Next]_vars

-----------------------------------------------------------------------------
\* What the host sees of the log is what was printed.  A handler loses nothing.  main
\* stores into a full FIFO only when a handler has stored between its poll and its store,
\* and so loses at most a character to each run of a handler, however many characters the
\* handler has stored.  No Ctrl-D of the program reaches the terminal by way of the log,
\* and a report comes every JTAG_UART_TICKS once the drivers were initialised with the
\* timer running, and never otherwise.
LogRight ==
    /\ lost["isr"] = 0
    /\ Ready /\ Len(fifo) = Space => Thread = "main" /\ ahead > 0
    /\ lost["main"] <= ticks + interrupts
    /\ CtrlD \notin host
    /\ reports = IF phase = "again" /\ alt_log_jtag_uart_alarm_on_flag /\ ticks > started
                 THEN (ticks - started - 1) \div JTAG_UART_TICKS ELSE 0
=============================================================================
