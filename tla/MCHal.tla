-------------------------------- MODULE MCHal -------------------------------
(***************************************************************************)
(* Services of the HAL that have nothing to do with each other, in one     *)
(* run: the initial state chooses the one that moves.                      *)
(***************************************************************************)
EXTENDS Interrupts

CONSTANTS PlatformLines, LevelBits, PriorityBits, Irqs, MaxCalls,
          MaxInterfaces, Increment, MaxScans, NullBlocks, Absolute,
          WordBits, Values, Widths, Precisions,
          Descriptors, Configurations, Freq, Baud, Speeds, PutbufSize, MaxGiven,
          Cores, Lengths, Depth, MaxSent, MaxTyped, MaxBad,
          Arcs, EntrySize, ArcSize, Slab, TextSize, BytesPerBucket, HeapLimit, Increments,
          MaxBlocks, MaxIsrCalls,
          Word, ALT_US, Rates, Times, MaxTicks,
          Flags, Space, INTERVAL, JTAG_UART_TICKS, ECHO_LEN, Texts, MaxBeats,
          MaxWrites, MaxInterrupts,
          Programs, READ_DEPTH, Constructors, MaxBytes, MaxPrints,
          LINE, SETS, Memory, HandlerLine, EccLine, CodeLine, Starts, RangeLengths, MaxStores

VARIABLES service,
          clicintctl, clicintattr, clicintie, asked, calls,
          rom, walk, frames, head, top, size, scanned, index, table, scans,
          printer, fmt, arg, w, state, conversion, out,
          config, fds, last, result, errno, termios, divisor, buf, given, written, refused,
          core, at, block, len, count, ready, answer, room, rxdata, flagged, offered, sent,
          typed, got,
          on, heap_end, slab_ptr, slab_size, functions, need_init, rate, s_pcsamples, starts,
          place, arc, found, value, blocks, bucket, started, done, isrcalls, maincalls,
          nticks, tick_rate, reset_sec, reset_usec, calling, time, low, high, told, began,
          setTo, setAt,
          ALT_LOG_FLAGS, phase, todo, polled, running, fifo, host, log_tx,
          alt_log_sys_clk_count, log_alarm, reports, report_started, ticks, writes, interrupts,
          ahead, lost,
          program, boot_pc, again, placed, mie_csr, MIE, handlers, ctrl, rx_buf, rx_mask,
          rx_start, rx_end, uart_tx, rxfifo, constructed, destructed,
          arrived, taken, printed, transmitted, mark,
          memory, cache, icache, flush, start, end, byte, latest, meanwhile, waived, published, loaded

SomeWidths == {<<>>, <<"3">>, <<"1", "0">>}
SomePrecisions == {<<>>, <<".", "2">>}
SomeValues == {0, 1, 7, 8, 9, 10, 15, 16, 99, 100, 105, 110, 127, 128, 255, 256, 999, 1000,
               4096, 9999, 10000, 32767, 32768, 65535}

\* The small drivers answer no ioctl(); only ioctl() sets a speed; putbuf is for
\* semihosting, where descriptors do not matter.
Builds == {c \in [build : {"fd", "direct", "semihosting"}, small : BOOLEAN,
                  use_ioctl : BOOLEAN, fixed_baud : BOOLEAN, redirected : BOOLEAN] :
              /\ c.build # "fd" => c.redirected
              /\ c.small => ~c.use_ioctl
              /\ ~c.use_ioctl => ~c.fixed_baud
              /\ c.build = "semihosting" => c.small
              /\ ~c.redirected => c.use_ioctl /\ ~c.fixed_baud}

SomeTexts == {<<"x">>, <<"^D", "x", "^D">>}
AllFlags == -1 .. 3

\* A program that does not exit has no destructors to run.  Flow control, which has nothing
\* to hold back in a direct build, is tried in one build.
AllPrograms == {p \in [flash : BOOLEAN, direct : BOOLEAN, exits : BOOLEAN, clean : BOOLEAN,
                       fc : BOOLEAN] :
                   (p.clean => p.exits) /\ (p.fc => p.exits /\ ~(p.flash \/ p.direct \/ p.clean))}

TwoCallers == {[self |-> "f", from |-> "p"], [self |-> "f", from |-> "q"],
               [self |-> "g", from |-> "p"]}

Controller == INSTANCE Clic WITH NIRQ <- PlatformLines
Walker == INSTANCE Dfl
Text == INSTANCE Text
Calls == INSTANCE Calls
Small == INSTANCE Polled
Profiler == INSTANCE Profile
Time == INSTANCE TimeOfDay
Log == INSTANCE Log WITH tx <- log_tx, MaxTicks <- MaxBeats, alarm <- log_alarm,
                          started <- report_started
Start == INSTANCE Startup WITH pc <- boot_pc, mie <- mie_csr, tx <- uart_tx,
                               got <- taken, sent <- transmitted
Flush == INSTANCE Cache WITH call <- flush, i <- byte, Lengths <- RangeLengths

\* What each service asks of its constants.
ASSUME ServicesAssumption ==
    /\ Controller!ClicAssumption /\ Walker!DflAssumption /\ Text!TextAssumption
    /\ Calls!CallsAssumption /\ Small!PolledAssumption /\ Profiler!ProfileAssumption
    /\ Time!TimeAssumption /\ Log!LogAssumption /\ Start!StartupAssumption
    /\ Flush!CacheAssumption

clicvars == <<clicintctl, clicintattr, clicintie, asked, calls>>
dflvars == <<rom, walk, frames, head, top, size, scanned, index, table, scans>>
textvars == <<printer, fmt, arg, w, state, conversion, out>>
callvars == <<config, fds, last, result, errno, termios, divisor, buf, given, written, refused>>
smallvars == <<core, at, block, len, count, ready, answer, room, rxdata, flagged, offered, sent,
               typed, got>>
profvars == <<on, heap_end, slab_ptr, slab_size, functions, need_init, rate, s_pcsamples, starts,
              place, arc, found, value, blocks, bucket, started, done, isrcalls, maincalls>>
timevars == <<nticks, tick_rate, reset_sec, reset_usec, calling, time, low, high, told, began,
              setTo, setAt>>
logvars == <<ALT_LOG_FLAGS, phase, todo, polled, running, fifo, host, log_tx,
             alt_log_sys_clk_count, log_alarm, reports, report_started, ticks, writes,
             interrupts, ahead, lost>>
bootvars == <<program, boot_pc, again, placed, mie_csr, MIE, handlers, ctrl, rx_buf, rx_mask,
              rx_start, rx_end, uart_tx, rxfifo, constructed, destructed,
              arrived, taken, printed, transmitted, mark>>
cachevars == <<memory, cache, icache, flush, start, end, byte, latest, meanwhile, waived, published,
               loaded>>
halvars == <<service, vars, clicvars, dflvars, textvars, callvars, smallvars, profvars,
             timevars, logvars, bootvars, cachevars>>

Runs(s) == service = s

Single == [parent |-> [i \in {0} |-> -1], forked |-> {}, plain |-> {0}, null |-> FALSE]
FullBuild == [build |-> "fd", small |-> FALSE, use_ioctl |-> FALSE, fixed_baud |-> FALSE,
              redirected |-> TRUE]

LabProgram == [flash |-> FALSE, direct |-> FALSE, exits |-> TRUE, clean |-> TRUE,
               fc |-> FALSE]

\* A service that does not run stays in one of its initial states.
HalInit == /\ service \in {"irq", "clic", "dfl", "text", "calls", "small", "profile",
                         "time", "log", "startup", "cache"}
           /\ Runs("irq") \/ mode = "direct"
           /\ Init /\ Controller!Init
           /\ IF Runs("dfl") THEN TRUE ELSE rom = Single
           /\ Walker!Init
           /\ IF Runs("text") THEN TRUE ELSE printer = "byte2bcd" /\ fmt = <<>> /\ arg = 0
           /\ Text!Init
           /\ IF Runs("calls") THEN TRUE ELSE config = FullBuild
           /\ Calls!Init
           /\ IF Runs("small") THEN TRUE ELSE core = "lw"
           /\ Small!Init
           /\ arc = CHOOSE a \in Arcs : TRUE
           /\ Profiler!Init /\ Time!Init
           /\ IF Runs("log") THEN TRUE ELSE ALT_LOG_FLAGS = 0
           /\ Log!Init
           /\ IF Runs("startup") THEN TRUE ELSE mie_csr = {} /\ program = LabProgram
           /\ Start!Init /\ Flush!Init

HalNext ==
    /\ service' = service
    /\ \/ /\ Runs("irq") /\ Next
          /\ UNCHANGED <<clicvars, dflvars, textvars, callvars, smallvars, profvars, timevars,
                         logvars, bootvars, cachevars>>
       \/ /\ Runs("clic") /\ Controller!Next
          /\ UNCHANGED <<vars, dflvars, textvars, callvars, smallvars, profvars, timevars,
                         logvars, bootvars, cachevars>>
       \/ /\ Runs("dfl") /\ Walker!Next
          /\ UNCHANGED <<vars, clicvars, textvars, callvars, smallvars, profvars, timevars,
                         logvars, bootvars, cachevars>>
       \/ /\ Runs("text") /\ Text!Next
          /\ UNCHANGED <<vars, clicvars, dflvars, callvars, smallvars, profvars, timevars,
                         logvars, bootvars, cachevars>>
       \/ /\ Runs("calls") /\ Calls!Next
          /\ UNCHANGED <<vars, clicvars, dflvars, textvars, smallvars, profvars, timevars,
                         logvars, bootvars, cachevars>>
       \/ /\ Runs("small") /\ Small!Next
          /\ UNCHANGED <<vars, clicvars, dflvars, textvars, callvars, profvars, timevars,
                         logvars, bootvars, cachevars>>
       \/ /\ Runs("profile") /\ Profiler!Next
          /\ UNCHANGED <<vars, clicvars, dflvars, textvars, callvars, smallvars, timevars,
                         logvars, bootvars, cachevars>>
       \/ /\ Runs("time") /\ Time!Next
          /\ UNCHANGED <<vars, clicvars, dflvars, textvars, callvars, smallvars, profvars,
                         logvars, bootvars, cachevars>>
       \/ /\ Runs("log") /\ Log!Next
          /\ UNCHANGED <<vars, clicvars, dflvars, textvars, callvars, smallvars, profvars,
                         timevars, bootvars, cachevars>>
       \/ /\ Runs("startup") /\ Start!Next
          /\ UNCHANGED <<vars, clicvars, dflvars, textvars, callvars, smallvars, profvars,
                         timevars, logvars, cachevars>>
       \/ /\ Runs("cache") /\ Flush!Next
          /\ UNCHANGED <<vars, clicvars, dflvars, textvars, callvars, smallvars, profvars,
                         timevars, logvars, bootvars>>

\* Fairness is that of Interrupts, which is the service with a liveness property.
HalSpec == /\ HalInit /\ [][HalNext]_halvars
           /\ WF_vars(Runs("irq") /\ Boot) /\ WF_vars(Runs("irq") /\ EnableAll)
           /\ WF_vars(Runs("irq") /\ Registering) /\ WF_vars(Runs("irq") /\ Trap)

\* The properties of a service that does not run hold of its initial states.
ClicRefined == Controller!ClicRefined
DflTableRight == Runs("dfl") => Walker!DflTableRight
TextRight == Runs("text") => Text!TextRight
AccessKept == Runs("calls") => Calls!AccessKept
SettingsAgree == Runs("calls") => Calls!SettingsAgree

\* What is given to a small driver, or to the buffer in front of semihosting, comes out in its
\* order, each character at most once, unless the call refused it.
OutputExact == /\ Runs("small") => Small!PolledExact
               /\ Runs("calls") => Calls!BufferAccounts

CallsCounted == Runs("profile") => Profiler!CallsCounted
BlocksDisjoint == Runs("profile") => Profiler!BlocksDisjoint
TimeOfDayRight == Runs("time") => Time!TimeOfDayRight
LogRight == Runs("log") => Log!LogRight
EarlyInterruptsSafe == Runs("startup") => Start!EarlyInterruptsSafe
NothingStranded == Runs("startup") => Start!NothingStranded
FlushesReachMemory == Runs("cache") => Flush!FlushesReachMemory
=============================================================================
