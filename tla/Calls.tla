-------------------------------- MODULE Calls --------------------------------
(***************************************************************************)
(* The system calls that go through a descriptor (alt_read.c, alt_write.c, *)
(* alt_fstat.c, alt_isatty.c, alt_lseek.c, alt_fcntl.c, alt_ioctl.c), in   *)
(* the build with descriptors and in the one with direct drivers; the      *)
(* character routines above them (alt_getchar.c, alt_putchar.c,            *)
(* alt_putstr.c, alt_putcharbuf.c); and the requests the UARTs answer      *)
(* (intel_lw_uart_ioctl.c, altera_avalon_jtag_uart_ioctl.c).  The transfer *)
(* itself is in LwUart, JtagUart and Polled: here it has an outcome.       *)
(***************************************************************************)
EXTENDS Integers, Sequences

CONSTANTS
    Descriptors,     \* those the program uses
    Configurations,  \* builds: [build, small, use_ioctl, fixed_baud, redirected]
    Freq, Baud,      \* clock and reset speed of the LW UART
    Speeds,          \* speeds a program asks for, none of them 0
    PutbufSize,      \* ALT_PUTBUF_SIZE
    MaxGiven         \* bound: characters given to alt_putcharbuf()

\* What the constants may be.
CallsAssumption ==
    /\ Descriptors \subseteq 0 .. 3
    /\ \A c \in Configurations : /\ c.build \in {"fd", "direct", "semihosting"}
                                 /\ {c.small, c.use_ioctl, c.fixed_baud, c.redirected} \subseteq BOOLEAN
    /\ {Freq, Baud, PutbufSize} \subseteq Nat \ {0} /\ Speeds \subseteq Nat \ {0}
    /\ MaxGiven \in Nat

VARIABLES
    config,          \* the build
    fds,             \* alt_fd_list: [dev, flags]; descriptor 3 is an opened JTAG UART
    last,            \* the last call: [op, file, moved], moved the driver function called
    result, errno,   \* what it returned, and errno, which the program set to 0 before it
    termios, divisor,          \* sp->termios, DIVISOR of the LW UART
    buf,             \* alt_putcharbuf.c: buf[0 .. fill_index - 1]
    given, written, refused    \* history of the characters given to alt_putcharbuf()
vars == <<config, fds, last, result, errno, termios, divisor, buf, given, written, refused>>

putbuf == <<buf, given, written, refused>>
settings == <<termios, divisor>>

\* A call returns a number; a raw error is an error number, negated.
Returned(n) == [n |-> n, raw |-> "none"]
Raw(e) == [n |-> -1, raw |-> e]
NoCall == [op |-> "none", file |-> 0, moved |-> "none"]

\* The functions in the table of a device.
LwFunctions == IF config.use_ioctl /\ ~config.small THEN {"read", "write", "ioctl"}
               ELSE {"read", "write"}
JtagFunctions == IF config.small THEN {"read", "write"} ELSE {"read", "write", "ioctl"}
Functions(dev) == CASE dev = "null" -> {"write"}
                    [] dev = "lw" -> LwFunctions
                    [] dev = "jtag" -> JtagFunctions

\* O_RDONLY is the absence of both other modes.
OpenModes == {"O_WRONLY", "O_RDWR"}
ALT_FCNTL_FLAGS_MASK == {"O_APPEND", "O_NONBLOCK"}
ALT_FD_FLAGS_MASK == {"ALT_FD_EXCL", "ALT_FD_DEV"}
Arguments == {{"O_NONBLOCK"}, {"O_RDWR", "ALT_FD_EXCL"}}

\* Before alt_io_redirect() the three point at /dev/null, open for reading.
OpenedWith(f) == IF f = 3 THEN {"O_RDWR"}
                 ELSE IF config.redirected /\ f > 0 THEN {"O_WRONLY"} ELSE {}

Init == /\ config \in Configurations
        /\ fds = [f \in 0 .. 3 |->
                     [dev |-> IF f = 3 THEN "jtag" ELSE IF config.redirected THEN "lw" ELSE "null",
                      flags |-> OpenedWith(f) \cup
                                (IF f = 3 \/ config.redirected THEN {"ALT_FD_DEV"} ELSE {})]]
        /\ last = NoCall /\ result = Returned(0) /\ errno = "0"
        /\ termios = [ispeed |-> Baud, ospeed |-> Baud, cflag |-> "built"]
        /\ divisor = Freq \div Baud - 1
        /\ buf = <<>> /\ given = 0 /\ written = <<>> /\ refused = {}

-----------------------------------------------------------------------------
(***************************************************************************)
(* What the drivers answer to a transfer: [n, raw] and the errno they set  *)
(* themselves.                                                             *)
(***************************************************************************)
Answer(r, e) == [r |-> r, errno |-> e]
Moved(len) == {Answer(Returned(n), "0") : n \in 1 .. len}
WouldBlock(dev) ==
    CASE dev = "lw" /\ config.small -> {Answer(Returned(0), "EWOULDBLOCK")}
      [] dev = "lw" /\ ~config.small -> {Answer(Raw("EWOULDBLOCK"), "EWOULDBLOCK")}
      [] dev = "jtag" -> {Answer(Raw("EWOULDBLOCK"), "0")}
Answers(dev, op, len, flags) ==
    IF dev = "null" THEN {Answer(Returned(len), "0")}
    ELSE Moved(len) \cup (IF "O_NONBLOCK" \in flags THEN WouldBlock(dev) ELSE {})
                    \cup (IF dev = "jtag" /\ ~config.small THEN {Answer(Raw("EIO"), "0")} ELSE {})

-----------------------------------------------------------------------------
(***************************************************************************)
(* intel_lw_uart_ioctl() and altera_avalon_jtag_uart_ioctl().              *)
(***************************************************************************)

Speed(s) == [termios EXCEPT !.ispeed = s, !.ospeed = s]

\* Mutant: the settings that were refused stay recorded.
intel_lw_uart_tiocmset_Kept(term) ==
    LET tried == IF config.fixed_baud THEN termios ELSE Speed(term.ispeed)
    IN CASE term # tried -> termios' = tried /\ divisor' = divisor /\ result' = Raw("EIO")
         [] term = tried /\ term.ispeed = termios.ispeed ->
               termios' = tried /\ divisor' = divisor /\ result' = Returned(0)
         [] term = tried /\ term.ispeed # termios.ispeed /\ Freq \div 4 < term.ispeed ->
               termios' = tried /\ divisor' = divisor /\ result' = Raw("EIO")
         [] OTHER -> /\ termios' = tried /\ divisor' = Freq \div term.ispeed - 1
                     /\ result' = Returned(0)

\* The new speed is recorded first, and the old one restored if the rest of the
\* request differs from what is built, or the speed is beyond the clock's.
intel_lw_uart_tiocmset(term) ==
    LET speed == termios.ispeed
        tried == IF config.fixed_baud THEN termios ELSE Speed(term.ispeed)
    IN CASE term # tried -> termios' = Speed(speed) /\ divisor' = divisor /\ result' = Raw("EIO")
         [] term = tried /\ term.ispeed = speed ->
               termios' = tried /\ divisor' = divisor /\ result' = Returned(0)
         [] term = tried /\ term.ispeed # speed /\ Freq \div 4 < term.ispeed ->
               termios' = Speed(speed) /\ divisor' = divisor /\ result' = Raw("EIO")
         [] OTHER -> /\ termios' = tried /\ divisor' = Freq \div term.ispeed - 1
                     /\ result' = Returned(0)

Requests == {"TIOCEXCL", "TIOCMGET", "TIOCMSET", "TIOCSTIMEOUT", "TIOCGCONNECTED"}
NoTermios == [ispeed |-> 0, ospeed |-> 0, cflag |-> "NULL"]
Terms == {NoTermios} \cup [ispeed : Speeds, ospeed : Speeds, cflag : {"built"}]
                       \cup {[ispeed |-> s, ospeed |-> s, cflag |-> "other"] : s \in Speeds}

\* What a request points at, where the drivers look at it.
PointsAt(req) == CASE req = "TIOCMSET" -> Terms
                   [] req = "TIOCMGET" -> {NoTermios, termios}
                   [] OTHER -> {NoTermios}

intel_lw_uart_ioctl(req, term) ==
    CASE req \in {"TIOCMGET", "TIOCMSET"} /\ term = NoTermios -> result' = Raw("EPERM") /\ UNCHANGED settings
      [] req = "TIOCMGET" /\ term # NoTermios -> result' = Returned(0) /\ UNCHANGED settings
      [] req = "TIOCMSET" /\ term # NoTermios -> intel_lw_uart_tiocmset(term)
      [] OTHER -> result' = Raw("ENOTTY") /\ UNCHANGED settings

\* Without the alarm the JTAG UART knows neither request; a host may be absent.
altera_avalon_jtag_uart_ioctl(req) ==
    /\ result' \in CASE req = "TIOCSTIMEOUT" -> {Returned(0), Raw("ENOTTY")}
                     [] req = "TIOCGCONNECTED" -> {Returned(0), Raw("ENOTTY"), Raw("ENOTCONN")}
                     [] OTHER -> {Raw("ENOTTY")}
    /\ UNCHANGED settings

-----------------------------------------------------------------------------
(***************************************************************************)
(* The calls in the build with descriptors.                                *)
(***************************************************************************)
Build(b) == config.build = b
Make(op, file, moved) == last' = [op |-> op, file |-> file, moved |-> moved]
Keep == UNCHANGED <<config, putbuf>>
Refuse(e) == result' = Returned(-1) /\ errno' = e
Dev(file) == fds[file].dev

\* A call through the table: a negative answer becomes errno and -1.
Vectored(a) == IF a.r.raw = "none" THEN result' = a.r /\ errno' = a.errno ELSE Refuse(a.r.raw)

\* A negative number is what a failed open() returned.
BadFd(op) == /\ Build("fd") /\ Make(op, -1, "none")
             /\ UNCHANGED <<fds, settings>> /\ Keep
             /\ CASE op = "isatty" -> result' = Returned(0) /\ errno' = "EBADFD"
                  [] op = "ioctl" -> result' = Raw("EBADFD") /\ errno' = "EBADFD"
                  [] OTHER -> Refuse("EBADFD")

MayWrite(f) == fds[f].flags \cap OpenModes # {}
MayRead(f) == "O_WRONLY" \notin fds[f].flags

Transfer(op, f, len) ==
    /\ Build("fd") /\ UNCHANGED <<fds, settings>> /\ Keep
    /\ IF (op = "write" => MayWrite(f)) /\ (op = "read" => MayRead(f)) /\ op \in Functions(Dev(f))
       THEN /\ Make(op, f, op)
            /\ \E a \in Answers(Dev(f), op, len, fds[f].flags) : Vectored(a)
       ELSE Make(op, f, "none") /\ Refuse("EACCES")

write(f, len) == Transfer("write", f, len)
read(f, len) == Transfer("read", f, len)

\* No device has an fstat() or an lseek().
fstat(f) == /\ Build("fd") /\ Make("fstat", f, "none")
            /\ result' = Returned(0) /\ errno' = "0"
            /\ UNCHANGED <<fds, settings>> /\ Keep
isatty(f) == /\ Build("fd") /\ Make("isatty", f, "none")
             /\ result' = Returned(1) /\ errno' = "0"
             /\ UNCHANGED <<fds, settings>> /\ Keep
lseek(f) == /\ Build("fd") /\ Make("lseek", f, "none")
            /\ Refuse("ENOTSUP")
            /\ UNCHANGED <<fds, settings>> /\ Keep

\* F_GETFL, F_SETFL and anything else.
F_GETFL(f) == /\ Build("fd") /\ Make("fcntl", f, "none")
              /\ result' = Returned(0) /\ errno' = "0"
              /\ UNCHANGED <<fds, settings>> /\ Keep

\* Mutant: the argument is not masked.
F_SETFL_Unmasked(f, flags) ==
    /\ Build("fd") /\ Make("fcntl", f, "none")
    /\ fds' = [fds EXCEPT ![f].flags = (@ \ ALT_FCNTL_FLAGS_MASK) \cup flags]
    /\ result' = Returned(0) /\ errno' = "0"
    /\ UNCHANGED settings /\ Keep

F_SETFL(f, flags) ==
    /\ Build("fd") /\ Make("fcntl", f, "none")
    /\ fds' = [fds EXCEPT ![f].flags = (@ \ ALT_FCNTL_FLAGS_MASK) \cup (flags \cap ALT_FCNTL_FLAGS_MASK)]
    /\ result' = Returned(0) /\ errno' = "0"
    /\ UNCHANGED settings /\ Keep

F_Other(f) == /\ Build("fd") /\ Make("fcntl", f, "none")
              /\ Refuse("EINVAL")
              /\ UNCHANGED <<fds, settings>> /\ Keep

\* TIOCEXCL is answered without the driver, which is in Files; here it succeeds.
ioctl(f, req, term) ==
    /\ Build("fd") /\ Make("ioctl", f, "none") /\ UNCHANGED fds /\ Keep
    /\ CASE req = "TIOCEXCL" /\ "ALT_FD_DEV" \in fds[f].flags ->
               result' = Returned(0) /\ UNCHANGED settings
         [] "ioctl" \in Functions(Dev(f)) /\ Dev(f) = "lw" -> intel_lw_uart_ioctl(req, term)
         [] "ioctl" \in Functions(Dev(f)) /\ Dev(f) = "jtag" -> altera_avalon_jtag_uart_ioctl(req)
         [] OTHER -> result' = Raw("ENOTTY") /\ UNCHANGED settings
    /\ errno' = IF result'.raw = "none" THEN "0" ELSE result'.raw

-----------------------------------------------------------------------------
(***************************************************************************)
(* Direct drivers: the standard streams are the LW UART, whatever the      *)
(* table says, and the driver's answer is returned as it is.               *)
(***************************************************************************)
Serves(op, file) == \/ op = "read" /\ file = 0
                    \/ op = "write" /\ file \in {1, 2}
                    \/ op \in {"fstat", "isatty", "ioctl"} /\ file \in 0 .. 2

\* read() and write() pass no flags, so they block.
DirectTransfer(op, file, len) ==
    /\ Build("direct") /\ UNCHANGED <<fds, settings>> /\ Keep
    /\ IF Serves(op, file)
       THEN /\ Make(op, file, op)
            /\ \E a \in Answers("lw", op, len, {}) : result' = a.r /\ errno' = a.errno
       ELSE Make(op, file, "none") /\ Refuse("EBADFD")

\* fstat() fails without a reason, and isatty() says no.
DirectFstat(file) == /\ Build("direct") /\ Make("fstat", file, "none")
                     /\ UNCHANGED <<fds, settings>> /\ Keep
                     /\ result' = Returned(IF Serves("fstat", file) THEN 0 ELSE -1) /\ errno' = "0"
DirectIsatty(file) == /\ Build("direct") /\ Make("isatty", file, "none")
                      /\ UNCHANGED <<fds, settings>> /\ Keep
                      /\ result' = Returned(IF Serves("isatty", file) THEN 1 ELSE 0) /\ errno' = "0"

DirectSeek(file) == /\ Build("direct") /\ Make("lseek", file, "none")
                    /\ Refuse("ENOSYS")
                    /\ UNCHANGED <<fds, settings>> /\ Keep

DirectIoctl(file, req, term) ==
    /\ Build("direct") /\ config.use_ioctl /\ ~config.small
    /\ Make("ioctl", file, "none") /\ UNCHANGED fds /\ Keep
    /\ IF Serves("ioctl", file) THEN intel_lw_uart_ioctl(req, term) /\ errno' = "0"
       ELSE Refuse("EBADFD") /\ UNCHANGED settings

\* alt_getchar() passes the flags of the table.
alt_getchar == /\ Build("direct") /\ Make("getchar", 0, "read")
               /\ UNCHANGED <<fds, settings>> /\ Keep
               /\ \E a \in Answers("lw", "read", 1, fds[0].flags) :
                     /\ errno' = a.errno
                     /\ result' = IF a.r.raw # "none" \/ a.r.n <= 0 THEN Returned(-1) ELSE a.r

\* alt_putchar() takes every error but -1 for success.
DirectPut(op) == /\ Build("direct") /\ Make(op, 1, "write")
                 /\ UNCHANGED <<fds, settings>> /\ Keep
                 /\ \E a \in Answers("lw", "write", 1, {}) : result' = a.r /\ errno' = a.errno
alt_putchar == DirectPut("putchar")
alt_putstr == DirectPut("putstr")

-----------------------------------------------------------------------------
(***************************************************************************)
(* Semihosting: write() is the debugger's, and may refuse the end of what  *)
(* it is given, or everything.                                             *)
(***************************************************************************)
Dumped(chars, n) == /\ written' = written \o SubSeq(chars, 1, n)
                    /\ refused' = refused \cup {chars[i] : i \in n + 1 .. Len(chars)}

\* Whatever write() says, the buffer is empty afterwards.
alt_putbufflush(chars) ==
    \E n \in 0 .. Len(chars) : /\ Dumped(chars, n)
                               /\ buf' = <<>>
                               /\ result' = Returned(IF n = 0 THEN -1 ELSE n)

alt_putcharbuf == /\ Build("semihosting") /\ given < MaxGiven
                  /\ given' = given + 1
                  /\ LET filled == Append(buf, given')
                     IN IF Len(filled) >= PutbufSize THEN alt_putbufflush(filled)
                        ELSE buf' = filled /\ UNCHANGED <<written, refused, result>>
                  /\ UNCHANGED <<config, fds, last, errno, settings>>

Flush == /\ Build("semihosting") /\ buf # <<>>
         /\ alt_putbufflush(buf)
         /\ UNCHANGED <<config, fds, last, errno, settings, given>>

Next == \/ \E op \in {"write", "read", "fstat", "isatty", "lseek", "fcntl", "ioctl"} : BadFd(op)
        \/ \E f \in Descriptors :
              \/ \E len \in 1 .. 2 : write(f, len) \/ read(f, len)
              \/ fstat(f) \/ isatty(f) \/ lseek(f) \/ F_GETFL(f) \/ F_Other(f)
              \/ \E flags \in Arguments : F_SETFL(f, flags)
              \/ \E req \in Requests : \E term \in PointsAt(req) : ioctl(f, req, term)
        \/ \E file \in -1 .. 3 :
              \/ \E op \in {"write", "read"} : DirectTransfer(op, file, 1)
              \/ DirectFstat(file) \/ DirectIsatty(file) \/ DirectSeek(file)
              \/ \E req \in Requests : \E term \in PointsAt(req) : DirectIoctl(file, req, term)
        \/ alt_getchar \/ alt_putchar \/ alt_putstr \/ alt_putcharbuf \/ Flush

Spec == Init /\ [][Next]_vars

-----------------------------------------------------------------------------
\* Whatever fcntl() was asked for, characters go out only through a descriptor
\* that was opened for writing, and come in only through one opened for reading.
AccessKept ==
    Build("fd") => /\ last.moved = "write" => OpenedWith(last.file) \cap OpenModes # {}
                   /\ last.moved = "read" => "O_WRONLY" \notin OpenedWith(last.file)

\* After any sequence of requests, granted or refused, through whichever
\* descriptor, the divisor of the LW UART is the one of the recorded speed, and
\* nothing else of the recorded settings has changed.
SettingsAgree == /\ divisor = Freq \div termios.ispeed - 1
                 /\ termios = [ispeed |-> termios.ispeed, ospeed |-> termios.ispeed, cflag |-> "built"]

\* The characters given to alt_putcharbuf() are written in their order, each at
\* most once; the others are in the buffer, which is never full between calls,
\* or were refused by the write() of a flush.
BufferAccounts ==
    LET kept == written \o buf
    IN /\ Len(buf) < PutbufSize
       /\ {kept[i] : i \in DOMAIN kept} = (1 .. given) \ refused
       /\ \A i, j \in DOMAIN kept : i < j => kept[i] < kept[j]
=============================================================================
