------------------------------ MODULE JtagUart ------------------------------
(***************************************************************************)
(* The interrupt-driven ("fast") driver of the JTAG UART:                  *)
(* altera_avalon_jtag_uart_{init,write,read,ioctl}.c in the                *)
(* build of this repository: one thread, and write() answers -EIO when it  *)
(* gives up on an absent host.  Main runs one driver call at a time;       *)
(* the interrupt handler and, once a second, the host-presence alarm       *)
(* preempt it, but not each other.  The host comes and goes.               *)
(*                                                                         *)
(* Bytes are named by their position in the stream.  irq_enable stands for *)
(* the driver's word and the core's CONTROL bits: every change writes both *)
(* with interrupts off.                                                    *)
(***************************************************************************)
EXTENDS Integers, Sequences, Ring

CONSTANTS
    BufLen,               \* ALTERA_AVALON_JTAG_UART_BUF_LEN
    IntMax,               \* INT_MAX
    DefaultTimeout,       \* ALTERA_AVALON_JTAG_UART_DEFAULT_TIMEOUT
    WriteDepth, ReadDepth,    \* the core's FIFOs
    WriteThreshold,       \* WI is raised at this level of the write FIFO
    WriteLens, ReadLens,  \* the counts the program passes
    Timeouts,             \* the arguments of TIOCSTIMEOUT it passes
    TxTotal, RxTotal,     \* bound: bytes written and typed in a behaviour
    MaxHostChanges        \* bound: times the host appears or disappears

ASSUME BufferAssumption == BufLen \in Nat /\ BufLen >= 2

ASSUME ConfigAssumption ==
    /\ IntMax \in Nat /\ IntMax >= 3
    /\ DefaultTimeout \in 2 .. IntMax - 1
    /\ WriteDepth \in Nat \ {0} /\ ReadDepth \in Nat \ {0}
    /\ WriteThreshold \in 0 .. WriteDepth - 1
    /\ WriteLens \subseteq Nat /\ ReadLens \subseteq Nat /\ Timeouts \subseteq Int
    /\ TxTotal \in Nat /\ RxTotal \in Nat /\ MaxHostChanges \in Nat

VARIABLES
    \* altera_avalon_jtag_uart_state
    irq_enable, timeout, host_inactive,
    tx_buf, tx_in, tx_out, rx_buf, rx_in, rx_out,
    \* main: where it is, and the locals of the call it is in; moved is ptr - start
    pc, no_block, count, moved, out, n, rval,
    \* the handler: where it is, and what it has read of CONTROL and DATA
    ipc, wi, space, avail,
    \* the core and the host
    wlevel, rfifo, ac, host, hostchanges,
    \* history
    accepted,             \* number of bytes write() has published
    sent,                 \* bytes written to DATA
    typed,                \* number of characters from the host
    delivered             \* those copied to the reader

txring == <<tx_buf, tx_in, tx_out>>
rxring == <<rx_buf, rx_in, rx_out>>
watch == <<timeout, host_inactive>>
driver == <<irq_enable, watch, txring, rxring>>
main == <<pc, no_block, count, moved, out, n, rval>>
handler == <<ipc, wi, space, avail>>
core == <<wlevel, rfifo, ac, host, hostchanges>>
history == <<accepted, sent, typed, delivered>>
vars == <<driver, main, handler, core, history>>

TxPending == Contents(tx_buf, tx_out, tx_in, BufLen)
RxPending == Contents(rx_buf, rx_out, rx_in, BufLen)
Absent == host_inactive >= timeout     \* "host not connected"
HasAlarm == timeout # IntMax           \* alt_alarm_start succeeded in ..._init
Numbers(from, to) == [i \in 1 .. to - from |-> from + i]

\* The interrupt bits of CONTROL.
RI == "RE" \in irq_enable /\ rfifo # <<>>
WI == "WE" \in irq_enable /\ wlevel <= WriteThreshold

\* altera_avalon_jtag_uart_init.  The alarm is refused when the timer has not
\* been initialised yet; the time limit records it, for good.
Init ==
    /\ irq_enable = {"RE"} /\ host_inactive = 0
    /\ timeout \in {DefaultTimeout, IntMax}
    /\ tx_buf = [i \in Indices(BufLen) |-> 0] /\ tx_in = 0 /\ tx_out = 0
    /\ rx_buf = [i \in Indices(BufLen) |-> 0] /\ rx_in = 0 /\ rx_out = 0
    /\ pc = "idle" /\ no_block = FALSE /\ count = 0 /\ moved = 0 /\ out = 0
    /\ n = 0 /\ rval = "ok"
    /\ ipc = "idle" /\ wi = FALSE /\ space = 0 /\ avail = FALSE
    /\ wlevel = 0 /\ rfifo = <<>> /\ ac = FALSE /\ host \in BOOLEAN /\ hostchanges = 0
    /\ accepted = 0 /\ sent = <<>> /\ typed = 0 /\ delivered = <<>>

-----------------------------------------------------------------------------
At(label) == pc = label /\ ipc = "idle"

Goto(label) == pc' = label

Call(c, nb) == /\ no_block' = nb /\ count' = c /\ moved' = 0 /\ rval' = "ok"
               /\ UNCHANGED <<out, n, driver, handler, core, history>>

\* Back to the program; the locals of the call are gone.
Return(r) == /\ Goto("idle") /\ rval' = r
             /\ no_block' = FALSE /\ count' = 0 /\ moved' = 0 /\ out' = 0 /\ n' = 0

Write == /\ At("idle")
         /\ \E c \in WriteLens, nb \in BOOLEAN : accepted + c <= TxTotal /\ Call(c, nb)
         /\ Goto("w_space")

\* Mutant: the run to the end of the buffer is not cut when the reader is at 0.
FreeRun_NoGap(in, o) == IF in < o THEN o - 1 - in ELSE BufLen - in

\* The contiguous free slots at "in".
FreeRun(in, o) == CASE in < o -> o - 1 - in
                    [] in >= o /\ o > 0 -> BufLen - in
                    [] OTHER -> BufLen - 1 - in

Smaller(a, b) == IF a <= b THEN a ELSE b

W_Space == /\ At("w_space")
           /\ \/ /\ count = 0
                 /\ n' = 0
                 /\ UNCHANGED out
              \/ /\ count > 0
                 /\ n' = Smaller(FreeRun(tx_in, tx_out), count)
                 /\ out' = tx_out
           /\ Goto(IF n' = 0 THEN "w_kick" ELSE "w_copy")
           /\ UNCHANGED <<driver, no_block, count, moved, rval, handler, core, history>>

W_Copy == /\ At("w_copy")
          /\ tx_buf' = [i \in Indices(BufLen) |->
                          IF i \in tx_in .. tx_in + n - 1 THEN accepted + 1 + i - tx_in
                          ELSE tx_buf[i]]
          /\ moved' = moved + n
          /\ count' = count - n
          /\ Goto("w_publish")
          /\ UNCHANGED <<irq_enable, watch, tx_in, tx_out, rxring, no_block, out, n,
                         rval, handler, core, history>>

W_Publish == /\ At("w_publish")
             /\ tx_in' = Slot(tx_in, n, BufLen)
             /\ accepted' = accepted + n
             /\ Goto("w_space")
             /\ UNCHANGED <<irq_enable, watch, tx_buf, tx_out, rxring, no_block, count,
                            moved, out, n, rval, handler, core, sent, typed, delivered>>

\* Mutant: the transmit interrupt is enabled only when the ring is full.
W_Kick_WhenFull ==
    /\ At("w_kick")
    /\ irq_enable' = IF count > 0 THEN irq_enable \cup {"WE"} ELSE irq_enable
    /\ Goto(IF count > 0 /\ ~no_block THEN "w_spin" ELSE "w_return")
    /\ UNCHANGED <<watch, txring, rxring, no_block, count, moved, out, n, rval,
                   handler, core, history>>

\* The transmit interrupt is enabled, with interrupts off, whatever was copied.
W_Kick == /\ At("w_kick")
          /\ irq_enable' = irq_enable \cup {"WE"}
          /\ Goto(IF count > 0 /\ ~no_block THEN "w_spin" ELSE "w_return")
          /\ UNCHANGED <<watch, txring, rxring, no_block, count, moved, out, n, rval,
                         handler, core, history>>

\* Mutant: only the ring ends the wait.
W_Spin_Forever == /\ At("w_spin")
                  /\ Goto(IF out # tx_out THEN "w_host" ELSE "w_spin")
                  /\ UNCHANGED <<driver, no_block, count, moved, out, n, rval, handler,
                                 core, history>>

\* The wait for the handler to take something, or for the host to be absent.
W_Spin == /\ At("w_spin")
          /\ Goto(IF out # tx_out \/ Absent THEN "w_host" ELSE "w_spin")
          /\ UNCHANGED <<driver, no_block, count, moved, out, n, rval, handler, core,
                         history>>

\* if (sp->host_inactive) break, and the loop's condition.
W_Host == /\ At("w_host")
          /\ Goto(IF host_inactive = 0 THEN "w_space" ELSE "w_return")
          /\ UNCHANGED <<driver, no_block, count, moved, out, n, rval, handler, core,
                         history>>

W_Return == /\ At("w_return")
            /\ Return(CASE moved > 0 -> "ok"
                        [] moved = 0 /\ no_block -> "EWOULDBLOCK"
                        [] OTHER -> "EIO")
            /\ UNCHANGED <<driver, handler, core, history>>

-----------------------------------------------------------------------------
\* A read of no bytes falls through every loop.
Read == /\ At("idle")
        /\ \E c \in ReadLens, nb \in BOOLEAN : Call(c, nb)
        /\ Goto(IF count' > 0 THEN "r_data" ELSE "r_return")

\* The contiguous data at rx_out; out is the local "in", which the spin compares.
DataRun(in, o) == IF in >= o THEN in - o ELSE BufLen - o

R_Data == /\ At("r_data")
          /\ out' = rx_in
          /\ n' = Smaller(DataRun(rx_in, rx_out), count)
          /\ Goto(CASE n' > 0 -> "r_copy"
                    [] n' = 0 /\ (moved > 0 \/ no_block) -> "r_return"
                    [] OTHER -> "r_spin")
          /\ UNCHANGED <<driver, no_block, count, moved, rval, handler, core, history>>

R_Copy == /\ At("r_copy")
          /\ delivered' = delivered \o [i \in 1 .. n |-> rx_buf[rx_out + i - 1]]
          /\ moved' = moved + n
          /\ count' = count - n
          /\ Goto("r_release")
          /\ UNCHANGED <<driver, no_block, out, n, rval, handler, core, accepted, sent,
                         typed>>

\* The space is given back, and the loop ends when the caller's buffer is full.
R_Release == /\ At("r_release")
             /\ rx_out' = Slot(rx_out, n, BufLen)
             /\ Goto(IF count > 0 THEN "r_data" ELSE "r_return")
             /\ UNCHANGED <<irq_enable, watch, txring, rx_buf, rx_in, no_block, count,
                            moved, out, n, rval, handler, core, history>>

R_Spin == /\ At("r_spin")
          /\ Goto(IF out # rx_in \/ Absent THEN "r_last" ELSE "r_spin")
          /\ UNCHANGED <<driver, no_block, count, moved, out, n, rval, handler, core,
                         history>>

\* if (in == sp->rx_in) break
R_Last == /\ At("r_last")
          /\ Goto(IF out = rx_in THEN "r_return" ELSE "r_data")
          /\ UNCHANGED <<driver, no_block, count, moved, out, n, rval, handler, core,
                         history>>

R_Return == /\ At("r_return")
            /\ irq_enable' = IF moved > 0 THEN irq_enable \cup {"RE"} ELSE irq_enable
            /\ Return(CASE moved > 0 -> "ok"
                        [] moved = 0 /\ no_block -> "EWOULDBLOCK"
                        [] OTHER -> "EIO")
            /\ UNCHANGED <<watch, txring, rxring, handler, core, history>>

-----------------------------------------------------------------------------
Close == /\ At("idle")
         /\ \E nb \in BOOLEAN : Call(0, nb)
         /\ Goto("c_wait")

C_Wait == /\ At("c_wait")
          /\ \/ (tx_out = tx_in \/ Absent) /\ Return("ok")
             \/ tx_out # tx_in /\ ~Absent /\ no_block /\ Return("EWOULDBLOCK")
             \/ tx_out # tx_in /\ ~Absent /\ ~no_block /\ UNCHANGED main
          /\ UNCHANGED <<driver, handler, core, history>>

\* TIOCSTIMEOUT; IntMax means "no alarm" and cannot be set.  (TIOCGCONNECTED
\* only reads: it answers ~Absent.)
Ioctl == /\ At("idle") /\ HasAlarm
         /\ \E t \in Timeouts :
               timeout' = IF t >= 2 /\ t < IntMax THEN t ELSE IntMax - 1
         /\ UNCHANGED <<irq_enable, host_inactive, txring, rxring, main, handler, core,
                        history>>

-----------------------------------------------------------------------------
(***************************************************************************)
(* altera_avalon_jtag_uart_irq: rounds of "read CONTROL, serve it".        *)
(***************************************************************************)
I_Control == /\ (ipc = "idle" /\ (RI \/ WI)) \/ ipc = "control"
             /\ wi' = WI
             /\ space' = IF WI THEN WriteDepth - wlevel ELSE 0
             /\ avail' = RI
             /\ ipc' = CASE RI -> "rx" [] ~RI /\ WI -> "tx" [] OTHER -> "idle"
             /\ UNCHANGED <<driver, main, core, history>>

\* Mutant: a character is taken from the core although the ring is full.
I_RxPop_Anyway ==
    /\ ipc = "rx" /\ rfifo # <<>>
    /\ rx_buf' = [rx_buf EXCEPT ![rx_in] = Head(rfifo)]
    /\ rx_in' = Succ(rx_in, BufLen)
    /\ rfifo' = Tail(rfifo)
    /\ avail' = (rfifo' # <<>>)
    /\ UNCHANGED <<irq_enable, watch, txring, rx_out, main, ipc, wi, space, wlevel, ac,
                   host, hostchanges, history>>

I_RxPop == /\ ipc = "rx" /\ ~Full(rx_out, rx_in, BufLen) /\ rfifo # <<>>
           /\ rx_buf' = [rx_buf EXCEPT ![rx_in] = Head(rfifo)]
           /\ rx_in' = Succ(rx_in, BufLen)
           /\ rfifo' = Tail(rfifo)
           /\ avail' = (rfifo' # <<>>)
           /\ UNCHANGED <<irq_enable, watch, txring, rx_out, main, ipc, wi, space,
                          wlevel, ac, host, hostchanges, history>>

\* The loop's two exits, and what follows it: with more data behind a full
\* ring, receive interrupts stay off until the program has read.
I_RxEnd == /\ ipc = "rx"
           /\ \/ Full(rx_out, rx_in, BufLen) /\ avail /\ irq_enable' = irq_enable \ {"RE"}
              \/ Full(rx_out, rx_in, BufLen) /\ ~avail /\ UNCHANGED irq_enable
              \/ ~Full(rx_out, rx_in, BufLen) /\ rfifo = <<>> /\ UNCHANGED irq_enable
           /\ ipc' = IF wi THEN "tx" ELSE "control"
           /\ avail' = FALSE
           /\ UNCHANGED <<watch, txring, rxring, main, wi, space, core, history>>

\* As many bytes as the core had room for; with room left over, the ring is
\* empty and the transmit interrupt is switched off.
I_Tx == LET k == Smaller(space, Used(tx_out, tx_in, BufLen))
        IN /\ ipc = "tx"
           /\ sent' = sent \o SubSeq(TxPending, 1, k)
           /\ tx_out' = Slot(tx_out, k, BufLen)
           /\ wlevel' = wlevel + k
           /\ irq_enable' = IF space > k THEN irq_enable \ {"WE"} ELSE irq_enable
           /\ ipc' = "control" /\ wi' = FALSE /\ space' = 0
           /\ UNCHANGED <<watch, tx_buf, tx_in, rxring, main, avail, rfifo, ac, host,
                          hostchanges, accepted, typed, delivered>>

\* altera_avalon_jtag_uart_timeout, from the timer's handler.
Alarm == /\ HasAlarm /\ ipc = "idle"
         /\ \/ ac /\ ac' = FALSE /\ host_inactive' = 0
            \/ ~ac /\ host_inactive < IntMax - 2
               /\ host_inactive' = host_inactive + 1 /\ UNCHANGED ac
         /\ UNCHANGED <<irq_enable, timeout, txring, rxring, main, handler, wlevel,
                        rfifo, host, hostchanges, history>>

-----------------------------------------------------------------------------
(***************************************************************************)
(* The host and the core (not in src/).  AC records any JTAG activity.     *)
(***************************************************************************)
H_Take == /\ host /\ wlevel > 0
          /\ wlevel' = wlevel - 1 /\ ac' = TRUE
          /\ UNCHANGED <<driver, main, handler, rfifo, host, hostchanges, history>>

H_Type == /\ host /\ typed < RxTotal /\ Len(rfifo) < ReadDepth
          /\ typed' = typed + 1
          /\ rfifo' = Append(rfifo, typed + 1) /\ ac' = TRUE
          /\ UNCHANGED <<driver, main, handler, wlevel, host, hostchanges, accepted,
                         sent, delivered>>

H_Poll == /\ host /\ ~ac /\ ac' = TRUE
          /\ UNCHANGED <<driver, main, handler, wlevel, rfifo, host, hostchanges, history>>

H_Change == /\ hostchanges < MaxHostChanges
            /\ hostchanges' = hostchanges + 1 /\ host' = ~host
            /\ UNCHANGED <<driver, main, handler, wlevel, rfifo, ac, history>>

-----------------------------------------------------------------------------
WriteStep == W_Space \/ W_Copy \/ W_Publish \/ W_Kick \/ W_Spin \/ W_Host \/ W_Return
ReadStep == R_Data \/ R_Copy \/ R_Release \/ R_Spin \/ R_Last \/ R_Return
CallStep == Write \/ Read \/ Close \/ Ioctl
MainStep == WriteStep \/ ReadStep \/ C_Wait
HandlerStep == I_Control \/ I_RxPop \/ I_RxEnd \/ I_Tx
HostStep == H_Take \/ H_Type \/ H_Poll \/ H_Change

Next == CallStep \/ MainStep \/ HandlerStep \/ Alarm \/ HostStep

Spec == Init /\ [][Next]_vars

(***************************************************************************)
(* A call is executed; the CPU takes its interrupts; the timer ticks; a    *)
(* host that stays takes what is sent to it.                               *)
(***************************************************************************)
Fairness == /\ WF_vars(MainStep) /\ WF_vars(HandlerStep) /\ WF_vars(Alarm)
            /\ WF_vars(H_Take)

FairSpec == Spec /\ Fairness

-----------------------------------------------------------------------------
WriteLabels == {"w_space", "w_copy", "w_publish", "w_kick", "w_spin", "w_host",
                "w_return"}
ReadLabels == {"r_data", "r_copy", "r_release", "r_spin", "r_last", "r_return"}

RingType == /\ tx_buf \in [Indices(BufLen) -> Nat] /\ rx_buf \in [Indices(BufLen) -> Nat]
            /\ tx_in \in Indices(BufLen) /\ tx_out \in Indices(BufLen)
            /\ rx_in \in Indices(BufLen) /\ rx_out \in Indices(BufLen)
StateType == /\ irq_enable \subseteq {"RE", "WE"}
             /\ timeout \in 2 .. IntMax /\ host_inactive \in 0 .. IntMax - 2
MainType == /\ pc \in {"idle", "c_wait"} \cup WriteLabels \cup ReadLabels
            /\ no_block \in BOOLEAN /\ count \in Nat /\ moved \in Nat
            /\ out \in Indices(BufLen) /\ n \in 0 .. BufLen - 1
            /\ rval \in {"ok", "EWOULDBLOCK", "EIO"}
HandlerType == /\ ipc \in {"idle", "control", "rx", "tx"}
               /\ wi \in BOOLEAN /\ space \in 0 .. WriteDepth /\ avail \in BOOLEAN
CoreType == /\ wlevel \in 0 .. WriteDepth /\ rfifo \in Seq(Nat)
            /\ ac \in BOOLEAN /\ host \in BOOLEAN /\ hostchanges \in 0 .. MaxHostChanges
HistoryType == /\ accepted \in 0 .. TxTotal /\ sent \in Seq(Nat)
               /\ typed \in 0 .. RxTotal /\ delivered \in Seq(Nat)

\* The type of every variable.  That wlevel stays in its range is the promise
\* that the core's write FIFO is never overrun.
TypeOK == RingType /\ StateType /\ MainType /\ HandlerType /\ CoreType /\ HistoryType

\* A block that has been copied out has left the queue, although rx_out moves
\* one step later.
RxQueue == IF pc = "r_release" THEN SubSeq(RxPending, n + 1, Len(RxPending))
           ELSE RxPending

TxChan == INSTANCE BlockChannel WITH
             Capacity <- BufLen - 1, put <- accepted, queue <- TxPending, got <- sent
RxChan == INSTANCE BlockChannel WITH
             Capacity <- BufLen - 1, put <- typed - Len(rfifo), queue <- RxQueue,
             got <- delivered

\* The transmit ring, filled in blocks and emptied by the handler, is a FIFO:
\* also when write() gives up on it, full, because the host is absent, and the
\* host comes back.
TxRefinesChannel == TxChan!Spec

\* The receive ring, filled by the handler and emptied in blocks, is a FIFO.
RxRefinesChannel == RxChan!Spec

\* What was sent and what is in the ring is all that was accepted, in order.
TxNoLoss == sent \o TxPending = Numbers(0, accepted)

\* Every character typed is with the reader, in the ring or in the core, in
\* order: the driver loses none, even when its ring is full.
RxNoLoss == delivered \o RxQueue \o rfifo = Numbers(0, typed)

\* Every call returns: the host takes the bytes, or the alarm finds it absent (a
\* driver that was refused its alarm needs a host that stays); a read(), once a
\* character has come in.
CallsReturn ==
    (HasAlarm \/ []host) =>
        /\ pc \in WriteLabels \cup {"c_wait"} ~> pc = "idle"
        /\ (pc \in ReadLabels /\ (rx_in # rx_out \/ rfifo # <<>>)) ~> pc = "idle"

\* With a host that stays, all that was written reaches the core.
TxDrains == ([]host) => (tx_in # tx_out ~> tx_in = tx_out)
=============================================================================
