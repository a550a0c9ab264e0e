------------------------------- MODULE LwUart -------------------------------
(***************************************************************************)
(* The interrupt-driven ("fast") driver of the Intel lightweight UART:     *)
(* intel_lw_uart_{init,write,read}.c in the single-threaded build of the   *)
(* BSP.  One CPU runs the program (the "main" thread, inside at most one   *)
(* driver call at a time) and, preempting it, the interrupt handler        *)
(* intel_lw_uart_irq.  The UART core and the wire go on meanwhile.         *)
(*                                                                         *)
(* A step of a thread is one access to state the other side changes: a     *)
(* volatile index of a ring, the shadow control word, a device register.   *)
(* The handler is not preempted by main, but the core changes its status   *)
(* between any two of the handler's register accesses.                     *)
(*                                                                         *)
(* Bytes are abstracted to their position in the stream: the n-th byte the *)
(* program hands over, the n-th character that arrives.                    *)
(***************************************************************************)
EXTENDS Integers, Sequences, FiniteSets, Ring

CONSTANTS
    TxDepth, RxDepth,     \* slots of the rings: INTEL_LW_UART_BUFF_INIT
    FlowControl,          \* INTEL_LW_UART_FC in sp->flags
    TxTimeoutCycle,       \* INTEL_LW_UART_TX_TIMEOUT_CYCLE, -1 when disabled
    RxTimeoutCycle,       \* INTEL_LW_UART_RX_TIMEOUT_CYCLE, -1 when disabled
    TxFifo, RxFifo,       \* characters the core buffers in each direction
    WriteLens, ReadLens,  \* the "len" the program passes
    ControlOps,           \* the set_trbk / init_eop / init_eh calls it makes
    TxTotal, RxTotal,     \* bound: bytes written and received in a behaviour
    MaxBad,               \* bound: received characters with an error
    MaxCts                \* bound: changes of the CTS line

PowersOfTwo == {2, 4, 8, 16, 32, 64, 128, 256, 512, 1024, 2048, 4096, 8192,
                16384, 32768, 65536}

\* The masks are alt_u16 values DEPTH-1, and "& mask" wraps an index only when
\* the depth is a power of two.
ASSUME DepthAssumption == TxDepth \in PowersOfTwo /\ RxDepth \in PowersOfTwo

ASSUME ConfigAssumption ==
    /\ FlowControl \in BOOLEAN
    /\ TxTimeoutCycle \in Int /\ RxTimeoutCycle \in Int
    /\ TxFifo \in Nat \ {0} /\ RxFifo \in Nat \ {0}
    /\ WriteLens \subseteq Nat /\ ReadLens \subseteq Nat
    /\ ControlOps \subseteq {"TRBK_ENABLE", "TRBK_DISABLE", "E", "EOP"}
    /\ TxTotal \in Nat /\ RxTotal \in Nat /\ MaxBad \in Nat /\ MaxCts \in Nat

Errors == {"PE", "BRK", "ROE"}     \* FE is treated by the driver as PE is
ControlBits == {"RRDY", "TRDY", "DCTS", "TMT", "RTS", "TRBK", "E", "EOP"}
StatusBits == Errors \cup {"RRDY", "TRDY", "DCTS", "TMT", "CTS", "RFULL", "EOP"}

VARIABLES
    \* intel_lw_uart_state
    ctrl,                  \* shadow of the control register
    tx_buf, tx_start, tx_end,
    rx_buf, rx_start, rx_end,
    callbacks,             \* which of eop_cb, eh_cb are registered
    \* the core
    control,               \* the control register itself
    sticky,                \* PE, BRK, ROE, EOP, DCTS: set until STATUS is written
    cts,                   \* the CTS line
    txlevel,               \* characters in the transmit FIFO and shifter
    rxfifo,                \* characters received and not read
    \* main: where it is, and the locals of the call it is in
    pc, no_block, len, count, timeout, reg, arg, rval,
    \* the handler: where it is, its status word, its callee's, data_sent
    ipc, status, st, data_sent,
    \* history
    accepted,              \* bytes whose slot the program has published
    sent,                  \* bytes written to TXDATA
    arrived,               \* number of characters received on the line
    bad,                   \* those that had a parity, framing or break error
    saved,                 \* those stored in the receive ring
    delivered,             \* those copied to the reader
    lost,                  \* those for which the core had no room: overruns
    discarded,             \* those the handler dropped as corrupted
    ctschanges

driver == <<ctrl, tx_buf, tx_start, tx_end, rx_buf, rx_start, rx_end, callbacks>>
core == <<control, sticky, cts, txlevel, rxfifo>>
main == <<pc, no_block, len, count, timeout, reg, arg, rval>>
handler == <<ipc, status, st, data_sent>>
history == <<accepted, sent, arrived, bad, saved, delivered, lost, discarded,
             ctschanges>>
vars == <<driver, core, main, handler, history>>

txring == <<tx_buf, tx_start, tx_end>>
rxring == <<rx_buf, rx_start, rx_end>>
txhist == <<accepted, sent>>
rxhist == <<arrived, bad, saved, delivered, lost, discarded>>

TxPending == Contents(tx_buf, tx_start, tx_end, TxDepth)
RxPending == Contents(rx_buf, rx_start, rx_end, RxDepth)
TxEmpty == tx_start = tx_end
RxEmpty == rx_start = rx_end
TxFull == Full(tx_start, tx_end, TxDepth)
RxFull == Full(rx_start, rx_end, RxDepth)

-----------------------------------------------------------------------------
\* The status register as the core presents it now.
STATUS == (sticky \cap StatusBits)
          \cup (IF rxfifo # <<>> THEN {"RRDY"} ELSE {})
          \cup (IF Len(rxfifo) = RxFifo THEN {"RFULL"} ELSE {})
          \cup (IF txlevel < TxFifo THEN {"TRDY"} ELSE {})
          \cup (IF txlevel = 0 THEN {"TMT"} ELSE {})
          \cup (IF cts THEN {"CTS"} ELSE {})

\* The interrupt line: some enabled condition holds.
Irq == \/ control \cap STATUS \cap {"RRDY", "TRDY", "DCTS", "TMT", "EOP"} # {}
       \/ "E" \in control /\ STATUS \cap Errors # {}

\* intel_lw_uart_init, run by alt_sys_init before main.
Init ==
    /\ ctrl = {"RRDY"} \cup (IF FlowControl THEN {"DCTS"} ELSE {})
    /\ control = ctrl
    /\ tx_buf = [i \in Indices(TxDepth) |-> 0] /\ tx_start = 0 /\ tx_end = 0
    /\ rx_buf = [i \in Indices(RxDepth) |-> 0] /\ rx_start = 0 /\ rx_end = 0
    /\ callbacks = {}
    /\ sticky = {} /\ cts \in BOOLEAN /\ txlevel = 0 /\ rxfifo = <<>>
    /\ pc = "idle" /\ no_block = FALSE /\ len = 0 /\ count = 0 /\ timeout = 0
    /\ reg = {} /\ arg = "none" /\ rval = "ok"
    /\ ipc = "idle" /\ status = {} /\ st = {} /\ data_sent = FALSE
    /\ accepted = <<>> /\ sent = <<>> /\ arrived = 0 /\ bad = {} /\ saved = <<>>
    /\ delivered = <<>> /\ lost = {} /\ discarded = {} /\ ctschanges = 0

-----------------------------------------------------------------------------
(***************************************************************************)
(* main: a step needs the CPU, which the handler keeps until it returns.   *)
(***************************************************************************)
At(label) == pc = label /\ ipc = "idle"

Goto(label) == pc' = label

\* Back to the program; the locals of the call are gone.
Return == /\ Goto("idle")
          /\ no_block' = FALSE /\ len' = 0 /\ count' = 0 /\ timeout' = 0
          /\ reg' = {} /\ arg' = "none" /\ rval' = "ok"

\* Entering write() and read(): the locals, and which mode the caller is in.
\* (Each call may use its own mode: fcntl changes it between two calls.)
Call(n, nb) == /\ no_block' = nb /\ len' = n /\ timeout' = 0 /\ rval' = "ok"
               /\ UNCHANGED <<driver, core, reg, arg, handler, history>>

Write == /\ At("idle")
         /\ \E n \in WriteLens, nb \in BOOLEAN :
               /\ Len(accepted) + n <= TxTotal
               /\ count' = n
               /\ Call(n, nb)
         /\ Goto("w_check")

W_Check == /\ At("w_check")
           /\ \/ count = 0 /\ Goto("w_done") /\ UNCHANGED rval
              \/ count > 0 /\ ~TxFull /\ Goto("w_put") /\ UNCHANGED rval
              \/ count > 0 /\ TxFull /\ no_block
                 /\ rval' = "EWOULDBLOCK" /\ Goto("w_done")
              \/ count > 0 /\ TxFull /\ ~no_block
                 /\ Goto("w_full") /\ UNCHANGED rval
           /\ UNCHANGED <<driver, core, handler, history,
                          no_block, len, count, timeout, reg, arg>>

\* Mutants: the register is not written; the pending TMT interrupt stays on.
EnableTransmit_ShadowOnly == ctrl' = ctrl \cup {"TRDY"} /\ control' = control
EnableTransmit_KeepTmt ==
    ctrl' = ctrl \cup {"TRDY", "DCTS", "RTS"} /\ control' = ctrl'

\* intel_lw_uart_write_enable_interrupt: interrupts are off throughout.
EnableTransmit ==
    /\ ctrl' = IF FlowControl
               THEN (ctrl \cup {"TRDY", "DCTS", "RTS"}) \ {"TMT"}
               ELSE ctrl \cup {"TRDY"}
    /\ control' = ctrl'

W_Full == /\ At("w_full")
          /\ EnableTransmit
          /\ Goto("w_spin")
          /\ UNCHANGED <<txring, rxring, callbacks, sticky, cts, txlevel, rxfifo,
                         no_block, len, count, timeout, reg, arg, rval,
                         handler, history>>

\* What ends the wait for space, compiled in when TxTimeoutCycle > 0: it is
\* RxTimeoutCycle that the count is compared with.
TxTimedOut(n) == RxTimeoutCycle < n

W_Spin == /\ At("w_spin")
          /\ \/ TxTimeoutCycle <= 0 /\ Goto("w_test") /\ UNCHANGED <<timeout, rval>>
             \/ TxTimeoutCycle > 0 /\ TxTimedOut(timeout)
                /\ rval' = "ETIME" /\ Goto("w_done") /\ UNCHANGED timeout
             \/ TxTimeoutCycle > 0 /\ ~TxTimedOut(timeout)
                /\ timeout' = timeout + 1 /\ Goto("w_test") /\ UNCHANGED rval
          /\ UNCHANGED <<driver, core, handler, history, no_block, len, count, reg, arg>>

W_Test == /\ At("w_test")
          /\ Goto(IF TxFull THEN "w_spin" ELSE "w_put")
          /\ UNCHANGED <<driver, core, handler, history,
                         no_block, len, count, timeout, reg, arg, rval>>

\* The two stores that publish a byte.
W_Put == /\ At("w_put")
         /\ tx_buf' = [tx_buf EXCEPT ![tx_end] = Len(accepted) + 1]
         /\ count' = count - 1
         /\ Goto("w_publish")
         /\ UNCHANGED <<ctrl, tx_start, tx_end, rxring, callbacks, core, handler,
                        history, no_block, len, timeout, reg, arg, rval>>

W_Publish == /\ At("w_publish")
             /\ tx_end' = Succ(tx_end, TxDepth)
             /\ accepted' = Append(accepted, Len(accepted) + 1)
             /\ Goto("w_check")
             /\ UNCHANGED <<ctrl, tx_buf, tx_start, rxring, callbacks, core, handler,
                            sent, rxhist, ctschanges,
                            no_block, len, count, timeout, reg, arg, rval>>

W_Done == /\ At("w_done")
          /\ EnableTransmit
          /\ Return
          /\ UNCHANGED <<txring, rxring, callbacks, sticky, cts, txlevel, rxfifo,
                         handler, history>>

-----------------------------------------------------------------------------
Read == /\ At("idle")
        /\ \E n \in ReadLens, nb \in BOOLEAN :
              /\ count' = 0
              /\ Call(n, nb)
              /\ Goto(IF n > 0 THEN "r_loop" ELSE "r_done")

\* while ((count < len) && (rx_start != rx_end))
R_Loop == /\ At("r_loop")
          /\ Goto(IF count < len /\ ~RxEmpty THEN "r_get" ELSE "r_empty")
          /\ UNCHANGED <<driver, core, handler, history,
                         no_block, len, count, timeout, reg, arg, rval>>

R_Get == /\ At("r_get")
         /\ count' = count + 1
         /\ delivered' = Append(delivered, rx_buf[rx_start])
         /\ Goto("r_advance")
         /\ UNCHANGED <<driver, core, handler, txhist, arrived, bad, saved, lost,
                        discarded, ctschanges, no_block, len, timeout, reg, arg, rval>>

R_Advance == /\ At("r_advance")
             /\ rx_start' = Succ(rx_start, RxDepth)
             /\ Goto("r_loop")
             /\ UNCHANGED <<ctrl, txring, rx_buf, rx_end, callbacks, core, handler,
                            history, no_block, len, count, timeout, reg, arg, rval>>

\* if (!count && (rx_start == rx_end)), and the loop's own condition: a byte
\* that came in since the last test sends the reader round again.
R_Empty == /\ At("r_empty")
           /\ \/ count > 0 /\ Goto("r_done") /\ UNCHANGED rval
              \/ count = 0 /\ ~RxEmpty /\ Goto("r_loop") /\ UNCHANGED rval
              \/ count = 0 /\ RxEmpty /\ no_block
                 /\ rval' = "EWOULDBLOCK" /\ Goto("r_done")
              \/ count = 0 /\ RxEmpty /\ ~no_block
                 /\ Goto("r_block") /\ UNCHANGED rval
           /\ UNCHANGED <<driver, core, handler, history,
                          no_block, len, count, timeout, reg, arg>>

\* Mutant: the shadow word is changed, the register is not.
EnableReceive_ShadowOnly == ctrl' = ctrl \cup {"RRDY"} /\ control' = control

\* intel_lw_uart_read_enable_interrupt: interrupts are off throughout.
EnableReceive == /\ ctrl' = ctrl \cup {"RRDY"}
                 /\ control' = ctrl'

R_Block == /\ At("r_block")
           /\ EnableReceive
           /\ Goto("r_spin")
           /\ UNCHANGED <<txring, rxring, callbacks, sticky, cts, txlevel, rxfifo,
                          no_block, len, count, timeout, reg, arg, rval,
                          handler, history>>

RxTimedOut(n) == RxTimeoutCycle < n

R_Spin == /\ At("r_spin")
          /\ \/ RxTimeoutCycle <= 0 /\ Goto("r_loop") /\ UNCHANGED <<timeout, rval>>
             \/ RxTimeoutCycle > 0 /\ RxTimedOut(timeout)
                /\ rval' = "ETIME" /\ Goto("r_done") /\ UNCHANGED timeout
             \/ RxTimeoutCycle > 0 /\ ~RxTimedOut(timeout)
                /\ timeout' = timeout + 1 /\ Goto("r_loop") /\ UNCHANGED rval
          /\ UNCHANGED <<driver, core, handler, history, no_block, len, count, reg, arg>>

R_Done == /\ At("r_done")
          /\ EnableReceive
          /\ Return
          /\ UNCHANGED <<txring, rxring, callbacks, sticky, cts, txlevel, rxfifo,
                         handler, history>>

-----------------------------------------------------------------------------
\* intel_lw_uart_close
Close == /\ At("idle")
         /\ \E nb \in BOOLEAN : count' = 0 /\ Call(0, nb)
         /\ Goto("c_wait")

C_Wait == /\ At("c_wait")
          /\ \/ (TxEmpty \/ no_block) /\ Return   \* 0, or -EWOULDBLOCK
             \/ ~TxEmpty /\ ~no_block
                /\ UNCHANGED main
          /\ UNCHANGED <<driver, core, handler, history>>

(***************************************************************************)
(* intel_lw_uart_set_trbk, _init_eop and _init_eh change the shadow word   *)
(* with interrupts on: they load it into a register, ...                   *)
(***************************************************************************)
ControlOp == /\ At("idle")
             /\ \E op \in ControlOps :
                   /\ arg' = op
                   /\ callbacks' = callbacks \cup ({op} \cap {"E", "EOP"})
             /\ reg' = ctrl
             /\ Goto("o_store")
             /\ UNCHANGED <<ctrl, txring, rxring, core, handler, history,
                            no_block, len, count, timeout, rval>>

\* ... store it changed, ...
O_Store == /\ At("o_store")
           /\ ctrl' = CASE arg = "TRBK_ENABLE" -> reg \cup {"TRBK"}
                        [] arg = "TRBK_DISABLE" -> reg \ {"TRBK"}
                        [] OTHER -> reg \cup {arg}
           /\ reg' = ctrl'
           /\ Goto(IF arg = "TRBK_ENABLE" THEN "o_flush" ELSE "o_iowr")
           /\ UNCHANGED <<txring, rxring, callbacks, core, handler, history,
                          no_block, len, count, timeout, arg, rval>>

\* ... throw the transmit ring away when a break starts, ...
O_Flush == /\ At("o_flush")
           /\ tx_start' = tx_end
           /\ Goto("o_iowr")
           /\ UNCHANGED <<ctrl, tx_buf, tx_end, rxring, callbacks, core, handler, history,
                          no_block, len, count, timeout, reg, arg, rval>>

\* ... and write the register: "ctrl" is not volatile, so the build may use the
\* value it still has in a register or load it again.
O_Iowr == /\ At("o_iowr")
          /\ control' \in {reg, ctrl}
          /\ Return
          /\ UNCHANGED <<driver, sticky, cts, txlevel, rxfifo, handler, history>>

-----------------------------------------------------------------------------
(***************************************************************************)
(* The handler, from the interrupt to its return.  status is the word it   *)
(* read first, st the copy its callee has (and refreshes).                 *)
(***************************************************************************)
\* After the receive part: intel_lw_uart_txirq is called for TRDY or DCTS in
\* the word the handler read first.
AfterReceive(s) == IF s \cap {"TRDY", "DCTS"} # {} THEN "tx_loop" ELSE "status2"

\* Enter, read STATUS, and enter intel_lw_uart_rxirq, which returns at once
\* when the word holds an error.
I_Enter == /\ ipc = "idle" /\ Irq
           /\ status' = STATUS /\ st' = STATUS
           /\ data_sent' = FALSE
           /\ ipc' = IF "RRDY" \in STATUS /\ "PE" \notin STATUS
                     THEN "rx_loop" ELSE AfterReceive(STATUS)
           /\ UNCHANGED <<driver, core, main, history>>

\* No free slot: receive interrupts stay off until the program has read.
I_RxFull == /\ ipc = "rx_loop" /\ RxFull
            /\ ctrl' = ctrl \ {"RRDY"}
            /\ ipc' = "rx_tail"
            /\ UNCHANGED <<txring, rxring, callbacks, core, main, status, st,
                           data_sent, history>>

\* Mutant: the loop goes on after a character it has discarded, with an error
\* that STATUS still shows.
I_RxPop_GoOn == /\ ipc = "rx_loop" /\ ~RxFull /\ rxfifo # <<>>
                /\ rx_buf' = [rx_buf EXCEPT ![rx_end] = Head(rxfifo)]
                /\ rxfifo' = Tail(rxfifo)
                /\ ipc' = "rx_status"
                /\ IF st \cap {"PE", "BRK"} # {}
                   THEN /\ discarded' = discarded \cup {Head(rxfifo)}
                        /\ UNCHANGED <<rx_end, saved>>
                   ELSE /\ rx_end' = Succ(rx_end, RxDepth)
                        /\ saved' = Append(saved, Head(rxfifo))
                        /\ UNCHANGED discarded
                /\ UNCHANGED <<ctrl, txring, rx_start, callbacks, control, sticky, cts,
                               txlevel, main, status, st, data_sent, txhist, arrived,
                               bad, delivered, lost, ctschanges>>

\* Read RXDATA into the free slot; publish the slot unless st holds an error,
\* which ends the loop.
I_RxPop == /\ ipc = "rx_loop" /\ ~RxFull /\ rxfifo # <<>>
           /\ rx_buf' = [rx_buf EXCEPT ![rx_end] = Head(rxfifo)]
           /\ rxfifo' = Tail(rxfifo)
           /\ \/ /\ st \cap {"PE", "BRK"} # {}
                 /\ discarded' = discarded \cup {Head(rxfifo)}
                 /\ ipc' = "rx_tail"
                 /\ UNCHANGED <<rx_end, saved>>
              \/ /\ st \cap {"PE", "BRK"} = {}
                 /\ rx_end' = Succ(rx_end, RxDepth)
                 /\ saved' = Append(saved, Head(rxfifo))
                 /\ ipc' = "rx_status"
                 /\ UNCHANGED discarded
           /\ UNCHANGED <<ctrl, txring, rx_start, callbacks, control, sticky, cts,
                          txlevel, main, status, st, data_sent, txhist, arrived,
                          bad, delivered, lost, ctschanges>>

I_RxStatus == /\ ipc = "rx_status"
              /\ st' = STATUS
              /\ ipc' = IF "RRDY" \in STATUS THEN "rx_loop" ELSE "rx_tail"
              /\ UNCHANGED <<driver, core, main, status, data_sent, history>>

\* The RTS workaround, and the only IOWR of intel_lw_uart_rxirq.
I_RxTail == /\ ipc = "rx_tail"
            /\ ctrl' = IF "CTS" \in st /\ "RFULL" \notin st
                       THEN ctrl \cup {"RTS"} ELSE ctrl
            /\ control' = ctrl'
            /\ ipc' = AfterReceive(status)
            /\ st' = status
            /\ UNCHANGED <<txring, rxring, callbacks, sticky, cts, txlevel, rxfifo,
                           main, status, data_sent, history>>

\* Mutant: TRDY is not looked at again before each character.
I_TxStatus_Stale == /\ ipc = "tx_loop" /\ ~TxEmpty /\ "TRBK" \notin ctrl
                    /\ ipc' = "tx_send"
                    /\ UNCHANGED <<driver, core, main, status, st, data_sent, history>>

\* intel_lw_uart_txirq: the head of its loop.
I_TxStatus == /\ ipc = "tx_loop" /\ ~TxEmpty /\ "TRBK" \notin ctrl
              /\ st' = STATUS
              /\ ipc' = "tx_send"
              /\ UNCHANGED <<driver, core, main, status, data_sent, history>>

I_TxExit == /\ ipc = "tx_loop" /\ (TxEmpty \/ "TRBK" \in ctrl)
            /\ ipc' = "tx_tail"
            /\ UNCHANGED <<driver, core, main, status, st, data_sent, history>>

MaySend == ~FlowControl \/ "CTS" \in st

\* A character for which the core has no room is lost.
I_TxSend == /\ ipc = "tx_send" /\ "TRDY" \in st /\ MaySend
            /\ IF txlevel < TxFifo
               THEN sent' = Append(sent, tx_buf[tx_start]) /\ txlevel' = txlevel + 1
               ELSE UNCHANGED <<sent, txlevel>>
            /\ tx_start' = Succ(tx_start, TxDepth)
            /\ ctrl' = ctrl \cup {"TRDY"}
            /\ data_sent' = TRUE
            /\ ipc' = "tx_loop"
            /\ UNCHANGED <<tx_buf, tx_end, rxring, callbacks, control, sticky, cts,
                           rxfifo, main, status, st, accepted, rxhist, ctschanges>>

\* The core's FIFO is full.
I_TxBusy == /\ ipc = "tx_send" /\ "TRDY" \notin st
            /\ ipc' = "tx_tail"
            /\ UNCHANGED <<driver, core, main, status, st, data_sent, history>>

\* The other side does not let us send.
I_TxThrottle == /\ ipc = "tx_send" /\ "TRDY" \in st /\ ~MaySend
                /\ ctrl' = ctrl \ {"TRDY"}
                /\ ipc' = "tx_tail"
                /\ UNCHANGED <<txring, rxring, callbacks, core, main, status, st,
                               data_sent, history>>

\* The end of intel_lw_uart_txirq: flush under a break, interrupts of an empty
\* ring, IOWR.
I_TxTail ==
    LET break == "TRBK" \in ctrl
        empty == break \/ TxEmpty
        drained == FlowControl /\ (data_sent \/ break)
    IN /\ ipc = "tx_tail"
       /\ tx_start' = IF break THEN tx_end ELSE tx_start
       /\ ctrl' = IF empty
                  THEN (ctrl \cup (IF drained THEN {"TMT"} ELSE {})) \ {"TRDY"}
                  ELSE ctrl
       /\ control' = ctrl'
       /\ ipc' = "status2"
       /\ UNCHANGED <<tx_buf, tx_end, rxring, callbacks, sticky, cts, txlevel, rxfifo,
                      main, status, st, data_sent, history>>

\* intel_lw_uart_dctsirq and intel_lw_uart_tmtirq on control word c, called
\* with status word s.
DctsIrq(c, s) == IF "CTS" \in s THEN c \cup {"RTS", "TRDY"}
                 ELSE IF TxEmpty /\ "TMT" \in s THEN c \ {"RTS"}
                 ELSE c
TmtIrq(c) == c \ {"TMT", "RTS"}

\* The handler's second look at STATUS, and what it calls for it (a registered
\* callback is the program's own code, and does not touch the driver's state).
I_Status2 ==
    LET dcts == FlowControl /\ "DCTS" \in STATUS
        c1 == IF dcts THEN DctsIrq(ctrl, STATUS) ELSE ctrl
        tmt == FlowControl /\ "TMT" \in STATUS /\ "TMT" \in c1
    IN /\ ipc = "status2"
       /\ ctrl' = IF tmt THEN TmtIrq(c1) ELSE c1
       /\ control' = IF dcts \/ tmt THEN ctrl' ELSE control
       /\ ipc' = "clear"
       /\ UNCHANGED <<txring, rxring, callbacks, sticky, cts, txlevel, rxfifo, main,
                      status, st, data_sent, history>>

\* IOWR STATUS 0, and return; the dead locals are forgotten.
I_Clear == /\ ipc = "clear"
           /\ sticky' = {}
           /\ ipc' = "idle"
           /\ status' = {} /\ st' = {} /\ data_sent' = FALSE
           /\ UNCHANGED <<driver, control, cts, txlevel, rxfifo, main, history>>

-----------------------------------------------------------------------------
(***************************************************************************)
(* The UART core and the wire (not in src/; as the driver uses them).      *)
(***************************************************************************)
H_Shift == /\ txlevel > 0
           /\ txlevel' = txlevel - 1
           /\ UNCHANGED <<driver, control, sticky, cts, rxfifo, main, handler, history>>

\* A character arrives: sound, corrupted, or the one EOP is waiting for.  With
\* the FIFO full it is lost and flagged as an overrun.
H_Arrive(kind) ==
    /\ arrived < RxTotal
    /\ arrived' = arrived + 1
    /\ kind \in {"PE", "BRK"} => Cardinality(bad) < MaxBad
    /\ bad' = IF kind \in {"PE", "BRK"} THEN bad \cup {arrived + 1} ELSE bad
    /\ IF Len(rxfifo) < RxFifo
       THEN /\ rxfifo' = Append(rxfifo, arrived + 1)
            /\ sticky' = sticky \cup ({kind} \cap {"PE", "BRK", "EOP"})
            /\ UNCHANGED lost
       ELSE /\ sticky' = sticky \cup {"ROE"}
            /\ lost' = lost \cup {arrived + 1}
            /\ UNCHANGED rxfifo
    /\ UNCHANGED <<driver, control, cts, txlevel, main, handler, txhist, saved,
                   delivered, discarded, ctschanges>>

H_Cts == /\ ctschanges < MaxCts
         /\ ctschanges' = ctschanges + 1
         /\ cts' = ~cts
         /\ sticky' = sticky \cup {"DCTS"}
         /\ UNCHANGED <<driver, control, txlevel, rxfifo, main, handler, txhist, rxhist>>

-----------------------------------------------------------------------------
WriteStep == W_Check \/ W_Full \/ W_Spin \/ W_Test \/ W_Put \/ W_Publish \/ W_Done
ReadStep == R_Loop \/ R_Get \/ R_Advance \/ R_Empty \/ R_Block \/ R_Spin \/ R_Done
ControlStep == O_Store \/ O_Flush \/ O_Iowr
CallStep == Write \/ Read \/ Close \/ ControlOp
MainStep == WriteStep \/ ReadStep \/ C_Wait \/ ControlStep

HandlerStep ==
    \/ I_Enter \/ I_RxFull \/ I_RxPop \/ I_RxStatus \/ I_RxTail
    \/ I_TxStatus \/ I_TxExit \/ I_TxSend \/ I_TxBusy \/ I_TxThrottle \/ I_TxTail
    \/ I_Status2 \/ I_Clear

CoreStep == H_Shift \/ (\E kind \in {"ok", "PE", "BRK", "EOP"} : H_Arrive(kind)) \/ H_Cts

Next == CallStep \/ MainStep \/ HandlerStep \/ CoreStep

Spec == Init /\ [][Next]_vars

(***************************************************************************)
(* A call, once made, is executed; the CPU runs the handler when the line  *)
(* is raised; the shifter shifts.  Fairness of main is weak: a handler     *)
(* that is entered again and again starves it.  Nothing makes the program  *)
(* call, the other side send, or CTS change.                               *)
(***************************************************************************)
Fairness == WF_vars(MainStep) /\ WF_vars(HandlerStep) /\ WF_vars(H_Shift)

FairSpec == Spec /\ Fairness

-----------------------------------------------------------------------------
(***************************************************************************)
(* Properties.                                                             *)
(***************************************************************************)
WriteLabels == {"w_check", "w_full", "w_spin", "w_test", "w_put", "w_publish", "w_done"}
ReadLabels == {"r_loop", "r_get", "r_advance", "r_empty", "r_block", "r_spin", "r_done"}
ControlLabels == {"o_store", "o_flush", "o_iowr"}
MainLabels == {"idle", "c_wait"} \cup WriteLabels \cup ReadLabels \cup ControlLabels
HandlerLabels == {"idle", "rx_loop", "rx_status", "rx_tail", "tx_loop", "tx_send",
                  "tx_tail", "status2", "clear"}

\* The type of every variable, in the groups a step changes together.
BitsType == /\ ctrl \subseteq ControlBits /\ control \subseteq ControlBits
            /\ reg \subseteq ControlBits
RingType == /\ tx_buf \in [Indices(TxDepth) -> Nat] /\ rx_buf \in [Indices(RxDepth) -> Nat]
            /\ tx_start \in Indices(TxDepth) /\ tx_end \in Indices(TxDepth)
            /\ rx_start \in Indices(RxDepth) /\ rx_end \in Indices(RxDepth)
CoreType == /\ sticky \subseteq Errors \cup {"DCTS", "EOP"} /\ cts \in BOOLEAN
            /\ txlevel \in 0 .. TxFifo /\ rxfifo \in Seq(1 .. RxTotal)
MainType == /\ pc \in MainLabels /\ no_block \in BOOLEAN
            /\ len \in Nat /\ count \in Nat /\ timeout \in Nat
            /\ arg \in ControlOps \cup {"none"} /\ callbacks \subseteq {"E", "EOP"}
            /\ rval \in {"ok", "EWOULDBLOCK", "ETIME"}
HandlerType == /\ ipc \in HandlerLabels /\ data_sent \in BOOLEAN
               /\ status \subseteq StatusBits /\ st \subseteq StatusBits
HistoryType == /\ accepted \in Seq(1 .. TxTotal) /\ sent \in Seq(Nat)
               /\ arrived \in 0 .. RxTotal /\ bad \subseteq 1 .. RxTotal
               /\ saved \in Seq(1 .. RxTotal) /\ delivered \in Seq(Nat)
               /\ lost \subseteq 1 .. RxTotal /\ discarded \subseteq 1 .. RxTotal
               /\ ctschanges \in 0 .. MaxCts
TypeOK == BitsType /\ RingType /\ CoreType /\ MainType /\ HandlerType /\ HistoryType

Elements(s) == {s[i] : i \in DOMAIN s}
Increasing(s) == \A i, j \in DOMAIN s : i < j => s[i] < s[j]

\* A byte that is being copied out by the reader has left the queue, although
\* rx_start moves one step later.
RxQueue == IF pc = "r_advance" THEN Tail(RxPending) ELSE RxPending

\* Each direction is a bounded FIFO.  The transmit side may be flushed, by a
\* break; the receive side never is.
TxChan == INSTANCE ByteChannel WITH
             Byte <- 1 .. TxTotal, Capacity <- TxDepth - 1,
             CanFlush <- "TRBK_ENABLE" \in ControlOps,
             put <- accepted, queue <- TxPending, got <- sent
RxChan == INSTANCE ByteChannel WITH
             Byte <- 1 .. RxTotal, Capacity <- RxDepth - 1, CanFlush <- FALSE,
             put <- saved, queue <- RxQueue, got <- delivered

\* The transmit ring, filled by write() and emptied by the handler, is a FIFO:
\* no interleaving loses, repeats or reorders a byte, or overwrites one.
TxRefinesChannel == TxChan!Spec

\* The receive ring, filled by the handler and emptied by read(), is a FIFO.
RxRefinesChannel == RxChan!Spec

\* Without a break every byte write() has taken is in the ring or has been
\* handed to the core, in order, which had room for it: TXDATA is written only
\* on a TRDY that still holds.
TxNoLoss == "TRBK_ENABLE" \notin ControlOps => sent \o TxPending = accepted

\* Every character the line brought is with the reader, in the ring or in the
\* core, in order, unless it fell to an overrun or was discarded as corrupted.
RxAccounted ==
    LET kept == delivered \o RxQueue \o rxfifo
        gone == lost \cup discarded
    IN /\ Increasing(kept)
       /\ Elements(kept) \cup gone = 1 .. arrived
       /\ Elements(kept) \cap gone = {}

\* With flow control, RTS stays up as long as bytes wait to be sent.
RtsHeldWhileSending == (/\ FlowControl /\ ~TxEmpty /\ ipc = "idle"
                        /\ pc \notin WriteLabels \ {"w_spin", "w_test"})
                       => "RTS" \in control

\* The error bits of STATUS are sticky and name no character, so that the one
\* discarded may be a sound one.  But they cost one only: the handler discards no
\* more characters than came in corrupted.
DiscardsPaidFor == Cardinality(discarded) <= Cardinality(bad \ lost)

\* A character received with an error is never given to the program.
CorruptDiscarded == bad \cap Elements(delivered \o RxPending) = {}

\* What write() took is sent in the end.
TxDrains == ~TxEmpty ~> TxEmpty

\* The calls that wait for the transmitter (a write to a full ring, close) return,
\* and a read() returns once a character has come in.
CallsReturn ==
    /\ pc \in WriteLabels \cup {"c_wait"} ~> pc = "idle"
    /\ (pc \in ReadLabels /\ (~RxEmpty \/ rxfifo # <<>>)) ~> pc = "idle"

\* With flow control: if CTS goes up for good, the ring drains.
DrainsOnceCleared == <>[]cts => []<>TxEmpty
=============================================================================
