---------------------------- MODULE LwUartProofs ----------------------------
(***************************************************************************)
(* Proofs about the LW UART driver, for every depth of the rings and the   *)
(* FIFOs, with and without flow control, timeouts and control calls.       *)
(*                                                                         *)
(* Main results: TypeCorrect, TxRefines and RxRefines (each ring is a      *)
(* bounded FIFO under every interleaving of the program, the handler and   *)
(* the core), NoLoss, EveryCharacterAccounted and DiscardsArePaidFor.      *)
(***************************************************************************)
EXTENDS LwUart, DataTheorems

LEMMA DepthFacts ==
  /\ TxDepth \in Nat \ {0} /\ TxDepth >= 2
  /\ RxDepth \in Nat \ {0} /\ RxDepth >= 2
BY DepthAssumption DEF PowersOfTwo

LEMMA StatusType ==
  ASSUME TypeOK
  PROVE  STATUS \subseteq StatusBits
BY DEF TypeOK, STATUS, StatusBits, Errors

LEMMA HeadReceived ==
  ASSUME TypeOK, rxfifo # <<>>
  PROVE  Head(rxfifo) \in 1 .. RxTotal /\ Head(rxfifo) \in Nat
<1>1. rxfifo \in Seq(1 .. RxTotal)
  BY DEF TypeOK, CoreType
<1>2. Head(rxfifo) \in 1 .. RxTotal
  BY <1>1, HeadTailProperties
<1> QED BY <1>2

-----------------------------------------------------------------------------
(***************************************************************************)
(* The inductive invariant.  TypeOK alone does not say that the slot a     *)
(* thread is about to fill is free, or that the one it is about to read    *)
(* holds something: between the test and the use other steps happen.       *)
(***************************************************************************)
\* write() owes count bytes more; at w_put and w_publish the slot is free, and
\* at w_publish it holds the byte being written.
WriteInv ==
    /\ pc \in WriteLabels \ {"w_publish"} => Len(accepted) + count <= TxTotal
    /\ pc = "w_publish" => Len(accepted) + 1 + count <= TxTotal
    /\ pc \in {"w_full", "w_spin", "w_test", "w_put"} => count > 0
    /\ pc \in {"w_put", "w_publish"} => ~TxFull
    /\ pc = "w_publish" => tx_buf[tx_end] = Len(accepted) + 1

\* The handler sends, and read() copies, only what is there.
ReadInv == pc \in {"r_get", "r_advance"} => ~RxEmpty
SendInv == ipc = "tx_send" => ~TxEmpty /\ ("TRDY" \in st => txlevel < TxFifo)

\* Only a TRBK_ENABLE call brings the break bit about.
BreakInv ==
    /\ "TRBK" \in ctrl \cup reg => "TRBK_ENABLE" \in ControlOps
    /\ pc = "o_flush" => arg = "TRBK_ENABLE"
    /\ pc = "o_store" => arg \in ControlOps

IInv == TypeOK /\ WriteInv /\ ReadInv /\ SendInv /\ BreakInv

-----------------------------------------------------------------------------
(***************************************************************************)
(* The invariant holds at the start, and every step keeps it.  One lemma   *)
(* per part; in it, one step per action that can disturb the part.         *)
(***************************************************************************)
LEMMA InitIInv == Init => IInv
<1> SUFFICES ASSUME Init PROVE IInv
  OBVIOUS
<1>1. BitsType /\ HandlerType
  BY DEF Init, BitsType, HandlerType, ControlBits, HandlerLabels
<1>2. RingType
  BY DepthFacts DEF Init, RingType, Indices
<1>3. CoreType
  BY ConfigAssumption DEF Init, CoreType
<1>4. MainType
  BY DEF Init, MainType, MainLabels
<1>5. HistoryType
  BY ConfigAssumption DEF Init, HistoryType
<1>6. WriteInv /\ ReadInv /\ SendInv /\ BreakInv
  BY DEF Init, WriteInv, ReadInv, SendInv, BreakInv, WriteLabels
<1> QED BY <1>1, <1>2, <1>3, <1>4, <1>5, <1>6 DEF IInv, TypeOK

LEMMA BitsStep ==
  ASSUME IInv, Next
  PROVE  BitsType'
<1>1. CASE UNCHANGED <<ctrl, control, reg>>
  BY <1>1 DEF IInv, TypeOK, BitsType
<1>2. CASE W_Full
  BY <1>2 DEF IInv, TypeOK, BitsType, W_Full, EnableTransmit, ControlBits
<1>3. CASE W_Done
  BY <1>3 DEF IInv, TypeOK, BitsType, W_Done, EnableTransmit, Return, ControlBits
<1>4. CASE R_Block
  BY <1>4 DEF IInv, TypeOK, BitsType, R_Block, EnableReceive, ControlBits
<1>5. CASE R_Done
  BY <1>5 DEF IInv, TypeOK, BitsType, R_Done, EnableReceive, Return, ControlBits
<1>6. CASE C_Wait
  BY <1>6 DEF IInv, TypeOK, BitsType, C_Wait, Return, driver, core, main
<1>7. CASE ControlOp
  BY <1>7 DEF IInv, TypeOK, BitsType, ControlOp, core
<1>8. CASE O_Store
  BY <1>8, ConfigAssumption DEF IInv, TypeOK, BitsType, O_Store, MainType, At, ControlBits, BreakInv, core
<1>9. CASE O_Iowr
  BY <1>9 DEF IInv, TypeOK, BitsType, O_Iowr, Return, driver
<1>10. CASE I_RxFull
  BY <1>10 DEF IInv, TypeOK, BitsType, I_RxFull, core, main
<1>11. CASE I_RxTail
  BY <1>11 DEF IInv, TypeOK, BitsType, I_RxTail, main, ControlBits
<1>12. CASE I_TxSend
  BY <1>12 DEF IInv, TypeOK, BitsType, I_TxSend, main, ControlBits
<1>13. CASE I_TxThrottle
  BY <1>13 DEF IInv, TypeOK, BitsType, I_TxThrottle, core, main
<1>14. CASE I_TxTail
  BY <1>14 DEF IInv, TypeOK, BitsType, I_TxTail, main, ControlBits
<1>15. CASE I_Status2
  BY <1>15 DEF IInv, TypeOK, BitsType, I_Status2, main, DctsIrq, TmtIrq, ControlBits
<1> QED BY  <1>1, <1>2, <1>3, <1>4, <1>5, <1>6, <1>7, <1>8, <1>9, <1>10,
           <1>11, <1>12, <1>13, <1>14, <1>15
  DEF Next, CallStep, MainStep, WriteStep, ReadStep, ControlStep, HandlerStep,
      CoreStep, driver, core, main, handler, history, txring, rxring, txhist,
      rxhist, Call, Write, W_Check, W_Spin, W_Test, W_Put, W_Publish, Read,
      R_Loop, R_Get, R_Advance, R_Empty, R_Spin, Close, O_Flush, I_Enter,
      I_RxPop, I_RxStatus, I_TxStatus, I_TxExit, I_TxBusy, I_Clear, H_Shift,
      H_Arrive, H_Cts

LEMMA RingStep ==
  ASSUME IInv, Next
  PROVE  RingType'
<1>1. CASE UNCHANGED <<txring, rxring>>
  BY <1>1 DEF IInv, TypeOK, RingType, txring, rxring
<1>2. CASE W_Put
  BY <1>2 DEF IInv, TypeOK, RingType, W_Put, HistoryType, txring, rxring
<1>3. CASE W_Publish
  BY <1>3, DepthFacts, SuccValue DEF IInv, TypeOK, RingType, W_Publish, rxring
<1>4. CASE R_Advance
  BY <1>4, DepthFacts, SuccValue DEF IInv, TypeOK, RingType, R_Advance, txring
<1>5. CASE O_Flush
  BY <1>5 DEF IInv, TypeOK, RingType, O_Flush, rxring
<1>6. CASE I_RxPop
  <2>1. Head(rxfifo) \in Nat
    BY <1>6, HeadReceived DEF IInv, I_RxPop
  <2>2. rx_end' \in Indices(RxDepth)
    BY <1>6, DepthFacts, SuccValue DEF IInv, TypeOK, RingType, I_RxPop
  <2>3. rx_buf' \in [Indices(RxDepth) -> Nat]
    BY <1>6, <2>1 DEF IInv, TypeOK, RingType, I_RxPop
  <2> QED BY <1>6, <2>2, <2>3 DEF IInv, TypeOK, RingType, I_RxPop, txring
<1>7. CASE I_TxSend
  BY <1>7, DepthFacts, SuccValue DEF IInv, TypeOK, RingType, I_TxSend, rxring
<1>8. CASE I_TxTail
  BY <1>8 DEF IInv, TypeOK, RingType, I_TxTail, rxring
<1> QED BY  <1>1, <1>2, <1>3, <1>4, <1>5, <1>6, <1>7, <1>8
  DEF Next, CallStep, MainStep, WriteStep, ReadStep, ControlStep, HandlerStep,
      CoreStep, driver, core, main, handler, history, txring, rxring, txhist,
      rxhist, Call, Write, W_Check, W_Full, W_Spin, W_Test, W_Done, Read,
      R_Loop, R_Get, R_Empty, R_Block, R_Spin, R_Done, Close, C_Wait,
      ControlOp, O_Store, O_Iowr, I_Enter, I_RxFull, I_RxStatus, I_RxTail,
      I_TxStatus, I_TxExit, I_TxBusy, I_TxThrottle, I_Status2, I_Clear,
      H_Shift, H_Arrive, H_Cts

LEMMA CoreTypeStep ==
  ASSUME IInv, Next
  PROVE  CoreType'
<1>1. CASE UNCHANGED <<sticky, cts, txlevel, rxfifo>>
  BY <1>1 DEF IInv, TypeOK, CoreType
<1>2. CASE I_RxPop
  BY <1>2 DEF IInv, TypeOK, CoreType, I_RxPop
<1>3. CASE I_TxSend
  <2>1. txlevel \in 0 .. TxFifo /\ TxFifo \in Nat
    BY ConfigAssumption DEF IInv, TypeOK, CoreType
  <2>2. txlevel' \in 0 .. TxFifo
    BY <1>3, <2>1 DEF I_TxSend
  <2> QED BY <1>3, <2>2 DEF IInv, TypeOK, CoreType, I_TxSend
<1>4. CASE I_Clear
  BY <1>4 DEF IInv, TypeOK, CoreType, I_Clear
<1>5. CASE H_Shift
  <2>1. txlevel' \in 0 .. TxFifo
    BY <1>5, ConfigAssumption DEF IInv, TypeOK, CoreType, H_Shift
  <2> QED BY <1>5, <2>1 DEF IInv, TypeOK, CoreType, H_Shift
<1>6. CASE \E kind \in {"ok", "PE", "BRK", "EOP"} : H_Arrive(kind)
  <2>1. arrived + 1 \in 1 .. RxTotal
    BY <1>6, ConfigAssumption DEF IInv, TypeOK, HistoryType, H_Arrive
  <2>2. rxfifo' \in Seq(1 .. RxTotal)
    <3>1. rxfifo \in Seq(1 .. RxTotal)
      BY DEF IInv, TypeOK, CoreType
    <3>2. rxfifo' \in {rxfifo, Append(rxfifo, arrived + 1)}
      BY <1>6 DEF H_Arrive
    <3>3. Append(rxfifo, arrived + 1) \in Seq(1 .. RxTotal)
      BY <2>1, <3>1, AppendProperties
    <3> QED BY <3>1, <3>2, <3>3
  <2>3. sticky' \subseteq Errors \cup {"DCTS", "EOP"}
    BY <1>6 DEF IInv, TypeOK, CoreType, H_Arrive, Errors
  <2> QED BY <1>6, <2>2, <2>3 DEF IInv, TypeOK, CoreType, H_Arrive
<1>7. CASE H_Cts
  BY <1>7 DEF IInv, TypeOK, CoreType, H_Cts
<1> QED BY  <1>1, <1>2, <1>3, <1>4, <1>5, <1>6, <1>7
  DEF Next, CallStep, MainStep, WriteStep, ReadStep, ControlStep, HandlerStep,
      CoreStep, driver, core, main, handler, history, txring, rxring, txhist,
      rxhist, Call, Write, W_Check, W_Full, W_Spin, W_Test, W_Put, W_Publish,
      W_Done, Read, R_Loop, R_Get, R_Advance, R_Empty, R_Block, R_Spin,
      R_Done, Close, C_Wait, ControlOp, O_Store, O_Flush, O_Iowr, I_Enter,
      I_RxFull, I_RxStatus, I_RxTail, I_TxStatus, I_TxExit, I_TxBusy,
      I_TxThrottle, I_TxTail, I_Status2

LEMMA MainTypeStep ==
  ASSUME IInv, Next
  PROVE  MainType'
<1>1. CASE UNCHANGED <<main, callbacks>>
  BY <1>1 DEF IInv, TypeOK, MainType, main
<1>2. CASE Write
  BY <1>2, ConfigAssumption DEF IInv, TypeOK, MainType, Write, Call, driver, Goto, MainLabels, WriteLabels
<1>3. CASE W_Check
  BY <1>3 DEF IInv, TypeOK, MainType, W_Check, driver, Goto, MainLabels, WriteLabels
<1>4. CASE W_Full
  BY <1>4 DEF IInv, TypeOK, MainType, W_Full, Goto, MainLabels, WriteLabels
<1>5. CASE W_Spin
  BY <1>5 DEF IInv, TypeOK, MainType, W_Spin, driver, Goto, MainLabels, WriteLabels
<1>6. CASE W_Test
  BY <1>6 DEF IInv, TypeOK, MainType, W_Test, driver, Goto, MainLabels, WriteLabels
<1>7. CASE W_Put
  BY <1>7 DEF IInv, TypeOK, MainType, W_Put, WriteInv, At, Goto, MainLabels, WriteLabels
<1>8. CASE W_Publish
  BY <1>8 DEF IInv, TypeOK, MainType, W_Publish, Goto, MainLabels, WriteLabels
<1>9. CASE W_Done
  BY <1>9 DEF IInv, TypeOK, MainType, W_Done, Return, Goto, MainLabels
<1>10. CASE Read
  BY <1>10, ConfigAssumption DEF IInv, TypeOK, MainType, Read, Call, driver, Goto, MainLabels, ReadLabels
<1>11. CASE R_Loop
  BY <1>11 DEF IInv, TypeOK, MainType, R_Loop, driver, Goto, MainLabels, ReadLabels
<1>12. CASE R_Get
  BY <1>12 DEF IInv, TypeOK, MainType, R_Get, driver, Goto, MainLabels, ReadLabels
<1>13. CASE R_Advance
  BY <1>13 DEF IInv, TypeOK, MainType, R_Advance, Goto, MainLabels, ReadLabels
<1>14. CASE R_Empty
  BY <1>14 DEF IInv, TypeOK, MainType, R_Empty, driver, Goto, MainLabels, ReadLabels
<1>15. CASE R_Block
  BY <1>15 DEF IInv, TypeOK, MainType, R_Block, Goto, MainLabels, ReadLabels
<1>16. CASE R_Spin
  BY <1>16 DEF IInv, TypeOK, MainType, R_Spin, driver, Goto, MainLabels, ReadLabels
<1>17. CASE R_Done
  BY <1>17 DEF IInv, TypeOK, MainType, R_Done, Return, Goto, MainLabels
<1>18. CASE Close
  BY <1>18 DEF IInv, TypeOK, MainType, Close, Call, driver, Goto, MainLabels
<1>19. CASE C_Wait
  <2>1. callbacks' = callbacks
    BY <1>19 DEF C_Wait, driver
  <2>2. CASE Return
    BY <2>1, <2>2 DEF IInv, TypeOK, MainType, Return, Goto, MainLabels
  <2>3. CASE UNCHANGED main
    BY <2>1, <2>3 DEF IInv, TypeOK, MainType, main
  <2> QED BY <1>19, <2>2, <2>3 DEF C_Wait
<1>20. CASE ControlOp
  BY <1>20 DEF IInv, TypeOK, MainType, ControlOp, Goto, MainLabels, ControlLabels
<1>21. CASE O_Store
  BY <1>21 DEF IInv, TypeOK, MainType, O_Store, Goto, MainLabels, ControlLabels
<1>22. CASE O_Flush
  BY <1>22 DEF IInv, TypeOK, MainType, O_Flush, Goto, MainLabels, ControlLabels
<1>23. CASE O_Iowr
  BY <1>23 DEF IInv, TypeOK, MainType, O_Iowr, driver, Return, Goto, MainLabels
<1> QED BY  <1>1, <1>2, <1>3, <1>4, <1>5, <1>6, <1>7, <1>8, <1>9, <1>10,
           <1>11, <1>12, <1>13, <1>14, <1>15, <1>16, <1>17, <1>18, <1>19,
           <1>20, <1>21, <1>22, <1>23
  DEF Next, CallStep, MainStep, WriteStep, ReadStep, ControlStep, HandlerStep,
      CoreStep, driver, core, main, handler, history, txring, rxring, txhist,
      rxhist, Call, I_Enter, I_RxFull, I_RxPop, I_RxStatus, I_RxTail,
      I_TxStatus, I_TxExit, I_TxSend, I_TxBusy, I_TxThrottle, I_TxTail,
      I_Status2, I_Clear, H_Shift, H_Arrive, H_Cts

LEMMA HandlerTypeStep ==
  ASSUME IInv, Next
  PROVE  HandlerType'
<1>1. CASE UNCHANGED <<handler>>
  BY <1>1 DEF IInv, TypeOK, HandlerType, handler
<1>2. CASE I_Enter
  BY <1>2, StatusType DEF IInv, TypeOK, HandlerType, I_Enter, AfterReceive, HandlerLabels
<1>3. CASE I_RxFull
  BY <1>3 DEF IInv, TypeOK, HandlerType, I_RxFull, HandlerLabels
<1>4. CASE I_RxPop
  BY <1>4 DEF IInv, TypeOK, HandlerType, I_RxPop, HandlerLabels
<1>5. CASE I_RxStatus
  BY <1>5, StatusType DEF IInv, TypeOK, HandlerType, I_RxStatus, HandlerLabels
<1>6. CASE I_RxTail
  BY <1>6 DEF IInv, TypeOK, HandlerType, I_RxTail, AfterReceive, HandlerLabels
<1>7. CASE I_TxStatus
  BY <1>7, StatusType DEF IInv, TypeOK, HandlerType, I_TxStatus, HandlerLabels
<1>8. CASE I_TxExit
  BY <1>8 DEF IInv, TypeOK, HandlerType, I_TxExit, HandlerLabels
<1>9. CASE I_TxSend
  BY <1>9 DEF IInv, TypeOK, HandlerType, I_TxSend, HandlerLabels
<1>10. CASE I_TxBusy
  BY <1>10 DEF IInv, TypeOK, HandlerType, I_TxBusy, HandlerLabels
<1>11. CASE I_TxThrottle
  BY <1>11 DEF IInv, TypeOK, HandlerType, I_TxThrottle, HandlerLabels
<1>12. CASE I_TxTail
  BY <1>12 DEF IInv, TypeOK, HandlerType, I_TxTail, HandlerLabels
<1>13. CASE I_Status2
  BY <1>13 DEF IInv, TypeOK, HandlerType, I_Status2, HandlerLabels
<1>14. CASE I_Clear
  BY <1>14 DEF IInv, TypeOK, HandlerType, I_Clear, HandlerLabels
<1> QED BY  <1>1, <1>2, <1>3, <1>4, <1>5, <1>6, <1>7, <1>8, <1>9, <1>10,
           <1>11, <1>12, <1>13, <1>14
  DEF Next, CallStep, MainStep, WriteStep, ReadStep, ControlStep, HandlerStep,
      CoreStep, driver, core, main, handler, history, txring, rxring, txhist,
      rxhist, Call, Write, W_Check, W_Full, W_Spin, W_Test, W_Put, W_Publish,
      W_Done, Read, R_Loop, R_Get, R_Advance, R_Empty, R_Block, R_Spin,
      R_Done, Close, C_Wait, ControlOp, O_Store, O_Flush, O_Iowr, H_Shift,
      H_Arrive, H_Cts

LEMMA HistoryTypeStep ==
  ASSUME IInv, Next
  PROVE  HistoryType'
<1>1. CASE UNCHANGED <<history>>
  BY <1>1 DEF IInv, TypeOK, HistoryType, history, txhist, rxhist
<1>2. CASE W_Publish
  <2>1. Len(accepted) + 1 \in 1 .. TxTotal
    BY <1>2, ConfigAssumption DEF IInv, TypeOK, HistoryType, MainType, W_Publish, WriteInv, At
  <2>2. accepted' \in Seq(1 .. TxTotal)
    BY <1>2, <2>1 DEF IInv, TypeOK, HistoryType, W_Publish
  <2> QED BY <1>2, <2>2 DEF IInv, TypeOK, HistoryType, W_Publish, rxhist
<1>3. CASE R_Get
  BY <1>3 DEF IInv, TypeOK, HistoryType, R_Get, RingType, txhist
<1>4. CASE I_RxPop
  <2>1. Head(rxfifo) \in 1 .. RxTotal
    BY <1>4, HeadReceived DEF IInv, I_RxPop
  <2>2. saved' \in Seq(1 .. RxTotal) /\ discarded' \subseteq 1 .. RxTotal
    <3>1. saved \in Seq(1 .. RxTotal) /\ discarded \subseteq 1 .. RxTotal
      BY DEF IInv, TypeOK, HistoryType
    <3>2. /\ saved' \in {saved, Append(saved, Head(rxfifo))}
          /\ discarded' \in {discarded, discarded \cup {Head(rxfifo)}}
      BY <1>4 DEF I_RxPop
    <3>3. Append(saved, Head(rxfifo)) \in Seq(1 .. RxTotal)
      BY <2>1, <3>1, AppendProperties
    <3> QED BY <2>1, <3>1, <3>2, <3>3
  <2> QED BY <1>4, <2>2 DEF IInv, TypeOK, HistoryType, I_RxPop, txhist
<1>5. CASE I_TxSend
  <2>1. tx_buf[tx_start] \in Nat /\ sent \in Seq(Nat)
    BY DEF IInv, TypeOK, HistoryType, RingType
  <2>2. Append(sent, tx_buf[tx_start]) \in Seq(Nat)
    BY <2>1, AppendProperties
  <2>3. sent' \in Seq(Nat)
    BY <1>5, <2>1, <2>2 DEF I_TxSend
  <2> QED BY <1>5, <2>3 DEF IInv, TypeOK, HistoryType, I_TxSend, rxhist
<1>6. CASE \E kind \in {"ok", "PE", "BRK", "EOP"} : H_Arrive(kind)
  <2>1. arrived + 1 \in 1 .. RxTotal
    BY <1>6, ConfigAssumption DEF IInv, TypeOK, HistoryType, H_Arrive
  <2>2. arrived' \in 0 .. RxTotal /\ bad' \subseteq 1 .. RxTotal /\ lost' \subseteq 1 .. RxTotal
    <3>1. bad \subseteq 1 .. RxTotal /\ lost \subseteq 1 .. RxTotal
      BY DEF IInv, TypeOK, HistoryType
    <3>2. /\ arrived' = arrived + 1
          /\ bad' \in {bad, bad \cup {arrived + 1}}
          /\ lost' \in {lost, lost \cup {arrived + 1}}
      BY <1>6 DEF H_Arrive
    <3> QED BY <2>1, <3>1, <3>2
  <2> QED BY <1>6, <2>2 DEF IInv, TypeOK, HistoryType, H_Arrive, txhist
<1>7. CASE H_Cts
  BY <1>7, ConfigAssumption DEF IInv, TypeOK, HistoryType, H_Cts, txhist, rxhist
<1> QED BY  <1>1, <1>2, <1>3, <1>4, <1>5, <1>6, <1>7
  DEF Next, CallStep, MainStep, WriteStep, ReadStep, ControlStep, HandlerStep,
      CoreStep, driver, core, main, handler, history, txring, rxring, txhist,
      rxhist, Call, Write, W_Check, W_Full, W_Spin, W_Test, W_Put, W_Done,
      Read, R_Loop, R_Advance, R_Empty, R_Block, R_Spin, R_Done, Close,
      C_Wait, ControlOp, O_Store, O_Flush, O_Iowr, I_Enter, I_RxFull,
      I_RxStatus, I_RxTail, I_TxStatus, I_TxExit, I_TxBusy, I_TxThrottle,
      I_TxTail, I_Status2, I_Clear, H_Shift


LEMMA WriteInvStep ==
  ASSUME IInv, Next
  PROVE  WriteInv'
<1> USE DEF IInv, TypeOK
<1>1. CASE UNCHANGED <<pc, count, accepted, txring>>
  BY <1>1 DEF WriteInv, TxFull, txring
<1>2. CASE pc' \notin WriteLabels
  BY <1>2 DEF WriteInv, WriteLabels
<1>3. CASE Write
  BY <1>3, ConfigAssumption
  DEF WriteInv, WriteLabels, Write, Call, Goto, MainType, HistoryType, history
<1>4. CASE W_Check
  BY <1>4 DEF WriteInv, WriteLabels, W_Check, At, Goto, MainType, TxFull, driver, history
<1>5. CASE W_Full
  BY <1>5 DEF WriteInv, WriteLabels, W_Full, At, Goto, TxFull, txring, history
<1>6. CASE W_Spin
  BY <1>6 DEF WriteInv, WriteLabels, W_Spin, At, Goto, TxFull, driver, history
<1>7. CASE W_Test
  BY <1>7 DEF WriteInv, WriteLabels, W_Test, At, Goto, TxFull, driver, history
<1>8. CASE W_Put
  <2>1. tx_buf'[tx_end'] = Len(accepted') + 1
    BY <1>8 DEF W_Put, RingType, history
  <2>2. ~TxFull'
    BY <1>8 DEF WriteInv, W_Put, At, TxFull
  <2> QED BY <1>8, <2>1, <2>2
          DEF WriteInv, WriteLabels, W_Put, At, Goto, MainType, HistoryType, history
<1>9. CASE W_Publish
  <2>1. Len(accepted') = Len(accepted) + 1
    BY <1>9, AppendProperties DEF W_Publish, HistoryType
  <2> QED BY <1>9, <2>1, ConfigAssumption
          DEF WriteInv, WriteLabels, W_Publish, At, Goto, MainType, HistoryType
<1>10. CASE W_Done
  BY <1>10, <1>2 DEF WriteLabels, W_Done, Return, Goto
<1>11. CASE I_TxSend
  <2>1. ~Full(tx_start', tx_end', TxDepth)
    BY <1>11, ConsumeNotFull, DepthFacts DEF SendInv, I_TxSend, RingType, TxEmpty
  <2> QED BY <1>11, <2>1 DEF WriteInv, I_TxSend, TxFull, main
<1>12. CASE I_TxTail
  <2>1. CASE tx_start' = tx_start
    BY <1>12, <2>1 DEF WriteInv, I_TxTail, TxFull, main, history
  <2>2. CASE tx_start' = tx_end
    <3>1. ~Full(tx_start', tx_end', TxDepth)
      BY <1>12, <2>2, EmptyNotFull, DepthFacts DEF I_TxTail, RingType
    <3> QED BY <1>12, <3>1 DEF WriteInv, I_TxTail, TxFull, main, history
  <2> QED BY <1>12, <2>1, <2>2 DEF I_TxTail
<1>13. CASE ReadStep \/ ControlStep \/ C_Wait
  <2>1. CASE pc' = pc
    BY <1>13, <1>2, <2>1
    DEF ReadStep, ControlStep, C_Wait, At, WriteLabels, R_Loop, R_Get, R_Advance,
        R_Empty, R_Block, R_Spin, R_Done, O_Store, O_Flush, O_Iowr
  <2>2. CASE pc' # pc
    BY <1>13, <1>2, <2>2
    DEF ReadStep, ControlStep, C_Wait, At, Goto, Return, WriteLabels, main, R_Loop, R_Get,
        R_Advance, R_Empty, R_Block, R_Spin, R_Done, O_Store, O_Flush, O_Iowr
  <2> QED BY <2>1, <2>2
<1>14. CASE Read \/ Close \/ ControlOp
  BY <1>14, <1>2 DEF Read, Close, ControlOp, Goto, WriteLabels
<1> QED BY <1>1, <1>3, <1>4, <1>5, <1>6, <1>7, <1>8, <1>9, <1>10, <1>11, <1>12, <1>13, <1>14
    DEF Next, CallStep, MainStep, WriteStep, HandlerStep, CoreStep,
        driver, core, main, history, txring, rxhist, txhist, I_Enter, I_RxFull, I_RxPop,
        I_RxStatus, I_RxTail, I_TxStatus, I_TxExit, I_TxBusy, I_TxThrottle, I_Status2,
        I_Clear, H_Shift, H_Arrive, H_Cts

LEMMA ReadInvStep ==
  ASSUME IInv, Next
  PROVE  ReadInv'
<1> USE DEF IInv, TypeOK
<1>1. CASE UNCHANGED <<pc, rxring>>
  BY <1>1 DEF ReadInv, RxEmpty, rxring
<1>2. CASE pc' \notin {"r_get", "r_advance"}
  BY <1>2 DEF ReadInv
<1>3. CASE R_Loop
  BY <1>3 DEF ReadInv, R_Loop, At, Goto, RxEmpty, driver
<1>4. CASE R_Get
  BY <1>4 DEF ReadInv, R_Get, At, Goto, RxEmpty, driver
<1>5. CASE I_RxPop
  BY <1>5 DEF ReadInv, I_RxPop, RxEmpty, RxFull, Full, main
<1>6. CASE CallStep
  BY <1>6, <1>2 DEF CallStep, Write, Read, Close, ControlOp, Goto
<1>7. CASE WriteStep \/ ControlStep
  BY <1>7, <1>2
  DEF WriteStep, ControlStep, At, Goto, Return, W_Check, W_Full, W_Spin, W_Test, W_Put,
      W_Publish, W_Done, O_Store, O_Flush, O_Iowr
<1>8. CASE C_Wait \/ R_Advance \/ R_Empty \/ R_Block \/ R_Spin \/ R_Done
  BY <1>8, <1>2
  DEF C_Wait, At, Goto, Return, main, R_Advance, R_Empty, R_Block, R_Spin, R_Done
<1> QED BY <1>1, <1>3, <1>4, <1>5, <1>6, <1>7, <1>8
    DEF Next, MainStep, ReadStep, HandlerStep, CoreStep, driver, main, rxring, I_Enter,
        I_RxFull, I_RxStatus, I_RxTail, I_TxStatus, I_TxExit, I_TxSend, I_TxBusy,
        I_TxThrottle, I_TxTail, I_Status2, I_Clear, H_Shift, H_Arrive, H_Cts

LEMMA SendInvStep ==
  ASSUME IInv, Next
  PROVE  SendInv'
<1> USE DEF IInv, TypeOK
<1>1. CASE UNCHANGED <<ipc, tx_start, tx_end, st, txlevel>>
  BY <1>1 DEF SendInv, TxEmpty
<1>2. CASE ipc' # "tx_send"
  BY <1>2 DEF SendInv
<1>3. CASE I_TxStatus
  <2>1. "TRDY" \in STATUS => txlevel < TxFifo
    BY DEF STATUS, CoreType, StatusBits, Errors
  <2> QED BY <1>3, <2>1 DEF SendInv, I_TxStatus, TxEmpty, driver, core
<1>4. CASE W_Publish
  BY <1>4, <1>2 DEF W_Publish, At, handler
<1>5. CASE O_Flush
  BY <1>5, <1>2 DEF O_Flush, At, handler
<1>6. CASE I_Enter \/ I_RxFull \/ I_RxPop \/ I_RxStatus \/ I_RxTail \/ I_TxExit
           \/ I_TxSend \/ I_TxBusy \/ I_TxThrottle \/ I_TxTail \/ I_Status2 \/ I_Clear
  BY <1>6, <1>2
  DEF I_Enter, I_RxFull, I_RxPop, I_RxStatus, I_RxTail, I_TxExit, I_TxSend, I_TxBusy,
      I_TxThrottle, I_TxTail, I_Status2, I_Clear, AfterReceive
<1>7. CASE CallStep
  BY <1>7, <1>1
  DEF CallStep, Write, Read, Close, ControlOp, Call, driver, core, handler, txring
<1>8. CASE MainStep
  BY <1>8, <1>1, <1>4, <1>5
  DEF MainStep, WriteStep, ReadStep, ControlStep, C_Wait, driver, core, handler, txring,
      W_Check, W_Full, W_Spin, W_Test, W_Put, W_Done, R_Loop, R_Get, R_Advance, R_Empty,
      R_Block, R_Spin, R_Done, O_Store, O_Iowr
<1>9. CASE H_Shift
  <2>1. txlevel' < txlevel /\ txlevel \in Int /\ TxFifo \in Int
    BY <1>9, ConfigAssumption DEF H_Shift, CoreType
  <2>2. txlevel < TxFifo => txlevel' < TxFifo
    BY <1>9, <2>1 DEF H_Shift
  <2> QED BY <1>9, <2>2 DEF H_Shift, SendInv, TxEmpty, driver, handler
<1> QED BY <1>1, <1>3, <1>6, <1>7, <1>8, <1>9
    DEF Next, HandlerStep, CoreStep, driver, handler, H_Arrive, H_Cts

LEMMA BreakInvStep ==
  ASSUME IInv, Next
  PROVE  BreakInv'
<1> USE DEF IInv, TypeOK
<1>1. CASE /\ UNCHANGED <<pc, arg>>
           /\ ("TRBK" \in ctrl' \cup reg' => "TRBK" \in ctrl \cup reg)
  BY <1>1 DEF BreakInv
<1>2. CASE /\ pc' \notin {"o_store", "o_flush"}
           /\ ("TRBK" \in ctrl' \cup reg' => "TRBK" \in ctrl \cup reg)
  BY <1>2 DEF BreakInv
<1>3. CASE ControlOp
  BY <1>3 DEF BreakInv, ControlOp, Goto
<1>4. CASE O_Store
  BY <1>4, ConfigAssumption DEF BreakInv, O_Store, At, Goto
<1>5. CASE Write \/ Read \/ Close
  BY <1>5, <1>2 DEF Write, Read, Close, Call, Goto, driver
<1>6. CASE WriteStep
  BY <1>6, <1>2
  DEF WriteStep, At, Goto, Return, EnableTransmit, driver, W_Check, W_Full, W_Spin, W_Test,
      W_Put, W_Publish, W_Done
<1>7. CASE ReadStep
  BY <1>7, <1>2
  DEF ReadStep, At, Goto, Return, EnableReceive, driver, R_Loop, R_Get, R_Advance, R_Empty,
      R_Block, R_Spin, R_Done
<1>8. CASE C_Wait
  BY <1>8, <1>2 DEF C_Wait, At, Goto, Return, driver, main
<1>9. CASE O_Flush
  BY <1>9, <1>2 DEF O_Flush, At, Goto
<1>10. CASE O_Iowr
  BY <1>10, <1>2 DEF O_Iowr, At, Goto, Return, driver
<1>11. CASE HandlerStep
  BY <1>11, <1>1
  DEF HandlerStep, driver, main, DctsIrq, TmtIrq, I_Enter, I_RxFull, I_RxPop, I_RxStatus,
      I_RxTail, I_TxStatus, I_TxExit, I_TxSend, I_TxBusy, I_TxThrottle, I_TxTail, I_Status2,
      I_Clear
<1>12. CASE CoreStep
  BY <1>12, <1>1 DEF CoreStep, driver, main, H_Shift, H_Arrive, H_Cts
<1> QED BY <1>3, <1>4, <1>5, <1>6, <1>7, <1>8, <1>9, <1>10, <1>11, <1>12
    DEF Next, CallStep, MainStep, ControlStep

-----------------------------------------------------------------------------
(***************************************************************************)
(* The theorems.                                                           *)
(***************************************************************************)
LEMMA StepIInv ==
  ASSUME IInv, [Next]_vars
  PROVE  IInv'
<1>1. CASE Next
  <2>1. TypeOK'
    BY <1>1, BitsStep, RingStep, CoreTypeStep, MainTypeStep, HandlerTypeStep,
       HistoryTypeStep DEF TypeOK
  <2> QED BY <1>1, <2>1, WriteInvStep, ReadInvStep, SendInvStep, BreakInvStep DEF IInv
<1>2. CASE UNCHANGED vars
  <2>1. TypeOK'
    BY <1>2 DEF vars, driver, core, main, handler, history, IInv, TypeOK, BitsType,
                RingType, CoreType, MainType, HandlerType, HistoryType
  <2>2. WriteInv'
    BY <1>2 DEF vars, driver, main, history, IInv, WriteInv, TxFull
  <2>3. ReadInv'
    BY <1>2 DEF vars, driver, main, IInv, ReadInv, RxEmpty
  <2>4. SendInv' /\ BreakInv'
    BY <1>2 DEF vars, driver, core, main, handler, IInv, SendInv, BreakInv, TxEmpty
  <2> QED BY <2>1, <2>2, <2>3, <2>4 DEF IInv
<1> QED BY <1>1, <1>2

\* The inductive invariant holds throughout.
THEOREM Invariance == Spec => []IInv
<1>1. Init => IInv
  BY InitIInv
<1>2. IInv /\ [Next]_vars => IInv'
  BY StepIInv
<1> QED BY <1>1, <1>2, PTL DEF Spec

\* Every variable keeps its type: in particular no index leaves its ring.
THEOREM TypeCorrect == Spec => []TypeOK
<1>1. IInv => TypeOK
  BY DEF IInv
<1> QED BY <1>1, Invariance, PTL

\* A step of the driver puts at most one byte into the transmit queue, takes
\* at most the oldest out, or, in a break, flushes it.
LEMMA TxStep ==
  ASSUME IInv, [Next]_vars
  PROVE  [TxChan!Next]_(TxChan!chan)
<1> USE DepthFacts
<1>1. CASE UNCHANGED <<txring, accepted, sent>>
  BY <1>1 DEF TxChan!chan, TxPending, txring
<1>2. CASE W_Put
  <2>1. TxPending' = TxPending
    <3>1. /\ TxDepth \in Nat \ {0} /\ tx_buf \in [Indices(TxDepth) -> Nat]
          /\ tx_start \in Indices(TxDepth) /\ tx_end \in Indices(TxDepth)
      BY DEF IInv, TypeOK, RingType
    <3>2. /\ tx_buf' = [tx_buf EXCEPT ![tx_end] = Len(accepted) + 1]
          /\ UNCHANGED <<tx_start, tx_end>>
      BY <1>2 DEF W_Put
    <3>3. \A x : Contents([tx_buf EXCEPT ![tx_end] = x], tx_start, tx_end, TxDepth)
                   = Contents(tx_buf, tx_start, tx_end, TxDepth)
      BY ONLY <3>1, WriteFreeSlot, ZenonT(60)
    <3>4. TxPending' = Contents([tx_buf EXCEPT ![tx_end] = Len(accepted) + 1],
                                tx_start, tx_end, TxDepth)
      BY <3>2 DEF TxPending
    <3> QED BY <3>3, <3>4 DEF TxPending
  <2> QED BY <1>2, <2>1 DEF W_Put, history, TxChan!chan
<1>3. CASE W_Publish
  <2>1. /\ TxPending' = Append(TxPending, tx_buf[tx_end])
        /\ Used(tx_start, tx_end, TxDepth) < TxDepth - 1
    BY <1>3, PublishSlot
    DEF W_Publish, At, TxPending, TxFull, IInv, TypeOK, RingType, WriteInv
  <2>2. tx_buf[tx_end] = Len(accepted) + 1 /\ Len(accepted) + 1 \in 1 .. TxTotal
    BY <1>3, ConfigAssumption DEF W_Publish, At, IInv, TypeOK, WriteInv, MainType, HistoryType
  <2>3. Len(TxPending) < TxDepth - 1
    BY <2>1, ContentsLen DEF TxPending, IInv, TypeOK, RingType
  <2> QED BY <1>3, <2>1, <2>2, <2>3 DEF W_Publish, TxChan!Next, TxChan!Put
<1>4. CASE I_TxSend
  <2>1. /\ TxPending # <<>> /\ Head(TxPending) = tx_buf[tx_start]
        /\ TxPending' = Tail(TxPending)
    BY <1>4, ConsumeSlot
    DEF I_TxSend, TxPending, TxEmpty, IInv, TypeOK, RingType, SendInv
  <2>2. sent' = Append(sent, tx_buf[tx_start])
    BY <1>4 DEF I_TxSend, IInv, SendInv
  <2> QED BY <1>4, <2>1, <2>2 DEF I_TxSend, TxChan!Next, TxChan!Get
<1>5. CASE tx_start' = tx_end /\ UNCHANGED <<tx_buf, tx_end, accepted, sent>>
           /\ "TRBK_ENABLE" \in ControlOps
  <2>1. TxPending' = <<>>
    BY <1>5, EmptyRing DEF TxPending, IInv, TypeOK, RingType
  <2> QED BY <1>5, <2>1 DEF TxChan!Next, TxChan!Flush
<1>6. CASE O_Flush
  BY <1>6, <1>5 DEF O_Flush, At, IInv, TypeOK, BreakInv, MainType, history
<1>7. CASE I_TxTail
  BY <1>7, <1>1, <1>5 DEF I_TxTail, IInv, BreakInv, txring, history
<1>8. CASE CallStep
  BY <1>8, <1>1 DEF CallStep, Write, Read, Close, ControlOp, Call, driver, history, txring
<1>9. CASE MainStep
  BY <1>9, <1>1, <1>2, <1>3, <1>6
  DEF MainStep, WriteStep, ReadStep, ControlStep, C_Wait, driver, history, txring, txhist,
      W_Check, W_Full, W_Spin, W_Test, W_Done, R_Loop, R_Get, R_Advance, R_Empty, R_Block,
      R_Spin, R_Done, O_Store, O_Iowr
<1>10. CASE HandlerStep
  BY <1>10, <1>1, <1>4, <1>7
  DEF HandlerStep, driver, history, txring, txhist, I_Enter, I_RxFull, I_RxPop, I_RxStatus,
      I_RxTail, I_TxStatus, I_TxExit, I_TxBusy, I_TxThrottle, I_Status2, I_Clear
<1>11. CASE CoreStep
  BY <1>11, <1>1 DEF CoreStep, driver, history, txring, txhist, H_Shift, H_Arrive, H_Cts
<1>12. CASE UNCHANGED vars
  BY <1>12, <1>1 DEF vars, driver, history, txring
<1> QED BY <1>8, <1>9, <1>10, <1>11, <1>12 DEF Next

\* The transmit path of the driver implements the bounded FIFO of ByteChannel.
THEOREM TxRefines == Spec => TxRefinesChannel
<1>1. Init => TxChan!Init
  BY EmptyRing, DepthFacts DEF Init, TxChan!Init, TxPending, Indices
<1>2. IInv /\ [Next]_vars => [TxChan!Next]_(TxChan!chan)
  BY TxStep
<1> QED BY <1>1, <1>2, Invariance, PTL DEF Spec, TxRefinesChannel, TxChan!Spec

\* Without a break nothing leaves the transmit queue but what is sent: TxStep
\* says what a step does to the queue, and each of its cases keeps the sum.
LEMMA NoLossStep ==
  ASSUME IInv, [Next]_vars, TxNoLoss
  PROVE  TxNoLoss'
<1>1. SUFFICES ASSUME "TRBK_ENABLE" \notin ControlOps
               PROVE  (sent \o TxPending = accepted)'
  BY DEF TxNoLoss
<1>2. sent \in Seq(Nat) /\ TxPending \in Seq(Nat) /\ sent \o TxPending = accepted
  BY <1>1, DepthFacts, ContentsSeq
  DEF IInv, TypeOK, HistoryType, RingType, TxNoLoss, TxPending
<1>3. CASE TxChan!Put
  <2>1. PICK b \in 1 .. TxTotal : /\ TxPending' = Append(TxPending, b)
                                 /\ accepted' = Append(accepted, b)
                                 /\ sent' = sent
    BY <1>3 DEF TxChan!Put
  <2>2. sent \o Append(TxPending, b) = Append(sent \o TxPending, b)
    <3>1. b \in Nat
      OBVIOUS
    <3> QED BY ONLY <1>2, <3>1, QueueBehindLog
  <2> QED BY <1>2, <2>1, <2>2
<1>4. CASE TxChan!Get
  <2>1. Append(sent, Head(TxPending)) \o Tail(TxPending) = sent \o TxPending
    BY <1>2, <1>4, QueueBehindLog, 0 \in Nat DEF TxChan!Get
  <2> QED BY <1>2, <1>4, <2>1 DEF TxChan!Get
<1>5. CASE UNCHANGED TxChan!chan
  BY <1>2, <1>5 DEF TxChan!chan
<1> QED BY <1>1, <1>3, <1>4, <1>5, TxStep DEF TxChan!Next, TxChan!Flush

\* Without a break every byte write() has taken is in the ring or has been
\* handed to the core, in order, whatever the interleaving.
THEOREM NoLoss == Spec => []TxNoLoss
<1>1. Init => TxNoLoss
  BY EmptyRing, DepthFacts, ConcatEmptySeq, EmptySeq
  DEF Init, TxNoLoss, TxPending, Indices
<1>2. IInv /\ [Next]_vars /\ TxNoLoss => TxNoLoss'
  BY NoLossStep
<1> QED BY <1>1, <1>2, Invariance, PTL DEF Spec

\* The receive queue likewise: a character leaves it when the reader copies it.
LEMMA RxStep ==
  ASSUME IInv, [Next]_vars
  PROVE  [RxChan!Next]_(RxChan!chan)
<1> USE DepthFacts
<1>1. CASE /\ UNCHANGED <<rxring, saved, delivered>>
           /\ pc' = pc \/ {pc, pc'} \cap {"r_advance"} = {}
  BY <1>1 DEF RxChan!chan, RxQueue, RxPending, rxring
<1>2. CASE R_Get
  <2>1. RxPending # <<>> /\ Head(RxPending) = rx_buf[rx_start]
    BY <1>2, ConsumeSlot
    DEF R_Get, At, RxPending, RxEmpty, IInv, TypeOK, RingType, ReadInv
  <2>2. RxPending' = RxPending
    BY <1>2 DEF R_Get, RxPending, driver
  <2> QED BY <1>2, <2>1, <2>2
          DEF R_Get, At, Goto, RxQueue, RxChan!Next, RxChan!Get
<1>3. CASE R_Advance
  <2>1. RxPending' = Tail(RxPending)
    BY <1>3, ConsumeSlot
    DEF R_Advance, At, RxPending, RxEmpty, IInv, TypeOK, RingType, ReadInv
  <2> QED BY <1>3, <2>1 DEF R_Advance, At, Goto, RxQueue, history, RxChan!chan
<1>4. CASE I_RxPop
  <2> DEFINE b == Head(rxfifo)
             filled == [rx_buf EXCEPT ![rx_end] = b]
  <2>1. b \in 1 .. RxTotal /\ b \in Nat
    BY <1>4, HeadReceived DEF IInv, I_RxPop
  <2>2. /\ filled \in [Indices(RxDepth) -> Nat] /\ filled[rx_end] = b
        /\ rx_start \in Indices(RxDepth) /\ rx_end \in Indices(RxDepth)
    BY <2>1 DEF IInv, TypeOK, RingType
  <2>3. Contents(filled, rx_start, rx_end, RxDepth) = RxPending
    <3>1. /\ RxDepth \in Nat \ {0} /\ rx_buf \in [Indices(RxDepth) -> Nat]
          /\ rx_start \in Indices(RxDepth) /\ rx_end \in Indices(RxDepth)
      BY DEF IInv, TypeOK, RingType
    <3>2. \A x : Contents([rx_buf EXCEPT ![rx_end] = x], rx_start, rx_end, RxDepth)
                   = Contents(rx_buf, rx_start, rx_end, RxDepth)
      BY ONLY <3>1, WriteFreeSlot, ZenonT(60)
    <3> QED BY <3>2, Zenon DEF RxPending
  <2>4. CASE rx_end' = rx_end /\ saved' = saved
    <3>1. RxPending' = RxPending
      BY <1>4, <2>3, <2>4 DEF I_RxPop, RxPending
    <3> QED BY <1>4, <2>4, <3>1 DEF I_RxPop, main, RxQueue, RxChan!chan
  <2>5. CASE rx_end' = Succ(rx_end, RxDepth) /\ saved' = Append(saved, b)
    <3>1. ~Full(rx_start, rx_end, RxDepth)
      BY <1>4 DEF I_RxPop, RxFull
    <3>2. /\ Contents(filled, rx_start, Succ(rx_end, RxDepth), RxDepth)
                = Append(Contents(filled, rx_start, rx_end, RxDepth), filled[rx_end])
          /\ Used(rx_start, rx_end, RxDepth) < RxDepth - 1
      <4> HIDE DEF filled
      <4> QED BY <2>2, <3>1, PublishSlot
    <3>3. RxPending' = Append(RxPending, b)
      BY <1>4, <2>2, <2>3, <2>5, <3>2 DEF I_RxPop, RxPending
    <3>4. RxPending \in Seq(Nat) /\ Len(RxPending) < RxDepth - 1
      BY <2>2, <3>2, ContentsSeq, ContentsLen DEF RxPending, IInv, TypeOK, RingType
    <3>5. CASE pc = "r_advance"
      <4>1. RxPending # <<>>
        BY <3>5, EmptyRing DEF IInv, TypeOK, RingType, ReadInv, RxPending, RxEmpty
      <4>2. /\ Tail(RxPending') = Append(Tail(RxPending), b)
            /\ Len(Tail(RxPending)) < RxDepth - 1
        BY <2>1, <3>3, <3>4, <4>1, TailAppend
      <4> QED BY <1>4, <2>1, <2>5, <3>5, <4>2
              DEF I_RxPop, main, RxQueue, RxChan!Next, RxChan!Put
    <3>6. CASE pc # "r_advance"
      BY <1>4, <2>1, <2>5, <3>3, <3>4, <3>6
      DEF I_RxPop, main, RxQueue, RxChan!Next, RxChan!Put
    <3> QED BY <3>5, <3>6
  <2> QED BY <1>4, <2>4, <2>5 DEF I_RxPop
<1>5. CASE CallStep
  BY <1>5, <1>1
  DEF CallStep, Write, Read, Close, ControlOp, Call, At, Goto, driver, history, rxring
<1>6. CASE WriteStep \/ ControlStep \/ C_Wait
  BY <1>6, <1>1
  DEF WriteStep, ControlStep, C_Wait, At, Goto, Return, main, driver, history, rxring, rxhist,
      W_Check, W_Full, W_Spin, W_Test, W_Put, W_Publish, W_Done, O_Store, O_Flush, O_Iowr
<1>7. CASE ReadStep
  BY <1>7, <1>1, <1>2, <1>3
  DEF ReadStep, At, Goto, Return, driver, history, rxring, R_Loop, R_Empty, R_Block, R_Spin,
      R_Done
<1>8. CASE HandlerStep
  BY <1>8, <1>1, <1>4
  DEF HandlerStep, driver, main, history, rxring, rxhist, I_Enter, I_RxFull, I_RxStatus,
      I_RxTail, I_TxStatus, I_TxExit, I_TxSend, I_TxBusy, I_TxThrottle, I_TxTail, I_Status2,
      I_Clear
<1>9. CASE CoreStep
  BY <1>9, <1>1 DEF CoreStep, driver, main, history, rxring, rxhist, H_Shift, H_Arrive, H_Cts
<1>10. CASE UNCHANGED vars
  BY <1>10, <1>1 DEF vars, driver, main, history, rxring
<1> QED BY <1>5, <1>6, <1>7, <1>8, <1>9, <1>10 DEF Next, MainStep

\* The receive path of the driver implements the bounded FIFO of ByteChannel.
THEOREM RxRefines == Spec => RxRefinesChannel
<1>1. Init => RxChan!Init
  BY EmptyRing, DepthFacts DEF Init, RxChan!Init, RxQueue, RxPending, Indices
<1>2. IInv /\ [Next]_vars => [RxChan!Next]_(RxChan!chan)
  BY RxStep
<1> QED BY <1>1, <1>2, Invariance, PTL DEF Spec, RxRefinesChannel, RxChan!Spec

-----------------------------------------------------------------------------
(***************************************************************************)
(* RTS.  The shadow word matters as much as the register, which the next   *)
(* step of the handler sets to it; so does the copy a control call stores  *)
(* back.  A pending TMT interrupt would take RTS away.                     *)
(***************************************************************************)
Covered == FlowControl /\ ~TxEmpty /\ pc \notin WriteLabels \ {"w_spin", "w_test"}

RtsInv == Covered => /\ "RTS" \in control
                     /\ "RTS" \in ctrl /\ "TMT" \notin ctrl
                     /\ pc \in ControlLabels => "RTS" \in reg /\ "TMT" \notin reg

LEMMA RtsStep ==
  ASSUME IInv, [Next]_vars, RtsInv
  PROVE  RtsInv'
<1>1. CASE /\ Covered' => Covered
           /\ UNCHANGED <<ctrl, control, reg>>
           /\ (pc' \in ControlLabels => pc \in ControlLabels)
  BY <1>1 DEF RtsInv
<1>2. CASE ~Covered'
  BY <1>2 DEF RtsInv
<1>3. CASE W_Full \/ W_Done
  BY <1>3 DEF RtsInv, Covered, W_Full, W_Done, EnableTransmit, Return, Goto, ControlLabels
<1>4. CASE W_Check \/ W_Put \/ W_Publish
  BY <1>4, <1>2 DEF Covered, W_Check, W_Put, W_Publish, Goto, WriteLabels
<1>5. CASE W_Spin \/ W_Test
  BY <1>5, <1>1
  DEF Covered, W_Spin, W_Test, At, Goto, WriteLabels, ControlLabels, driver, core, TxEmpty
<1>6. CASE R_Block \/ R_Done
  BY <1>6 DEF RtsInv, Covered, R_Block, R_Done, EnableReceive, Return, At, Goto, ControlLabels,
              WriteLabels, TxEmpty, txring
<1>7. CASE R_Loop \/ R_Get \/ R_Advance \/ R_Empty \/ R_Spin
  BY <1>7, <1>1
  DEF Covered, R_Loop, R_Get, R_Advance, R_Empty, R_Spin, At, Goto, WriteLabels,
      ControlLabels, driver, core, TxEmpty, txring
<1>8. CASE Write
  BY <1>8, <1>2 DEF Covered, Write, Goto, WriteLabels
<1>9. CASE Read \/ Close
  BY <1>9, <1>1
  DEF Covered, Read, Close, Call, At, Goto, WriteLabels, ControlLabels, driver, core, TxEmpty
<1>10. CASE C_Wait
  BY <1>10 DEF RtsInv, Covered, C_Wait, Return, main, At, Goto, WriteLabels, ControlLabels,
               driver, core, TxEmpty
<1>11. CASE ControlOp
  BY <1>11 DEF RtsInv, Covered, ControlOp, At, Goto, WriteLabels, core, TxEmpty, txring
<1>12. CASE O_Store
  <2>1. Covered' => Covered /\ pc \in ControlLabels
    BY <1>12 DEF Covered, O_Store, At, WriteLabels, ControlLabels, TxEmpty, txring
  <2>2. "RTS" \in reg /\ "TMT" \notin reg => "RTS" \in ctrl' /\ "TMT" \notin ctrl'
    <3>1. arg \in ControlOps
      BY <1>12 DEF O_Store, At, IInv, BreakInv
    <3> QED BY <1>12, <3>1, ConfigAssumption DEF O_Store
  <2> QED BY <1>12, <2>1, <2>2 DEF RtsInv, O_Store, core
<1>13. CASE O_Flush
  BY <1>13, <1>2 DEF Covered, O_Flush, TxEmpty
<1>14. CASE O_Iowr
  BY <1>14 DEF RtsInv, Covered, O_Iowr, Return, At, Goto, WriteLabels, ControlLabels, driver,
               TxEmpty
<1>15. CASE I_Enter \/ I_RxPop \/ I_RxStatus \/ I_TxStatus \/ I_TxExit \/ I_TxBusy \/ I_Clear
  BY <1>15, <1>1
  DEF Covered, I_Enter, I_RxPop, I_RxStatus, I_TxStatus, I_TxExit, I_TxBusy, I_Clear, driver,
      core, main, TxEmpty, txring
<1>16. CASE I_RxFull \/ I_RxTail \/ I_TxThrottle
  BY <1>16 DEF RtsInv, Covered, I_RxFull, I_RxTail, I_TxThrottle, core, main, TxEmpty, txring
<1>17. CASE I_TxSend
  BY <1>17 DEF RtsInv, Covered, I_TxSend, main, IInv, SendInv
<1>18. CASE I_TxTail
  <2>1. Covered' => Covered /\ "TRBK" \notin ctrl /\ ~TxEmpty
    BY <1>18 DEF Covered, I_TxTail, main, TxEmpty
  <2> QED BY <1>18, <2>1 DEF RtsInv, I_TxTail, main
<1>19. CASE I_Status2
  <2>1. Covered' => Covered /\ ~TxEmpty
    BY <1>19 DEF Covered, I_Status2, main, TxEmpty, txring
  <2> QED BY <1>19, <2>1 DEF RtsInv, I_Status2, DctsIrq, TmtIrq, main
<1>20. CASE CoreStep \/ UNCHANGED vars
  BY <1>20, <1>1
  DEF Covered, CoreStep, H_Shift, H_Arrive, H_Cts, vars, driver, core, main, TxEmpty
<1> QED BY <1>3, <1>4, <1>5, <1>6, <1>7, <1>8, <1>9, <1>10, <1>11, <1>12, <1>13, <1>14, <1>15,
           <1>16, <1>17, <1>18, <1>19, <1>20
    DEF Next, CallStep, MainStep, WriteStep, ReadStep, ControlStep, HandlerStep

\* With flow control RTS stays up as long as bytes wait to be sent, although the handler, a
\* write that makes room and a control call all store the control word.
THEOREM RtsHeld == Spec => []RtsHeldWhileSending
<1>1. Init => RtsInv
  BY DEF Init, RtsInv, Covered, TxEmpty
<1>2. IInv /\ [Next]_vars /\ RtsInv => RtsInv'
  BY RtsStep
<1>3. RtsInv => RtsHeldWhileSending
  BY DEF RtsInv, Covered, RtsHeldWhileSending
<1> QED BY <1>1, <1>2, <1>3, Invariance, PTL DEF Spec

-----------------------------------------------------------------------------
(***************************************************************************)
(* The characters received.  Those that are nowhere lost form one          *)
(* increasing sequence, the ones stored and then the ones still in the     *)
(* core; the FIFO of RxRefines says where the stored ones are.             *)
(***************************************************************************)
\* A number above all others goes to the end.
LEMMA AppendLargest ==
  ASSUME NEW s \in Seq(Nat), Increasing(s), NEW e \in Nat, \A x \in Elements(s) : x < e
  PROVE  Increasing(Append(s, e)) /\ Elements(Append(s, e)) = Elements(s) \cup {e}
<1>1. /\ Append(s, e) \in Seq(Nat) /\ Len(Append(s, e)) = Len(s) + 1 /\ Len(s) \in Nat
      /\ DOMAIN Append(s, e) = 1 .. Len(s) + 1 /\ DOMAIN s = 1 .. Len(s)
      /\ \A i \in 1 .. Len(s) : Append(s, e)[i] = s[i]
      /\ Append(s, e)[Len(s) + 1] = e
  BY AppendProperties
<1>2. \A i \in 1 .. Len(s) : s[i] < e
  BY <1>1 DEF Elements
<1>3. Increasing(Append(s, e))
  <2> SUFFICES ASSUME NEW i \in 1 .. Len(s) + 1, NEW j \in 1 .. Len(s) + 1, i < j
               PROVE  Append(s, e)[i] < Append(s, e)[j]
    BY <1>1 DEF Increasing
  <2>1. i \in 1 .. Len(s)
    BY <1>1
  <2>2. CASE j = Len(s) + 1
    BY <1>1, <1>2, <2>1, <2>2
  <2>3. CASE j \in 1 .. Len(s)
    BY <1>1, <2>1, <2>3 DEF Increasing
  <2> QED BY <1>1, <2>2, <2>3
<1>4. Elements(Append(s, e)) = Elements(s) \cup {e}
  <2>1. \A x : x \in Elements(Append(s, e)) <=> \E i \in 1 .. Len(s) + 1 : x = Append(s, e)[i]
    BY <1>1 DEF Elements
  <2>2. \A x : x \in Elements(s) <=> \E i \in 1 .. Len(s) : x = s[i]
    BY <1>1 DEF Elements
  <2>3. 1 .. Len(s) + 1 = 1 .. Len(s) \cup {Len(s) + 1}
    BY <1>1
  <2>4. \A x : x \in Elements(Append(s, e)) <=> x \in Elements(s) \/ x = e
    BY <1>1, <2>1, <2>2, <2>3
  <2> QED BY <2>4
<1> QED BY <1>3, <1>4

\* A concatenation, part by part.
LEMMA BothParts ==
  ASSUME NEW a \in Seq(Nat), NEW q \in Seq(Nat)
  PROVE  /\ a \o q \in Seq(Nat) /\ DOMAIN (a \o q) = 1 .. Len(a) + Len(q)
         /\ \A i \in 1 .. Len(a) : (a \o q)[i] = a[i]
         /\ \A i \in 1 .. Len(q) : (a \o q)[Len(a) + i] = q[i]
<1>1. /\ a \o q \in Seq(Nat) /\ Len(a \o q) = Len(a) + Len(q) /\ Len(a) \in Nat /\ Len(q) \in Nat
      /\ \A i \in 1 .. Len(a) + Len(q) : (a \o q)[i] = IF i <= Len(a) THEN a[i] ELSE q[i - Len(a)]
  BY ConcatProperties
<1>2. \A i \in 1 .. Len(a) : (a \o q)[i] = a[i]
  BY <1>1
<1>3. \A i \in 1 .. Len(q) : (a \o q)[Len(a) + i] = q[i]
  BY <1>1
<1> QED BY <1>1, <1>2, <1>3

\* The first of the later part may be taken away.
LEMMA DropFromMiddle ==
  ASSUME NEW a \in Seq(Nat), NEW q \in Seq(Nat), q # <<>>, Increasing(a \o q)
  PROVE  /\ Increasing(a \o Tail(q))
         /\ Elements(a \o Tail(q)) = Elements(a \o q) \ {Head(q)}
         /\ Head(q) \in Elements(a \o q)
<1> DEFINE all == a \o q
           rest == a \o Tail(q)
           old(i) == IF i <= Len(a) THEN i ELSE i + 1
           k == Len(a) + 1
<1>1. /\ Len(a) \in Nat /\ Len(q) \in Nat /\ Len(q) > 0 /\ Tail(q) \in Seq(Nat)
      /\ Len(Tail(q)) = Len(q) - 1 /\ \A i \in 1 .. Len(q) - 1 : Tail(q)[i] = q[i + 1]
      /\ Head(q) = q[1]
  BY HeadTailProperties, EmptySeq
<1>2. /\ all \in Seq(Nat) /\ DOMAIN all = 1 .. Len(a) + Len(q)
      /\ \A i \in 1 .. Len(a) : all[i] = a[i]
      /\ \A i \in 1 .. Len(q) : all[Len(a) + i] = q[i]
  BY <1>1, BothParts DEF all
<1>3. /\ rest \in Seq(Nat) /\ DOMAIN rest = 1 .. Len(a) + (Len(q) - 1)
      /\ \A i \in 1 .. Len(a) : rest[i] = a[i]
      /\ \A i \in 1 .. Len(q) - 1 : rest[Len(a) + i] = Tail(q)[i]
  <2>1. /\ DOMAIN rest = 1 .. Len(a) + Len(Tail(q))
        /\ \A i \in 1 .. Len(a) : rest[i] = a[i]
        /\ \A i \in 1 .. Len(Tail(q)) : rest[Len(a) + i] = Tail(q)[i]
        /\ rest \in Seq(Nat)
    BY <1>1, BothParts DEF rest
  <2> QED BY <1>1, <2>1
<1> HIDE DEF all, rest
<1>4. \A i \in DOMAIN all : i \in Int
  BY <1>1, <1>2
<1>5. \A i \in DOMAIN rest : old(i) \in DOMAIN all /\ rest[i] = all[old(i)] /\ old(i) # k
  <2> SUFFICES ASSUME NEW i \in DOMAIN rest
               PROVE  old(i) \in DOMAIN all /\ rest[i] = all[old(i)] /\ old(i) # k
    OBVIOUS
  <2>1. i \in 1 .. Len(a) + (Len(q) - 1)
    BY <1>3
  <2>2. CASE i \in 1 .. Len(a)
    <3>1. old(i) = i /\ i \in DOMAIN all /\ i # k
      BY <1>1, <1>2, <2>2
    <3> QED BY <1>2, <1>3, <2>2, <3>1
  <2>3. CASE i > Len(a)
    <3>1. PICK n \in 1 .. Len(q) - 1 : i = Len(a) + n
      <4>1. i - Len(a) \in 1 .. Len(q) - 1 /\ i = Len(a) + (i - Len(a))
        BY <1>1, <2>1, <2>3
      <4> QED BY <4>1
    <3>2. /\ old(i) = Len(a) + (n + 1) /\ Len(a) + (n + 1) \in 1 .. Len(a) + Len(q)
          /\ Len(a) + (n + 1) # k /\ n + 1 \in 1 .. Len(q)
      BY <1>1, <2>3, <3>1
    <3>3. rest[i] = q[n + 1]
      BY <1>1, <1>3, <3>1
    <3>4. all[Len(a) + (n + 1)] = q[n + 1]
      BY <1>2, <3>2
    <3> HIDE DEF old, k
    <3> QED BY <1>2, <3>2, <3>3, <3>4
  <2> QED BY <1>1, <2>1, <2>2, <2>3
<1>6. k \in DOMAIN all /\ all[k] = Head(q)
  <2>1. 1 \in 1 .. Len(q) /\ k \in 1 .. Len(a) + Len(q)
    BY <1>1
  <2> QED BY <1>1, <1>2, <2>1
<1>7. \A i, j \in DOMAIN all : i < j => all[i] < all[j]
  BY DEF all, Increasing
<1>8. Increasing(rest)
  <2> SUFFICES ASSUME NEW i \in DOMAIN rest, NEW j \in DOMAIN rest, i < j
               PROVE  rest[i] < rest[j]
    BY DEF Increasing
  <2>1. old(i) < old(j)
    BY <1>1, <1>3
  <2> QED BY <1>5, <1>7, <2>1
<1>9. \A i, j \in DOMAIN all : i # j => all[i] # all[j]
  <2> SUFFICES ASSUME NEW i \in DOMAIN all, NEW j \in DOMAIN all, i # j
               PROVE  all[i] # all[j]
    OBVIOUS
  <2>1. all[i] \in Nat /\ all[j] \in Nat /\ i \in Int /\ j \in Int
    BY <1>2, <1>4
  <2>2. i < j \/ j < i
    BY <2>1
  <2> QED BY <1>7, <2>1, <2>2
<1>10. Elements(rest) = Elements(all) \ {Head(q)}
  <2>1. ASSUME NEW x \in Elements(rest)
        PROVE  x \in Elements(all) /\ x # Head(q)
    <3>1. PICK i \in DOMAIN rest : x = rest[i]
      BY <2>1 DEF Elements
    <3>2. x = all[old(i)] /\ old(i) \in DOMAIN all /\ old(i) # k
      BY <1>5, <3>1
    <3> QED BY <1>6, <1>9, <3>2 DEF Elements
  <2>2. ASSUME NEW x \in Elements(all), x # Head(q)
        PROVE  x \in Elements(rest)
    <3>1. PICK i \in DOMAIN all : x = all[i]
      BY <2>2 DEF Elements
    <3>2. i # k
      BY <1>6, <2>2, <3>1
    <3>3. CASE i <= Len(a)
      <4>1. i \in DOMAIN rest /\ old(i) = i
        BY <1>1, <1>2, <1>3, <3>1, <3>2, <3>3
      <4> QED BY <1>5, <3>1, <4>1 DEF Elements
    <3>4. CASE i > k
      <4>0. i \in 1 .. Len(a) + Len(q)
        BY <1>2, <3>1
      <4>1. i - 1 \in DOMAIN rest /\ old(i - 1) = i
        BY <1>1, <1>3, <3>4, <4>0
      <4>2. rest[i - 1] = all[i]
        BY <1>5, <4>1
      <4> QED BY <3>1, <4>1, <4>2 DEF Elements
    <3> QED BY <1>1, <1>2, <3>1, <3>2, <3>3, <3>4
  <2> QED BY <2>1, <2>2
<1>11. Head(q) \in Elements(all)
  BY <1>6 DEF Elements
<1> QED BY <1>8, <1>10, <1>11 DEF all, rest

StoredInv == saved = delivered \o RxQueue

Gone == lost \cup discarded

ArrivedInv == /\ Increasing(saved \o rxfifo)
              /\ Elements(saved \o rxfifo) \cup Gone = 1 .. arrived
              /\ Elements(saved \o rxfifo) \cap Gone = {}

\* The queue of the receive path is made of numbers, with or without the byte in hand.
LEMMA RxQueueSeq ==
  ASSUME IInv
  PROVE  RxQueue \in Seq(Nat)
<1>1. RxPending \in Seq(Nat)
  BY DepthFacts, ContentsSeq DEF IInv, TypeOK, RingType, RxPending
<1>2. CASE pc = "r_advance"
  <2>1. RxPending # <<>>
    BY <1>2, EmptyRing, DepthFacts DEF IInv, TypeOK, RingType, ReadInv, RxPending, RxEmpty
  <2> QED BY <1>1, <1>2, <2>1, HeadTailProperties DEF RxQueue
<1> QED BY <1>1, <1>2 DEF RxQueue

LEMMA StoredStep ==
  ASSUME IInv, [Next]_vars, StoredInv
  PROVE  StoredInv'
<1>1. delivered \in Seq(Nat) /\ RxQueue \in Seq(Nat)
  BY RxQueueSeq DEF IInv, TypeOK, HistoryType
<1>2. CASE RxChan!Put
  <2>1. PICK b \in 1 .. RxTotal : /\ RxQueue' = Append(RxQueue, b)
                                 /\ saved' = Append(saved, b) /\ delivered' = delivered
    BY <1>2 DEF RxChan!Put
  <2>2. b \in Nat
    OBVIOUS
  <2>3. delivered \o Append(RxQueue, b) = Append(delivered \o RxQueue, b)
    BY ONLY <1>1, <2>2, QueueBehindLog
  <2> QED BY <2>1, <2>3 DEF StoredInv
<1>3. CASE RxChan!Get
  <2>1. Append(delivered, Head(RxQueue)) \o Tail(RxQueue) = delivered \o RxQueue
    BY <1>1, <1>3, QueueBehindLog, 0 \in Nat DEF RxChan!Get
  <2> QED BY <1>3, <2>1 DEF RxChan!Get, StoredInv
<1>4. CASE UNCHANGED RxChan!chan
  BY <1>4 DEF RxChan!chan, StoredInv
<1> QED BY <1>2, <1>3, <1>4, RxStep DEF RxChan!Next, RxChan!Flush

LEMMA ArrivedStep ==
  ASSUME IInv, [Next]_vars, ArrivedInv
  PROVE  ArrivedInv'
<1> DEFINE kept == saved \o rxfifo
<1>0. /\ saved \in Seq(Nat) /\ rxfifo \in Seq(Nat) /\ Gone \subseteq Nat /\ arrived \in Nat
      /\ kept \in Seq(Nat)
  <2>1. saved \in Seq(1 .. RxTotal) /\ rxfifo \in Seq(1 .. RxTotal) /\ Gone \subseteq 1 .. RxTotal
    BY DEF Gone, IInv, TypeOK, HistoryType, CoreType
  <2>2. \A s \in Seq(1 .. RxTotal) : s \in Seq(Nat)
    <3>1. 1 .. RxTotal \subseteq Nat
      BY ConfigAssumption
    <3> QED BY <3>1, SeqMonotonic
  <2> QED BY <2>1, <2>2, ConcatProperties DEF IInv, TypeOK, HistoryType
<1>1. CASE UNCHANGED <<saved, rxfifo, lost, discarded, arrived>>
  BY <1>1 DEF ArrivedInv, Gone
<1>2. CASE I_RxPop
  <2> DEFINE b == Head(rxfifo)
  <2>1. rxfifo # <<>> /\ rxfifo' = Tail(rxfifo) /\ arrived' = arrived
    BY <1>2 DEF I_RxPop
  <2>2. CASE Gone' = Gone \cup {b} /\ saved' = saved
    BY <1>0, <2>1, <2>2, DropFromMiddle DEF ArrivedInv
  <2>3. CASE Gone' = Gone /\ saved' = Append(saved, b)
    <3>1. Append(saved, b) \o Tail(rxfifo) = saved \o rxfifo
      BY <1>0, <2>1, QueueBehindLog, 0 \in Nat
    <3> QED BY <2>1, <2>3, <3>1 DEF ArrivedInv
  <2>4. \/ Gone' = Gone \cup {b} /\ saved' = saved
        \/ Gone' = Gone /\ saved' = Append(saved, b)
    BY <1>2 DEF I_RxPop, Gone
  <2> QED BY <2>2, <2>3, <2>4
<1>3. CASE \E kind \in {"ok", "PE", "BRK", "EOP"} : H_Arrive(kind)
  <2>1. /\ saved' = saved /\ arrived' = arrived + 1
        /\ \/ rxfifo' = Append(rxfifo, arrived + 1) /\ Gone' = Gone
           \/ rxfifo' = rxfifo /\ Gone' = Gone \cup {arrived + 1}
    BY <1>3 DEF H_Arrive, Gone
  <2>2. 1 .. arrived + 1 = 1 .. arrived \cup {arrived + 1} /\ arrived + 1 \notin 1 .. arrived
    BY <1>0
  <2>3. CASE rxfifo' = Append(rxfifo, arrived + 1) /\ Gone' = Gone
    <3>1. saved \o Append(rxfifo, arrived + 1) = Append(kept, arrived + 1)
      BY <1>0, QueueBehindLog, arrived + 1 \in Nat
    <3>2. \A x \in Elements(kept) : x < arrived + 1
      BY <1>0 DEF ArrivedInv
    <3>3. /\ Increasing(Append(kept, arrived + 1))
          /\ Elements(Append(kept, arrived + 1)) = Elements(kept) \cup {arrived + 1}
      BY <1>0, <3>2, AppendLargest, arrived + 1 \in Nat DEF ArrivedInv
    <3> QED BY <2>1, <2>2, <2>3, <3>1, <3>3 DEF ArrivedInv
  <2>4. CASE rxfifo' = rxfifo /\ Gone' = Gone \cup {arrived + 1}
    BY <2>1, <2>2, <2>4 DEF ArrivedInv
  <2> QED BY <2>1, <2>3, <2>4
<1>4. CASE CallStep
  BY <1>4, <1>1 DEF CallStep, Write, Read, Close, ControlOp, Call, core, history, rxhist
<1>5. CASE MainStep
  BY <1>5, <1>1
  DEF MainStep, WriteStep, ReadStep, ControlStep, C_Wait, core, history, rxhist, W_Check,
      W_Full, W_Spin, W_Test, W_Put, W_Publish, W_Done, R_Loop, R_Get, R_Advance, R_Empty,
      R_Block, R_Spin, R_Done, O_Store, O_Flush, O_Iowr
<1>6. CASE HandlerStep
  BY <1>6, <1>1, <1>2
  DEF HandlerStep, core, history, rxhist, I_Enter, I_RxFull, I_RxStatus, I_RxTail, I_TxStatus,
      I_TxExit, I_TxSend, I_TxBusy, I_TxThrottle, I_TxTail, I_Status2, I_Clear
<1>7. CASE H_Shift \/ H_Cts \/ UNCHANGED vars
  BY <1>7, <1>1 DEF H_Shift, H_Cts, vars, core, history, rxhist
<1> QED BY <1>3, <1>4, <1>5, <1>6, <1>7 DEF Next, CoreStep

\* Every character the line brought is with the reader, in the ring or in the core, in order,
\* unless it fell to an overrun or was discarded as corrupted.
THEOREM EveryCharacterAccounted == Spec => []RxAccounted
<1>1. Init => StoredInv /\ ArrivedInv
  <2> SUFFICES ASSUME Init PROVE StoredInv /\ ArrivedInv
    OBVIOUS
  <2>1. RxPending = <<>> /\ RxQueue = <<>>
    BY EmptyRing, DepthFacts DEF Init, RxPending, RxQueue, Indices
  <2>2. saved = <<>> /\ rxfifo = <<>> /\ delivered = <<>> /\ Gone = {} /\ arrived = 0
    BY DEF Init, Gone
  <2>3. <<>> \o <<>> = <<>> /\ DOMAIN <<>> = {}
    BY ConcatEmptySeq, EmptySeq
  <2>4. Elements(<<>>) = {} /\ Increasing(<<>>)
    BY <2>3 DEF Elements, Increasing
  <2> QED BY <2>1, <2>2, <2>3, <2>4 DEF StoredInv, ArrivedInv
<1>2. IInv /\ [Next]_vars /\ StoredInv => StoredInv'
  BY StoredStep
<1>3. IInv /\ [Next]_vars /\ ArrivedInv => ArrivedInv'
  BY ArrivedStep
<1>4. StoredInv /\ ArrivedInv => RxAccounted
  BY DEF StoredInv, ArrivedInv, RxAccounted, Gone
<1> QED BY <1>1, <1>2, <1>3, <1>4, Invariance, PTL DEF Spec

-----------------------------------------------------------------------------
(***************************************************************************)
(* The characters discarded.  An error bit that the handler still may see  *)
(* is a debt of one character: it was raised by one that came in corrupted,*)
(* the loop ends with the first character it discards, and what is left of *)
(* the handler clears STATUS.                                              *)
(***************************************************************************)
Receiving == ipc \in {"rx_loop", "rx_status"}

ErrorBits(s) == s \cap {"PE", "BRK"}

Debt == IF (Receiving \/ ipc = "idle") /\ ErrorBits(sticky) # {} THEN 1 ELSE 0

BadInv == bad \subseteq 1 .. arrived /\ lost \subseteq 1 .. arrived

StatusInv == Receiving => ErrorBits(st) \subseteq sticky

PaidInv == /\ BadInv /\ StatusInv
           /\ Cardinality(discarded) + Debt <= Cardinality(bad \ lost)

\* The sets counted are finite.
LEMMA CountedSets ==
  ASSUME IInv, BadInv
  PROVE  /\ IsFiniteSet(discarded) /\ Cardinality(discarded) \in Nat
         /\ IsFiniteSet(bad \ lost) /\ Cardinality(bad \ lost) \in Nat
         /\ arrived \in Nat /\ arrived + 1 \notin bad \cup lost
<1>1. arrived \in Nat /\ RxTotal \in Nat /\ discarded \subseteq 1 .. RxTotal
  BY ConfigAssumption DEF IInv, TypeOK, HistoryType
<1>2. IsFiniteSet(1 .. RxTotal) /\ IsFiniteSet(1 .. arrived)
  BY <1>1, FS_Interval
<1>3. IsFiniteSet(discarded) /\ IsFiniteSet(bad \ lost)
  BY <1>1, <1>2, FS_Subset DEF BadInv
<1>4. arrived + 1 \notin 1 .. arrived
  BY <1>1
<1> QED BY <1>1, <1>3, <1>4, FS_CardinalityType DEF BadInv

\* A step that touches no count makes no debt.
LEMMA DebtKept ==
  ASSUME IInv, PaidInv, UNCHANGED <<discarded, bad, lost, arrived>>, StatusInv', Debt' <= Debt
  PROVE  PaidInv'
<1>1. Cardinality(discarded) \in Nat /\ Cardinality(bad \ lost) \in Nat
  BY CountedSets DEF PaidInv
<1>2. Debt \in {0, 1} /\ Debt' \in {0, 1}
  BY DEF Debt
<1>3. Cardinality(discarded) + Debt' <= Cardinality(bad \ lost)
  BY <1>1, <1>2 DEF PaidInv
<1> QED BY <1>3 DEF PaidInv, BadInv

LEMMA PaidStep ==
  ASSUME IInv, [Next]_vars, PaidInv
  PROVE  PaidInv'
<1>0. ErrorBits(STATUS) = ErrorBits(sticky)
  BY DEF STATUS, ErrorBits, StatusBits, Errors
<1>1. CASE /\ UNCHANGED <<discarded, bad, lost, arrived, ipc, st>>
           /\ ErrorBits(sticky') = ErrorBits(sticky)
  <2>1. Debt' = Debt
    BY <1>1 DEF Debt, Receiving
  <2>2. StatusInv'
    BY <1>1 DEF PaidInv, StatusInv, Receiving, ErrorBits
  <2>3. Debt' <= Debt
    BY <2>1 DEF Debt
  <2> QED BY <1>1, <2>2, <2>3, DebtKept
<1>2. CASE CallStep
  BY <1>2, <1>1
  DEF CallStep, Write, Read, Close, ControlOp, Call, core, handler, history, rxhist
<1>3. CASE MainStep
  BY <1>3, <1>1
  DEF MainStep, WriteStep, ReadStep, ControlStep, C_Wait, core, handler, history, rxhist,
      W_Check, W_Full, W_Spin, W_Test, W_Put, W_Publish, W_Done, R_Loop, R_Get, R_Advance,
      R_Empty, R_Block, R_Spin, R_Done, O_Store, O_Flush, O_Iowr
<1>4. CASE H_Shift \/ H_Cts \/ UNCHANGED vars
  <2>1. ErrorBits(sticky \cup {"DCTS"}) = ErrorBits(sticky)
    BY DEF ErrorBits
  <2> QED BY <1>4, <1>1, <2>1 DEF H_Shift, H_Cts, vars, core, handler, history, rxhist
<1>5. CASE I_Enter \/ I_RxStatus
  <2>1. /\ UNCHANGED <<discarded, bad, lost, arrived, sticky>>
        /\ st' = STATUS /\ (Receiving \/ ipc = "idle")
    BY <1>5 DEF I_Enter, I_RxStatus, Receiving, core, history, rxhist
  <2>2. StatusInv'
    BY <1>0, <2>1 DEF StatusInv, ErrorBits
  <2>3. Debt' <= Debt
    BY <2>1 DEF Debt
  <2> QED BY <2>1, <2>2, <2>3, DebtKept
<1>6. CASE \/ I_RxFull \/ I_RxTail \/ I_TxStatus \/ I_TxExit \/ I_TxSend \/ I_TxBusy
           \/ I_TxThrottle \/ I_TxTail \/ I_Status2 \/ I_Clear
  <2>1. UNCHANGED <<discarded, bad, lost, arrived>>
    BY <1>6
    DEF I_RxFull, I_RxTail, I_TxStatus, I_TxExit, I_TxSend, I_TxBusy, I_TxThrottle, I_TxTail,
        I_Status2, I_Clear, history, rxhist
  <2>2. \/ ipc' \in {"rx_tail", "tx_loop", "tx_send", "tx_tail", "status2", "clear"}
        \/ ipc' = "idle" /\ sticky' = {}
    BY <1>6
    DEF I_RxFull, I_RxTail, I_TxStatus, I_TxExit, I_TxSend, I_TxBusy, I_TxThrottle, I_TxTail,
        I_Status2, I_Clear, AfterReceive
  <2>3. Debt' = 0 /\ StatusInv'
    BY <2>2 DEF Debt, StatusInv, Receiving, ErrorBits
  <2>4. Debt' <= Debt
    BY <2>3 DEF Debt
  <2> QED BY <2>1, <2>3, <2>4, DebtKept
<1>7. CASE I_RxPop
  <2>1. /\ UNCHANGED <<bad, lost, arrived, sticky, st>> /\ ipc = "rx_loop"
        /\ ipc' \in {"rx_tail", "rx_status"}
    BY <1>7 DEF I_RxPop
  <2>2. StatusInv'
    BY <2>1 DEF PaidInv, StatusInv, Receiving
  <2>3. CASE discarded' = discarded
    <3>1. Debt' <= Debt
      BY <2>1 DEF Debt, Receiving
    <3> QED BY <2>1, <2>2, <2>3, <3>1, DebtKept
  <2>4. CASE ErrorBits(st) # {} /\ discarded' = discarded \cup {Head(rxfifo)} /\ ipc' = "rx_tail"
    <3>1. Debt = 1 /\ Debt' = 0
      BY <2>1, <2>4 DEF PaidInv, StatusInv, Debt, Receiving, ErrorBits
    <3>2. /\ IsFiniteSet(discarded) /\ Cardinality(discarded) \in Nat
          /\ Cardinality(bad \ lost) \in Nat
      BY CountedSets DEF PaidInv
    <3>3. Cardinality(discarded') \in {Cardinality(discarded), Cardinality(discarded) + 1}
      BY <2>4, <3>2, FS_AddElement
    <3>4. Cardinality(discarded') + Debt' <= Cardinality(bad \ lost)
      BY <3>1, <3>2, <3>3 DEF PaidInv
    <3> QED BY <2>1, <2>2, <3>4 DEF PaidInv, BadInv
  <2> QED BY <1>7, <2>3, <2>4 DEF I_RxPop, ErrorBits
<1>8. CASE \E kind \in {"ok", "PE", "BRK", "EOP"} : H_Arrive(kind)
  <2> DEFINE new == arrived + 1
  <2>1. /\ UNCHANGED <<discarded, ipc, st>> /\ arrived' = new
        /\ bad' \in {bad, bad \cup {new}} /\ lost' \in {lost, lost \cup {new}}
        /\ sticky \subseteq sticky'
        /\ ErrorBits(sticky') # ErrorBits(sticky) => bad' = bad \cup {new} /\ lost' = lost
    BY <1>8 DEF H_Arrive, handler, ErrorBits
  <2>2. /\ IsFiniteSet(bad \ lost) /\ Cardinality(bad \ lost) \in Nat
        /\ Cardinality(discarded) \in Nat /\ arrived \in Nat /\ new \notin bad \cup lost
    BY CountedSets DEF PaidInv
  <2>3. BadInv'
    BY <2>1, <2>2 DEF PaidInv, BadInv
  <2>4. StatusInv'
    BY <2>1 DEF PaidInv, StatusInv, Receiving
  <2>5. bad' \ lost' \in {bad \ lost, (bad \ lost) \cup {new}}
    BY <2>1, <2>2
  <2>6. new \notin bad \ lost
    BY <2>2
  <2> HIDE DEF new
  <2>7. Cardinality((bad \ lost) \cup {new}) = Cardinality(bad \ lost) + 1
    BY <2>2, <2>6, FS_AddElement
  <2>8. CASE bad' = bad \cup {new} /\ lost' = lost
    <3>1. bad' \ lost' = (bad \ lost) \cup {new}
      BY <2>2, <2>8
    <3>2. Debt \in {0, 1} /\ Debt' \in {0, 1}
      BY DEF Debt
    <3>3. Cardinality(bad' \ lost') = Cardinality(bad \ lost) + 1
      BY <2>7, <3>1
    <3>4. Cardinality(discarded) + Debt <= Cardinality(bad \ lost)
      BY DEF PaidInv
    <3>5. Cardinality(discarded') + Debt' <= Cardinality(bad' \ lost')
      BY <2>1, <2>2, <3>2, <3>3, <3>4
    <3> QED BY <2>3, <2>4, <3>5 DEF PaidInv
  <2>9. CASE ErrorBits(sticky') = ErrorBits(sticky)
    <3>1. Debt' = Debt /\ Debt \in {0, 1}
      BY <2>1, <2>9 DEF Debt, Receiving
    <3>2. Cardinality(bad' \ lost') \in {Cardinality(bad \ lost), Cardinality(bad \ lost) + 1}
      BY <2>5, <2>7
    <3>3. Cardinality(discarded') + Debt' <= Cardinality(bad' \ lost')
      BY <2>1, <2>2, <3>1, <3>2 DEF PaidInv
    <3> QED BY <2>3, <2>4, <3>3 DEF PaidInv
  <2> QED BY <2>1, <2>8, <2>9
<1> QED BY <1>2, <1>3, <1>4, <1>5, <1>6, <1>7, <1>8 DEF Next, HandlerStep, CoreStep

\* The handler discards no more characters than came in corrupted, although the error bits it
\* goes by are sticky, name no character and may be seen in several interrupts.
THEOREM DiscardsArePaidFor == Spec => []DiscardsPaidFor
<1>1. Init => PaidInv
  <2> SUFFICES ASSUME Init PROVE PaidInv
    OBVIOUS
  <2>1. discarded = {} /\ bad = {} /\ lost = {} /\ sticky = {} /\ ipc = "idle"
    BY DEF Init
  <2>2. Cardinality(discarded) = 0 /\ Cardinality(bad \ lost) = 0 /\ Debt = 0
    BY <2>1, FS_EmptySet DEF Debt, ErrorBits
  <2> QED BY <2>1, <2>2 DEF PaidInv, BadInv, StatusInv, Receiving
<1>2. IInv /\ [Next]_vars /\ PaidInv => PaidInv'
  BY PaidStep
<1>3. IInv /\ PaidInv => DiscardsPaidFor
  <2> SUFFICES ASSUME IInv, PaidInv PROVE DiscardsPaidFor
    OBVIOUS
  <2>1. Cardinality(discarded) \in Nat /\ Cardinality(bad \ lost) \in Nat /\ Debt \in {0, 1}
    BY CountedSets DEF PaidInv, Debt
  <2> QED BY <2>1 DEF PaidInv, DiscardsPaidFor
<1> QED BY <1>1, <1>2, <1>3, Invariance, PTL DEF Spec
=============================================================================
