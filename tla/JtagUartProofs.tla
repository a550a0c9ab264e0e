--------------------------- MODULE JtagUartProofs ---------------------------
(***************************************************************************)
(* Proofs about the JTAG UART driver, for every buffer length, FIFO depth, *)
(* host behaviour, and with or without the alarm.                          *)
(*                                                                         *)
(* Bytes are named by their position, so every stretch of a stream is      *)
(* Numbers(from, to), and what a ring holds is said slot by slot.          *)
(***************************************************************************)
EXTENDS JtagUart, DataTheorems

LEMMA BufLenFacts == BufLen \in Nat \ {0} /\ BufLen >= 2
BY BufferAssumption

-----------------------------------------------------------------------------
(***************************************************************************)
(* Stretches of a stream.                                                  *)
(***************************************************************************)
LEMMA NumbersSeq ==
  ASSUME NEW a \in Nat, NEW b \in Nat, a <= b
  PROVE  /\ Numbers(a, b) \in Seq(Nat)
         /\ Len(Numbers(a, b)) = b - a
         /\ \A i \in 1 .. b - a : Numbers(a, b)[i] = a + i
<1>1. b - a \in Nat /\ \A i \in 1 .. b - a : a + i \in Nat
  OBVIOUS
<1> QED BY <1>1 DEF Numbers

LEMMA NumbersConcat ==
  ASSUME NEW a \in Nat, NEW b \in Nat, NEW c \in Nat, a <= b, b <= c
  PROVE  Numbers(a, b) \o Numbers(b, c) = Numbers(a, c)
<1> DEFINE s == Numbers(a, b)
           t == Numbers(b, c)
           u == Numbers(a, c)
<1>1. s \in Seq(Nat) /\ Len(s) = b - a /\ \A i \in 1 .. b - a : s[i] = a + i
  BY NumbersSeq
<1>2. t \in Seq(Nat) /\ Len(t) = c - b /\ \A i \in 1 .. c - b : t[i] = b + i
  BY NumbersSeq
<1>3. u \in Seq(Nat) /\ Len(u) = c - a /\ \A i \in 1 .. c - a : u[i] = a + i
  <2>1. a <= c
    OBVIOUS
  <2> QED BY <2>1, NumbersSeq
<1> HIDE DEF s, t, u
<1>4. /\ s \o t \in Seq(Nat) /\ Len(s \o t) = Len(s) + Len(t)
      /\ \A i \in 1 .. Len(s) + Len(t) :
            (s \o t)[i] = IF i <= Len(s) THEN s[i] ELSE t[i - Len(s)]
  BY <1>1, <1>2, ConcatProperties
<1>5. Len(s) + Len(t) = c - a
  BY <1>1, <1>2
<1>6. ASSUME NEW i \in 1 .. c - a
      PROVE  (s \o t)[i] = u[i]
  <2>1. (s \o t)[i] = IF i <= b - a THEN s[i] ELSE t[i - (b - a)]
    BY <1>1, <1>4, <1>5
  <2>2. CASE i <= b - a
    BY <1>1, <1>3, <2>1, <2>2
  <2>3. CASE i > b - a
    <3>1. i - (b - a) \in 1 .. c - b
      BY <2>3
    <3>2. t[i - (b - a)] = a + i
      BY <1>2, <3>1
    <3>3. (s \o t)[i] = t[i - (b - a)]
      <4>1. ~(i <= b - a)
        BY <2>3
      <4> QED BY <2>1, <4>1
    <3> QED BY <1>3, <3>2, <3>3
  <2>4. i <= b - a \/ i > b - a
    OBVIOUS
  <2> QED BY <2>2, <2>3, <2>4
<1>7. s \o t = u
  BY <1>3, <1>4, <1>5, <1>6, SeqEqual
<1> QED BY <1>7 DEF s, t, u

LEMMA NumbersEnds ==
  ASSUME NEW a \in Nat, NEW b \in Nat, a <= b
  PROVE  /\ (a < b => /\ Numbers(a, b) # <<>>
                      /\ Head(Numbers(a, b)) = a + 1
                      /\ Tail(Numbers(a, b)) = Numbers(a + 1, b))
         /\ Append(Numbers(a, b), b + 1) = Numbers(a, b + 1)
<1>1. ASSUME a < b
      PROVE  /\ Numbers(a, b) # <<>>
             /\ Head(Numbers(a, b)) = a + 1
             /\ Tail(Numbers(a, b)) = Numbers(a + 1, b)
  <2> DEFINE s == Numbers(a, b)
             t == Numbers(a + 1, b)
  <2>1. /\ s \in Seq(Nat) /\ Len(s) = b - a /\ t \in Seq(Nat) /\ Len(t) = b - a - 1
        /\ \A i \in 1 .. b - a : s[i] = a + i
        /\ \A i \in 1 .. b - a - 1 : t[i] = a + 1 + i
    <3>1. a + 1 \in Nat /\ a + 1 <= b
      BY <1>1
    <3>2. /\ s \in Seq(Nat) /\ Len(s) = b - a
          /\ \A i \in 1 .. b - a : s[i] = a + i
      BY NumbersSeq
    <3>3. /\ t \in Seq(Nat) /\ Len(t) = b - (a + 1)
          /\ \A i \in 1 .. b - (a + 1) : t[i] = a + 1 + i
      BY <3>1, NumbersSeq
    <3> QED BY <3>2, <3>3
  <2> HIDE DEF s, t
  <2>2. s # <<>>
    BY <1>1, <2>1
  <2>3. /\ Head(s) = s[1] /\ Tail(s) \in Seq(Nat) /\ Len(Tail(s)) = Len(s) - 1
        /\ \A i \in 1 .. Len(s) - 1 : Tail(s)[i] = s[i + 1]
    BY <2>1, <2>2, HeadTailProperties
  <2>4. \A i \in 1 .. b - a - 1 : Tail(s)[i] = t[i]
    BY <2>1, <2>3
  <2>5. Tail(s) = t
    BY <2>1, <2>3, <2>4, SeqEqual
  <2>6. Head(s) = a + 1
    BY <1>1, <2>1, <2>3
  <2> QED BY <2>2, <2>5, <2>6 DEF s, t
<1>2. Append(Numbers(a, b), b + 1) = Numbers(a, b + 1)
  <2>1. Numbers(b, b + 1) = <<b + 1>>
    BY DEF Numbers
  <2>2. Numbers(a, b) \in Seq(Nat) /\ b + 1 \in Nat
    BY NumbersSeq
  <2>3. Append(Numbers(a, b), b + 1) = Numbers(a, b) \o <<b + 1>>
    BY <2>2, AppendProperties
  <2>4. Numbers(a, b) \o Numbers(b, b + 1) = Numbers(a, b + 1)
    <3>1. b + 1 \in Nat /\ b <= b + 1
      OBVIOUS
    <3> QED BY <3>1, NumbersConcat
  <2> QED BY <2>1, <2>3, <2>4
<1> QED BY <1>1, <1>2

LEMMA NumbersSub ==
  ASSUME NEW a \in Nat, NEW b \in Nat, a <= b, NEW i \in 0 .. b - a, NEW j \in i .. b - a
  PROVE  SubSeq(Numbers(a, b), i + 1, j) = Numbers(a + i, a + j)
<1> DEFINE s == Numbers(a, b)
           t == Numbers(a + i, a + j)
<1>1. /\ s \in Seq(Nat) /\ Len(s) = b - a
      /\ \A m \in 1 .. b - a : s[m] = a + m
  BY NumbersSeq
<1>2. /\ t \in Seq(Nat) /\ Len(t) = j - i
      /\ \A m \in 1 .. j - i : t[m] = a + i + m
  <2>1. a + i \in Nat /\ a + j \in Nat /\ a + i <= a + j /\ (a + j) - (a + i) = j - i
    OBVIOUS
  <2> QED BY <2>1, NumbersSeq
<1>3. /\ SubSeq(s, i + 1, j) = [m \in 1 .. j - i |-> s[i + m]]
  BY <1>1
<1>4. t = [m \in 1 .. j - i |-> a + i + m]
  BY DEF Numbers
<1>5. \A m \in 1 .. j - i : s[i + m] = a + i + m
  BY <1>1
<1> QED BY <1>3, <1>4, <1>5


-----------------------------------------------------------------------------
(***************************************************************************)
(* The inductive invariant.  A block is chosen, copied and published in    *)
(* three steps between which the handler moves the other index: the room   *)
(* and the data a block was cut from must still be there.                  *)
(***************************************************************************)
\* The n slots at tx_in are free and do not wrap.
Room == n >= 1 /\ tx_in + n <= BufLen /\ n <= BufLen - 1 - Used(tx_out, tx_in, BufLen)

WriteInv ==
    /\ pc \in WriteLabels \ {"w_publish"} => accepted + count <= TxTotal
    /\ pc = "w_copy" => (Room /\ n <= count)
    /\ pc = "w_publish" => (/\ Room /\ accepted + n + count <= TxTotal
                            /\ \A j \in 1 .. n : tx_buf[tx_in + j - 1] = accepted + j)

\* The n slots at rx_out are in use and do not wrap.
ReadInv ==
    /\ pc \in {"r_copy", "r_release"} => (/\ n >= 1 /\ rx_out + n <= BufLen
                                          /\ n <= Used(rx_out, rx_in, BufLen))
    /\ pc = "r_copy" => n <= count

\* The room the handler read from CONTROL is still there: only it fills the FIFO.
SpaceInv == ipc \in {"rx", "tx"} => wlevel + space <= WriteDepth

\* What was sent, then what the ring holds, is the stream.
TxInv ==
    /\ sent = Numbers(0, Len(sent))
    /\ accepted = Len(sent) + Used(tx_out, tx_in, BufLen)
    /\ \A k \in 1 .. Used(tx_out, tx_in, BufLen) :
          tx_buf[Slot(tx_out, k - 1, BufLen)] = Len(sent) + k

\* What is with the reader and not in the ring: at r_release a block is in both.
Base == Len(delivered) - (IF pc = "r_release" THEN n ELSE 0)

\* What the reader has, then what the ring holds, then what the core holds, is
\* the stream.
RxInv ==
    /\ Base \in Nat
    /\ delivered = Numbers(0, Len(delivered))
    /\ \A k \in 1 .. Used(rx_out, rx_in, BufLen) :
          rx_buf[Slot(rx_out, k - 1, BufLen)] = Base + k
    /\ rfifo = Numbers(Base + Used(rx_out, rx_in, BufLen), typed)
    /\ typed = Base + Used(rx_out, rx_in, BufLen) + Len(rfifo)

IInv == TypeOK /\ WriteInv /\ ReadInv /\ SpaceInv /\ TxInv /\ RxInv

-----------------------------------------------------------------------------
(***************************************************************************)
(* It holds at the start, and every step keeps it.  One lemma per part; in *)
(* it, one step per action that can disturb the part.                      *)
(***************************************************************************)
LEMMA InitIInv == Init => IInv
<1> SUFFICES ASSUME Init PROVE IInv
  OBVIOUS
<1>1. RingType
  BY BufLenFacts DEF Init, RingType, Indices
<1>2. StateType
  BY ConfigAssumption DEF Init, StateType
<1>3. MainType
  <2>1. /\ pc = "idle" /\ no_block = FALSE /\ count = 0 /\ moved = 0 /\ out = 0
        /\ n = 0 /\ rval = "ok"
    BY DEF Init
  <2>2. 0 \in Indices(BufLen) /\ 0 \in 0 .. BufLen - 1
    BY BufLenFacts DEF Indices
  <2> QED BY <2>1, <2>2 DEF MainType
<1>4. HandlerType /\ CoreType /\ HistoryType
  <2>1. <<>> \in Seq(Nat)
    BY EmptySeq
  <2>2. /\ 0 \in 0 .. WriteDepth /\ 0 \in 0 .. MaxHostChanges /\ 0 \in 0 .. TxTotal
        /\ 0 \in 0 .. RxTotal
    BY ConfigAssumption
  <2>3. /\ ipc = "idle" /\ wi = FALSE /\ space = 0 /\ avail = FALSE
        /\ wlevel = 0 /\ rfifo = <<>> /\ ac = FALSE /\ host \in BOOLEAN
        /\ hostchanges = 0 /\ accepted = 0 /\ sent = <<>> /\ typed = 0
        /\ delivered = <<>>
    BY DEF Init
  <2> QED BY <2>1, <2>2, <2>3 DEF HandlerType, CoreType, HistoryType
<1>5. WriteInv /\ ReadInv /\ SpaceInv
  BY DEF Init, WriteInv, ReadInv, SpaceInv, WriteLabels
<1>6. Numbers(0, 0) = <<>> /\ Used(0, 0, BufLen) = 0
  BY BufLenFacts DEF Numbers, Used
<1>7. TxInv /\ RxInv
  BY <1>6 DEF Init, TxInv, RxInv, Base
<1> QED BY <1>1, <1>2, <1>3, <1>4, <1>5, <1>7 DEF IInv, TypeOK

LEMMA RingStep ==
  ASSUME IInv, Next
  PROVE  RingType'
<1> USE BufLenFacts
<1>1. CASE UNCHANGED <<txring, rxring>>
  BY <1>1 DEF IInv, TypeOK, RingType, txring, rxring
<1>2. CASE W_Copy
  <2>1. \A i \in Indices(BufLen) : i \in tx_in .. tx_in + n - 1 => accepted + 1 + i - tx_in \in Nat
    BY DEF IInv, TypeOK, RingType, MainType, HistoryType, Indices
  <2> QED BY <1>2, <2>1 DEF IInv, TypeOK, RingType, W_Copy, rxring
<1>3. CASE W_Publish
  <2>1. n \in 0 .. BufLen /\ tx_in \in Indices(BufLen)
    BY DEF IInv, TypeOK, RingType, MainType
  <2>2. Slot(tx_in, n, BufLen) \in Indices(BufLen)
    BY <2>1, SlotInRing
  <2> QED BY <1>3, <2>2 DEF IInv, TypeOK, RingType, W_Publish, rxring
<1>4. CASE R_Release
  <2>1. n \in 0 .. BufLen /\ rx_out \in Indices(BufLen)
    BY DEF IInv, TypeOK, RingType, MainType
  <2>2. Slot(rx_out, n, BufLen) \in Indices(BufLen)
    BY <2>1, SlotInRing
  <2> QED BY <1>4, <2>2 DEF IInv, TypeOK, RingType, R_Release, txring
<1>5. CASE I_RxPop
  <2>1. Head(rfifo) \in Nat
    BY <1>5, HeadTailProperties DEF IInv, TypeOK, CoreType, I_RxPop
  <2>2. rx_in' \in Indices(BufLen)
    BY <1>5, SuccValue DEF IInv, TypeOK, RingType, I_RxPop
  <2> QED BY <1>5, <2>1, <2>2 DEF IInv, TypeOK, RingType, I_RxPop, txring
<1>6. CASE I_Tx
  <2>1. /\ Used(tx_out, tx_in, BufLen) \in 0 .. BufLen - 1
        /\ tx_out \in Indices(BufLen)
    BY UsedRange DEF IInv, TypeOK, RingType
  <2>2. Smaller(space, Used(tx_out, tx_in, BufLen)) \in 0 .. BufLen
    BY <2>1, ConfigAssumption DEF IInv, TypeOK, HandlerType, Smaller
  <2>3. Slot(tx_out, Smaller(space, Used(tx_out, tx_in, BufLen)), BufLen) \in Indices(BufLen)
    BY <2>1, <2>2, SlotInRing
  <2> QED BY <1>6, <2>3 DEF IInv, TypeOK, RingType, I_Tx, rxring
<1> QED BY <1>1, <1>2, <1>3, <1>4, <1>5, <1>6
  DEF Next, CallStep, MainStep, WriteStep, ReadStep, HandlerStep, HostStep, driver, core,
      main, handler, history, txring, rxring, Call, Write, W_Space, W_Kick, W_Spin, W_Host,
      W_Return, Read, R_Data, R_Copy, R_Spin, R_Last, R_Return, Close, C_Wait, Ioctl,
      I_Control, I_RxEnd, Alarm, H_Take, H_Type, H_Poll, H_Change

LEMMA StateStep ==
  ASSUME IInv, Next
  PROVE  StateType'
<1>1. CASE UNCHANGED <<irq_enable, watch>>
  BY <1>1 DEF IInv, TypeOK, StateType, watch
<1>2. CASE W_Kick \/ R_Return
  BY <1>2 DEF IInv, TypeOK, StateType, W_Kick, R_Return, watch
<1>3. CASE Ioctl
  <2>1. timeout' \in 2 .. IntMax
    <3>1. \A t \in Timeouts : t \in Int
      BY ConfigAssumption
    <3> QED BY <1>3, <3>1, ConfigAssumption DEF Ioctl
  <2> QED BY <1>3, <2>1 DEF IInv, TypeOK, StateType, Ioctl
<1>4. CASE I_RxEnd
  BY <1>4 DEF IInv, TypeOK, StateType, I_RxEnd, watch
<1>5. CASE I_Tx
  BY <1>5 DEF IInv, TypeOK, StateType, I_Tx, watch
<1>6. CASE Alarm
  BY <1>6, ConfigAssumption DEF IInv, TypeOK, StateType, Alarm
<1> QED BY <1>1, <1>2, <1>3, <1>4, <1>5, <1>6
  DEF Next, CallStep, MainStep, WriteStep, ReadStep, HandlerStep, HostStep, driver, core,
      main, handler, history, txring, rxring, Call, Write, W_Space, W_Copy, W_Publish,
      W_Spin, W_Host, W_Return, Read, R_Data, R_Copy, R_Release,
      R_Spin, R_Last, Close, C_Wait, I_Control, I_RxPop, H_Take, H_Type, H_Poll, H_Change

\* A block is never longer than the ring, or than what is asked for.
LEMMA BlockSizes ==
  ASSUME TypeOK
  PROVE  /\ Smaller(FreeRun(tx_in, tx_out), count) \in 0 .. BufLen - 1
         /\ Smaller(FreeRun(tx_in, tx_out), count) <= count
         /\ Smaller(DataRun(rx_in, rx_out), count) \in 0 .. BufLen - 1
         /\ Smaller(DataRun(rx_in, rx_out), count) <= count
<1>1. FreeRun(tx_in, tx_out) \in 0 .. BufLen - 1
  <2>1. tx_in \in 0 .. BufLen - 1 /\ tx_out \in 0 .. BufLen - 1 /\ BufLen \in Nat
    BY BufLenFacts DEF TypeOK, RingType, Indices
  <2>2. CASE tx_in < tx_out
    BY <2>1, <2>2 DEF FreeRun
  <2>3. CASE tx_in >= tx_out /\ tx_out > 0
    <3>1. ~(tx_in < tx_out)
      BY <2>1, <2>3
    <3> QED BY <2>1, <2>3, <3>1 DEF FreeRun
  <2>4. CASE tx_out = 0
    <3>1. ~(tx_in < tx_out) /\ ~(tx_out > 0)
      BY <2>1, <2>4
    <3> QED BY <2>1, <3>1 DEF FreeRun
  <2> QED BY <2>1, <2>2, <2>3, <2>4
<1>2. DataRun(rx_in, rx_out) \in 0 .. BufLen - 1
  BY BufLenFacts DEF TypeOK, RingType, Indices, DataRun
<1>3. count \in Nat
  BY DEF TypeOK, MainType
<1> QED BY <1>1, <1>2, <1>3, BufLenFacts DEF Smaller

LEMMA MainTypeStep ==
  ASSUME IInv, Next
  PROVE  MainType'
<1> USE BufLenFacts
<1>1. CASE UNCHANGED main
  BY <1>1 DEF IInv, TypeOK, MainType, main
<1>2. ASSUME NEW r \in {"ok", "EWOULDBLOCK", "EIO"}, Return(r)
      PROVE  MainType'
  <2>1. 0 \in Indices(BufLen) /\ 0 \in 0 .. BufLen - 1
    BY DEF Indices
  <2> QED BY <1>2, <2>1 DEF MainType, Return, Goto
<1>3. ASSUME NEW c \in Nat, NEW nb \in BOOLEAN, Call(c, nb),
             pc' \in {"idle", "c_wait"} \cup WriteLabels \cup ReadLabels
      PROVE  MainType'
  BY <1>3 DEF IInv, TypeOK, MainType, Call
<1>4. CASE Write \/ Read \/ Close
  <2>1. WriteLens \subseteq Nat /\ ReadLens \subseteq Nat
    BY ConfigAssumption
  <2>2. CASE Write
    BY <1>3, <2>1, <2>2 DEF Write, Goto, WriteLabels
  <2>3. CASE Read
    BY <1>3, <2>1, <2>3 DEF Read, Goto, ReadLabels
  <2>4. CASE Close
    BY <1>3, <2>4 DEF Close, Goto
  <2> QED BY <1>4, <2>2, <2>3, <2>4
<1>5. CASE W_Space
  <2>1. n' \in 0 .. BufLen - 1
    BY <1>5, BlockSizes DEF IInv, W_Space
  <2>2. out' \in Indices(BufLen)
    BY <1>5 DEF IInv, TypeOK, RingType, MainType, W_Space
  <2>3. pc' \in WriteLabels
    BY <1>5 DEF W_Space, Goto, WriteLabels
  <2> QED BY <1>5, <2>1, <2>2, <2>3 DEF IInv, TypeOK, MainType, W_Space
<1>6. CASE W_Copy
  <2>1. count' \in Nat /\ moved' \in Nat
    BY <1>6 DEF IInv, TypeOK, MainType, WriteInv, At, W_Copy
  <2> QED BY <1>6, <2>1 DEF IInv, TypeOK, MainType, W_Copy, Goto, WriteLabels
<1>7. CASE W_Publish \/ W_Kick \/ W_Spin \/ W_Host
  BY <1>7 DEF IInv, TypeOK, MainType, W_Publish, W_Kick, W_Spin, W_Host, Goto, WriteLabels
<1>8. CASE W_Return
  BY <1>2, <1>8 DEF W_Return
<1>10. CASE R_Data
  <2>1. n' \in 0 .. BufLen - 1
    BY <1>10, BlockSizes DEF IInv, R_Data
  <2>2. out' \in Indices(BufLen)
    BY <1>10 DEF IInv, TypeOK, RingType, MainType, R_Data
  <2>3. pc' \in ReadLabels
    BY <1>10, <2>1 DEF R_Data, Goto, ReadLabels
  <2> QED BY <1>10, <2>1, <2>2, <2>3 DEF IInv, TypeOK, MainType, R_Data
<1>11. CASE R_Copy
  <2>1. count' \in Nat /\ moved' \in Nat
    BY <1>11 DEF IInv, TypeOK, MainType, ReadInv, At, R_Copy
  <2> QED BY <1>11, <2>1 DEF IInv, TypeOK, MainType, R_Copy, Goto, ReadLabels
<1>12. CASE R_Release \/ R_Spin \/ R_Last
  BY <1>12 DEF IInv, TypeOK, MainType, R_Release, R_Spin, R_Last, Goto, ReadLabels
<1>13. CASE R_Return
  BY <1>2, <1>13 DEF R_Return
<1>14. CASE C_Wait
  <2>1. CASE \E r \in {"ok", "EWOULDBLOCK"} : Return(r)
    BY <1>2, <2>1
  <2> QED BY <1>1, <1>14, <2>1 DEF C_Wait
<1> QED BY <1>1, <1>4, <1>5, <1>6, <1>7, <1>8, <1>10, <1>11, <1>12, <1>13, <1>14
  DEF Next, CallStep, MainStep, WriteStep, ReadStep, HandlerStep, HostStep, Ioctl,
      I_Control, I_RxPop, I_RxEnd, I_Tx, Alarm, H_Take, H_Type, H_Poll, H_Change

\* The room the handler reads from CONTROL is room there is.
LEMMA SpaceRead ==
  ASSUME IInv, I_Control
  PROVE  space' \in 0 .. WriteDepth /\ wlevel' = wlevel /\ wlevel + space' <= WriteDepth
<1>1. WriteDepth \in Nat /\ wlevel \in 0 .. WriteDepth
  BY ConfigAssumption DEF IInv, TypeOK, CoreType
<1>2. space' \in {0, WriteDepth - wlevel} /\ wlevel' = wlevel
  BY DEF I_Control, core
<1>3. CASE space' = 0
  BY <1>1, <1>2, <1>3
<1>4. CASE space' = WriteDepth - wlevel
  BY <1>1, <1>2, <1>4
<1> QED BY <1>2, <1>3, <1>4

LEMMA HandlerTypeStep ==
  ASSUME IInv, Next
  PROVE  HandlerType'
<1>1. CASE UNCHANGED handler
  BY <1>1 DEF IInv, TypeOK, HandlerType, handler
<1>2. CASE I_Control
  <2>1. space' \in 0 .. WriteDepth
    BY <1>2, SpaceRead
  <2>2. wi' \in BOOLEAN /\ avail' \in BOOLEAN
    BY <1>2 DEF I_Control, WI, RI
  <2>3. ipc' \in {"idle", "control", "rx", "tx"}
    BY <1>2 DEF I_Control
  <2> QED BY <2>1, <2>2, <2>3 DEF HandlerType
<1>3. CASE I_RxPop
  BY <1>3 DEF IInv, TypeOK, HandlerType, I_RxPop
<1>4. CASE I_RxEnd
  BY <1>4 DEF IInv, TypeOK, HandlerType, I_RxEnd
<1>5. CASE I_Tx
  <2>1. ipc' = "control" /\ wi' = FALSE /\ space' = 0 /\ avail' = avail
    BY <1>5 DEF I_Tx
  <2>2. 0 \in 0 .. WriteDepth
    BY ConfigAssumption
  <2> QED BY <2>1, <2>2 DEF IInv, TypeOK, HandlerType
<1> QED BY <1>1, <1>2, <1>3, <1>4, <1>5
  DEF Next, CallStep, MainStep, WriteStep, ReadStep, HandlerStep, HostStep, driver, core,
      main, handler, history, txring, rxring, Call, Write, W_Space, W_Copy, W_Publish, W_Kick,
      W_Spin, W_Host, W_Return, Read, R_Data, R_Copy, R_Release,
      R_Spin, R_Last, R_Return, Close, C_Wait, Ioctl, Alarm, H_Take, H_Type, H_Poll, H_Change

\* What the handler puts into the core fits, and is what it takes from the ring.
LEMMA TxBlock ==
  ASSUME TypeOK, SpaceInv, ipc = "tx",
         NEW k, k = Smaller(space, Used(tx_out, tx_in, BufLen))
  PROVE  /\ k \in Nat /\ k \in 0 .. Used(tx_out, tx_in, BufLen) /\ k <= BufLen
         /\ wlevel + k \in 0 .. WriteDepth
         /\ TxPending \in Seq(Nat) /\ Len(TxPending) = Used(tx_out, tx_in, BufLen)
         /\ SubSeq(TxPending, 1, k) \in Seq(Nat)
<1>1. /\ BufLen \in Nat \ {0} /\ tx_out \in Indices(BufLen) /\ tx_in \in Indices(BufLen)
      /\ tx_buf \in [Indices(BufLen) -> Nat]
  BY BufLenFacts DEF TypeOK, RingType
<1>2. /\ Used(tx_out, tx_in, BufLen) \in 0 .. BufLen - 1
      /\ Len(TxPending) = Used(tx_out, tx_in, BufLen)
  BY <1>1, ContentsLen DEF TxPending
<1>3. TxPending \in Seq(Nat)
  BY <1>1, ContentsSeq DEF TxPending
<1>4. k \in 0 .. Used(tx_out, tx_in, BufLen) /\ k \in 0 .. space
  BY <1>2, ConfigAssumption DEF TypeOK, HandlerType, Smaller
<1>5. wlevel + k \in 0 .. WriteDepth
  BY <1>4, ConfigAssumption DEF TypeOK, HandlerType, CoreType, SpaceInv
<1>6. \A i \in 1 .. k : i \in 1 .. Len(TxPending)
  BY <1>2, <1>4
<1>7. SubSeq(TxPending, 1, k) \in Seq(Nat)
  BY <1>3, <1>4, <1>6
<1> QED BY <1>1, <1>2, <1>3, <1>4, <1>5, <1>7

LEMMA CoreTypeStep ==
  ASSUME IInv, Next
  PROVE  CoreType'
<1>1. CASE UNCHANGED core
  BY <1>1 DEF IInv, TypeOK, CoreType, core
<1>2. CASE I_RxPop
  <2>1. rfifo' \in Seq(Nat)
    BY <1>2, HeadTailProperties DEF IInv, TypeOK, CoreType, I_RxPop
  <2> QED BY <1>2, <2>1 DEF IInv, TypeOK, CoreType, I_RxPop
<1>3. CASE I_Tx
  <2>1. wlevel' \in 0 .. WriteDepth
    BY <1>3, TxBlock DEF IInv, I_Tx
  <2> QED BY <1>3, <2>1 DEF IInv, TypeOK, CoreType, I_Tx
<1>4. CASE Alarm
  BY <1>4 DEF IInv, TypeOK, CoreType, Alarm
<1>5. CASE H_Take
  BY <1>5, ConfigAssumption DEF IInv, TypeOK, CoreType, H_Take
<1>6. CASE H_Type
  <2>1. typed + 1 \in Nat /\ rfifo \in Seq(Nat)
    BY ConfigAssumption DEF IInv, TypeOK, CoreType, HistoryType
  <2>2. rfifo' \in Seq(Nat)
    BY <1>6, <2>1, AppendProperties DEF H_Type
  <2> QED BY <1>6, <2>2 DEF IInv, TypeOK, CoreType, H_Type
<1>7. CASE H_Poll
  BY <1>7 DEF IInv, TypeOK, CoreType, H_Poll
<1>8. CASE H_Change
  BY <1>8, ConfigAssumption DEF IInv, TypeOK, CoreType, H_Change
<1> QED BY <1>1, <1>2, <1>3, <1>4, <1>5, <1>6, <1>7, <1>8
  DEF Next, CallStep, MainStep, WriteStep, ReadStep, HandlerStep, HostStep, driver, core,
      main, handler, history, txring, rxring, Call, Write, W_Space, W_Copy, W_Publish, W_Kick,
      W_Spin, W_Host, W_Return, Read, R_Data, R_Copy, R_Release,
      R_Spin, R_Last, R_Return, Close, C_Wait, Ioctl, I_Control, I_RxEnd

\* The block a reader copies out is the oldest n characters of the ring.
LEMMA RxBlock ==
  ASSUME IInv, pc \in {"r_copy", "r_release"},
         NEW block, block = [i \in 1 .. n |-> rx_buf[rx_out + i - 1]]
  PROVE  /\ n \in Nat /\ n \in 1 .. Used(rx_out, rx_in, BufLen)
         /\ block \in Seq(Nat) /\ Len(block) = n
         /\ \A i \in 1 .. n : block[i] = Base + i
<1>1. /\ n \in 1 .. Used(rx_out, rx_in, BufLen) /\ n \in Nat /\ rx_out + n <= BufLen
      /\ rx_out \in Indices(BufLen) /\ rx_buf \in [Indices(BufLen) -> Nat]
  <2>1. Used(rx_out, rx_in, BufLen) \in 0 .. BufLen - 1
    BY BufLenFacts, UsedRange DEF IInv, TypeOK, RingType
  <2> QED BY <2>1, BufLenFacts DEF IInv, TypeOK, RingType, MainType, ReadInv
<1>2. ASSUME NEW i \in 1 .. n
      PROVE  /\ rx_out + i - 1 \in Indices(BufLen)
             /\ rx_out + i - 1 = Slot(rx_out, i - 1, BufLen)
  BY <1>1, BufLenFacts DEF Indices, Slot
<1>3. \A i \in 1 .. n : rx_buf[rx_out + i - 1] \in Nat
  BY <1>1, <1>2
<1>4. block \in Seq(Nat) /\ Len(block) = n
  BY <1>1, <1>3
<1>5. ASSUME NEW i \in 1 .. n
      PROVE  block[i] = Base + i
  <2>1. block[i] = rx_buf[Slot(rx_out, i - 1, BufLen)]
    BY <1>2
  <2>2. i \in 1 .. Used(rx_out, rx_in, BufLen)
    <3>1. Used(rx_out, rx_in, BufLen) \in Int
      BY BufLenFacts, UsedRange DEF IInv, TypeOK, RingType
    <3> QED BY <1>1, <3>1
  <2> QED BY <2>1, <2>2 DEF IInv, RxInv
<1> QED BY <1>1, <1>4, <1>5

LEMMA HistoryTypeStep ==
  ASSUME IInv, Next
  PROVE  HistoryType'
<1>1. CASE UNCHANGED history
  BY <1>1 DEF IInv, TypeOK, HistoryType, history
<1>2. CASE W_Publish
  <2>1. accepted + n \in 0 .. TxTotal
    BY <1>2, ConfigAssumption DEF IInv, TypeOK, HistoryType, MainType, WriteInv, At, W_Publish
  <2> QED BY <1>2, <2>1 DEF IInv, TypeOK, HistoryType, W_Publish
<1>3. CASE R_Copy
  <2> DEFINE block == [i \in 1 .. n |-> rx_buf[rx_out + i - 1]]
  <2>1. block \in Seq(Nat)
    BY <1>3, RxBlock DEF R_Copy, At
  <2>2. delivered \in Seq(Nat) /\ delivered' = delivered \o block
    BY <1>3 DEF IInv, TypeOK, HistoryType, R_Copy
  <2> HIDE DEF block
  <2>3. delivered' \in Seq(Nat)
    BY <2>1, <2>2, ConcatProperties
  <2> QED BY <1>3, <2>3 DEF IInv, TypeOK, HistoryType, R_Copy
<1>4. CASE I_Tx
  <2> DEFINE k == Smaller(space, Used(tx_out, tx_in, BufLen))
             block == SubSeq(TxPending, 1, k)
  <2>1. block \in Seq(Nat)
    BY <1>4, TxBlock DEF IInv, I_Tx
  <2>2. sent \in Seq(Nat) /\ sent' = sent \o block
    BY <1>4 DEF IInv, TypeOK, HistoryType, I_Tx
  <2> HIDE DEF block
  <2>3. sent' \in Seq(Nat)
    BY <2>1, <2>2, ConcatProperties
  <2> QED BY <1>4, <2>3 DEF IInv, TypeOK, HistoryType, I_Tx
<1>5. CASE H_Type
  BY <1>5, ConfigAssumption DEF IInv, TypeOK, HistoryType, H_Type
<1> QED BY <1>1, <1>2, <1>3, <1>4, <1>5
  DEF Next, CallStep, MainStep, WriteStep, ReadStep, HandlerStep, HostStep, driver, core,
      main, handler, history, txring, rxring, Call, Write, W_Space, W_Copy, W_Kick, W_Spin,
      W_Host, W_Return, Read, R_Data, R_Release, R_Spin, R_Last, R_Return, Close,
      C_Wait, Ioctl, I_Control, I_RxPop, I_RxEnd, Alarm, H_Take, H_Poll, H_Change

LEMMA SpaceStep ==
  ASSUME IInv, Next
  PROVE  SpaceInv'
<1>1. CASE UNCHANGED <<ipc, space, wlevel>>
  BY <1>1 DEF IInv, SpaceInv
<1>2. CASE I_Control
  BY <1>2, SpaceRead DEF SpaceInv
<1>3. CASE I_RxEnd
  BY <1>3 DEF IInv, SpaceInv, I_RxEnd, core
<1>4. CASE I_Tx
  BY <1>4 DEF I_Tx, SpaceInv
<1>5. CASE H_Take
  BY <1>5, ConfigAssumption
  DEF IInv, TypeOK, CoreType, HandlerType, SpaceInv, H_Take, handler
<1> QED BY <1>1, <1>2, <1>3, <1>4, <1>5
  DEF Next, CallStep, MainStep, WriteStep, ReadStep, HandlerStep, HostStep, driver, core,
      main, handler, history, txring, rxring, Call, Write, W_Space, W_Copy, W_Publish, W_Kick,
      W_Spin, W_Host, W_Return, Read, R_Data, R_Copy, R_Release,
      R_Spin, R_Last, R_Return, Close, C_Wait, Ioctl, I_RxPop, Alarm, H_Type, H_Poll, H_Change

\* A block cut by FreeRun fits in front of the reader and does not wrap.
LEMMA FreeRunFits ==
  ASSUME NEW in \in Indices(BufLen), NEW o \in Indices(BufLen)
  PROVE  /\ in + FreeRun(in, o) <= BufLen
         /\ FreeRun(in, o) <= BufLen - 1 - Used(o, in, BufLen)
         /\ FreeRun(in, o) \in Int
<1>1. in \in 0 .. BufLen - 1 /\ o \in 0 .. BufLen - 1 /\ BufLen \in Nat
  BY BufLenFacts DEF Indices
<1>2. CASE in < o
  BY <1>1, <1>2 DEF FreeRun, Used
<1>3. CASE in >= o /\ o > 0
  <2>1. ~(in < o)
    BY <1>1, <1>3
  <2> QED BY <1>1, <1>3, <2>1 DEF FreeRun, Used
<1>4. CASE o = 0
  <2>1. ~(in < o) /\ ~(o > 0) /\ in >= o
    BY <1>1, <1>4
  <2> QED BY <1>1, <1>4, <2>1 DEF FreeRun, Used
<1> QED BY <1>1, <1>2, <1>3, <1>4

\* A block cut by DataRun is in use and does not wrap.
LEMMA DataRunFits ==
  ASSUME NEW in \in Indices(BufLen), NEW o \in Indices(BufLen)
  PROVE  /\ o + DataRun(in, o) <= BufLen
         /\ DataRun(in, o) <= Used(o, in, BufLen)
         /\ DataRun(in, o) \in Int
BY BufLenFacts DEF Indices, DataRun, Used

LEMMA WriteInvStep ==
  ASSUME IInv, Next
  PROVE  WriteInv'
<1> USE BufLenFacts
<1>1. CASE UNCHANGED <<pc, count, n, accepted, txring>>
  BY <1>1 DEF IInv, WriteInv, Room, txring
<1>2. CASE pc' \notin WriteLabels
  BY <1>2 DEF WriteInv, WriteLabels
<1>3. CASE /\ pc' \in WriteLabels \ {"w_copy", "w_publish"}
           /\ accepted' + count' <= TxTotal
  BY <1>3 DEF WriteInv
<1>4. CASE Write
  <2>1. accepted' + count' <= TxTotal /\ pc' = "w_space"
    BY <1>4 DEF Write, Call, Goto, history
  <2> QED BY <1>3, <2>1 DEF WriteLabels
<1>5. CASE W_Space
  <2>1. accepted + count <= TxTotal /\ UNCHANGED <<txring, count, accepted>>
    BY <1>5 DEF IInv, WriteInv, W_Space, At, WriteLabels, driver, history
  <2>2. CASE n' = 0
    BY <1>3, <1>5, <2>1, <2>2 DEF W_Space, Goto, WriteLabels
  <2>3. CASE n' # 0
    <3>1. /\ n' = Smaller(FreeRun(tx_in, tx_out), count)
          /\ pc' = "w_copy"
      BY <1>5, <2>3 DEF W_Space, Goto
    <3>2. /\ FreeRun(tx_in, tx_out) \in Int /\ count \in Nat
          /\ tx_in + FreeRun(tx_in, tx_out) <= BufLen
          /\ FreeRun(tx_in, tx_out) <= BufLen - 1 - Used(tx_out, tx_in, BufLen)
          /\ tx_in \in Nat /\ Used(tx_out, tx_in, BufLen) \in Nat
      <4>1. tx_in \in Indices(BufLen) /\ tx_out \in Indices(BufLen) /\ count \in Nat
        BY DEF IInv, TypeOK, RingType, MainType
      <4>2. tx_in \in Nat
        BY <4>1 DEF Indices
      <4> QED BY <4>1, <4>2, FreeRunFits, UsedRange
    <3>3. n' \in Nat /\ n' <= count /\ n' <= FreeRun(tx_in, tx_out)
      <4>1. n' \in 0 .. BufLen - 1 /\ n' <= count
        BY <3>1, BlockSizes DEF IInv
      <4> QED BY <3>1, <3>2, <4>1 DEF Smaller
    <3>4. n' >= 1
      BY <2>3, <3>3
    <3>5. Room'
      <4>1. tx_in + n' <= BufLen /\ n' <= BufLen - 1 - Used(tx_out, tx_in, BufLen)
        <5>1. ASSUME NEW m \in Nat, m <= FreeRun(tx_in, tx_out)
              PROVE  tx_in + m <= BufLen /\ m <= BufLen - 1 - Used(tx_out, tx_in, BufLen)
          BY <3>2, <5>1
        <5> QED BY <3>3, <5>1
      <4>2. tx_in' = tx_in /\ tx_out' = tx_out
        BY <2>1 DEF txring
      <4> QED BY <3>4, <4>1, <4>2 DEF Room
    <3>6. accepted' + count' <= TxTotal /\ n' <= count'
      BY <2>1, <3>3
    <3> QED BY <3>1, <3>5, <3>6 DEF WriteInv
  <2> QED BY <2>2, <2>3
<1>6. CASE W_Copy
  <2>1. /\ Room /\ n <= count /\ accepted + count <= TxTotal
        /\ UNCHANGED <<tx_in, tx_out, n, accepted>>
        /\ pc' = "w_publish" /\ count' = count - n
    BY <1>6 DEF IInv, WriteInv, W_Copy, At, Goto, WriteLabels, history
  <2>2. /\ n \in Nat /\ count \in Nat /\ accepted \in Nat
        /\ tx_in \in 0 .. BufLen - 1
    BY ConfigAssumption DEF IInv, TypeOK, RingType, MainType, HistoryType, Indices
  <2>3. ASSUME NEW j \in 1 .. n
        PROVE  tx_buf'[tx_in + j - 1] = accepted + j
    <3>1. /\ tx_in + j - 1 \in tx_in .. tx_in + n - 1
          /\ tx_in + j - 1 \in Indices(BufLen)
          /\ accepted + 1 + (tx_in + j - 1) - tx_in = accepted + j
      BY <2>1, <2>2 DEF Room, Indices
    <3> QED BY <1>6, <3>1 DEF W_Copy
  <2>4. accepted' + n' + count' <= TxTotal
    BY <2>1, <2>2, ConfigAssumption
  <2>5. Room'
    BY <2>1 DEF Room
  <2> QED BY <2>1, <2>3, <2>4, <2>5 DEF WriteInv
<1>7. CASE W_Publish
  <2>1. accepted + n + count <= TxTotal
    BY <1>7 DEF IInv, WriteInv, W_Publish, At
  <2>2. accepted' + count' <= TxTotal
    BY <1>7, <2>1 DEF W_Publish
  <2> QED BY <1>3, <1>7, <2>2 DEF W_Publish, Goto, WriteLabels
<1>8. CASE W_Kick \/ W_Spin \/ W_Host \/ W_Return
  <2>1. accepted + count <= TxTotal
    BY <1>8 DEF IInv, WriteInv, W_Kick, W_Spin, W_Host, W_Return, At, WriteLabels
  <2>2. pc' = "idle" \/ (accepted' = accepted /\ count' = count
                         /\ pc' \in WriteLabels \ {"w_copy", "w_publish"})
    BY <1>8 DEF W_Kick, W_Spin, W_Host, W_Return, Goto, Return, WriteLabels, history
  <2> QED BY <1>2, <1>3, <2>1, <2>2 DEF WriteLabels
<1>9. CASE I_Tx
  <2> DEFINE k == Smaller(space, Used(tx_out, tx_in, BufLen))
  <2>1. /\ k \in 0 .. Used(tx_out, tx_in, BufLen)
        /\ tx_out \in Indices(BufLen) /\ tx_in \in Indices(BufLen)
    BY <1>9, TxBlock DEF IInv, TypeOK, RingType, I_Tx
  <2>2. /\ tx_out' = Slot(tx_out, k, BufLen)
        /\ UNCHANGED <<pc, count, n, accepted, tx_in, tx_buf>>
    BY <1>9 DEF I_Tx, main
  <2> HIDE DEF k
  <2>3. Used(tx_out', tx_in', BufLen) = Used(tx_out, tx_in, BufLen) - k
    BY <2>1, <2>2, ReleaseBlock
  <2>4. Used(tx_out, tx_in, BufLen) \in 0 .. BufLen - 1
    BY <2>1, UsedRange
  <2>5. n \in Nat
    BY DEF IInv, TypeOK, MainType
  <2>6. Room => Room'
    BY <2>1, <2>2, <2>3, <2>4, <2>5 DEF Room
  <2> QED BY <2>2, <2>6 DEF IInv, WriteInv
<1>10. CASE Read \/ Close \/ ReadStep \/ C_Wait
  <2>1. CASE Read \/ Close \/ ReadStep
    BY <1>2, <2>1
    DEF Read, Close, ReadStep, R_Data, R_Copy, R_Release, R_Spin, R_Last,
        R_Return, Return, Goto, WriteLabels
  <2>2. CASE C_Wait
    BY <1>2, <2>2 DEF C_Wait, At, Return, Goto, WriteLabels, main
  <2> QED BY <1>10, <2>1, <2>2
<1> QED BY <1>1, <1>4, <1>5, <1>6, <1>7, <1>8, <1>9, <1>10
  DEF Next, CallStep, MainStep, WriteStep, HandlerStep, HostStep, driver, main, history,
      txring, Ioctl, I_Control, I_RxPop, I_RxEnd, Alarm, H_Take, H_Type, H_Poll, H_Change

LEMMA ReadInvStep ==
  ASSUME IInv, Next
  PROVE  ReadInv'
<1> USE BufLenFacts
<1>1. CASE UNCHANGED <<pc, count, n, rx_in, rx_out>>
  BY <1>1 DEF IInv, ReadInv
<1>2. CASE pc' \notin {"r_copy", "r_release"}
  BY <1>2 DEF ReadInv
<1>3. CASE R_Data
  <2>1. CASE n' > 0
    <3>1. /\ n' = Smaller(DataRun(rx_in, rx_out), count)
          /\ UNCHANGED <<count, rx_in, rx_out>>
          /\ pc' = "r_copy"
      BY <1>3, <2>1 DEF R_Data, Goto, driver, rxring
    <3>2. /\ DataRun(rx_in, rx_out) \in Int /\ count \in Nat
          /\ rx_out + DataRun(rx_in, rx_out) <= BufLen
          /\ DataRun(rx_in, rx_out) <= Used(rx_out, rx_in, BufLen)
          /\ rx_out \in Nat /\ Used(rx_out, rx_in, BufLen) \in Nat
      <4>1. rx_in \in Indices(BufLen) /\ rx_out \in Indices(BufLen) /\ count \in Nat
        BY DEF IInv, TypeOK, RingType, MainType
      <4>2. rx_out \in Nat
        BY <4>1 DEF Indices
      <4> QED BY <4>1, <4>2, DataRunFits, UsedRange
    <3>3. n' \in Nat /\ n' <= count /\ n' <= DataRun(rx_in, rx_out)
      <4>1. n' \in 0 .. BufLen - 1 /\ n' <= count
        BY <3>1, BlockSizes DEF IInv
      <4> QED BY <3>1, <3>2, <4>1 DEF Smaller
    <3>4. n' >= 1
      BY <2>1, <3>3
    <3> QED BY <3>1, <3>2, <3>3, <3>4 DEF ReadInv
  <2>2. CASE ~(n' > 0)
    BY <1>2, <1>3, <2>2 DEF R_Data, Goto
  <2> QED BY <2>1, <2>2
<1>4. CASE R_Copy
  BY <1>4 DEF IInv, ReadInv, R_Copy, At, Goto, driver, rxring
<1>5. CASE I_RxPop
  <2>1. /\ rx_in' = Succ(rx_in, BufLen)
        /\ UNCHANGED <<pc, count, n, rx_out>>
        /\ rx_in \in Indices(BufLen) /\ rx_out \in Indices(BufLen)
        /\ ~Full(rx_out, rx_in, BufLen)
    BY <1>5 DEF IInv, TypeOK, RingType, I_RxPop, main
  <2>2. Used(rx_out, rx_in', BufLen) >= Used(rx_out, rx_in, BufLen)
    <3>1. Succ(rx_in, BufLen) = IF rx_in + 1 = BufLen THEN 0 ELSE rx_in + 1
      BY <2>1, SuccValue
    <3>2. Succ(rx_in, BufLen) # rx_out
      BY <2>1 DEF Full
    <3> QED BY <2>1, <3>1, <3>2 DEF Used, Indices
  <2>3. /\ Used(rx_out, rx_in, BufLen) \in Int /\ Used(rx_out, rx_in', BufLen) \in Int
        /\ n \in Int
    BY <2>1, SuccValue, UsedRange DEF IInv, TypeOK, MainType
  <2> QED BY <2>1, <2>2, <2>3 DEF IInv, ReadInv
<1>6. CASE Write \/ Read \/ Close \/ WriteStep \/ C_Wait \/ R_Release \/ R_Spin \/ R_Last
           \/ R_Return
  BY <1>2, <1>6
  DEF Write, Read, Close, WriteStep, C_Wait, R_Release, R_Spin, R_Last, R_Return, W_Space,
      W_Copy, W_Publish, W_Kick, W_Spin, W_Host, W_Return, At, Goto,
      Return, main
<1> QED BY <1>1, <1>3, <1>4, <1>5, <1>6
  DEF Next, CallStep, MainStep, ReadStep, HandlerStep, HostStep, driver, main, rxring, Ioctl,
      I_Control, I_RxEnd, I_Tx, Alarm, H_Take, H_Type, H_Poll, H_Change

\* What the transmit ring holds is the stream from where the core has got to.
LEMMA TxStream ==
  ASSUME IInv
  PROVE  /\ TxPending = Numbers(Len(sent), accepted)
         /\ Len(sent) \in Nat /\ accepted \in Nat /\ Len(sent) <= accepted
         /\ sent = Numbers(0, Len(sent))
         /\ accepted = Len(sent) + Used(tx_out, tx_in, BufLen)
<1>1. Len(sent) \in Nat
  BY LenProperties DEF IInv, TypeOK, HistoryType
<1>2. Used(tx_out, tx_in, BufLen) \in Nat
  BY BufLenFacts, UsedRange DEF IInv, TypeOK, RingType
<1>3. /\ sent = Numbers(0, Len(sent))
      /\ accepted = Len(sent) + Used(tx_out, tx_in, BufLen)
      /\ \A k \in 1 .. Used(tx_out, tx_in, BufLen) :
            tx_buf[Slot(tx_out, k - 1, BufLen)] = Len(sent) + k
  BY DEF IInv, TxInv
<1>4. accepted - Len(sent) = Used(tx_out, tx_in, BufLen)
  BY <1>1, <1>2, <1>3
<1>5. TxPending = Numbers(Len(sent), accepted)
  BY <1>3, <1>4 DEF TxPending, Contents, Numbers
<1> QED BY <1>1, <1>2, <1>3, <1>5

LEMMA TxInvStep ==
  ASSUME IInv, Next
  PROVE  TxInv'
<1> USE BufLenFacts
<1>1. CASE UNCHANGED <<txring, accepted, sent>>
  BY <1>1 DEF IInv, TxInv, txring
<1>2. CASE W_Copy
  <2>1. /\ n \in Nat /\ n <= BufLen - 1 - Used(tx_out, tx_in, BufLen) /\ tx_in + n <= BufLen
        /\ tx_in \in Indices(BufLen) /\ tx_out \in Indices(BufLen)
        /\ UNCHANGED <<tx_in, tx_out, accepted, sent>>
    BY <1>2 DEF IInv, TypeOK, RingType, MainType, WriteInv, Room, W_Copy, At, history
  <2>2. ASSUME NEW k \in 1 .. Used(tx_out, tx_in, BufLen)
        PROVE  tx_buf'[Slot(tx_out, k - 1, BufLen)] = tx_buf[Slot(tx_out, k - 1, BufLen)]
    <3>1. Slot(tx_out, k - 1, BufLen) \notin tx_in .. tx_in + n - 1
      BY <2>1, FreeSlots
    <3>2. Slot(tx_out, k - 1, BufLen) \in Indices(BufLen)
      <4>1. Used(tx_out, tx_in, BufLen) \in 0 .. BufLen - 1
        BY <2>1, UsedRange
      <4>2. k - 1 \in 0 .. BufLen
        BY <4>1
      <4> QED BY <2>1, <4>2, SlotInRing
    <3> QED BY <1>2, <3>1, <3>2 DEF W_Copy
  <2> QED BY <2>1, <2>2 DEF IInv, TxInv
<1>3. CASE W_Publish
  <2> DEFINE u == Used(tx_out, tx_in, BufLen)
  <2>1. /\ n \in Nat /\ n <= BufLen - 1 - u /\ tx_in + n <= BufLen
        /\ tx_in \in Indices(BufLen) /\ tx_out \in Indices(BufLen)
        /\ \A j \in 1 .. n : tx_buf[tx_in + j - 1] = accepted + j
    BY <1>3 DEF IInv, TypeOK, RingType, MainType, WriteInv, Room, W_Publish, At
  <2>2. /\ tx_in' = Slot(tx_in, n, BufLen) /\ accepted' = accepted + n
        /\ UNCHANGED <<tx_buf, tx_out, sent>>
    BY <1>3 DEF W_Publish
  <2>3. /\ Used(tx_out, tx_in', BufLen) = u + n
        /\ \A j \in 1 .. n : Slot(tx_out, u + j - 1, BufLen) = Slot(tx_in, j - 1, BufLen)
    BY <2>1, <2>2, PublishBlock
  <2>4. /\ Len(sent) \in Nat /\ u \in Nat /\ accepted = Len(sent) + u
        /\ sent = Numbers(0, Len(sent))
        /\ \A k \in 1 .. u : tx_buf[Slot(tx_out, k - 1, BufLen)] = Len(sent) + k
    BY <2>2, <2>1, TxStream, UsedRange DEF IInv, TxInv
  <2> HIDE DEF u
  <2>5. ASSUME NEW k \in 1 .. u + n
        PROVE  tx_buf[Slot(tx_out, k - 1, BufLen)] = Len(sent) + k
    <3>1. CASE k \in 1 .. u
      BY <2>4, <3>1
    <3>2. CASE k \notin 1 .. u
      <4>1. PICK j \in 1 .. n : k = u + j
        <5>1. k - u \in 1 .. n /\ k = u + (k - u)
          BY <2>1, <2>4, <3>2
        <5> QED BY <5>1
      <4>2. Slot(tx_out, k - 1, BufLen) = Slot(tx_in, j - 1, BufLen)
        <5>1. k - 1 = u + j - 1
          BY <2>4, <4>1
        <5> QED BY <2>3, <5>1
      <4>3. Slot(tx_in, j - 1, BufLen) = tx_in + j - 1
        BY <2>1 DEF Slot, Indices
      <4> QED BY <2>1, <2>4, <4>1, <4>2, <4>3
    <3> QED BY <3>1, <3>2
  <2>6. accepted' = Len(sent) + (u + n)
    BY <2>1, <2>2, <2>4
  <2> QED BY <2>2, <2>3, <2>4, <2>5, <2>6 DEF TxInv
<1>4. CASE I_Tx
  <2> DEFINE u == Used(tx_out, tx_in, BufLen)
             k == Smaller(space, u)
  <2>1. /\ k \in 0 .. u /\ k \in Nat /\ u \in Nat
        /\ tx_out \in Indices(BufLen) /\ tx_in \in Indices(BufLen)
    <3>1. tx_out \in Indices(BufLen) /\ tx_in \in Indices(BufLen)
      BY DEF IInv, TypeOK, RingType
    <3>2. u \in Nat
      BY <3>1, UsedRange
    <3>3. k \in 0 .. u /\ k \in Nat
      BY <1>4, TxBlock DEF IInv, I_Tx
    <3> QED BY <3>1, <3>2, <3>3
  <2>2. /\ tx_out' = Slot(tx_out, k, BufLen) /\ sent' = sent \o SubSeq(TxPending, 1, k)
        /\ UNCHANGED <<tx_buf, tx_in, accepted>>
    BY <1>4 DEF I_Tx
  <2>3. /\ TxPending = Numbers(Len(sent), accepted) /\ Len(sent) \in Nat /\ accepted \in Nat
        /\ accepted = Len(sent) + u /\ sent = Numbers(0, Len(sent))
        /\ \A j \in 1 .. u : tx_buf[Slot(tx_out, j - 1, BufLen)] = Len(sent) + j
    BY <2>2, TxStream DEF IInv, TxInv
  <2> HIDE DEF u, k
  <2>4. /\ Used(tx_out', tx_in, BufLen) = u - k
        /\ \A j \in 1 .. u - k :
              Slot(tx_out', j - 1, BufLen) = Slot(tx_out, k + j - 1, BufLen)
    BY <2>1, <2>2, ReleaseBlock DEF u
  <2>5. SubSeq(TxPending, 1, k) = Numbers(Len(sent), Len(sent) + k)
    <3>1. 0 \in 0 .. accepted - Len(sent) /\ k \in 0 .. accepted - Len(sent)
          /\ Len(sent) <= accepted
      BY <2>1, <2>3
    <3>2. SubSeq(Numbers(Len(sent), accepted), 0 + 1, k)
            = Numbers(Len(sent) + 0, Len(sent) + k)
      BY <2>3, <3>1, NumbersSub
    <3> QED BY <2>3, <3>2
  <2>6. sent' = Numbers(0, Len(sent) + k)
    <3>1. Len(sent) + k \in Nat /\ Len(sent) <= Len(sent) + k /\ 0 <= Len(sent)
      BY <2>1, <2>3
    <3>2. Numbers(0, Len(sent)) \o Numbers(Len(sent), Len(sent) + k)
            = Numbers(0, Len(sent) + k)
      BY <2>3, <3>1, NumbersConcat
    <3> QED BY <2>2, <2>3, <2>5, <3>2
  <2>7. Len(sent') = Len(sent) + k
    <3>1. Len(sent) + k \in Nat /\ 0 <= Len(sent) + k
      BY <2>1, <2>3
    <3> QED BY <2>6, <3>1, NumbersSeq
  <2>8. ASSUME NEW j \in 1 .. u - k
        PROVE  tx_buf[Slot(tx_out', j - 1, BufLen)] = Len(sent') + j
    <3>1. k + j \in 1 .. u /\ k + j - 1 = (k + j) - 1
      BY <2>1
    <3>2. tx_buf[Slot(tx_out, k + j - 1, BufLen)] = Len(sent) + (k + j)
      BY <2>3, <3>1
    <3>3. Len(sent) + (k + j) = Len(sent') + j
      BY <2>1, <2>3, <2>7
    <3> QED BY <2>4, <3>2, <3>3
  <2>9. accepted = Len(sent') + (u - k)
    BY <2>1, <2>3, <2>7
  <2> QED BY <2>2, <2>4, <2>6, <2>7, <2>8, <2>9 DEF TxInv
<1> QED BY <1>1, <1>2, <1>3, <1>4
  DEF Next, CallStep, MainStep, WriteStep, ReadStep, HandlerStep, HostStep, driver, history,
      txring, Call, Write, W_Space, W_Kick, W_Spin, W_Host, W_Return, Read, R_Data, R_Copy,
      R_Release, R_Spin, R_Last, R_Return, Close, C_Wait, Ioctl, I_Control, I_RxPop, I_RxEnd,
      Alarm, H_Take, H_Type, H_Poll, H_Change

\* What the receive ring and the core hold is the stream from Base on.
LEMMA RxStream ==
  ASSUME IInv, NEW u, u = Used(rx_out, rx_in, BufLen)
  PROVE  /\ u \in Nat /\ Len(rfifo) \in Nat /\ typed \in Nat /\ Base + u \in Nat
         /\ Base \in Nat /\ Len(delivered) \in Nat
         /\ Len(delivered) = Base + (IF pc = "r_release" THEN n ELSE 0)
         /\ delivered = Numbers(0, Len(delivered))
         /\ typed = Base + u + Len(rfifo) /\ Base + u <= typed
         /\ rfifo = Numbers(Base + u, typed)
         /\ \A k \in 1 .. u : rx_buf[Slot(rx_out, k - 1, BufLen)] = Base + k
<1>1. u \in Nat
  BY BufLenFacts, UsedRange DEF IInv, TypeOK, RingType
<1>2. Len(delivered) \in Nat /\ Len(rfifo) \in Nat
  BY LenProperties DEF IInv, TypeOK, HistoryType, CoreType
<1>3. n \in Nat /\ typed \in Nat
  BY ConfigAssumption DEF IInv, TypeOK, MainType, HistoryType
<1>4. /\ Base \in Nat /\ delivered = Numbers(0, Len(delivered))
      /\ rfifo = Numbers(Base + u, typed) /\ typed = Base + u + Len(rfifo)
      /\ \A k \in 1 .. u : rx_buf[Slot(rx_out, k - 1, BufLen)] = Base + k
  BY DEF IInv, RxInv
<1>5. Len(delivered) = Base + (IF pc = "r_release" THEN n ELSE 0)
  BY <1>2, <1>3 DEF Base
<1>6. Base + u \in Nat /\ Base + u <= typed
  BY <1>1, <1>2, <1>4
<1> QED BY <1>1, <1>2, <1>3, <1>4, <1>5, <1>6

LEMMA RxInvStep ==
  ASSUME IInv, Next
  PROVE  RxInv'
<1> USE BufLenFacts
<1>1. CASE /\ UNCHANGED <<rxring, rfifo, typed, delivered>>
           /\ UNCHANGED <<pc, n>> \/ {pc, pc'} \cap {"r_release"} = {}
  <2>1. Base' = Base
    BY <1>1 DEF Base
  <2> QED BY <1>1, <2>1 DEF IInv, RxInv, rxring
<1>2. CASE R_Copy
  <2> DEFINE u == Used(rx_out, rx_in, BufLen)
             block == [i \in 1 .. n |-> rx_buf[rx_out + i - 1]]
  <2>1. /\ pc = "r_copy" /\ pc' = "r_release" /\ delivered' = delivered \o block
        /\ UNCHANGED <<n, rx_buf, rx_in, rx_out, rfifo, typed>>
    BY <1>2 DEF R_Copy, At, Goto, driver, rxring, core
  <2>2. /\ n \in Nat /\ block \in Seq(Nat) /\ Len(block) = n
        /\ \A i \in 1 .. n : block[i] = Base + i
    BY <2>1, RxBlock
  <2>3. /\ Base \in Nat /\ Len(delivered) = Base /\ delivered = Numbers(0, Base)
    BY <2>1, RxStream
  <2>4. block = Numbers(Base, Base + n)
    <3>1. (Base + n) - Base = n
      BY <2>2, <2>3
    <3>2. block = [i \in 1 .. n |-> Base + i]
      BY <2>2
    <3> QED BY <3>1, <3>2 DEF Numbers
  <2> HIDE DEF block
  <2>5. Base + n \in Nat /\ Base <= Base + n /\ 0 <= Base /\ 0 <= Base + n
    BY <2>2, <2>3
  <2>6. delivered' = Numbers(0, Base + n)
    <3>1. Numbers(0, Base) \o Numbers(Base, Base + n) = Numbers(0, Base + n)
      BY <2>3, <2>5, NumbersConcat
    <3> QED BY <2>1, <2>3, <2>4, <3>1
  <2>7. Len(delivered') = Base + n
    BY <2>5, <2>6, NumbersSeq
  <2>8. Base' = Base
    BY <2>1, <2>2, <2>3, <2>7 DEF Base
  <2> QED BY <2>1, <2>6, <2>7, <2>8 DEF IInv, RxInv
<1>3. CASE R_Release
  <2> DEFINE u == Used(rx_out, rx_in, BufLen)
  <2>1. /\ pc = "r_release" /\ pc' # "r_release" /\ rx_out' = Slot(rx_out, n, BufLen)
        /\ UNCHANGED <<rx_buf, rx_in, delivered, rfifo, typed>>
    BY <1>3 DEF R_Release, At, Goto, core, history
  <2>2. n \in Nat /\ n \in 1 .. u
    BY <2>1, RxBlock
  <2>3. /\ u \in Nat /\ Base \in Nat /\ Len(delivered) = Base + n
        /\ delivered = Numbers(0, Len(delivered))
        /\ rfifo = Numbers(Base + u, typed) /\ typed = Base + u + Len(rfifo)
        /\ Len(rfifo) \in Nat
        /\ \A k \in 1 .. u : rx_buf[Slot(rx_out, k - 1, BufLen)] = Base + k
    BY <2>1, RxStream
  <2>4. Base' = Base + n /\ Base' \in Nat
    BY <2>1, <2>2, <2>3 DEF Base
  <2>5. /\ rx_out \in Indices(BufLen) /\ rx_in \in Indices(BufLen) /\ n \in 0 .. u
    BY <2>2 DEF IInv, TypeOK, RingType
  <2>6. /\ Used(rx_out', rx_in, BufLen) = u - n
        /\ \A k \in 1 .. u - n :
              Slot(rx_out', k - 1, BufLen) = Slot(rx_out, n + k - 1, BufLen)
    BY <2>1, <2>5, ReleaseBlock
  <2> HIDE DEF u
  <2>7. ASSUME NEW k \in 1 .. u - n
        PROVE  rx_buf[Slot(rx_out', k - 1, BufLen)] = Base' + k
    <3>1. n + k \in 1 .. u /\ n + k - 1 = (n + k) - 1
      BY <2>2, <2>3
    <3>2. rx_buf[Slot(rx_out, n + k - 1, BufLen)] = Base + (n + k)
      BY <2>3, <3>1
    <3>3. Base + (n + k) = Base' + k
      BY <2>2, <2>3, <2>4
    <3> QED BY <2>6, <3>2, <3>3
  <2>8. Base' + (u - n) = Base + u
    BY <2>2, <2>3, <2>4
  <2> QED BY <2>1, <2>3, <2>4, <2>6, <2>7, <2>8 DEF RxInv
<1>4. CASE I_RxPop
  <2> DEFINE u == Used(rx_out, rx_in, BufLen)
  <2>1. /\ rx_buf' = [rx_buf EXCEPT ![rx_in] = Head(rfifo)]
        /\ rx_in' = Succ(rx_in, BufLen) /\ rfifo' = Tail(rfifo) /\ rfifo # <<>>
        /\ ~Full(rx_out, rx_in, BufLen)
        /\ UNCHANGED <<pc, n, rx_out, delivered, typed>>
    BY <1>4 DEF I_RxPop, main, history
  <2>2. /\ rx_out \in Indices(BufLen) /\ rx_in \in Indices(BufLen)
        /\ rx_buf \in [Indices(BufLen) -> Nat]
    BY DEF IInv, TypeOK, RingType
  <2>3. /\ u \in Nat /\ Base \in Nat /\ Base + u \in Nat /\ typed \in Nat
        /\ Base + u <= typed /\ Len(rfifo) \in Nat
        /\ delivered = Numbers(0, Len(delivered))
        /\ rfifo = Numbers(Base + u, typed) /\ typed = Base + u + Len(rfifo)
        /\ \A k \in 1 .. u : rx_buf[Slot(rx_out, k - 1, BufLen)] = Base + k
    BY RxStream
  <2>4. Base' = Base
    BY <2>1 DEF Base
  <2>5. Base + u < typed
    <3>1. CASE Base + u = typed
      <4>1. Len(rfifo) = 0
        BY <2>3, <3>1
      <4>2. rfifo \in Seq(Nat)
        BY DEF IInv, TypeOK, CoreType
      <4> QED BY <2>1, <4>1, <4>2, EmptySeq
    <3> QED BY <2>3, <3>1
  <2>6. /\ Head(rfifo) = Base + u + 1
        /\ rfifo' = Numbers(Base + u + 1, typed)
    BY <2>1, <2>3, <2>5, NumbersEnds
  <2>7. /\ u + 1 <= BufLen - 1
        /\ Succ(rx_in, BufLen) = Slot(rx_in, 1, BufLen)
    <3>1. Succ(rx_in, BufLen) = IF rx_in + 1 = BufLen THEN 0 ELSE rx_in + 1
      BY <2>2, SuccValue
    <3>2. Succ(rx_in, BufLen) # rx_out
      BY <2>1 DEF Full
    <3>3. Succ(rx_in, BufLen) = Slot(rx_in, 1, BufLen)
      BY <2>2, <3>1 DEF Slot, Indices
    <3>4. u + 1 <= BufLen - 1
      BY <2>2, <3>1, <3>2 DEF Used, Indices
    <3> QED BY <3>3, <3>4
  <2>8. /\ Used(rx_out, rx_in', BufLen) = u + 1
        /\ Slot(rx_out, u, BufLen) = rx_in
    <3>1. /\ Used(rx_out, Slot(rx_in, 1, BufLen), BufLen) = u + 1
          /\ Slot(rx_out, u, BufLen) = rx_in
      BY <2>2, <2>7 DEF Used, Slot, Indices
    <3> QED BY <2>1, <2>7, <3>1
  <2>9. ASSUME NEW k \in 1 .. u
        PROVE  rx_buf'[Slot(rx_out, k - 1, BufLen)] = Base + k
    <3>1. /\ Slot(rx_out, k - 1, BufLen) \in Indices(BufLen)
          /\ Slot(rx_out, k - 1, BufLen) # rx_in
      BY <2>2 DEF Slot, Indices, Used
    <3> QED BY <2>1, <2>2, <2>3, <3>1
  <2>10. rx_buf'[Slot(rx_out, (u + 1) - 1, BufLen)] = Base + (u + 1)
    <3>1. (u + 1) - 1 = u /\ Base + (u + 1) = Base + u + 1
      BY <2>3
    <3> QED BY <2>1, <2>2, <2>6, <2>8, <3>1
  <2> HIDE DEF u
  <2>11. ASSUME NEW k \in 1 .. u + 1
         PROVE  rx_buf'[Slot(rx_out, k - 1, BufLen)] = Base + k
    <3>1. k \in 1 .. u \/ k = u + 1
      BY <2>3
    <3> QED BY <2>9, <2>10, <3>1
  <2>12. Len(rfifo') = typed - (Base + u + 1)
    <3>1. Base + u + 1 \in Nat /\ Base + u + 1 <= typed
      BY <2>3, <2>5
    <3> QED BY <2>3, <2>6, <3>1, NumbersSeq
  <2>13. Base + (u + 1) = Base + u + 1 /\ typed = Base + (u + 1) + Len(rfifo')
    BY <2>3, <2>12
  <2> QED BY <2>1, <2>3, <2>4, <2>6, <2>8, <2>11, <2>13 DEF RxInv
<1>5. CASE H_Type
  <2> DEFINE u == Used(rx_out, rx_in, BufLen)
  <2>1. /\ typed' = typed + 1 /\ rfifo' = Append(rfifo, typed + 1)
        /\ UNCHANGED <<pc, n, rx_buf, rx_in, rx_out, delivered>>
    BY <1>5 DEF H_Type, main, driver, rxring
  <2>2. /\ u \in Nat /\ Base \in Nat /\ Base + u \in Nat /\ typed \in Nat
        /\ Base + u <= typed /\ Len(rfifo) \in Nat
        /\ delivered = Numbers(0, Len(delivered))
        /\ rfifo = Numbers(Base + u, typed) /\ typed = Base + u + Len(rfifo)
        /\ \A k \in 1 .. u : rx_buf[Slot(rx_out, k - 1, BufLen)] = Base + k
    BY RxStream
  <2> HIDE DEF u
  <2>3. Base' = Base
    BY <2>1 DEF Base
  <2>4. rfifo' = Numbers(Base + u, typed')
    BY <2>1, <2>2, NumbersEnds
  <2>5. Len(rfifo') = typed' - (Base + u)
    <3>1. typed' \in Nat /\ Base + u <= typed'
      BY <2>1, <2>2
    <3> QED BY <2>2, <2>4, <3>1, NumbersSeq
  <2>6. typed' = Base + u + Len(rfifo')
    BY <2>1, <2>2, <2>5
  <2> QED BY <2>1, <2>2, <2>3, <2>4, <2>6 DEF RxInv, u
<1>6. CASE CallStep
  BY <1>1, <1>6
  DEF CallStep, Write, Read, Close, Ioctl, Call, At, Goto, driver, main, core, history, rxring
<1>7. CASE WriteStep \/ C_Wait
  BY <1>1, <1>7
  DEF WriteStep, C_Wait, W_Space, W_Copy, W_Publish, W_Kick, W_Spin, W_Host, W_Return,
      At, Goto, Return, driver, main, core, history, rxring
<1>8. CASE R_Data \/ R_Spin \/ R_Last \/ R_Return
  BY <1>1, <1>8
  DEF R_Data, R_Spin, R_Last, R_Return, At, Goto, Return, driver, core, history, rxring
<1>9. CASE I_Control \/ I_RxEnd \/ I_Tx \/ Alarm \/ H_Take \/ H_Poll \/ H_Change
  BY <1>1, <1>9
  DEF I_Control, I_RxEnd, I_Tx, Alarm, H_Take, H_Poll, H_Change, driver, main, core, history,
      rxring
<1> QED BY <1>2, <1>3, <1>4, <1>5, <1>6, <1>7, <1>8, <1>9
  DEF Next, MainStep, ReadStep, HandlerStep, HostStep

LEMMA StepIInv == IInv /\ [Next]_vars => IInv'
<1> SUFFICES ASSUME IInv, [Next]_vars PROVE IInv'
  OBVIOUS
<1>1. CASE Next
  BY <1>1, RingStep, StateStep, MainTypeStep, HandlerTypeStep, CoreTypeStep, HistoryTypeStep,
     WriteInvStep, ReadInvStep, SpaceStep, TxInvStep, RxInvStep DEF IInv, TypeOK
<1>2. CASE UNCHANGED vars
  <2> USE <1>2 DEF vars, driver, main, handler, core, history, watch, txring, rxring
  <2>1. TypeOK'
    <3>1. RingType' /\ StateType'
      BY DEF IInv, TypeOK, RingType, StateType
    <3>2. MainType' /\ HandlerType'
      BY DEF IInv, TypeOK, MainType, HandlerType
    <3>3. CoreType' /\ HistoryType'
      BY DEF IInv, TypeOK, CoreType, HistoryType
    <3> QED BY ONLY <3>1, <3>2, <3>3 DEF TypeOK
  <2>2. WriteInv' /\ ReadInv'
    BY DEF IInv, WriteInv, ReadInv, Room
  <2>3. SpaceInv' /\ TxInv'
    BY DEF IInv, SpaceInv, TxInv
  <2>4. RxInv'
    BY DEF IInv, RxInv, Base
  <2> QED BY ONLY <2>1, <2>2, <2>3, <2>4 DEF IInv
<1> QED BY <1>1, <1>2

\* The inductive invariant holds throughout.
THEOREM Invariance == Spec => []IInv
<1> QED BY InitIInv, StepIInv, PTL DEF Spec

\* Every variable keeps its type: no index leaves its ring, and the handler
\* never writes DATA when the core's FIFO is full.
THEOREM TypeCorrect == Spec => []TypeOK
<1>1. IInv => TypeOK
  BY DEF IInv
<1> QED BY <1>1, Invariance, PTL

-----------------------------------------------------------------------------
(***************************************************************************)
(* What was sent, what is queued: two stretches of one stream.             *)
(***************************************************************************)
LEMMA TxQueue ==
  IInv =>
    (/\ TxPending = Numbers(Len(sent), accepted) /\ Len(sent) \in Nat /\ accepted \in Nat
     /\ Len(sent) <= accepted /\ sent = Numbers(0, Len(sent))
     /\ Len(TxPending) = accepted - Len(sent))
<1> SUFFICES ASSUME IInv
             PROVE  (/\ TxPending = Numbers(Len(sent), accepted) /\ Len(sent) \in Nat
                     /\ accepted \in Nat /\ Len(sent) <= accepted
                     /\ sent = Numbers(0, Len(sent))
                     /\ Len(TxPending) = accepted - Len(sent))
  OBVIOUS
<1>1. /\ TxPending = Numbers(Len(sent), accepted) /\ Len(sent) \in Nat /\ accepted \in Nat
      /\ Len(sent) <= accepted /\ sent = Numbers(0, Len(sent))
  BY TxStream
<1>2. Len(TxPending) = accepted - Len(sent)
  BY <1>1, NumbersSeq
<1> QED BY <1>1, <1>2

LEMMA RxQueueNumbers ==
  IInv => (/\ RxQueue = Numbers(Len(delivered), typed - Len(rfifo))
           /\ delivered = Numbers(0, Len(delivered))
           /\ rfifo = Numbers(typed - Len(rfifo), typed)
           /\ Len(delivered) \in Nat /\ typed \in Nat /\ typed - Len(rfifo) \in Nat
           /\ Len(delivered) <= typed - Len(rfifo) /\ typed - Len(rfifo) <= typed
           /\ Len(RxQueue) = typed - Len(rfifo) - Len(delivered)
           /\ typed - Len(rfifo) - Len(delivered) <= Used(rx_out, rx_in, BufLen))
<1> SUFFICES ASSUME IInv
    PROVE  (/\ RxQueue = Numbers(Len(delivered), typed - Len(rfifo))
            /\ delivered = Numbers(0, Len(delivered))
            /\ rfifo = Numbers(typed - Len(rfifo), typed)
            /\ Len(delivered) \in Nat /\ typed \in Nat /\ typed - Len(rfifo) \in Nat
            /\ Len(delivered) <= typed - Len(rfifo) /\ typed - Len(rfifo) <= typed
            /\ Len(RxQueue) = typed - Len(rfifo) - Len(delivered)
            /\ typed - Len(rfifo) - Len(delivered) <= Used(rx_out, rx_in, BufLen))
  OBVIOUS
<1> DEFINE u == Used(rx_out, rx_in, BufLen)
           taken == IF pc = "r_release" THEN n ELSE 0
           d == Len(delivered)
           e == typed - Len(rfifo)
<1>1. /\ u \in Nat /\ Len(rfifo) \in Nat /\ typed \in Nat /\ Base + u \in Nat
      /\ Base \in Nat /\ d \in Nat /\ d = Base + taken
      /\ delivered = Numbers(0, d)
      /\ typed = Base + u + Len(rfifo) /\ Base + u <= typed
      /\ rfifo = Numbers(Base + u, typed)
      /\ \A k \in 1 .. u : rx_buf[Slot(rx_out, k - 1, BufLen)] = Base + k
  BY RxStream
<1>2. taken \in 0 .. u
  <2>1. CASE pc = "r_release"
    <3>1. n \in 1 .. u /\ n \in Nat
      BY <2>1, RxBlock
    <3> QED BY <1>1, <2>1, <3>1
  <2>2. CASE pc # "r_release"
    BY <1>1, <2>2
  <2> QED BY <2>1, <2>2
<1>3. RxPending = Numbers(Base, Base + u)
  <2>1. (Base + u) - Base = u
    BY <1>1
  <2> QED BY <1>1, <2>1 DEF RxPending, Contents, Numbers
<1> HIDE DEF u, taken, d, e
<1>4. e = Base + u
  BY <1>1 DEF e
<1>5. Len(RxPending) = u
  <2>1. Base <= Base + u /\ (Base + u) - Base = u
    BY <1>1
  <2> QED BY <1>1, <1>3, <2>1, NumbersSeq
<1>6. RxQueue = Numbers(d, e)
  <2>1. CASE pc = "r_release"
    <3>1. /\ Base <= Base + u /\ taken \in 0 .. (Base + u) - Base
          /\ u \in taken .. (Base + u) - Base
      BY <1>1, <1>2
    <3>2. SubSeq(Numbers(Base, Base + u), taken + 1, u) = Numbers(Base + taken, Base + u)
      BY <1>1, <3>1, NumbersSub
    <3>3. RxQueue = SubSeq(RxPending, taken + 1, u)
      BY <1>5, <2>1 DEF RxQueue, taken
    <3> QED BY <1>1, <1>3, <1>4, <3>2, <3>3
  <2>2. CASE pc # "r_release"
    BY <1>1, <1>3, <1>4, <2>2 DEF RxQueue, taken
  <2> QED BY <2>1, <2>2
<1>7. d <= e /\ e <= typed /\ e \in Nat /\ e - d <= u
  BY <1>1, <1>2, <1>4
<1>8. Len(RxQueue) = e - d
  BY <1>1, <1>6, <1>7, NumbersSeq
<1> QED BY <1>1, <1>4, <1>6, <1>7, <1>8 DEF d, e, u

\* What was sent and what is in the ring is what was accepted, in order,
\* whatever the interleaving of write(), the handler, the alarm and the host.
THEOREM TxNothingLost == Spec => []TxNoLoss
<1>1. IInv => TxNoLoss
  <2> SUFFICES ASSUME IInv
               PROVE  sent \o TxPending = Numbers(0, accepted)
    BY DEF TxNoLoss
  <2>1. /\ TxPending = Numbers(Len(sent), accepted) /\ Len(sent) \in Nat
        /\ accepted \in Nat /\ Len(sent) <= accepted /\ sent = Numbers(0, Len(sent))
    BY TxQueue
  <2>2. 0 <= Len(sent)
    BY <2>1
  <2>3. Numbers(0, Len(sent)) \o Numbers(Len(sent), accepted) = Numbers(0, accepted)
    BY <2>1, <2>2, NumbersConcat
  <2> QED BY <2>1, <2>3
<1> QED BY <1>1, Invariance, PTL

\* Every character typed is with the reader, in the ring or in the core.
THEOREM RxNothingLost == Spec => []RxNoLoss
<1>1. IInv => RxNoLoss
  <2> SUFFICES ASSUME IInv PROVE RxNoLoss
    OBVIOUS
  <2> DEFINE d == Len(delivered)
             e == typed - Len(rfifo)
  <2>1. /\ RxQueue = Numbers(d, e) /\ delivered = Numbers(0, d) /\ rfifo = Numbers(e, typed)
        /\ d \in Nat /\ e \in Nat /\ typed \in Nat /\ d <= e /\ e <= typed
    BY RxQueueNumbers
  <2> HIDE DEF d, e
  <2>2. 0 <= d /\ 0 <= e
    BY <2>1
  <2>3. Numbers(0, d) \o Numbers(d, e) = Numbers(0, e)
    BY <2>1, <2>2, NumbersConcat
  <2>4. Numbers(0, e) \o Numbers(e, typed) = Numbers(0, typed)
    BY <2>1, <2>2, NumbersConcat
  <2> QED BY <2>1, <2>3, <2>4 DEF RxNoLoss
<1> QED BY <1>1, Invariance, PTL

-----------------------------------------------------------------------------
(***************************************************************************)
(* The queues of the driver implement BlockChannel.                        *)
(***************************************************************************)
\* A step publishes a block, or hands a block to the core, or leaves the
\* transmit queue alone.
LEMMA TxStep ==
  ASSUME IInv, IInv', [Next]_vars
  PROVE  [TxChan!Next]_(TxChan!chan)
<1> DEFINE d == Len(sent)
<1>1. /\ TxPending = Numbers(d, accepted) /\ d \in Nat /\ accepted \in Nat
      /\ d <= accepted /\ sent = Numbers(0, d) /\ Len(TxPending) = accepted - d
  BY TxQueue
<1>2. (/\ TxPending = Numbers(Len(sent), accepted) /\ Len(sent) \in Nat /\ accepted \in Nat)'
  BY TxQueue, PTL
<1>3. Used(tx_out, tx_in, BufLen) = accepted - d /\ accepted - d \in Nat
  <2>1. accepted = d + Used(tx_out, tx_in, BufLen)
    BY TxStream
  <2>2. Used(tx_out, tx_in, BufLen) \in Nat
    BY BufLenFacts, UsedRange DEF IInv, TypeOK, RingType
  <2> QED BY <1>1, <2>1, <2>2
<1> HIDE DEF d
<1>4. CASE W_Copy
  <2>1. UNCHANGED <<accepted, sent>>
    BY <1>4 DEF W_Copy, history
  <2>2. TxPending' = TxPending
    BY <1>1, <1>2, <2>1 DEF d
  <2> QED BY <2>1, <2>2 DEF TxChan!chan
<1>5. CASE W_Publish
  <2>1. /\ accepted' = accepted + n /\ sent' = sent
        /\ n \in Nat /\ n >= 1 /\ n <= BufLen - 1 - (accepted - d)
    BY <1>3, <1>5 DEF W_Publish, At, IInv, WriteInv, Room, TypeOK, MainType
  <2>2. Numbers(d, accepted) \o Numbers(accepted, accepted + n) = Numbers(d, accepted + n)
    <3>1. accepted + n \in Nat /\ accepted <= accepted + n
      BY <1>1, <2>1
    <3> QED BY <1>1, <3>1, NumbersConcat
  <2>3. Numbers(accepted, accepted + n) = [i \in 1 .. n |-> accepted + i]
    <3>1. (accepted + n) - accepted = n
      BY <1>1, <2>1
    <3> QED BY <3>1 DEF Numbers
  <2>4. TxPending' = TxPending \o [i \in 1 .. n |-> accepted + i]
    <3>1. TxPending' = Numbers(d, accepted + n)
      BY <1>2, <2>1 DEF d
    <3> QED BY <1>1, <2>2, <2>3, <3>1
  <2>5. n \in 1 .. (BufLen - 1) - Len(TxPending)
    BY <1>1, <1>3, <2>1, BufLenFacts
  <2> QED BY <2>1, <2>4, <2>5 DEF TxChan!Next, TxChan!Put
<1>6. CASE I_Tx
  <2> DEFINE k == Smaller(space, Used(tx_out, tx_in, BufLen))
  <2>1. k \in Nat /\ k \in 0 .. accepted - d
    BY <1>3, <1>6, TxBlock DEF I_Tx, IInv
  <2>2. sent' = sent \o SubSeq(TxPending, 1, k) /\ accepted' = accepted
    BY <1>6 DEF I_Tx
  <2> HIDE DEF k
  <2>3. SubSeq(TxPending, 1, k) = Numbers(d, d + k)
    <3>1. 0 \in 0 .. accepted - d /\ k \in 0 .. accepted - d
      BY <1>3, <2>1
    <3>2. SubSeq(Numbers(d, accepted), 0 + 1, k) = Numbers(d + 0, d + k)
      BY <1>1, <3>1, NumbersSub
    <3> QED BY <1>1, <3>2
  <2>4. SubSeq(TxPending, k + 1, Len(TxPending)) = Numbers(d + k, accepted)
    <3>1. accepted - d \in k .. accepted - d /\ d + (accepted - d) = accepted
      BY <1>1, <1>3, <2>1
    <3>2. SubSeq(Numbers(d, accepted), k + 1, accepted - d)
            = Numbers(d + k, d + (accepted - d))
      BY <1>1, <2>1, <3>1, NumbersSub
    <3> QED BY <1>1, <3>1, <3>2
  <2>5. Len(sent') = d + k
    <3>1. /\ d + k \in Nat /\ d <= d + k /\ 0 <= d /\ 0 <= d + k
      BY <1>1, <2>1
    <3>2. Numbers(0, d) \o Numbers(d, d + k) = Numbers(0, d + k)
      BY <1>1, <3>1, NumbersConcat
    <3>3. sent' = Numbers(0, d + k)
      BY <1>1, <2>2, <2>3, <3>2
    <3> QED BY <3>1, <3>3, NumbersSeq
  <2>6. TxPending' = SubSeq(TxPending, k + 1, Len(TxPending))
    BY <1>2, <2>2, <2>4, <2>5
  <2>7. CASE k = 0
    <3>1. Len(sent') = d /\ TxPending' = Numbers(d, accepted)
      BY <1>1, <1>2, <2>2, <2>5, <2>7
    <3>2. SubSeq(TxPending, 1, k) = <<>>
      BY <2>7
    <3>3. sent' = sent
      BY <2>2, <3>2, ConcatEmptySeq DEF IInv, TypeOK, HistoryType
    <3> QED BY <1>1, <2>2, <3>1, <3>3 DEF TxChan!chan
  <2>8. CASE k # 0
    <3>1. k \in 1 .. Len(TxPending)
      BY <1>1, <2>1, <2>8
    <3> QED BY <2>2, <2>6, <3>1 DEF TxChan!Next, TxChan!Get
  <2> QED BY <2>7, <2>8
<1>7. CASE UNCHANGED <<txring, accepted, sent>>
  BY <1>7 DEF TxChan!chan, TxPending, txring
<1> QED BY <1>4, <1>5, <1>6, <1>7
  DEF Next, CallStep, MainStep, WriteStep, ReadStep, HandlerStep, HostStep, vars, driver,
      history, txring, Call, Write, W_Space, W_Kick, W_Spin, W_Host, W_Return, Read, R_Data,
      R_Copy, R_Release, R_Spin, R_Last, R_Return, Close, C_Wait, Ioctl, I_Control, I_RxPop,
      I_RxEnd, Alarm, H_Take, H_Type, H_Poll, H_Change

\* The transmit path implements the bounded FIFO of BlockChannel.
THEOREM TxRefines == Spec => TxRefinesChannel
<1>1. Init => TxChan!Init
  <2> SUFFICES ASSUME Init PROVE TxChan!Init
    OBVIOUS
  <2>1. TxPending = <<>>
    BY EmptyRing, BufLenFacts DEF Init, TxPending, Indices
  <2> QED BY <2>1 DEF Init, TxChan!Init
<1>2. IInv /\ IInv' /\ [Next]_vars => [TxChan!Next]_(TxChan!chan)
  BY TxStep
<1> QED BY <1>1, <1>2, Invariance, PTL DEF Spec, TxRefinesChannel, TxChan!Spec

\* The same of the receive queue: what enters it leaves the core, what leaves
\* it is the reader's.
LEMMA RxStep ==
  ASSUME IInv, IInv', [Next]_vars
  PROVE  [RxChan!Next]_(RxChan!chan)
<1> DEFINE d == Len(delivered)
           e == typed - Len(rfifo)
<1>1. /\ RxQueue = Numbers(d, e) /\ delivered = Numbers(0, d) /\ d \in Nat /\ e \in Nat
      /\ d <= e /\ Len(RxQueue) = e - d /\ rfifo = Numbers(e, typed) /\ typed \in Nat
  BY RxQueueNumbers
<1>2. (/\ RxQueue = Numbers(d, e) /\ d \in Nat /\ e \in Nat /\ d <= e
       /\ e - d <= Used(rx_out, rx_in, BufLen))'
  BY RxQueueNumbers, PTL
<1>3. Used(rx_out', rx_in', BufLen) \in 0 .. BufLen - 1
  BY BufLenFacts, UsedRange DEF IInv, TypeOK, RingType
<1>4. Len(rfifo) \in Nat
  BY LenProperties DEF IInv, TypeOK, CoreType
<1>5. CASE UNCHANGED <<delivered, typed, rfifo>>
  <2>1. UNCHANGED <<delivered, e, RxQueue>>
    BY <1>1, <1>2, <1>5
  <2> QED BY <2>1 DEF RxChan!chan
<1>6. CASE R_Copy
  <2> DEFINE block == [i \in 1 .. n |-> rx_buf[rx_out + i - 1]]
  <2>1. /\ pc = "r_copy" /\ pc' = "r_release" /\ delivered' = delivered \o block
        /\ UNCHANGED <<typed, rfifo>>
    BY <1>6 DEF R_Copy, At, Goto, core
  <2>2. /\ n \in Nat /\ n >= 1 /\ block \in Seq(Nat) /\ Len(block) = n
        /\ \A i \in 1 .. n : block[i] = Base + i
    <3>1. n >= 1
      BY <2>1 DEF IInv, ReadInv
    <3> QED BY <2>1, <3>1, RxBlock
  <2>3. Base = d
    <3>1. Len(delivered) = Base + 0 /\ Base \in Nat
      BY <2>1, RxStream
    <3> QED BY <3>1
  <2>4. block = Numbers(d, d + n)
    <3>1. (d + n) - d = n
      BY <1>1, <2>2
    <3>2. block = [i \in 1 .. n |-> d + i]
      BY <2>2, <2>3
    <3> QED BY <3>1, <3>2 DEF Numbers
  <2>5. d' = d + n /\ e' = e
    <3>1. Len(delivered') = Len(delivered) + Len(block)
      <4>1. delivered \in Seq(Nat)
        BY DEF IInv, TypeOK, HistoryType
      <4> HIDE DEF block
      <4> QED BY <2>1, <2>2, <4>1, ConcatProperties
    <3> QED BY <2>1, <2>2, <3>1
  <2> HIDE DEF d, e, block
  <2>6. d + n <= e /\ n \in 1 .. e - d
    BY <1>1, <1>2, <2>2, <2>5
  <2>7. SubSeq(RxQueue, 1, n) = block
    <3>1. 0 \in 0 .. e - d /\ n \in 0 .. e - d
      BY <1>1, <2>6
    <3>2. SubSeq(Numbers(d, e), 0 + 1, n) = Numbers(d + 0, d + n)
      BY <1>1, <3>1, NumbersSub
    <3> QED BY <1>1, <2>4, <3>2
  <2>8. SubSeq(RxQueue, n + 1, Len(RxQueue)) = RxQueue'
    <3>1. n \in 0 .. e - d /\ e - d \in n .. e - d /\ d + (e - d) = e
      BY <1>1, <2>6
    <3>2. SubSeq(Numbers(d, e), n + 1, e - d) = Numbers(d + n, d + (e - d))
      BY <1>1, <3>1, NumbersSub
    <3> QED BY <1>1, <1>2, <2>5, <3>1, <3>2
  <2>9. n \in 1 .. Len(RxQueue) /\ e' = e
    BY <1>1, <2>5, <2>6
  <2> QED BY <2>1, <2>7, <2>8, <2>9 DEF RxChan!Next, RxChan!Get, e
<1>7. CASE I_RxPop
  <2>1. rfifo' = Tail(rfifo) /\ rfifo # <<>> /\ UNCHANGED <<typed, delivered>>
    BY <1>7 DEF I_RxPop, history
  <2>2. Len(rfifo') = Len(rfifo) - 1
    BY <2>1, HeadTailProperties DEF IInv, TypeOK, CoreType
  <2>3. e' = e + 1 /\ d' = d
    BY <1>1, <1>4, <2>1, <2>2
  <2> HIDE DEF d
  <2>4. 1 \in 1 .. (BufLen - 1) - Len(RxQueue)
    <3>1. e + 1 - d <= BufLen - 1
      BY <1>1, <1>2, <1>3, <2>3, BufLenFacts
    <3> QED BY <1>1, <3>1, BufLenFacts
  <2>5. RxQueue' = RxQueue \o [i \in 1 .. 1 |-> e + i]
    <3>1. e + 1 \in Nat /\ e <= e + 1 /\ (e + 1) - e = 1
      BY <1>1
    <3>2. Numbers(d, e) \o Numbers(e, e + 1) = Numbers(d, e + 1)
      BY <1>1, <3>1, NumbersConcat
    <3>3. Numbers(e, e + 1) = [i \in 1 .. 1 |-> e + i]
      BY <3>1 DEF Numbers
    <3> QED BY <1>1, <1>2, <2>3, <3>2, <3>3
  <2> QED BY <2>1, <2>3, <2>4, <2>5 DEF RxChan!Next, RxChan!Put
<1>8. CASE H_Type
  <2>1. /\ typed' = typed + 1 /\ rfifo' = Append(rfifo, typed + 1)
        /\ UNCHANGED delivered
    BY <1>8 DEF H_Type
  <2>2. Len(rfifo') = Len(rfifo) + 1
    BY <1>1, <2>1, AppendProperties DEF IInv, TypeOK, CoreType
  <2>3. e' = e
    BY <1>1, <1>4, <2>1, <2>2
  <2> QED BY <1>1, <1>2, <2>1, <2>3 DEF RxChan!chan
<1> QED BY <1>5, <1>6, <1>7, <1>8
  DEF Next, CallStep, MainStep, WriteStep, ReadStep, HandlerStep, HostStep, vars, core,
      history, Call, Write, W_Space, W_Copy, W_Publish, W_Kick, W_Spin, W_Host, W_Return,
      Read, R_Data, R_Release, R_Spin, R_Last, R_Return, Close,
      C_Wait, Ioctl, I_Control, I_RxEnd, I_Tx, Alarm, H_Take, H_Poll, H_Change

\* The receive path implements the bounded FIFO of BlockChannel.
THEOREM RxRefines == Spec => RxRefinesChannel
<1>1. Init => RxChan!Init
  <2> SUFFICES ASSUME Init PROVE RxChan!Init
    OBVIOUS
  <2>1. RxPending = <<>>
    BY EmptyRing, BufLenFacts DEF Init, RxPending, Indices
  <2>2. RxQueue = <<>> /\ Len(rfifo) = 0
    BY <2>1, EmptySeq DEF Init, RxQueue
  <2>3. typed = 0 /\ delivered = <<>>
    BY DEF Init
  <2>4. typed - Len(rfifo) = 0
    BY <2>2, <2>3
  <2> QED BY <2>2, <2>3, <2>4 DEF RxChan!Init
<1>2. IInv /\ IInv' /\ [Next]_vars => [RxChan!Next]_(RxChan!chan)
  BY RxStep
<1> QED BY <1>1, <1>2, Invariance, PTL DEF Spec, RxRefinesChannel, RxChan!Spec
=============================================================================
