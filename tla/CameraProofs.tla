---------------------------- MODULE CameraProofs ----------------------------
(***************************************************************************)
(* Proofs about the camera applications, for any table of exposures, any   *)
(* number of presses and of refused transfers.                             *)
(***************************************************************************)
EXTENDS Camera, SequenceTheorems, TLAPS

Frame == [run : BOOLEAN, active : BOOLEAN, irqOn : BOOLEAN, buffers : Nat,
          writing : BOOLEAN, held : Nat, irq : BOOLEAN]

\* From the stop of dump_vfb() to its restart the frame writer starts no frame, and
\* after the sleep the one it was writing is complete.
Stopped == /\ vfw \in Frame
           /\ pc \in {"stopping", "dumping"} => ~vfw.active
           /\ pc = "dumping" => ~vfw.writing

LEMMA InitStopped == Init => Stopped
BY DEF Init, VfwOff, Stopped, Frame

LEMMA StepStopped ==
  ASSUME Stopped, [Next]_vars
  PROVE  Stopped'
<1>q. ASSUME UNCHANGED vfw, pc' = pc \/ (pc' \notin {"stopping", "dumping"})
      PROVE  Stopped'
  BY <1>q DEF Stopped
<1>1. CASE ResetSensor
  BY <1>1, <1>q DEF ResetSensor, Main
<1>2. CASE SetIndex
  BY <1>2, <1>q DEF SetIndex, Main
<1>3. CASE EnableButton
  BY <1>3, <1>q DEF EnableButton, Main
<1>4. CASE StartFramesEarly
  BY <1>4 DEF StartFramesEarly, Main, Stopped, Frame
<1>5. CASE Pipeline
  <2>1. vfw \in Frame /\ pc' = "softreset"
    BY <1>5 DEF Pipeline, Main, Stopped
  <2>2. CASE vfw' = [vfw EXCEPT !.buffers = 1, !.irqOn = TRUE, !.run = TRUE, !.active = TRUE,
                                !.held = 0]
    <3>1. vfw' \in Frame
      BY <2>1, <2>2 DEF Frame
    <3> QED BY <2>1, <3>1 DEF Stopped
  <2>3. CASE vfw' = [vfw EXCEPT !.buffers = 2, !.run = TRUE, !.active = TRUE]
    <3>1. vfw' \in Frame
      BY <2>1, <2>3 DEF Frame
    <3> QED BY <2>1, <3>1 DEF Stopped
  <2> QED BY <1>5, <2>2, <2>3 DEF Pipeline
<1>6. CASE SetUp
  BY <1>6, <1>q DEF SetUp, Main
<1>7. CASE RegisterVfw
  BY <1>7, <1>q DEF RegisterVfw, Main
<1>8. CASE Initialised
  BY <1>8, <1>q DEF Initialised, Main
<1>9. CASE TestPattern
  BY <1>9, <1>q DEF TestPattern, Main, Command
<1>10. CASE Status
  BY <1>10, <1>q DEF Status, Main, Command
<1>11. CASE Increase
  BY <1>11, <1>q DEF Increase, Main, Command
<1>12. CASE Decrease
  BY <1>12, <1>q DEF Decrease, Main, Command
<1>13. CASE ShowOutputs
  BY <1>13, <1>q DEF ShowOutputs, Main, Command
<1>14. CASE AccessCnn
  BY <1>14, <1>q DEF AccessCnn
<1>15. CASE V_Stop
  BY <1>15 DEF V_Stop, Main, Stopped, Frame
<1>16. CASE V_Slept
  BY <1>16 DEF V_Slept, Main, Stopped, Frame
<1>17. CASE V_Restart
  BY <1>17 DEF V_Restart, Main, Stopped, Frame
<1>18. CASE PB_Enter
  BY <1>18, <1>q DEF PB_Enter
<1>19. CASE PB_Bounced
  BY <1>19, <1>q DEF PB_Bounced
<1>20. CASE PB_Pressed
  BY <1>20, <1>q DEF PB_Pressed
<1>21. CASE PB_Return
  BY <1>21, <1>q DEF PB_Return
<1>22. CASE VFW_Blue
  BY <1>22, <1>q DEF VFW_Blue
<1>23. CASE VFW_Acknowledge
  BY <1>23 DEF VFW_Acknowledge, Stopped, Frame
<1>24. CASE VFW_Clear
  BY <1>24 DEF VFW_Clear, Stopped, Frame
<1>25. CASE Press
  BY <1>25, <1>q DEF Press
<1>26. CASE FrameStarts
  BY <1>26 DEF FrameStarts, Stopped, Frame
<1>27. CASE FrameEnds
  <2>1. vfw.held + 1 \in Nat /\ (vfw.irq \/ vfw.irqOn) \in BOOLEAN
    BY DEF Stopped, Frame
  <2>2. vfw' = [vfw EXCEPT !.writing = FALSE, !.held = vfw.held + 1,
                           !.irq = (vfw.irq \/ vfw.irqOn)]
    BY <1>27 DEF FrameEnds
  <2>3. vfw' \in Frame
    BY <2>1, <2>2 DEF Stopped, Frame
  <2>4. vfw'.active = vfw.active /\ vfw'.writing = FALSE
    BY <2>2 DEF Stopped, Frame
  <2> QED BY <1>27, <2>3, <2>4 DEF FrameEnds, Stopped
<1>28. CASE \E t \in Threads : Transfer(t)
  BY <1>28, <1>q DEF Transfer
<1>29. CASE UNCHANGED vars
  BY <1>29, <1>q DEF vars
<1> QED BY <1>1, <1>2, <1>3, <1>4, <1>5, <1>6, <1>7, <1>8, <1>9, <1>10, <1>11, <1>12,
           <1>13, <1>14, <1>15, <1>16, <1>17, <1>18, <1>19, <1>20, <1>21, <1>22, <1>23,
           <1>24, <1>25, <1>26, <1>27, <1>28, <1>29 DEF Next, Program, Boot, Commands,
           Handlers, Threads

\* dump_vfb() reads one frame, not the end of one and the beginning of the next.
THEOREM DumpReadsOneFrame == Spec => []DumpFromOneFrame
<1>1. Stopped /\ [Next]_vars => Stopped'
  BY StepStopped
<1>2. Stopped => DumpFromOneFrame
  BY DEF Stopped, DumpFromOneFrame
<1> QED BY InitStopped, <1>1, <1>2, PTL DEF Spec

-----------------------------------------------------------------------------
(***************************************************************************)
(* The exposure.                                                           *)
(***************************************************************************)
CallRecords == [op : {"poke", "peek"}, addr : Int \X Int, val : Int]

\* s goes to register r last with argument a; or does not go there.
Ends(s, r, a) == \E i \in 1 .. Len(s) : /\ s[i] = Poke(r, a)
                                        /\ \A j \in i + 1 .. Len(s) : s[j].addr # r
Avoids(s, r) == \A i \in 1 .. Len(s) : s[i].addr # r

\* What is still to be sent, the handler's calls first, leaves register r at the value that a
\* stands for.
Settles(r, a) ==
    \/ Ends(calls["main"], r, a)
    \/ /\ Avoids(calls["main"], r)
       /\ Ends(calls["isr"], r, a) \/ (Avoids(calls["isr"], r) /\ sensor[r] = Value(a))

SettingUp == {"reset", "open", "buttons", "frames", "pipeline", "softreset"}
Loop == {"register", "green", "loop", "stopping", "dumping"}

\* A call in progress: the array holds the bytes stored, and those sent are its first.
InProgress(t) ==
    LET b == Bytes(message[t])
    IN /\ calls[t] # <<>>
       /\ message[t] = [Head(calls[t]) EXCEPT !.val = Value(@)]
       /\ stored[t] <= Len(b) /\ \A k \in 1 .. stored[t] : wData[k] = b[k]
       /\ Len(sent[t]) <= Len(b) /\ \A k \in 1 .. Len(sent[t]) : sent[t][k] = b[k]
       /\ sent[t] # <<>> => stored[t] = Len(b)

ExposureTypes ==
    /\ index \in 0 .. Len(ExpTimes)
    /\ calls \in [Threads -> Seq(CallRecords)]
    /\ DOMAIN message = Threads /\ stored \in [Threads -> 0 .. 3]
    /\ sent \in [Threads -> Seq(Int)] /\ wData \in [1 .. 3 -> Int]
    /\ DOMAIN sensor = Registers

\* The threads take turns at the array.
Turns ==
    /\ isr # "pb" => calls["isr"] = <<>> /\ stored["isr"] = 0
    /\ isr = "pb" => stored["main"] = 0
    /\ \A t \in Threads : IF stored[t] = 0 THEN sent[t] = <<>> ELSE InProgress(t)

Progress ==
    /\ pc \in SettingUp => calls["main"] = <<>>
    /\ pc \in {"softreset"} \cup Loop => powered
    /\ pc \in Loop => Settles(EXPOSURE, Low) /\ Settles(EXPOSURE_HIGH, High)

Exposing == ExposureTypes /\ Turns /\ Progress /\ pc \in SettingUp \cup Loop

\* A press inside a poke() and a refused transfer are for good.
ExposureInv == /\ errors \in Nat /\ clash \in BOOLEAN
               /\ ~clash /\ errors = 0 => Exposing

LEMMA CallBytes ==
  ASSUME NEW m \in CallRecords, NEW v \in Int
  PROVE  LET b == Bytes([m EXCEPT !.val = v])
         IN /\ Len(b) = IF m.op = "peek" THEN 2 ELSE 3
            /\ b[1] = m.addr[1] /\ b[2] = m.addr[2] /\ (m.op = "poke" => b[3] = v)
            /\ b[1] \in Int /\ b[2] \in Int /\ (m.op = "poke" => b[3] \in Int)
<1> DEFINE n == [m EXCEPT !.val = v]
<1>1. n.op = m.op /\ n.addr = m.addr /\ n.val = v /\ m.op \in {"poke", "peek"}
  BY DEF CallRecords
<1>2. PICK x \in Int, y \in Int : m.addr = <<x, y>>
  BY DEF CallRecords
<1>3. Bytes(n) = IF m.op = "peek" THEN <<x, y>> ELSE <<x, y>> \o <<v>>
  BY <1>1, <1>2 DEF Bytes
<1>4. LET q == <<x, y>> \o <<v>> IN Len(q) = 3 /\ q[1] = x /\ q[2] = y /\ q[3] = v
  <2> DEFINE p == <<x, y>>
             u == <<v>>
             q == p \o u
  <2>1. p \in Seq(Int) /\ Len(p) = 2 /\ p[1] = x /\ p[2] = y
    OBVIOUS
  <2>2. u \in Seq(Int) /\ Len(u) = 1 /\ u[1] = v
    OBVIOUS
  <2> HIDE DEF p, u
  <2>3. /\ Len(q) = Len(p) + Len(u)
        /\ \A i \in 1 .. Len(p) + Len(u) : q[i] = IF i <= Len(p) THEN p[i] ELSE u[i - Len(p)]
    BY <2>1, <2>2, ConcatProperties
  <2> HIDE DEF q
  <2>4. Len(q) = 3 /\ q[1] = x /\ q[2] = y /\ q[3] = v
    BY <2>1, <2>2, <2>3
  <2> QED BY <2>4 DEF p, u, q
<1>5. CASE m.op = "peek"
  <2>1. Bytes(n) = <<x, y>>
    BY <1>3, <1>5
  <2> QED BY <1>2, <1>5, <2>1
<1>6. CASE m.op = "poke"
  <2>1. Bytes(n) = <<x, y>> \o <<v>> /\ m.addr[1] = x /\ m.addr[2] = y
    BY <1>2, <1>3, <1>6
  <2> QED BY <1>4, <1>6, <2>1
<1> QED BY <1>1, <1>5, <1>6

\* The first call of a sequence is made.
LEMMA EndsTail ==
  ASSUME NEW s \in Seq(CallRecords), s # <<>>, NEW r, NEW a
  PROVE  /\ Ends(s, r, a) => Ends(Tail(s), r, a) \/ (Head(s) = Poke(r, a) /\ Avoids(Tail(s), r))
         /\ Avoids(s, r) => Head(s).addr # r /\ Avoids(Tail(s), r)
<1>1. /\ Len(s) \in Nat \ {0} /\ Head(s) = s[1] /\ Len(Tail(s)) = Len(s) - 1
      /\ \A i \in 1 .. Len(s) - 1 : Tail(s)[i] = s[i + 1]
  OBVIOUS
<1>2. ASSUME NEW k \in 1 .. Len(s), \A j \in k + 1 .. Len(s) : s[j].addr # r
      PROVE  \A j \in (k - 1) + 1 .. Len(Tail(s)) : Tail(s)[j].addr # r
  <2> SUFFICES ASSUME NEW j \in (k - 1) + 1 .. Len(Tail(s)) PROVE Tail(s)[j].addr # r
    OBVIOUS
  <2>1. j + 1 \in k + 1 .. Len(s) /\ j \in 1 .. Len(s) - 1
    BY <1>1
  <2> QED BY <1>1, <1>2, <2>1
<1>3. ASSUME Ends(s, r, a)
      PROVE  Ends(Tail(s), r, a) \/ (Head(s) = Poke(r, a) /\ Avoids(Tail(s), r))
  <2>1. PICK k \in 1 .. Len(s) : s[k] = Poke(r, a) /\ \A j \in k + 1 .. Len(s) : s[j].addr # r
    BY <1>3 DEF Ends
  <2>2. \A j \in (k - 1) + 1 .. Len(Tail(s)) : Tail(s)[j].addr # r
    BY <1>2, <2>1
  <2>3. CASE k = 1
    BY <1>1, <2>1, <2>2, <2>3 DEF Avoids
  <2>4. CASE k # 1
    <3>1. k - 1 \in 1 .. Len(Tail(s)) /\ Tail(s)[k - 1] = Poke(r, a)
      BY <1>1, <2>1, <2>4
    <3> QED BY <2>2, <3>1 DEF Ends
  <2> QED BY <2>3, <2>4
<1>4. ASSUME Avoids(s, r)
      PROVE  Head(s).addr # r /\ Avoids(Tail(s), r)
  <2>1. \A j \in 1 .. Len(Tail(s)) : j \in 1 .. Len(s) - 1 /\ j + 1 \in 1 .. Len(s)
    BY <1>1
  <2> QED BY <1>1, <1>4, <2>1 DEF Avoids
<1> QED BY <1>3, <1>4

LEMMA EndsConcat ==
  ASSUME NEW s \in Seq(CallRecords), NEW u \in Seq(CallRecords), NEW r, NEW a
  PROVE  /\ s \o u \in Seq(CallRecords)
         /\ Ends(u, r, a) => Ends(s \o u, r, a)
         /\ Ends(s, r, a) /\ Avoids(u, r) => Ends(s \o u, r, a)
<1> DEFINE t == s \o u
           m == Len(s)
           n == Len(u)
<1>1. /\ t \in Seq(CallRecords) /\ Len(t) = m + n /\ m \in Nat /\ n \in Nat
      /\ \A i \in 1 .. m : t[i] = s[i]
      /\ \A i \in 1 .. n : t[m + i] = u[i]
  OBVIOUS
<1> HIDE DEF t
<1>2. \A i \in m + 1 .. m + n : i - m \in 1 .. n /\ t[i] = u[i - m]
  <2> SUFFICES ASSUME NEW i \in m + 1 .. m + n PROVE i - m \in 1 .. n /\ t[i] = u[i - m]
    OBVIOUS
  <2>1. i - m \in 1 .. n /\ m + (i - m) = i
    BY <1>1
  <2> QED BY <1>1, <2>1
<1>3. ASSUME Ends(u, r, a) PROVE Ends(t, r, a)
  <2>1. PICK k \in 1 .. n : u[k] = Poke(r, a) /\ \A j \in k + 1 .. n : u[j].addr # r
    BY <1>3 DEF Ends
  <2>2. m + k \in 1 .. m + n /\ t[m + k] = Poke(r, a)
    BY <1>1, <2>1
  <2>3. \A j \in (m + k) + 1 .. m + n : t[j].addr # r
    <3> SUFFICES ASSUME NEW j \in (m + k) + 1 .. m + n PROVE t[j].addr # r
      OBVIOUS
    <3>1. j \in m + 1 .. m + n /\ j - m \in k + 1 .. n
      BY <1>1
    <3> QED BY <1>2, <2>1, <3>1
  <2> QED BY <1>1, <2>2, <2>3 DEF Ends
<1>4. ASSUME Ends(s, r, a), Avoids(u, r) PROVE Ends(t, r, a)
  <2>1. PICK k \in 1 .. m : s[k] = Poke(r, a) /\ \A j \in k + 1 .. m : s[j].addr # r
    BY <1>4 DEF Ends
  <2>2. k \in 1 .. m + n /\ t[k] = Poke(r, a)
    BY <1>1, <2>1
  <2>3. \A j \in k + 1 .. m + n : t[j].addr # r
    <3> SUFFICES ASSUME NEW j \in k + 1 .. m + n PROVE t[j].addr # r
      OBVIOUS
    <3>1. CASE j <= m
      <4>1. j \in k + 1 .. m /\ j \in 1 .. m
        BY <1>1, <3>1
      <4> QED BY <1>1, <2>1, <4>1
    <3>2. CASE ~(j <= m)
      <4>1. j \in m + 1 .. m + n
        BY <1>1, <3>2
      <4>2. j - m \in 1 .. n /\ t[j] = u[j - m]
        BY <1>2, <4>1
      <4> QED BY <1>4, <4>2 DEF Avoids
    <3> QED BY <3>1, <3>2
  <2> QED BY <1>1, <2>2, <2>3 DEF Ends
<1> QED BY <1>1, <1>3, <1>4 DEF t

LEMMA PokeRecord ==
  ASSUME NEW x \in Int, NEW y \in Int, NEW v \in Int
  PROVE  Poke(<<x, y>>, v) \in CallRecords
BY DEF Poke, CallRecords

\* One and two calls.
LEMMA PairOfCalls ==
  ASSUME NEW c \in CallRecords, NEW d \in CallRecords, NEW r, NEW a
  PROVE  /\ <<c>> \in Seq(CallRecords) /\ <<c, d>> \in Seq(CallRecords)
         /\ c.addr # r => Avoids(<<c>>, r)
         /\ c.addr # r /\ d.addr # r => Avoids(<<c, d>>, r)
         /\ d = Poke(r, a) \/ (c = Poke(r, a) /\ d.addr # r) => Ends(<<c, d>>, r, a)
<1>1. <<c>> \in Seq(CallRecords) /\ <<c, d>> \in Seq(CallRecords)
  OBVIOUS
<1>2. c.addr # r => Avoids(<<c>>, r)
  BY DEF Avoids
<1>3. c.addr # r /\ d.addr # r => Avoids(<<c, d>>, r)
  BY DEF Avoids
<1> DEFINE p == <<c, d>>
<1>4. Len(p) = 2 /\ p[1] = c /\ p[2] = d
  OBVIOUS
<1> HIDE DEF p
<1>5. ASSUME d = Poke(r, a) PROVE Ends(p, r, a)
  <2>1. 2 \in 1 .. Len(p) /\ p[2] = Poke(r, a) /\ \A j \in 2 + 1 .. Len(p) : p[j].addr # r
    BY <1>4, <1>5
  <2> QED BY <2>1 DEF Ends
<1>6. ASSUME c = Poke(r, a), d.addr # r PROVE Ends(p, r, a)
  <2>1. 1 \in 1 .. Len(p) /\ p[1] = Poke(r, a)
    BY <1>4, <1>6
  <2>2. \A j \in 1 + 1 .. Len(p) : j = 2
    BY <1>4
  <2> QED BY <2>1, <2>2, <1>4, <1>6 DEF Ends
<1> QED BY <1>1, <1>2, <1>3, <1>5, <1>6 DEF p

LEMMA ExposureCalls ==
  /\ SetExposure \in Seq(CallRecords)
  /\ Ends(SetExposure, EXPOSURE, Low) /\ Ends(SetExposure, EXPOSURE_HIGH, High)
<1>1. /\ Poke(EXPOSURE, Low) \in CallRecords /\ Poke(EXPOSURE_HIGH, High) \in CallRecords
      /\ Poke(EXPOSURE, Low).addr = EXPOSURE /\ Poke(EXPOSURE_HIGH, High).addr = EXPOSURE_HIGH
      /\ EXPOSURE # EXPOSURE_HIGH
  BY PokeRecord DEF Poke, EXPOSURE, EXPOSURE_HIGH, Low, High
<1> QED BY <1>1, PairOfCalls DEF SetExposure

\* The pokes of init_MIRA220() end with the exposure, but for the two that start the sensor.
SetUpCalls == (<<Poke(SOFT_RESET, 1), Poke(SOFT_RESET, 0)>> \o Table) \o SetExposure
                 \o <<Poke(IMAGER_STATE, 16), Poke(IMAGER_RUN, 1)>>

LEMMA SetUpEnds ==
  /\ SetUpCalls \in Seq(CallRecords)
  /\ Ends(SetUpCalls, EXPOSURE, Low) /\ Ends(SetUpCalls, EXPOSURE_HIGH, High)
<1> DEFINE first == <<Poke(SOFT_RESET, 1), Poke(SOFT_RESET, 0)>>
           start == <<Poke(IMAGER_STATE, 16), Poke(IMAGER_RUN, 1)>>
<1>1. first \in Seq(CallRecords)
  BY PokeRecord, PairOfCalls DEF SOFT_RESET
<1>2. Table \in Seq(CallRecords)
  <2>1. InitialUpload \in Seq(CallRecords)
    BY PokeRecord, PairOfCalls DEF InitialUpload, IMAGER_STATE
  <2>2. ReadoutAndExposure \in Seq(CallRecords)
    BY PokeRecord, PairOfCalls DEF ReadoutAndExposure, EXPOSURE, EXPOSURE_HIGH
  <2>3. MipiDatarate \in Seq(CallRecords)
    BY PokeRecord, PairOfCalls DEF MipiDatarate, SOFT_RESET
  <2>4. TestPatternOff \in Seq(CallRecords)
    BY PokeRecord, PairOfCalls DEF TestPatternOff, TEST_PATTERN
  <2> QED BY <2>1, <2>2, <2>3, <2>4, EndsConcat DEF Table
<1>3. /\ start \in Seq(CallRecords)
      /\ Avoids(start, EXPOSURE) /\ Avoids(start, EXPOSURE_HIGH)
  <2>1. /\ Poke(IMAGER_STATE, 16) \in CallRecords /\ Poke(IMAGER_RUN, 1) \in CallRecords
        /\ Poke(IMAGER_STATE, 16).addr = IMAGER_STATE /\ Poke(IMAGER_RUN, 1).addr = IMAGER_RUN
    BY PokeRecord DEF Poke, IMAGER_STATE, IMAGER_RUN
  <2>2. /\ IMAGER_STATE # EXPOSURE /\ IMAGER_RUN # EXPOSURE
        /\ IMAGER_STATE # EXPOSURE_HIGH /\ IMAGER_RUN # EXPOSURE_HIGH
    BY DEF EXPOSURE, EXPOSURE_HIGH, IMAGER_STATE, IMAGER_RUN
  <2> QED BY <2>1, <2>2, PairOfCalls
<1> HIDE DEF first, start
<1>4. first \o Table \in Seq(CallRecords)
  BY <1>1, <1>2, EndsConcat
<1>5. /\ (first \o Table) \o SetExposure \in Seq(CallRecords)
      /\ Ends((first \o Table) \o SetExposure, EXPOSURE, Low)
      /\ Ends((first \o Table) \o SetExposure, EXPOSURE_HIGH, High)
  BY <1>4, ExposureCalls, EndsConcat
<1> QED BY <1>3, <1>5, EndsConcat DEF SetUpCalls, first, start

LEMMA TimesOfExposure ==
  /\ Len(ExpTimes) \in Nat /\ StartIndex \in 0 .. Len(ExpTimes) /\ Beyond \in Int
  /\ \A i \in 1 .. Len(ExpTimes) : ExpTimes[i] \in Int
<1>1. ExpTimes \in Seq(Word) /\ Beyond \in Word /\ StartIndex \in 0 .. Len(ExpTimes)
  BY CameraAssumption DEF CameraAssumption
<1>2. \A v \in Word : v \in Int
  BY DEF Word
<1>3. Len(ExpTimes) \in Nat /\ \A i \in 1 .. Len(ExpTimes) : ExpTimes[i] \in Word
  BY <1>1
<1> QED BY <1>1, <1>2, <1>3

LEMMA ValueInt ==
  ASSUME index \in 0 .. Len(ExpTimes), NEW v \in Int
  PROVE  Value(v) \in Int
<1>1. exp_time(index) \in Int
  BY TimesOfExposure DEF exp_time
<1>2. exp_time(index) % 256 \in Int /\ exp_time(index) \div 256 \in Int
  BY <1>1
<1> QED BY <1>2 DEF Value

\* Nothing that matters to the exposure moves.
LEMMA StillExposing ==
  ASSUME Exposing, UNCHANGED <<index, calls, message, stored, sent, wData, sensor>>,
         isr' = isr \/ (isr # "pb" /\ isr' # "pb"), pc' \in SettingUp \cup Loop,
         pc' \in SettingUp => pc \in SettingUp,
         pc' \in {"softreset"} \cup Loop => powered',
         pc' \in Loop => pc \in Loop
  PROVE  Exposing'
<1>1. ExposureTypes' /\ Turns'
  BY DEF Exposing, ExposureTypes, Turns, InProgress, Value, exp_time
<1>2. Progress'
  BY DEF Exposing, Progress, Settles, Value, exp_time
<1> QED BY <1>1, <1>2 DEF Exposing

\* Calls are made out while none is in progress.
LEMMA BetweenCalls ==
  ASSUME Exposing, stored["main"] = 0, stored["isr"] = 0,
         UNCHANGED <<message, stored, sent, wData, sensor>>,
         index' \in 0 .. Len(ExpTimes), calls' \in [Threads -> Seq(CallRecords)],
         isr' # "pb" => calls'["isr"] = <<>>, pc' \in SettingUp \cup Loop,
         pc' \in SettingUp => calls'["main"] = <<>>,
         pc' \in {"softreset"} \cup Loop => powered',
         pc' \in Loop => Settles(EXPOSURE, Low)' /\ Settles(EXPOSURE_HIGH, High)'
  PROVE  Exposing'
<1>1. ExposureTypes'
  BY DEF Exposing, ExposureTypes
<1>2. Turns'
  BY DEF Exposing, Turns, Threads
<1>3. Progress'
  BY DEF Progress
<1> QED BY <1>1, <1>2, <1>3 DEF Exposing

\* Between two calls of main() nothing is in progress.
LEMMA NothingInProgress ==
  ASSUME Exposing, isr # "pb", calls["main"] = <<>>
  PROVE  /\ calls["isr"] = <<>> /\ stored["main"] = 0 /\ stored["isr"] = 0
         /\ pc \in Loop => /\ sensor[EXPOSURE] = Value(Low)
                           /\ sensor[EXPOSURE_HIGH] = Value(High)
<1>1. calls["isr"] = <<>> /\ stored["isr"] = 0
  BY DEF Exposing, Turns
<1>2. stored["main"] = 0
  BY DEF Exposing, Turns, InProgress, Threads
<1>3. \A r, a : ~Ends(<<>>, r, a)
  BY DEF Ends
<1> QED BY <1>1, <1>2, <1>3 DEF Exposing, Progress, Settles

LEMMA SetUpStep ==
  ASSUME Exposing, Boot
  PROVE  Exposing'
<1> USE DEF SettingUp, Loop
<1>0. isr = "none" /\ isr' = isr /\ calls["main"] = <<>>
  BY DEF Boot, ResetSensor, SetIndex, EnableButton, StartFramesEarly, Pipeline, SetUp,
     RegisterVfw, Initialised, Main
<1>1. calls["isr"] = <<>> /\ stored["main"] = 0 /\ stored["isr"] = 0
  BY <1>0, NothingInProgress
<1>2. CASE ResetSensor \/ EnableButton \/ StartFramesEarly \/ RegisterVfw \/ Initialised
  <2>1. UNCHANGED <<index, calls, message, stored, sent, wData, sensor>>
    BY <1>2 DEF ResetSensor, EnableButton, StartFramesEarly, RegisterVfw, Initialised, i2c
  <2>2. CASE ResetSensor
    BY <1>0, <2>1, <2>2, StillExposing DEF ResetSensor, Main
  <2>3. CASE EnableButton \/ StartFramesEarly
    BY <1>0, <2>1, <2>3, StillExposing DEF EnableButton, StartFramesEarly, Main
  <2>4. CASE RegisterVfw \/ Initialised
    <3>1. powered /\ powered' = powered
      BY <2>4 DEF RegisterVfw, Initialised, Main, Exposing, Progress
    <3> QED BY <1>0, <2>1, <2>4, <3>1, StillExposing DEF RegisterVfw, Initialised, Main
  <2> QED BY <1>2, <2>2, <2>3, <2>4
<1>3. CASE SetIndex
  <2>1. /\ index' \in 0 .. Len(ExpTimes) /\ pc' \in {"buttons", "frames"}
        /\ UNCHANGED <<calls, message, stored, sent, wData, sensor>>
    BY <1>3, TimesOfExposure DEF SetIndex, Main, i2c
  <2>2. calls' \in [Threads -> Seq(CallRecords)]
    BY <2>1 DEF Exposing, ExposureTypes
  <2> QED BY <1>0, <1>1, <2>1, <2>2, BetweenCalls
<1>4. CASE Pipeline
  <2>1. /\ powered' /\ pc = "pipeline" /\ pc' = "softreset"
        /\ UNCHANGED <<index, calls, message, stored, sent, wData, sensor>>
    BY <1>4 DEF Pipeline, Main, i2c
  <2> QED BY <1>0, <2>1, StillExposing
<1>5. CASE SetUp
  <2>1. /\ pc = "softreset" /\ pc' = "register" /\ powered' = powered /\ index' = index
        /\ UNCHANGED <<message, stored, sent, wData, sensor>>
        /\ calls' = [calls EXCEPT !["main"] = SetUpCalls]
    BY <1>5 DEF SetUp, Main, Calls, SetUpCalls
  <2>2. /\ calls' \in [Threads -> Seq(CallRecords)]
        /\ calls'["main"] = SetUpCalls /\ calls'["isr"] = <<>>
    BY <1>1, <2>1, SetUpEnds DEF Exposing, ExposureTypes, Threads
  <2>3. powered /\ index' \in 0 .. Len(ExpTimes)
    BY <2>1 DEF Exposing, Progress, ExposureTypes
  <2>4. Settles(EXPOSURE, Low)' /\ Settles(EXPOSURE_HIGH, High)'
    BY <2>2, SetUpEnds DEF Settles
  <2> QED BY <1>0, <1>1, <2>1, <2>2, <2>3, <2>4, BetweenCalls
<1> QED BY <1>2, <1>3, <1>4, <1>5 DEF Boot

LEMMA CommandStep ==
  ASSUME Exposing, Commands \/ V_Slept \/ V_Restart \/ AccessCnn
  PROVE  Exposing'
<1> USE DEF SettingUp, Loop
<1>1. CASE AccessCnn
  <2>1. UNCHANGED <<index, calls, message, stored, sent, wData, sensor, pc, isr, powered>>
    BY <1>1 DEF AccessCnn, i2c
  <2> QED BY <2>1, StillExposing DEF Exposing, Progress
<1>2. CASE ShowOutputs \/ V_Stop \/ V_Slept \/ V_Restart
  <2>1. /\ UNCHANGED <<index, calls, message, stored, sent, wData, sensor, isr, powered>>
        /\ pc \in Loop /\ pc' \in Loop
    BY <1>2 DEF ShowOutputs, V_Stop, V_Slept, V_Restart, Command, Main, i2c
  <2>2. powered
    BY <2>1 DEF Exposing, Progress
  <2> QED BY <2>1, <2>2, StillExposing
<1>3. CASE TestPattern \/ Status \/ Increase \/ Decrease
  <2>1. /\ isr = "none" /\ isr' = isr /\ calls["main"] = <<>> /\ pc = "loop" /\ pc' = "loop"
        /\ UNCHANGED <<message, stored, sent, wData, sensor, powered>>
    BY <1>3 DEF TestPattern, Status, Increase, Decrease, Command, Main, Calls
  <2>2. /\ calls["isr"] = <<>> /\ stored["main"] = 0 /\ stored["isr"] = 0
        /\ sensor[EXPOSURE] = Value(Low) /\ sensor[EXPOSURE_HIGH] = Value(High) /\ powered
    BY <2>1, NothingInProgress DEF Exposing, Progress
  <2>3. index \in 0 .. Len(ExpTimes) /\ Len(ExpTimes) \in Nat
    BY TimesOfExposure DEF Exposing, ExposureTypes
  <2>4. ASSUME NEW s \in Seq(CallRecords), calls' = [calls EXCEPT !["main"] = s]
        PROVE  /\ calls' \in [Threads -> Seq(CallRecords)]
               /\ calls'["main"] = s /\ calls'["isr"] = <<>>
    BY <2>2, <2>4 DEF Exposing, ExposureTypes, Threads
  <2>5. ASSUME NEW s \in Seq(CallRecords), calls' = [calls EXCEPT !["main"] = s], index' = index,
               Avoids(s, EXPOSURE), Avoids(s, EXPOSURE_HIGH)
        PROVE  Exposing'
    <3>1. Avoids(<<>>, EXPOSURE) /\ Avoids(<<>>, EXPOSURE_HIGH)
      BY DEF Avoids
    <3>2. Settles(EXPOSURE, Low)' /\ Settles(EXPOSURE_HIGH, High)'
      BY <2>1, <2>2, <2>4, <2>5, <3>1 DEF Settles, Value, exp_time
    <3> QED BY <2>1, <2>2, <2>3, <2>4, <2>5, <3>2, BetweenCalls
  <2>6. CASE TestPattern
    <3>1. PICK v \in {17, 0} : calls' = [calls EXCEPT !["main"] = <<Poke(TEST_PATTERN, v)>>]
                               /\ index' = index
      BY <2>6 DEF TestPattern, Calls
    <3>2. Poke(TEST_PATTERN, v) \in CallRecords /\ Poke(TEST_PATTERN, v).addr = TEST_PATTERN
      BY PokeRecord DEF Poke, TEST_PATTERN
    <3>3. TEST_PATTERN # EXPOSURE /\ TEST_PATTERN # EXPOSURE_HIGH
      BY DEF TEST_PATTERN, EXPOSURE, EXPOSURE_HIGH
    <3> QED BY <2>5, <3>1, <3>2, <3>3, PairOfCalls
  <2>7. CASE Status
    <3> DEFINE s == <<Peek(<<0, 29>>), Peek(IMAGER_STATE), Peek(IMAGER_RUN)>>
    <3>1. calls' = [calls EXCEPT !["main"] = s] /\ index' = index
      BY <2>7 DEF Status, Calls
    <3>2. s \in Seq(CallRecords)
      BY DEF Peek, CallRecords, IMAGER_STATE, IMAGER_RUN
    <3>3. Avoids(s, EXPOSURE) /\ Avoids(s, EXPOSURE_HIGH)
      <4>1. Len(s) = 3 /\ s[1].addr = <<0, 29>> /\ s[2].addr = IMAGER_STATE /\ s[3].addr = IMAGER_RUN
        BY DEF Peek
      <4>2. \A i \in 1 .. 3 : i = 1 \/ i = 2 \/ i = 3
        OBVIOUS
      <4> HIDE DEF s
      <4> QED BY <4>1, <4>2 DEF Avoids, EXPOSURE, EXPOSURE_HIGH, IMAGER_STATE, IMAGER_RUN
    <3> HIDE DEF s
    <3> QED BY <2>5, <3>1, <3>2, <3>3
  <2>8. CASE Increase \/ Decrease
    <3>1. calls' = [calls EXCEPT !["main"] = SetExposure] /\ index' \in 0 .. Len(ExpTimes)
      BY <2>3, <2>8 DEF Increase, Decrease, Calls
    <3>2. Settles(EXPOSURE, Low)' /\ Settles(EXPOSURE_HIGH, High)'
      BY <2>4, <3>1, ExposureCalls DEF Settles
    <3> QED BY <2>1, <2>2, <2>4, <3>1, <3>2, ExposureCalls, BetweenCalls
  <2> QED BY <1>3, <2>6, <2>7, <2>8
<1> QED BY <1>1, <1>2, <1>3 DEF Commands

LEMMA HandlerStep ==
  ASSUME Exposing, ~clash',
         Handlers \/ Press \/ FrameStarts \/ FrameEnds \/ UNCHANGED vars
  PROVE  Exposing'
<1> USE DEF SettingUp, Loop
<1>1. CASE PB_Pressed
  <2>1. /\ isr = "debounce" /\ isr' = "pb" /\ index' = NextIndex /\ stored["main"] = 0
        /\ calls' = [calls EXCEPT !["isr"] = SetExposure]
        /\ UNCHANGED <<pc, message, stored, sent, wData, sensor, powered>>
    <3>1. stored["main"] \in 0 .. 3 /\ ~(stored["main"] > 0)
      BY <1>1 DEF PB_Pressed, Exposing, ExposureTypes, Threads
    <3> QED BY <1>1, <3>1 DEF PB_Pressed
  <2>2. stored["isr"] = 0
    BY <2>1 DEF Exposing, Turns
  <2>3. index' \in 0 .. Len(ExpTimes)
    BY <2>1, TimesOfExposure DEF NextIndex, Exposing, ExposureTypes
  <2>4. /\ calls' \in [Threads -> Seq(CallRecords)]
        /\ calls'["isr"] = SetExposure /\ calls'["main"] = calls["main"]
    BY <2>1, ExposureCalls DEF Exposing, ExposureTypes, Threads
  <2>5. pc' \in Loop => Settles(EXPOSURE, Low)' /\ Settles(EXPOSURE_HIGH, High)'
    BY <2>1, <2>4, ExposureCalls DEF Exposing, Progress, Settles
  <2>6. pc' \in SettingUp => calls'["main"] = <<>>
    BY <2>1, <2>4 DEF Exposing, Progress
  <2>7. pc' \in SettingUp \cup Loop /\ (pc' \in {"softreset"} \cup Loop => powered')
    BY <2>1 DEF Exposing, Progress
  <2> QED BY <2>1, <2>2, <2>3, <2>4, <2>5, <2>6, <2>7, BetweenCalls
<1>2. CASE PB_Return
  <2>1. /\ isr = "pb" /\ isr' = "none" /\ calls["isr"] = <<>>
        /\ UNCHANGED <<pc, index, calls, message, stored, sent, wData, sensor, powered>>
    BY <1>2 DEF PB_Return, i2c
  <2>2. stored["main"] = 0 /\ stored["isr"] = 0
    BY <2>1 DEF Exposing, Turns, InProgress, Threads
  <2>3. ExposureTypes' /\ Turns'
    BY <2>1, <2>2 DEF Exposing, ExposureTypes, Turns, Threads
  <2>4. Progress'
    BY <2>1 DEF Exposing, Progress, Settles, Value, exp_time
  <2> QED BY <2>1, <2>3, <2>4 DEF Exposing
<1>3. CASE PB_Enter \/ PB_Bounced \/ VFW_Blue \/ VFW_Acknowledge \/ VFW_Clear
  <2>1. /\ isr # "pb" /\ isr' # "pb"
        /\ UNCHANGED <<pc, index, calls, message, stored, sent, wData, sensor, powered>>
    BY <1>3 DEF PB_Enter, PB_Bounced, VFW_Blue, VFW_Acknowledge, VFW_Clear, i2c
  <2> QED BY <2>1, StillExposing DEF Exposing, Progress
<1>4. CASE Press \/ FrameStarts \/ FrameEnds \/ UNCHANGED vars
  <2>1. UNCHANGED <<pc, isr, index, calls, message, stored, sent, wData, sensor, powered>>
    BY <1>4 DEF Press, FrameStarts, FrameEnds, vars, i2c
  <2> QED BY <2>1, StillExposing DEF Exposing, Progress
<1> QED BY <1>1, <1>2, <1>3, <1>4 DEF Handlers

\* The call that a thread makes: its message has the argument's value in it.
LEMMA CallMade ==
  ASSUME Exposing, NEW t \in Threads, calls[t] # <<>>
  PROVE  LET c == Head(calls[t])
             b == Bytes([c EXCEPT !.val = Value(@)])
         IN /\ calls[t] \in Seq(CallRecords) /\ c \in CallRecords /\ Value(c.val) \in Int
            /\ Tail(calls[t]) \in Seq(CallRecords)
            /\ Len(b) \in 2 .. 3 /\ \A k \in 1 .. Len(b) : b[k] \in Int
            /\ c.addr = <<b[1], b[2]>> /\ (c.op = "poke" => Len(b) = 3 /\ b[3] = Value(c.val))
<1> DEFINE c == Head(calls[t])
           b == Bytes([c EXCEPT !.val = Value(c.val)])
<1>1. calls[t] \in Seq(CallRecords)
  BY DEF Exposing, ExposureTypes
<1>2. c \in CallRecords /\ Tail(calls[t]) \in Seq(CallRecords)
  BY <1>1
<1> HIDE DEF c
<1>3. c.val \in Int /\ c.op \in {"poke", "peek"} /\ c.addr = <<c.addr[1], c.addr[2]>>
  BY <1>2 DEF CallRecords
<1>4. Value(c.val) \in Int
  BY <1>3, ValueInt DEF Exposing, ExposureTypes
<1>5. /\ Len(b) = IF c.op = "peek" THEN 2 ELSE 3
      /\ b[1] = c.addr[1] /\ b[2] = c.addr[2] /\ (c.op = "poke" => b[3] = Value(c.val))
      /\ b[1] \in Int /\ b[2] \in Int /\ (c.op = "poke" => b[3] \in Int)
  BY <1>2, <1>4, CallBytes
<1> HIDE DEF b
<1>6. Len(b) \in 2 .. 3 /\ \A k \in 1 .. Len(b) : b[k] \in Int
  <2>1. Len(b) \in 2 .. 3
    BY <1>3, <1>5
  <2>2. ASSUME NEW k \in 1 .. Len(b) PROVE b[k] \in Int
    <3>1. k = 1 \/ k = 2 \/ (k = 3 /\ c.op = "poke")
      BY <1>3, <1>5
    <3> QED BY <1>5, <3>1
  <2> QED BY <2>1, <2>2
<1> QED BY <1>1, <1>2, <1>3, <1>4, <1>5, <1>6 DEF c, b

\* While one thread is in a call, the other is not.
LEMMA OneCall ==
  ASSUME Exposing, NEW t \in Threads, InCall(t), NEW u \in Threads, u # t
  PROVE  stored[u] = 0 /\ sent[u] = <<>> /\ (t = "main" => isr = "none" /\ calls["isr"] = <<>>)
<1>1. \/ t = "main" /\ u = "isr" /\ isr = "none"
      \/ t = "isr" /\ u = "main" /\ isr = "pb"
  BY DEF Threads, InCall, Runs
<1> QED BY <1>1 DEF Exposing, Turns

\* A call is over, done or not.
LEMMA CallEnds ==
  ASSUME Exposing, NEW t \in Threads, InCall(t), EndCall(t),
         UNCHANGED <<pc, isr, index, powered, wData>>, DOMAIN sensor' = Registers,
         pc \in Loop => Settles(EXPOSURE, Low)' /\ Settles(EXPOSURE_HIGH, High)'
  PROVE  Exposing'
<1>1. /\ Tail(calls[t]) \in Seq(CallRecords) /\ calls[t] # <<>>
      /\ \A u \in Threads : u # t => stored[u] = 0 /\ sent[u] = <<>>
      /\ t = "main" => isr = "none" /\ calls["isr"] = <<>>
  <2>1. Tail(calls[t]) \in Seq(CallRecords) /\ calls[t] # <<>>
    BY CallMade DEF InCall
  <2>2. \A u \in Threads : u # t => stored[u] = 0 /\ sent[u] = <<>>
    BY OneCall
  <2>3. t = "main" => isr = "none" /\ calls["isr"] = <<>>
    BY OneCall DEF Threads
  <2> QED BY <2>1, <2>2, <2>3
<1>2. /\ calls' = [calls EXCEPT ![t] = Tail(@)] /\ message' = [message EXCEPT ![t] = Nothing]
      /\ stored' = [stored EXCEPT ![t] = 0] /\ sent' = [sent EXCEPT ![t] = <<>>]
  BY DEF EndCall
<1>3. ExposureTypes'
  <2>1. calls' \in [Threads -> Seq(CallRecords)]
    BY <1>1, <1>2 DEF Exposing, ExposureTypes
  <2>2. DOMAIN message' = Threads /\ stored' \in [Threads -> 0 .. 3]
    BY <1>2 DEF Exposing, ExposureTypes
  <2>3. sent' \in [Threads -> Seq(Int)]
    BY <1>2 DEF Exposing, ExposureTypes
  <2> QED BY <2>1, <2>2, <2>3 DEF Exposing, ExposureTypes
<1>4. \A u \in Threads : stored'[u] = 0 /\ sent'[u] = <<>>
  BY <1>1, <1>2 DEF Exposing, ExposureTypes
<1>5. t = "main" \/ calls'["main"] = calls["main"]
  BY <1>2 DEF Exposing, ExposureTypes, Threads
<1>6. isr # "pb" => calls'["isr"] = <<>>
  <2> SUFFICES ASSUME isr # "pb" PROVE calls'["isr"] = <<>>
    OBVIOUS
  <2>1. t = "main" /\ calls["isr"] = <<>>
    BY <1>1 DEF Threads, InCall, Runs
  <2> QED BY <1>2, <2>1 DEF Exposing, ExposureTypes, Threads
<1>7. Turns'
  BY <1>4, <1>6 DEF Turns, Threads
<1>8. pc \in SettingUp => calls'["main"] = <<>>
  BY <1>1, <1>5 DEF Exposing, Progress
<1>9. Progress'
  BY <1>8 DEF Exposing, Progress
<1> QED BY <1>3, <1>7, <1>9 DEF Exposing

LEMMA StoreStep ==
  ASSUME Exposing, NEW t \in Threads, Store(t), UNCHANGED <<pc, isr, index, powered>>
  PROVE  Exposing'
<1> DEFINE c == Head(calls[t])
           d == [c EXCEPT !.val = Value(@)]
           b == Bytes(d)
           n == stored[t] + 1
<1>1. InCall(t) /\ calls[t] # <<>>
  BY DEF Store, InCall
<1>2. /\ Len(b) \in 2 .. 3 /\ \A k \in 1 .. Len(b) : b[k] \in Int
      /\ \A u \in Threads : u # t => stored[u] = 0 /\ sent[u] = <<>>
  BY <1>1, CallMade, OneCall
<1>3. /\ stored[t] = 0 \/ sent[t] = <<>> \/ stored[t] = Len(b)
      /\ stored[t] = 0 => sent[t] = <<>>
      /\ stored[t] # 0 => InProgress(t)
  BY DEF Exposing, Turns, InProgress
<1>4. stored[t] # 0 => message[t] = d
  BY <1>3 DEF InProgress
<1>5. /\ n <= Len(b) /\ message' = [message EXCEPT ![t] = d] /\ stored' = [stored EXCEPT ![t] = n]
      /\ wData' = [wData EXCEPT ![n] = b[n]] /\ UNCHANGED <<calls, sent, sensor>>
  BY <1>4 DEF Store
<1> HIDE DEF b
<1>6. stored[t] \in 0 .. 3 /\ n \in 1 .. Len(b) /\ n \in 1 .. 3 /\ n # 0 /\ b[n] \in Int
  <2>1. stored[t] \in 0 .. 3
    BY DEF Exposing, ExposureTypes
  <2> QED BY <1>2, <1>5, <2>1
<1>7. sent[t] = <<>>
  BY <1>3, <1>5, <1>6, <1>2
<1>8. \A k \in 1 .. stored[t] : wData[k] = b[k]
  BY <1>3, <1>4, <1>6 DEF InProgress, b
<1> HIDE DEF d
<1>9. ExposureTypes'
  <2>1. stored' \in [Threads -> 0 .. 3] /\ DOMAIN message' = Threads
    BY <1>5, <1>6 DEF Exposing, ExposureTypes
  <2>2. wData' \in [1 .. 3 -> Int]
    BY <1>5, <1>6 DEF Exposing, ExposureTypes
  <2> QED BY <1>5, <2>1, <2>2 DEF Exposing, ExposureTypes
<1>10. /\ message'[t] = d /\ stored'[t] = n
       /\ \A u \in Threads : u # t => stored'[u] = 0 /\ sent'[u] = <<>>
  BY <1>2, <1>5 DEF Exposing, ExposureTypes
<1>11. \A k \in 1 .. n : wData'[k] = b[k]
  <2> SUFFICES ASSUME NEW k \in 1 .. n PROVE wData'[k] = b[k]
    OBVIOUS
  <2>1. k \in 1 .. 3 /\ (k = n \/ k \in 1 .. stored[t])
    BY <1>6
  <2> QED BY <1>5, <1>8, <2>1 DEF Exposing, ExposureTypes
<1>12. InProgress(t)'
  <2>1. Value(c.val)' = Value(c.val) /\ c' = c
    BY <1>5 DEF Value, exp_time
  <2>2. d' = d
    BY <2>1 DEF d
  <2>3. message'[t] = d' /\ Bytes(message[t])' = b
    BY <1>10, <2>2 DEF b, Bytes
  <2>4. calls'[t] # <<>> /\ Len(sent'[t]) = 0 /\ sent'[t] = <<>>
    BY <1>1, <1>5, <1>7
  <2>5. 0 <= Len(b) /\ stored'[t] <= Len(b)
    BY <1>2, <1>5, <1>10
  <2> QED BY <1>10, <1>11, <2>3, <2>4, <2>5 DEF InProgress, d
<1>13. Turns'
  <2>1. /\ isr # "pb" => calls'["isr"] = <<>> /\ stored'["isr"] = 0
        /\ isr = "pb" => stored'["main"] = 0
    BY <1>1, <1>5, <1>10 DEF Exposing, Turns, InCall, Runs, Threads
  <2>2. \A u \in Threads : IF stored'[u] = 0 THEN sent'[u] = <<>> ELSE InProgress(u)'
    BY <1>6, <1>10, <1>12
  <2> QED BY <2>1, <2>2 DEF Turns
<1>14. Progress'
  BY <1>5 DEF Exposing, Progress, Settles, Value, exp_time
<1> QED BY <1>9, <1>13, <1>14 DEF Exposing

LEMMA SendStep ==
  ASSUME Exposing, NEW t \in Threads, TxByte(t), UNCHANGED <<pc, isr, index, powered>>
  PROVE  Exposing'
<1> DEFINE b == Bytes(message[t])
           n == Len(sent[t]) + 1
<1>1. InCall(t) /\ calls[t] # <<>> /\ stored[t] # 0 /\ ~(stored[t] < Len(b)) /\ ~(Len(sent[t]) = Len(b))
  BY DEF TxByte, Sending, Storing, Taken, InCall
<1>2. InProgress(t)
  BY <1>1 DEF Exposing, Turns
<1>3. /\ Len(b) \in 2 .. 3 /\ \A k \in 1 .. Len(b) : b[k] \in Int
      /\ \A u \in Threads : u # t => stored[u] = 0 /\ sent[u] = <<>>
  BY <1>1, <1>2, CallMade, OneCall DEF InProgress
<1>4. sent[t] \in Seq(Int) /\ stored[t] \in 0 .. 3 /\ Len(sent[t]) \in Nat
  BY DEF Exposing, ExposureTypes
<1>5. /\ stored[t] <= Len(b) /\ \A k \in 1 .. stored[t] : wData[k] = b[k]
      /\ Len(sent[t]) <= Len(b) /\ \A k \in 1 .. Len(sent[t]) : sent[t][k] = b[k]
  BY <1>2 DEF InProgress
<1>6. /\ sent' = [sent EXCEPT ![t] = Append(@, wData[n])]
      /\ UNCHANGED <<calls, message, stored, wData, sensor>>
  BY DEF TxByte
<1> HIDE DEF b
<1>7. stored[t] = Len(b) /\ n \in 1 .. Len(b) /\ wData[n] = b[n] /\ wData[n] \in Int
  <2>1. stored[t] = Len(b) /\ n \in 1 .. Len(b)
    BY <1>1, <1>3, <1>4, <1>5
  <2> QED BY <1>3, <1>5, <2>1
<1> DEFINE q == Append(sent[t], wData[n])
<1>8. /\ q \in Seq(Int) /\ Len(q) = n /\ q # <<>>
      /\ \A k \in 1 .. n : q[k] = b[k]
  <2>1. /\ q \in Seq(Int) /\ Len(q) = n /\ q[n] = wData[n] /\ q # <<>>
        /\ \A k \in 1 .. Len(sent[t]) : q[k] = sent[t][k]
    BY <1>4, <1>7
  <2> HIDE DEF q
  <2>2. \A k \in 1 .. n : k = n \/ k \in 1 .. Len(sent[t])
    BY <1>4
  <2> QED BY <1>5, <1>7, <2>1, <2>2
<1> HIDE DEF q
<1>9. /\ sent' \in [Threads -> Seq(Int)] /\ sent'[t] = q
      /\ \A u \in Threads : u # t => sent'[u] = <<>>
  <2>1. sent' = [sent EXCEPT ![t] = q]
    BY <1>6 DEF q
  <2> QED BY <1>3, <1>8, <2>1 DEF Exposing, ExposureTypes
<1>10. ExposureTypes'
  BY <1>6, <1>9 DEF Exposing, ExposureTypes
<1>11. InProgress(t)'
  <2> DEFINE c == Head(calls[t])
             d == [c EXCEPT !.val = Value(@)]
  <2>1. message'[t] = d'
    <3>1. message[t] = d
      BY <1>2 DEF InProgress
    <3>2. Value(c.val)' = Value(c.val) /\ c' = c
      BY <1>6 DEF Value, exp_time
    <3> HIDE DEF c
    <3>3. d' = d
      BY <3>2
    <3> QED BY <1>6, <3>1, <3>3
  <2> HIDE DEF d
  <2>2. Bytes(message[t])' = b
    BY <1>6 DEF b, Bytes
  <2>3. Len(sent'[t]) <= Len(b) /\ \A k \in 1 .. Len(sent'[t]) : sent'[t][k] = b[k]
    BY <1>7, <1>8, <1>9, <1>3
  <2>4. calls'[t] # <<>> /\ stored'[t] = Len(b) /\ \A k \in 1 .. stored'[t] : wData'[k] = b[k]
    BY <1>1, <1>5, <1>6, <1>7
  <2>5. Len(b) <= Len(b)
    BY <1>3
  <2> QED BY <2>1, <2>2, <2>3, <2>4, <2>5 DEF InProgress, d
<1>12. Turns'
  <2>1. \A u \in Threads : IF stored'[u] = 0 THEN sent'[u] = <<>> ELSE InProgress(u)'
    BY <1>1, <1>3, <1>6, <1>9, <1>11
  <2> QED BY <1>6, <2>1 DEF Exposing, Turns
<1>13. Progress'
  BY <1>6 DEF Exposing, Progress, Settles, Value, exp_time
<1> QED BY <1>10, <1>12, <1>13 DEF Exposing

LEMMA DoneStep ==
  ASSUME Exposing, NEW t \in Threads, TxDone(t), UNCHANGED <<pc, isr, index, powered>>
  PROVE  Exposing'
<1> DEFINE c == Head(calls[t])
           b == Bytes(message[t])
           p == <<sent[t][1], sent[t][2]>>
<1>1. /\ InCall(t) /\ calls[t] # <<>> /\ stored[t] # 0 /\ Len(sent[t]) = Len(b)
      /\ EndCall(t) /\ wData' = wData
      /\ \/ /\ message[t].op = "poke"
            /\ sensor' = IF p \in Registers THEN [sensor EXCEPT ![p] = sent[t][3]] ELSE sensor
         \/ message[t].op = "peek" /\ UNCHANGED sensor
  BY DEF TxDone, Sending, Storing, Taken, InCall
<1>2. InProgress(t)
  BY <1>1 DEF Exposing, Turns
<1>3. message[t] = [c EXCEPT !.val = Value(@)] /\ \A k \in 1 .. Len(b) : sent[t][k] = b[k]
  BY <1>1, <1>2 DEF InProgress
<1>4. /\ calls[t] \in Seq(CallRecords) /\ c \in CallRecords /\ Len(b) \in 2 .. 3
      /\ c.addr = <<b[1], b[2]>> /\ (c.op = "poke" => Len(b) = 3 /\ b[3] = Value(c.val))
  BY <1>1, <1>3, CallMade
<1>5. message[t].op = c.op
  BY <1>3, <1>4 DEF CallRecords
<1>6. p = c.addr /\ (c.op = "poke" => sent[t][3] = Value(c.val))
  <2> HIDE DEF b, c
  <2>1. 1 \in 1 .. Len(b) /\ 2 \in 1 .. Len(b) /\ (Len(b) = 3 => 3 \in 1 .. Len(b))
    BY <1>4
  <2> QED BY <1>3, <1>4, <2>1
<1> HIDE DEF b, p
<1>7. DOMAIN sensor = Registers /\ DOMAIN sensor' = Registers
  BY <1>1 DEF Exposing, ExposureTypes
<1>8. ASSUME NEW r \in Registers, NEW a, Settles(r, a)
      PROVE  Settles(r, a)'
  <2>1. c = Poke(r, a) => sensor'[r] = Value(a)
    <3> SUFFICES ASSUME c = Poke(r, a) PROVE sensor'[r] = Value(a)
      OBVIOUS
    <3>1. c.op = "poke" /\ c.addr = r /\ c.val = a
      BY DEF Poke
    <3>2. p = r /\ sent[t][3] = Value(a)
      BY <1>6, <3>1
    <3>3. sensor' = [sensor EXCEPT ![r] = Value(a)]
      BY <1>1, <1>5, <3>1, <3>2
    <3> QED BY <1>7, <3>3
  <2>2. c.addr # r => sensor'[r] = sensor[r]
    BY <1>1, <1>6, <1>7
  <2>3. Value(a)' = Value(a)
    BY DEF Value, exp_time
  <2>4. /\ Ends(calls[t], r, a) => Ends(Tail(calls[t]), r, a) \/ (c = Poke(r, a) /\ Avoids(Tail(calls[t]), r))
        /\ Avoids(calls[t], r) => c.addr # r /\ Avoids(Tail(calls[t]), r)
    BY <1>1, <1>4, EndsTail
  <2> HIDE DEF c
  <2>5. CASE t = "main"
    <3>1. calls["isr"] = <<>>
      BY <1>1, <2>5, OneCall DEF Threads
    <3>2. calls'["main"] = Tail(calls["main"]) /\ calls'["isr"] = <<>>
      BY <1>1, <2>5, <3>1 DEF EndCall, Exposing, ExposureTypes, Threads
    <3>3. Avoids(<<>>, r) /\ ~Ends(<<>>, r, a)
      BY DEF Avoids, Ends
    <3> QED BY <2>1, <2>2, <2>3, <2>4, <2>5, <3>1, <3>2, <3>3, <1>8 DEF Settles
  <2>6. CASE t = "isr"
    <3>1. calls'["isr"] = Tail(calls["isr"]) /\ calls'["main"] = calls["main"]
      BY <1>1, <2>6 DEF EndCall, Exposing, ExposureTypes, Threads
    <3> QED BY <2>1, <2>2, <2>3, <2>4, <2>6, <3>1, <1>8 DEF Settles
  <2> QED BY <2>5, <2>6 DEF Threads
<1>9. pc \in Loop => Settles(EXPOSURE, Low)' /\ Settles(EXPOSURE_HIGH, High)'
  BY <1>8 DEF Exposing, Progress, Registers
<1> QED BY <1>1, <1>7, <1>9, CallEnds

LEMMA FailStep ==
  ASSUME Exposing, NEW t \in Threads, TxFails(t), UNCHANGED <<pc, isr, index, powered>>,
         ~clash, errors = 0, errors' = 0
  PROVE  Exposing'
<1>1. InCall(t) /\ EndCall(t) /\ UNCHANGED <<wData, sensor>> /\ ~powered
  BY DEF TxFails, Sending
<1>2. pc \notin Loop /\ DOMAIN sensor' = Registers
  BY <1>1 DEF Exposing, Progress, ExposureTypes
<1> QED BY <1>1, <1>2, CallEnds

LEMMA ExposureStep ==
  ASSUME ExposureInv, [Next]_vars
  PROVE  ExposureInv'
<1>1. errors' \in Nat /\ (errors' = 0 => errors = 0) /\ clash' \in BOOLEAN /\ (clash => clash')
  <2>1. CASE \E t \in Threads : Transfer(t)
    BY <2>1 DEF ExposureInv, Transfer, Store, TxByte, TxDone, TxFails
  <2>2. CASE Boot
    BY <2>2 DEF ExposureInv, Boot, ResetSensor, SetIndex, EnableButton, StartFramesEarly, Pipeline,
       SetUp, RegisterVfw, Initialised, Calls, i2c
  <2>3. CASE Commands \/ V_Slept \/ V_Restart \/ AccessCnn
    BY <2>3 DEF ExposureInv, Commands, TestPattern, Status, Increase, Decrease, ShowOutputs, V_Stop,
       V_Slept, V_Restart, AccessCnn, Calls, i2c
  <2>4. CASE Handlers
    BY <2>4 DEF ExposureInv, Handlers, PB_Enter, PB_Bounced, PB_Pressed, PB_Return, VFW_Blue,
       VFW_Acknowledge, VFW_Clear, i2c
  <2>5. CASE Press \/ FrameStarts \/ FrameEnds \/ UNCHANGED vars
    BY <2>5 DEF ExposureInv, Press, FrameStarts, FrameEnds, vars, i2c
  <2> QED BY <2>1, <2>2, <2>3, <2>4, <2>5 DEF Next, Program, Threads
<1>2. ASSUME ~clash', errors' = 0 PROVE Exposing'
  <2>1. Exposing /\ ~clash /\ errors = 0
    BY <1>1, <1>2 DEF ExposureInv
  <2>2. ASSUME NEW t \in Threads, Transfer(t) PROVE Exposing'
    BY <1>2, <2>1, <2>2, StoreStep, SendStep, DoneStep, FailStep DEF Transfer
  <2>3. CASE Boot
    BY <2>1, <2>3, SetUpStep
  <2>4. CASE Commands \/ V_Slept \/ V_Restart \/ AccessCnn
    BY <2>1, <2>4, CommandStep
  <2>5. CASE Handlers \/ Press \/ FrameStarts \/ FrameEnds \/ UNCHANGED vars
    BY <1>2, <2>1, <2>5, HandlerStep
  <2> QED BY <2>2, <2>3, <2>4, <2>5 DEF Next, Program, Threads
<1> QED BY <1>1, <1>2 DEF ExposureInv

LEMMA InitExposing == Init => ExposureInv
<1> SUFFICES ASSUME Init PROVE ExposureInv
  OBVIOUS
<1>1. errors = 0 /\ clash = FALSE
  BY DEF Init
<1>2. ExposureTypes
  <2>1. index \in 0 .. Len(ExpTimes)
    BY TimesOfExposure DEF Init
  <2>2. calls \in [Threads -> Seq(CallRecords)] /\ sent \in [Threads -> Seq(Int)]
    BY DEF Init
  <2>3. wData \in [1 .. 3 -> Int]
    BY DEF Init
  <2>4. DOMAIN message = Threads /\ stored \in [Threads -> 0 .. 3] /\ DOMAIN sensor = Registers
    BY DEF Init
  <2> QED BY <2>1, <2>2, <2>3, <2>4 DEF ExposureTypes
<1>3. Turns
  BY DEF Init, Turns, Threads
<1>4. Progress
  BY DEF Init, Progress, Threads, Loop
<1>5. pc \in SettingUp \cup Loop
  BY DEF Init, SettingUp
<1> QED BY <1>1, <1>2, <1>3, <1>4, <1>5 DEF ExposureInv, Exposing

\* Ready for a command, the sensor exposes for exp_time[exp_time_index]: nothing is left to send,
\* and what was left to send always ended with the two bytes of it (main(), PB_isr(), poke()).
THEOREM ExposureIsFollowed == Spec => []ExposureFollows
<1>1. ExposureInv /\ [Next]_vars => ExposureInv'
  BY ExposureStep
<1>2. ExposureInv => ExposureFollows
  <2> SUFFICES ASSUME ExposureInv, pc = "loop", isr = "none", calls["main"] = <<>>, ~clash, errors = 0
      PROVE  sensor[EXPOSURE] = Value(Low) /\ sensor[EXPOSURE_HIGH] = Value(High)
    BY DEF ExposureFollows, Value, Low, High
  <2>1. Exposing /\ isr # "pb" /\ pc \in Loop
    BY DEF ExposureInv, Loop
  <2> QED BY <2>1, NothingInProgress
<1> QED BY InitExposing, <1>1, <1>2, PTL DEF Spec

-----------------------------------------------------------------------------
(***************************************************************************)
(* The outputs of the CNN.                                                 *)
(***************************************************************************)
Accesses == [op : {"seek", "one", "auto"}, class : Int]

\* b may come after a: it looks for its output, or the window is at its output after a.
Follows(a, b) == b.op = "seek" \/ b.class = IF a.op = "auto" THEN a.class + 1 ELSE a.class
InOrder(s) == \A i \in 1 .. Len(s), j \in 1 .. Len(s) : j = i + 1 => Follows(s[i], s[j])
Starts(s, at) == s # <<>> => s[1].op = "seek" \/ s[1].class = at

PlanInv == ai \in Int /\ plan \in Seq(Accesses) /\ InOrder(plan) /\ Starts(plan, ai)

LEMMA AutoOrder ==
  AutoReads \in Seq(Accesses) /\ InOrder(AutoReads) /\ Len(AutoReads) > 0 /\ AutoReads[1].op = "seek"
<1> DEFINE u == [n \in 1 .. Outputs |-> ReadAuto(n - 1)]
           s == <<Seek(0)>> \o u
<1>1. Outputs \in Nat /\ Seek(0) \in Accesses /\ Seek(0).op = "seek" /\ Seek(0).class = 0
  BY CameraAssumption DEF CameraAssumption, Seek, Accesses
<1>2. \A n \in Int : ReadAuto(n) \in Accesses /\ ReadAuto(n).op = "auto" /\ ReadAuto(n).class = n
  BY DEF ReadAuto, Accesses
<1>3. u \in Seq(Accesses) /\ Len(u) = Outputs /\ \A i \in 1 .. Outputs : u[i] = ReadAuto(i - 1)
  BY <1>1, <1>2
<1> HIDE DEF u
<1>4. /\ s \in Seq(Accesses) /\ Len(s) = Outputs + 1 /\ s[1] = Seek(0)
      /\ \A i \in 2 .. Outputs + 1 : s[i] = ReadAuto(i - 2)
  <2> DEFINE f == <<Seek(0)>>
  <2>1. f \in Seq(Accesses) /\ Len(f) = 1 /\ f[1] = Seek(0)
    BY <1>1
  <2> HIDE DEF f
  <2> DEFINE q == f \o u
  <2>2. /\ q \in Seq(Accesses) /\ Len(q) = 1 + Outputs
        /\ \A i \in 1 .. 1 + Outputs : q[i] = IF i <= 1 THEN f[i] ELSE u[i - 1]
    <3>1. /\ q \in Seq(Accesses) /\ Len(q) = Len(f) + Len(u)
          /\ \A i \in 1 .. Len(f) + Len(u) : q[i] = IF i <= Len(f) THEN f[i] ELSE u[i - Len(f)]
      BY <1>3, <2>1, ConcatProperties
    <3> HIDE DEF q
    <3> QED BY <1>3, <2>1, <3>1
  <2> HIDE DEF q
  <2>3. \A i \in 2 .. Outputs + 1 : i \in 1 .. 1 + Outputs /\ ~(i <= 1) /\ i - 1 \in 1 .. Outputs
                                    /\ (i - 1) - 1 = i - 2
    BY <1>1
  <2>4. \A i \in 2 .. Outputs + 1 : q[i] = ReadAuto(i - 2)
    BY <1>3, <2>2, <2>3
  <2> QED BY <1>1, <2>1, <2>2, <2>4 DEF f, q
<1> HIDE DEF s
<1>5. InOrder(s)
  <2> SUFFICES ASSUME NEW i \in 1 .. Len(s), NEW j \in 1 .. Len(s), j = i + 1
               PROVE  Follows(s[i], s[j])
    BY DEF InOrder
  <2>1. j \in 2 .. Outputs + 1 /\ j - 2 \in Int /\ s[j] = ReadAuto(j - 2)
    BY <1>1, <1>4
  <2>2. CASE i = 1
    BY <1>1, <1>2, <1>4, <2>1, <2>2 DEF Follows
  <2>3. CASE i # 1
    <3>1. i \in 2 .. Outputs + 1 /\ i - 2 \in Int /\ s[i] = ReadAuto(i - 2) /\ j - 2 = (i - 2) + 1
      BY <1>1, <1>4, <2>3
    <3> QED BY <1>2, <2>1, <3>1 DEF Follows
  <2> QED BY <2>2, <2>3
<1> QED BY <1>1, <1>4, <1>5 DEF AutoReads, s, u

LEMMA SeekOrder ==
  /\ SeekReads \in Seq(Accesses) /\ InOrder(SeekReads)
  /\ SeekReads # <<>> => SeekReads[1].op = "seek"
<1> DEFINE n == 2 * Outputs
<1>1. Outputs \in Nat /\ n \in Nat
  BY CameraAssumption DEF CameraAssumption
<1>2. \A i \in Int : /\ Seek(i) \in Accesses /\ Seek(i).op = "seek" /\ Seek(i).class = i
                     /\ ReadOne(i) \in Accesses /\ ReadOne(i).op = "one" /\ ReadOne(i).class = i
  BY DEF Seek, ReadOne, Accesses
<1> DEFINE at(k) == LET i == (k - 1) \div 2 IN IF k % 2 = 1 THEN Seek(i) ELSE ReadOne(i)
           s == [k \in 1 .. n |-> at(k)]
<1>3. \A k \in 1 .. n : at(k) \in Accesses
  <2> SUFFICES ASSUME NEW k \in 1 .. n PROVE at(k) \in Accesses
    OBVIOUS
  <2>1. PICK i \in Int : i = (k - 1) \div 2
    BY <1>1
  <2> QED BY <1>2, <2>1
<1> HIDE DEF n
<1>4. s \in Seq(Accesses) /\ Len(s) = n /\ \A k \in 1 .. n : s[k] = at(k)
  <2> HIDE DEF at
  <2> QED BY <1>1, <1>3
<1> HIDE DEF s
<1>5. InOrder(s)
  <2> SUFFICES ASSUME NEW i \in 1 .. Len(s), NEW j \in 1 .. Len(s), j = i + 1
               PROVE  Follows(s[i], s[j])
    BY DEF InOrder
  <2>1. i \in 1 .. n /\ j \in 1 .. n
    BY <1>4
  <2>2. (i - 1) \div 2 \in Int /\ (j - 1) \div 2 \in Int
    BY <1>1, <2>1
  <2>3. CASE j % 2 = 1
    BY <1>2, <1>4, <2>1, <2>2, <2>3 DEF Follows
  <2>4. CASE j % 2 # 1
    <3>1. i % 2 = 1 /\ (i - 1) \div 2 = (j - 1) \div 2
      BY <1>1, <2>1, <2>4
    <3> QED BY <1>2, <1>4, <2>1, <2>2, <2>4, <3>1 DEF Follows
  <2> QED BY <2>3, <2>4
<1>6. s # <<>> => s[1].op = "seek"
  <2> SUFFICES ASSUME s # <<>> PROVE s[1].op = "seek"
    OBVIOUS
  <2>1. 1 \in 1 .. n
    BY <1>1, <1>4
  <2>2. (1 - 1) \div 2 \in Int /\ 1 % 2 = 1
    OBVIOUS
  <2> QED BY <1>2, <1>4, <2>1, <2>2
<1> QED BY <1>4, <1>5, <1>6 DEF SeekReads, s, n

LEMMA PlanOrder ==
  ASSUME NEW p \in {display_ai_status, test_cnn_addressing_methods}
  PROVE  p \in Seq(Accesses) /\ InOrder(p) /\ p # <<>> /\ p[1].op = "seek"
<1>1. CASE p = AutoReads
  BY <1>1, AutoOrder
<1>2. CASE p = SeekReads \o AutoReads
  <2> DEFINE a == SeekReads
             b == AutoReads
             t == a \o b
  <2>1. /\ a \in Seq(Accesses) /\ InOrder(a) /\ (a # <<>> => a[1].op = "seek")
        /\ b \in Seq(Accesses) /\ InOrder(b) /\ Len(b) > 0 /\ b[1].op = "seek"
    BY AutoOrder, SeekOrder
  <2> HIDE DEF a, b
  <2>2. /\ t \in Seq(Accesses) /\ Len(t) = Len(a) + Len(b) /\ Len(a) \in Nat /\ Len(b) \in Nat
        /\ \A i \in 1 .. Len(a) + Len(b) : t[i] = IF i <= Len(a) THEN a[i] ELSE b[i - Len(a)]
    BY <2>1
  <2> HIDE DEF t
  <2>3. InOrder(t)
    <3> SUFFICES ASSUME NEW i \in 1 .. Len(t), NEW j \in 1 .. Len(t), j = i + 1
                 PROVE  Follows(t[i], t[j])
      BY DEF InOrder
    <3>1. CASE j <= Len(a)
      <4>1. i \in 1 .. Len(a) /\ j \in 1 .. Len(a) /\ t[i] = a[i] /\ t[j] = a[j]
        BY <2>2, <3>1
      <4> QED BY <2>1, <4>1 DEF InOrder
    <3>2. CASE j = Len(a) + 1
      <4>1. t[j] = b[1]
        BY <2>2, <3>2
      <4> QED BY <2>1, <4>1 DEF Follows
    <3>3. CASE j > Len(a) + 1
      <4>1. /\ i - Len(a) \in 1 .. Len(b) /\ j - Len(a) \in 1 .. Len(b)
            /\ j - Len(a) = (i - Len(a)) + 1
            /\ t[i] = b[i - Len(a)] /\ t[j] = b[j - Len(a)]
        BY <2>2, <3>3
      <4> QED BY <2>1, <4>1 DEF InOrder
    <3> QED BY <2>2, <3>1, <3>2, <3>3
  <2>4. t # <<>> /\ t[1].op = "seek"
    <3>1. Len(t) > 0 /\ t[1] = IF 1 <= Len(a) THEN a[1] ELSE b[1 - Len(a)]
      BY <2>1, <2>2
    <3>2. a # <<>> => 1 <= Len(a)
      BY <2>1
    <3>3. ~(1 <= Len(a)) => Len(a) = 0 /\ 1 - Len(a) = 1
      BY <2>2
    <3>4. 1 <= Len(a) => a # <<>>
      OBVIOUS
    <3> QED BY <2>1, <3>1, <3>3, <3>4, <2>2
  <2> QED BY <1>2, <2>2, <2>3, <2>4 DEF t, a, b
<1> QED BY <1>1, <1>2 DEF display_ai_status, test_cnn_addressing_methods

LEMMA PlanStep ==
  ASSUME PlanInv, [Next]_vars
  PROVE  PlanInv'
<1>1. CASE AccessCnn
  <2>1. /\ ai \in Int /\ plan \in Seq(Accesses) /\ plan # <<>> /\ plan' = Tail(plan)
        /\ InOrder(plan) /\ Starts(plan, ai)
        /\ ai' = CASE Head(plan).op = "seek" -> Head(plan).class
                   [] Head(plan).op = "one" -> ai
                   [] Head(plan).op = "auto" -> ai + 1
    BY <1>1 DEF PlanInv, AccessCnn
  <2>2. /\ Len(plan) \in Nat \ {0} /\ Head(plan) = plan[1] /\ plan[1] \in Accesses
        /\ plan' \in Seq(Accesses) /\ Len(plan') = Len(plan) - 1
        /\ \A i \in 1 .. Len(plan') : plan'[i] = plan[i + 1]
    BY <2>1
  <2>3. plan[1].op \in {"seek", "one", "auto"} /\ plan[1].class \in Int
    BY <2>2 DEF Accesses
  <2>4. ai' = IF plan[1].op = "auto" THEN plan[1].class + 1 ELSE plan[1].class
    BY <2>1, <2>2, <2>3 DEF Starts
  <2>5. InOrder(plan')
    <3> SUFFICES ASSUME NEW i \in 1 .. Len(plan'), NEW j \in 1 .. Len(plan'), j = i + 1
                 PROVE  Follows(plan'[i], plan'[j])
      BY DEF InOrder
    <3>1. i + 1 \in 1 .. Len(plan) /\ j + 1 \in 1 .. Len(plan) /\ j + 1 = (i + 1) + 1
      BY <2>2
    <3> QED BY <2>1, <2>2, <3>1 DEF InOrder
  <2>6. Starts(plan', ai')
    <3> SUFFICES ASSUME plan' # <<>> PROVE plan'[1].op = "seek" \/ plan'[1].class = ai'
      BY DEF Starts
    <3>1. 1 \in 1 .. Len(plan) /\ 2 \in 1 .. Len(plan) /\ plan'[1] = plan[2]
      BY <2>2
    <3>2. Follows(plan[1], plan[2])
      BY <2>1, <3>1 DEF InOrder
    <3> QED BY <2>4, <3>1, <3>2 DEF Follows
  <2>7. ai' \in Int
    BY <2>3, <2>4
  <2> QED BY <2>2, <2>5, <2>6, <2>7 DEF PlanInv
<1>2. CASE ShowOutputs
  <2>1. plan' \in {display_ai_status, test_cnn_addressing_methods} /\ ai' = ai
    BY <1>2 DEF ShowOutputs
  <2> QED BY <2>1, PlanOrder DEF PlanInv, Starts
<1>3. CASE UNCHANGED cnn
  BY <1>3 DEF PlanInv, cnn
<1>4. AccessCnn \/ ShowOutputs \/ UNCHANGED cnn
  <2>1. Boot => UNCHANGED cnn
    BY DEF Boot, ResetSensor, SetIndex, EnableButton, StartFramesEarly, Pipeline, SetUp,
       RegisterVfw, Initialised
  <2>2. Commands \/ V_Slept \/ V_Restart => ShowOutputs \/ UNCHANGED cnn
    BY DEF Commands, TestPattern, Status, Increase, Decrease, V_Stop, V_Slept, V_Restart
  <2>3. Handlers \/ Press \/ FrameStarts \/ FrameEnds => UNCHANGED cnn
    BY DEF Handlers, PB_Enter, PB_Bounced, PB_Pressed, PB_Return, VFW_Blue, VFW_Acknowledge,
       VFW_Clear, Press, FrameStarts, FrameEnds
  <2>4. \A t \in Threads : Transfer(t) => UNCHANGED cnn
    BY DEF Transfer
  <2>5. UNCHANGED vars => UNCHANGED cnn
    BY DEF vars
  <2> QED BY <2>1, <2>2, <2>3, <2>4, <2>5 DEF Next, Program, Threads
<1> QED BY <1>1, <1>2, <1>3, <1>4

\* The value shown as that of an output is read with the window at that output, whatever ran
\* before: a plan starts with a seek, and each access leaves the window where the next one
\* reads (display_ai_status(), test_cnn_addressing_methods()).
THEOREM OutputsAreInOrder == Spec => OutputsInOrder
<1>1. Init => PlanInv
  BY DEF Init, PlanInv, InOrder, Starts
<1>2. PlanInv /\ [Next]_vars => PlanInv'
  BY PlanStep
<1>3. PlanInv => [plan # <<>> /\ plan' = Tail(plan) /\ Head(plan).op # "seek"
                      => ai = Head(plan).class]_vars
  BY DEF PlanInv, Starts
<1> QED BY <1>1, <1>2, <1>3, PTL DEF Spec, OutputsInOrder
=============================================================================
