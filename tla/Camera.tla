------------------------------- MODULE Camera -------------------------------
(***************************************************************************)
(* The camera applications of the MIPI lab and of the ONE WARE lab: main() *)
(* sets the MIRA220 sensor up over I2C and serves commands; PB_isr() (MIPI *)
(* lab only) steps the exposure when the button is pressed; VFW_isr()      *)
(* answers the video frame writer.  The processor does not nest            *)
(* interrupts: while a handler runs, main() waits.                         *)
(*                                                                         *)
(* poke() and peek() build their message in the global array wData, which  *)
(* main() and PB_isr() share; so does the model, store by store, and the   *)
(* I2C driver takes the message from it byte by byte.                      *)
(***************************************************************************)
EXTENDS Integers, Sequences

CONSTANTS
    Apps,           \* the programs: "mipi", "oneware"
    ExpTimes,       \* exp_time
    Beyond,         \* what exp_time[Len] reads: the word after the array
    StartIndex,     \* "start at mid exposure"
    MaxPresses,     \* bound: presses of the button, refused transfers included
    MaxErrors,      \* bound: transfers the powered sensor does not acknowledge
    Outputs         \* how many outputs of the CNN a command shows (10)

Word == 0 .. 65535

ASSUME CameraAssumption ==
    /\ Apps \subseteq {"mipi", "oneware"} /\ ExpTimes \in Seq(Word) /\ Beyond \in Word
    /\ StartIndex \in 0 .. Len(ExpTimes) /\ MaxPresses \in Nat /\ MaxErrors \in Nat /\ Outputs \in Nat

Threads == {"main", "isr"}

\* Registers of the sensor, by the two bytes of their addresses.
EXPOSURE == <<16, 12>>
EXPOSURE_HIGH == <<16, 13>>
IMAGER_STATE == <<16, 3>>
IMAGER_RUN == <<16, 240>>
SOFT_RESET == <<80, 4>>
TEST_PATTERN == <<32, 145>>
Registers == {EXPOSURE, EXPOSURE_HIGH, IMAGER_STATE, IMAGER_RUN, SOFT_RESET, TEST_PATTERN}

VARIABLES
    app,                        \* which program runs
    pc,                         \* where main() is
    isr,                        \* the handler that runs: "none", "pb", "vfw", and its place
    index,                      \* exp_time_index
    calls,                      \* per thread: the calls of poke() and peek() it has to make
    message,                    \* per thread: what the call in progress was asked to send
    stored, sent,               \* per thread: bytes stored in wData, bytes the driver has taken
    wData,                      \* the shared array
    sensor, powered,            \* its registers, its reset line
    edge, pbUnmasked, presses,  \* the button's capture bit and interrupt mask; presses so far
    vfw, vfwEnabled,            \* the frame writer; VFW_isr is registered and enabled
    led,                        \* the colour
    errors, clash,              \* history: transfers refused; a press came inside a poke() of main()
    ai, plan                    \* position of the CNN's output window; accesses to it still to make

i2c == <<calls, message, stored, sent, wData, sensor, errors>>
button == <<edge, pbUnmasked, presses>>
cnn == <<ai, plan>>
vars == <<app, pc, isr, index, i2c, powered, button, vfw, vfwEnabled, led, clash, cnn>>

\* Arguments of poke() that the call computes from exp_time[exp_time_index].
Low == -1
High == -2
Poke(r, v) == [op |-> "poke", addr |-> r, val |-> v]
Peek(r) == [op |-> "peek", addr |-> r, val |-> 0]
\* Mutant: the high byte is forgotten.
SetExposure_Low == <<Poke(EXPOSURE, Low)>>

SetExposure == <<Poke(EXPOSURE, Low), Poke(EXPOSURE_HIGH, High)>>

exp_time(n) == IF n < Len(ExpTimes) THEN ExpTimes[n + 1] ELSE Beyond
Value(v) == CASE v = Low -> exp_time(index) % 256
              [] v = High -> exp_time(index) \div 256
              [] OTHER -> v

\* The tables of registers, less the registers nothing here reads.
InitialUpload == <<Poke(IMAGER_STATE, 2)>>
ReadoutAndExposure == <<Poke(EXPOSURE, 128), Poke(EXPOSURE_HIGH, 0)>>
MipiDatarate == <<Poke(SOFT_RESET, 1), Poke(SOFT_RESET, 0)>>
TestPatternOff == <<Poke(TEST_PATTERN, 0)>>
Table == InitialUpload \o ReadoutAndExposure \o MipiDatarate \o TestPatternOff

Nothing == [op |-> "none", addr |-> <<0, 0>>, val |-> 0]
VfwOff == [run |-> FALSE, active |-> FALSE, irqOn |-> FALSE, buffers |-> 0,
           writing |-> FALSE, held |-> 0, irq |-> FALSE]

Init == /\ app \in Apps /\ pc = "reset" /\ isr = "none" /\ index = 0
        /\ calls = [t \in Threads |-> <<>>] /\ message = [t \in Threads |-> Nothing]
        /\ stored = [t \in Threads |-> 0] /\ sent = [t \in Threads |-> <<>>]
        /\ wData = <<0, 0, 0>>
        /\ sensor = [r \in Registers |-> 0] /\ powered = FALSE
        /\ edge = FALSE /\ pbUnmasked = FALSE /\ presses = 0
        /\ vfw = VfwOff /\ vfwEnabled = FALSE /\ led = "off"
        /\ errors = 0 /\ clash = FALSE /\ ai = 0 /\ plan = <<>>

-----------------------------------------------------------------------------
(***************************************************************************)
(* poke() and peek().                                                      *)
(***************************************************************************)
Runs(t) == IF isr = "none" THEN t = "main" ELSE t = "isr" /\ isr = "pb"
InCall(t) == Runs(t) /\ calls[t] # <<>>
Bytes(m) == IF m.op = "peek" THEN m.addr ELSE m.addr \o <<m.val>>

\* wData[0] = addr >> 8; wData[1] = addr & 0xFF; wData[2] = val.  The arguments are
\* evaluated with the first store: an interrupt between the two is one before both.
Store(t) ==
    LET call == Head(calls[t])
        m == IF stored[t] = 0 THEN [call EXCEPT !.val = Value(@)] ELSE message[t]
        n == stored[t] + 1
    IN  /\ InCall(t) /\ n <= Len(Bytes(m))
        /\ message' = [message EXCEPT ![t] = m] /\ stored' = [stored EXCEPT ![t] = n]
        /\ wData' = [wData EXCEPT ![n] = Bytes(m)[n]]
        /\ UNCHANGED <<calls, sent, sensor, errors>>

Storing(t) == stored[t] < Len(Bytes(message[t])) \/ stored[t] = 0
Sending(t) == InCall(t) /\ ~Storing(t)
Taken(t) == Len(sent[t]) = Len(Bytes(message[t]))

\* alt_avalon_i2c_master_tx(): the next byte of the caller's buffer.
TxByte(t) == /\ Sending(t) /\ ~Taken(t) /\ powered
             /\ sent' = [sent EXCEPT ![t] = Append(@, wData[Len(@) + 1])]
             /\ UNCHANGED <<calls, message, stored, wData, sensor, errors>>

EndCall(t) == /\ calls' = [calls EXCEPT ![t] = Tail(@)] /\ message' = [message EXCEPT ![t] = Nothing]
              /\ stored' = [stored EXCEPT ![t] = 0] /\ sent' = [sent EXCEPT ![t] = <<>>]

\* ALT_AVALON_I2C_SUCCESS: the sensor has the message.
TxDone(t) ==
    LET r == <<sent[t][1], sent[t][2]>> IN
    /\ Sending(t) /\ Taken(t) /\ EndCall(t) /\ UNCHANGED <<wData, errors>>
    /\ \/ /\ message[t].op = "poke"
          /\ sensor' = IF r \in Registers THEN [sensor EXCEPT ![r] = sent[t][3]] ELSE sensor
       \/ message[t].op = "peek" /\ UNCHANGED sensor

\* Any other status: the callers print a line and go on.
TxFails(t) ==
    /\ Sending(t) /\ EndCall(t) /\ UNCHANGED <<wData, sensor>>
    /\ \/ (~powered \/ clash) /\ UNCHANGED errors
       \/ powered /\ errors < MaxErrors /\ presses + errors < MaxPresses /\ errors' = errors + 1

Transfer(t) == /\ Store(t) \/ TxByte(t) \/ TxDone(t) \/ TxFails(t)
               /\ UNCHANGED <<app, pc, isr, index, powered, button, vfw, vfwEnabled, led, clash, cnn>>

-----------------------------------------------------------------------------
(***************************************************************************)
(* main() up to its loop: one action for each stretch between calls.       *)
(***************************************************************************)
Main(here, there) == isr = "none" /\ calls["main"] = <<>> /\ plan = <<>> /\ pc = here /\ pc' = there
Calls(s) == calls' = [calls EXCEPT !["main"] = s]
             /\ UNCHANGED <<message, stored, sent, wData, sensor, errors>>

ResetSensor == /\ Main("reset", "open") /\ led' = "red" /\ powered' = FALSE
               /\ UNCHANGED <<app, isr, index, i2c, button, vfw, vfwEnabled, clash, cnn>>

\* exp_time_index = 6.
SetIndex == /\ Main("open", IF app = "mipi" THEN "buttons" ELSE "frames") /\ index' = StartIndex
            /\ UNCHANGED <<app, isr, i2c, powered, button, vfw, vfwEnabled, led, clash, cnn>>

\* alt_ic_irq_enable(), alt_ic_isr_register(); nothing comes before the last store, the PIO's mask.
EnableButton == /\ Main("buttons", "pipeline") /\ pbUnmasked' = TRUE
                /\ UNCHANGED <<app, isr, index, i2c, powered, edge, presses, vfw, vfwEnabled, led, clash, cnn>>

\* The ONE WARE program lets the frame writer run before it has configured it.
StartFramesEarly ==
    /\ Main("frames", "pipeline")
    /\ vfw' = [vfw EXCEPT !.irqOn = TRUE, !.run = TRUE, !.active = TRUE, !.held = 0]
    /\ UNCHANGED <<app, isr, index, i2c, powered, button, vfwEnabled, led, clash, cnn>>

\* init_MIRA220(): white balance, demosaic, scaler, frame writer, and the sensor out of reset.
Pipeline ==
    /\ Main("pipeline", "softreset") /\ powered' = TRUE
    /\ \/ /\ app = "mipi"
          /\ vfw' = [vfw EXCEPT !.buffers = 1, !.irqOn = TRUE, !.run = TRUE, !.active = TRUE, !.held = 0]
       \/ app = "oneware" /\ vfw' = [vfw EXCEPT !.buffers = 2, !.run = TRUE, !.active = TRUE]
    /\ UNCHANGED <<app, isr, index, i2c, button, vfwEnabled, led, clash, cnn>>

\* The pokes of init_MIRA220(), in its order; exp_time[exp_time_index] is read by each call.
SetUp == /\ Main("softreset", "register")
         /\ Calls(<<Poke(SOFT_RESET, 1), Poke(SOFT_RESET, 0)>> \o Table \o SetExposure
                    \o <<Poke(IMAGER_STATE, 16), Poke(IMAGER_RUN, 1)>>)
         /\ UNCHANGED <<app, isr, index, powered, button, vfw, vfwEnabled, led, clash, cnn>>

\* Mutant: the interrupt is never enabled in the controller.
RegisterVfw_Masked == /\ Main("register", "green")
                      /\ UNCHANGED <<app, isr, index, i2c, powered, button, vfw, vfwEnabled, led, clash, cnn>>

RegisterVfw == /\ Main("register", "green") /\ vfwEnabled' = TRUE
               /\ UNCHANGED <<app, isr, index, i2c, powered, button, vfw, led, clash, cnn>>

Initialised == /\ Main("green", "loop") /\ led' = "green"
               /\ UNCHANGED <<app, isr, index, i2c, powered, button, vfw, vfwEnabled, clash, cnn>>

Boot == ResetSensor \/ SetIndex \/ EnableButton \/ StartFramesEarly \/ Pipeline \/ SetUp
            \/ RegisterVfw \/ Initialised

-----------------------------------------------------------------------------
(***************************************************************************)
(* The commands.  Those not listed print text or words of the frame buffer *)
(* and change nothing here.                                                *)
(***************************************************************************)
Command(program) == app = program /\ Main("loop", "loop")

\* T, U: one poke.  S: three peeks, whose values are only printed.
TestPattern == /\ Command("oneware") /\ \E v \in {17, 0} : Calls(<<Poke(TEST_PATTERN, v)>>)
               /\ UNCHANGED <<app, isr, index, powered, button, vfw, vfwEnabled, led, clash, cnn>>
Status == /\ Command("oneware") /\ Calls(<<Peek(<<0, 29>>), Peek(IMAGER_STATE), Peek(IMAGER_RUN)>>)
          /\ UNCHANGED <<app, isr, index, powered, button, vfw, vfwEnabled, led, clash, cnn>>

\* I: up to 12, the length of exp_time.  D: down to 0.
Increase == /\ Command("oneware") /\ index # Len(ExpTimes) /\ index' = index + 1 /\ Calls(SetExposure)
            /\ UNCHANGED <<app, isr, powered, button, vfw, vfwEnabled, led, clash, cnn>>
Decrease == /\ Command("oneware") /\ index # 0 /\ index' = index - 1 /\ Calls(SetExposure)
            /\ UNCHANGED <<app, isr, powered, button, vfw, vfwEnabled, led, clash, cnn>>

\* P, C: the registers of the CNN.  Address 4 moves to the next output after each read.
Seek(n) == [op |-> "seek", class |-> n]
ReadOne(n) == [op |-> "one", class |-> n]
ReadAuto(n) == [op |-> "auto", class |-> n]
\* Mutant: the reads start from wherever the window is.
AutoReads_NoSeek == [n \in 1 .. Outputs |-> ReadAuto(n - 1)]

AutoReads == <<Seek(0)>> \o [n \in 1 .. Outputs |-> ReadAuto(n - 1)]
SeekReads == [n \in 1 .. 2 * Outputs |-> LET i == (n - 1) \div 2 IN IF n % 2 = 1 THEN Seek(i) ELSE ReadOne(i)]
display_ai_status == AutoReads
test_cnn_addressing_methods == SeekReads \o AutoReads

ShowOutputs == /\ Command("oneware") /\ plan' \in {display_ai_status, test_cnn_addressing_methods}
               /\ UNCHANGED <<app, isr, index, i2c, powered, button, vfw, vfwEnabled, led, clash, ai>>
AccessCnn == /\ isr = "none" /\ plan # <<>> /\ plan' = Tail(plan)
             /\ ai' = CASE Head(plan).op = "seek" -> Head(plan).class
                        [] Head(plan).op = "one" -> ai
                        [] Head(plan).op = "auto" -> ai + 1
             /\ UNCHANGED <<app, pc, isr, index, i2c, powered, button, vfw, vfwEnabled, led, clash>>

\* V: dump_vfb() stops the frame writer, sleeps longer than a frame takes, reads, and starts it.
\* Mutant: RUN is written, COMMIT is not.
V_Stop_NoCommit == /\ app = "mipi" /\ Main("loop", "stopping") /\ vfw' = [vfw EXCEPT !.run = FALSE]
                   /\ UNCHANGED <<app, isr, index, i2c, powered, button, vfwEnabled, led, clash, cnn>>

V_Stop == /\ app = "mipi" /\ Main("loop", "stopping")
          /\ vfw' = [vfw EXCEPT !.run = FALSE, !.active = FALSE]
          /\ UNCHANGED <<app, isr, index, i2c, powered, button, vfwEnabled, led, clash, cnn>>
V_Slept == /\ Main("stopping", "dumping") /\ (vfw.active \/ ~vfw.writing)
           /\ UNCHANGED <<app, isr, index, i2c, powered, button, vfw, vfwEnabled, led, clash, cnn>>
V_Restart == /\ Main("dumping", "loop")
             /\ vfw' = [vfw EXCEPT !.run = TRUE, !.active = TRUE]
             /\ UNCHANGED <<app, isr, index, i2c, powered, button, vfwEnabled, led, clash, cnn>>

Commands == TestPattern \/ Status \/ Increase \/ Decrease \/ ShowOutputs \/ V_Stop

-----------------------------------------------------------------------------
(***************************************************************************)
(* The handlers.                                                           *)
(***************************************************************************)
PB_Enter == /\ isr = "none" /\ edge /\ pbUnmasked /\ isr' = "debounce"
            /\ UNCHANGED <<app, pc, index, i2c, powered, button, vfw, vfwEnabled, led, clash, cnn>>

\* After 20 ms the button is no longer pressed.
PB_Bounced == /\ isr = "debounce" /\ isr' = "none" /\ edge' = FALSE
              /\ UNCHANGED <<app, pc, index, i2c, powered, pbUnmasked, presses, vfw, vfwEnabled, led, clash, cnn>>

NextIndex == IF index # Len(ExpTimes) THEN index + 1 ELSE 0
PB_Pressed == /\ isr = "debounce" /\ isr' = "pb" /\ index' = NextIndex
              /\ calls' = [calls EXCEPT !["isr"] = SetExposure]
              /\ clash' = (clash \/ stored["main"] > 0)
              /\ UNCHANGED <<app, pc, message, stored, sent, wData, sensor, errors>>
              /\ UNCHANGED <<powered, button, vfw, vfwEnabled, led, cnn>>

PB_Return == /\ isr = "pb" /\ calls["isr"] = <<>> /\ isr' = "none" /\ edge' = FALSE
             /\ UNCHANGED <<app, pc, index, i2c, powered, pbUnmasked, presses, vfw, vfwEnabled, led, clash, cnn>>

VFW_Blue == /\ isr = "none" /\ vfw.irq /\ vfwEnabled /\ isr' = "vfw" /\ led' = "blue"
            /\ UNCHANGED <<app, pc, index, i2c, powered, button, vfw, vfwEnabled, clash, cnn>>
VFW_Acknowledge == /\ isr = "vfw" /\ isr' = "acknowledged"
                   /\ vfw' = [vfw EXCEPT !.held = IF @ > 0 THEN @ - 1 ELSE 0]
                   /\ UNCHANGED <<app, pc, index, i2c, powered, button, vfwEnabled, led, clash, cnn>>
VFW_Clear == /\ isr = "acknowledged" /\ isr' = "none" /\ vfw' = [vfw EXCEPT !.irq = FALSE]
             /\ UNCHANGED <<app, pc, index, i2c, powered, button, vfwEnabled, led, clash, cnn>>

Handlers == PB_Enter \/ PB_Bounced \/ PB_Pressed \/ PB_Return \/ VFW_Blue \/ VFW_Acknowledge \/ VFW_Clear

\* The hardware: the button, and the frame writer, which fills a free buffer while the sensor runs.
Press == /\ app = "mipi" /\ presses + errors < MaxPresses /\ presses' = presses + 1 /\ edge' = TRUE
         /\ UNCHANGED <<app, pc, isr, index, i2c, powered, pbUnmasked, vfw, vfwEnabled, led, clash, cnn>>
FrameStarts == /\ vfw.active /\ ~vfw.writing /\ vfw.held < vfw.buffers /\ sensor[IMAGER_RUN] = 1
               /\ vfw' = [vfw EXCEPT !.writing = TRUE]
               /\ UNCHANGED <<app, pc, isr, index, i2c, powered, button, vfwEnabled, led, clash, cnn>>
FrameEnds == /\ vfw.writing
             /\ vfw' = [vfw EXCEPT !.writing = FALSE, !.held = @ + 1, !.irq = @ \/ vfw.irqOn]
             /\ UNCHANGED <<app, pc, isr, index, i2c, powered, button, vfwEnabled, led, clash, cnn>>

Program == Boot \/ Transfer("main") \/ AccessCnn \/ V_Slept \/ V_Restart
Next == Program \/ Commands \/ Handlers \/ Transfer("isr") \/ Press \/ FrameStarts \/ FrameEnds

Spec == Init /\ [][Next]_vars

\* The processor runs the program and the handlers on; nothing obliges anyone to type or to press.
FairSpec == Spec /\ WF_vars(Program) /\ WF_vars(Handlers) /\ WF_vars(Transfer("isr"))

-----------------------------------------------------------------------------
(***************************************************************************)
(* Properties.                                                             *)
(***************************************************************************)

\* Ready for a command with nothing under way, after transfers that all succeeded and no press
\* inside a poke() of main(), the sensor exposes for exp_time[exp_time_index], both bytes: the
\* button may be pressed at any point of the set-up between two pokes, with the sensor still in
\* reset or half way between the two bytes (init_MIRA220(), PB_isr(), commands I and D).
ExposureFollows ==
    pc = "loop" /\ isr = "none" /\ calls["main"] = <<>> /\ ~clash /\ errors = 0 =>
        /\ sensor[EXPOSURE] = exp_time(index) % 256
        /\ sensor[EXPOSURE_HIGH] = exp_time(index) \div 256

\* dump_vfb() reads one frame: no frame is being written while it reads ("Stop VFW from writing
\* to VFB").
DumpFromOneFrame == pc = "dumping" => ~vfw.writing

\* The value shown as that of output n is read with the window of the CNN at n, whatever commands
\* ran before (display_ai_status(), test_cnn_addressing_methods()).
OutputsInOrder ==
    [][plan # <<>> /\ plan' = Tail(plan) /\ Head(plan).op # "seek" => ai = Head(plan).class]_vars

\* "LED0 changes to Blue after receiving the 1st video frame": with frames coming in for ever
\* the LED ends blue and stays so; main()'s green comes before it or gives way to it.
LedShowsVideo == []<>(vfw.irq) => <>[](led = "blue")

\* "poke : Write 1 Byte to MIPI I2C, addr : 16-bit Register Address, val : 8-bit Data Value":
\* a transfer that succeeds writes the value it was asked to write, where it was asked to.
PokeWrites ==
    [][\A t \in Threads :
         TxDone(t) /\ message[t].op = "poke" =>
            sensor' = [sensor EXCEPT ![message[t].addr] = message[t].val]]_vars

=============================================================================
