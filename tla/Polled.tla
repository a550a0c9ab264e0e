------------------------------- MODULE Polled -------------------------------
(***************************************************************************)
(* The small drivers, without interrupts: the parts of intel_lw_uart_      *)
(* write.c, intel_lw_uart_read.c, altera_avalon_jtag_uart_write.c and      *)
(* altera_avalon_jtag_uart_read.c that ALT_USE_SMALL_DRIVERS or ..._SMALL  *)
(* select.  A step of the driver is one access to a register; the line     *)
(* moves between any two.                                                  *)
(***************************************************************************)
EXTENDS Integers, Sequences, FiniteSets

CONSTANTS
    Cores,           \* "lw", "jtag"
    Lengths,         \* lengths of the calls
    Depth,           \* characters a JTAG UART holds on either side; an LW UART holds one
    MaxSent,         \* bound: characters written
    MaxTyped,        \* bound: characters that come in
    MaxBad           \* bound: those with a parity or framing error

\* What the constants may be.
PolledAssumption == /\ Cores \subseteq {"lw", "jtag"} /\ Lengths \subseteq Nat
                    /\ Depth \in Nat \ {0}
                    /\ MaxSent \in Nat /\ MaxTyped \in Nat /\ MaxBad \in Nat

VARIABLES
    core,            \* the driver
    at,              \* the place in it
    block, len,      \* arguments of the call
    count,           \* characters it still has to move: its own variable, or end - ptr
    ready,           \* the status or data register as read: "yes", "no", "bad"
    answer,          \* what the last call returned: [n, error]
    room,            \* characters the core takes
    rxdata,          \* characters in the core: [char, bad]
    flagged,         \* PE or FE of STATUS
    offered,         \* history: characters given to the calls so far
    sent,            \* history: the characters put out, 0 one that was not given
    typed,           \* history: the characters that came in
    got              \* history: the characters the calls handed on
vars == <<core, at, block, len, count, ready, answer, room, rxdata, flagged,
          offered, sent, typed, got>>

call == <<block, len>>
line == <<room, rxdata, flagged, typed>>
Capacity == IF core = "lw" THEN 1 ELSE Depth

Init == /\ core \in Cores /\ at = "idle"
        /\ block = TRUE /\ len = 0 /\ count = 0 /\ ready = "no"
        /\ answer = [n |-> 0, error |-> "none"]
        /\ room = 1 /\ rxdata = <<>> /\ flagged = FALSE
        /\ offered = 0 /\ sent = <<>> /\ typed = <<>> /\ got = <<>>

Enter(op) == /\ at = "idle" /\ at' = op
             /\ block' \in BOOLEAN /\ len' \in Lengths /\ count' = len'
             /\ UNCHANGED <<core, ready, answer, line, sent, got>>
Return(n, error) == at' = "idle" /\ answer' = [n |-> n, error |-> error]

Write == offered < MaxSent /\ Enter("write") /\ UNCHANGED offered
Read == Enter("read") /\ UNCHANGED offered

\* The next character of the buffer; behind its end, whatever lies there.
NextChar == IF count > 0 THEN offered + len - count + 1 ELSE 0

-----------------------------------------------------------------------------
(***************************************************************************)
(* write().                                                                *)
(***************************************************************************)
\* STATUS or CONTROL is looked at.
W_Poll == /\ at = "write" /\ (core = "jtag" => count > 0)
          /\ ready' = IF room > 0 THEN "yes" ELSE "no"
          /\ at' = "w_put"
          /\ UNCHANGED <<core, call, count, answer, line, offered, sent, got>>

\* Mutant: the character is put out without the core being ready for it.
W_Put_Unready == /\ at = "w_put"
                 /\ sent' = IF room > 0 THEN Append(sent, NextChar) ELSE sent
                 /\ room' = IF room > 0 THEN room - 1 ELSE 0
                 /\ count' = count - 1
                 /\ at' = IF core = "jtag" THEN "write" ELSE "w_loop"
                 /\ UNCHANGED <<core, call, ready, answer, rxdata, flagged, typed, offered, got>>

W_Put == /\ at = "w_put"
         /\ IF ready = "yes"
            THEN sent' = Append(sent, NextChar) /\ room' = room - 1 /\ count' = count - 1
            ELSE UNCHANGED <<sent, room, count>>
         /\ at' = IF core = "jtag" THEN "write" ELSE "w_loop"
         /\ UNCHANGED <<core, call, ready, answer, rxdata, flagged, typed, offered, got>>

\* LW UART: the body runs before the test, and a count that is not zero, be it
\* negative, goes round again.  The rest of a call that ran past its end is left out.
W_Loop == /\ at = "w_loop"
          /\ IF block /\ count # 0
             THEN at' = (IF count < 0 THEN "runaway" ELSE "write") /\ UNCHANGED <<answer, offered>>
             ELSE /\ Return(len - count, IF count # 0 THEN "EWOULDBLOCK" ELSE "none")
                  /\ offered' = offered + len - count
          /\ UNCHANGED <<core, call, count, ready, line, sent, got>>

\* JTAG UART: non-blocking access is not looked at.
W_Done == /\ at = "write" /\ core = "jtag" /\ count = 0
          /\ Return(len, "none")
          /\ offered' = offered + len
          /\ UNCHANGED <<core, call, count, ready, line, sent, got>>

-----------------------------------------------------------------------------
(***************************************************************************)
(* read() of the LW UART: STATUS is read, its errors are cleared, and the  *)
(* character is taken.  At most one is handed on.                          *)
(***************************************************************************)
R_Status == /\ at = "read" /\ core = "lw"
            /\ ready' = IF rxdata = <<>> THEN "no" ELSE IF flagged THEN "bad" ELSE "yes"
            /\ at' = "r_clear"
            /\ UNCHANGED <<core, call, count, answer, line, offered, sent, got>>

R_Clear == /\ at = "r_clear"
           /\ flagged' = FALSE
           /\ at' = IF ready = "no" THEN "r_loop" ELSE "r_take"
           /\ UNCHANGED <<core, call, count, ready, answer, room, rxdata, typed, offered, sent, got>>

R_Take == /\ at = "r_take"
          /\ rxdata' = Tail(rxdata)
          /\ IF ready = "yes" THEN got' = Append(got, Head(rxdata).char) /\ Return(1, "none")
             ELSE at' = "r_loop" /\ UNCHANGED <<got, answer>>
          /\ UNCHANGED <<core, call, count, ready, room, flagged, typed, offered, sent>>

R_Loop == /\ at = "r_loop"
          /\ IF block THEN at' = "read" /\ UNCHANGED answer ELSE Return(0, "EWOULDBLOCK")
          /\ UNCHANGED <<core, call, count, ready, line, offered, sent, got>>

(***************************************************************************)
(* read() of the JTAG UART: one read of DATA tells whether there was a     *)
(* character and takes it.                                                 *)
(***************************************************************************)
R_Data == /\ at = "read" /\ core = "jtag" /\ count > 0
          /\ IF rxdata # <<>>
             THEN /\ got' = Append(got, Head(rxdata).char) /\ rxdata' = Tail(rxdata)
                  /\ count' = count - 1 /\ UNCHANGED at
             ELSE /\ at' = IF count < len \/ ~block THEN "r_end" ELSE at
                  /\ UNCHANGED <<got, rxdata, count>>
          /\ UNCHANGED <<core, call, ready, answer, room, flagged, typed, offered, sent>>

R_End == /\ \/ at = "r_end"
            \/ at = "read" /\ core = "jtag" /\ count = 0
         /\ CASE count < len -> Return(len - count, "none")
              [] count = len /\ ~block -> Return(-1, "EWOULDBLOCK")
              [] count = len /\ block -> Return(-1, "EIO")
         /\ UNCHANGED <<core, call, count, ready, line, offered, sent, got>>

-----------------------------------------------------------------------------
\* The line: a character leaves, or one comes in, when there is room for it.
H_Shift == /\ room < Capacity
           /\ room' = room + 1
           /\ UNCHANGED <<core, at, call, count, ready, answer, rxdata, flagged, typed, offered,
                          sent, got>>

H_Type == /\ Len(rxdata) < Capacity /\ Len(typed) < MaxTyped
          /\ \E bad \in IF core = "lw" /\ Cardinality({i \in DOMAIN typed : typed[i].bad}) < MaxBad
                        THEN BOOLEAN ELSE {FALSE} :
                LET char == [char |-> Len(typed) + 1, bad |-> bad]
                IN /\ typed' = Append(typed, char) /\ rxdata' = Append(rxdata, char)
                   /\ flagged' = (flagged \/ bad)
          /\ UNCHANGED <<core, at, call, count, ready, answer, room, offered, sent, got>>

Next == \/ Write \/ Read
        \/ W_Poll \/ W_Put \/ W_Loop \/ W_Done
        \/ R_Status \/ R_Clear \/ R_Take \/ R_Loop \/ R_Data \/ R_End
        \/ H_Shift \/ H_Type

Spec == Init /\ [][Next]_vars

-----------------------------------------------------------------------------
\* A character of a buffer of length zero goes to the LW UART all the same.
Overran == core = "lw" /\ \E i \in DOMAIN sent : sent[i] = 0

\* The characters of the calls go out in order, each once, as many as the calls
\* report.  Those that come in are handed on in order, each once, or have an
\* error, or are still in the core: a sound one is never thrown away.
PolledExact ==
    LET writing == at \in {"write", "w_put", "w_loop"}
        inside == IF writing THEN len - count ELSE 0
        taken == got \o [i \in DOMAIN rxdata |-> rxdata[i].char]
    IN /\ Overran \/ sent = [i \in 1 .. offered + inside |-> i]
       /\ \A i \in DOMAIN typed : typed[i].bad \/ \E j \in DOMAIN taken : taken[j] = typed[i].char
       /\ \A i, j \in DOMAIN taken : i < j => taken[i] < taken[j]
=============================================================================
