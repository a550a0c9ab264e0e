------------------------------ MODULE ClicLines ------------------------------
(***************************************************************************)
(* What the calls of the CLIC promise: every platform line has a level, a  *)
(* priority, attributes and an enable of its own, and a call changes the   *)
(* one it names, of the line it names.  A number is the set of its one     *)
(* bits.                                                                   *)
(***************************************************************************)
EXTENDS Naturals

CONSTANTS Lines, Levels, Priorities, Attributes,
          Lowest    \* the level that switches no line off

VARIABLES level, priority, attributes, on,
          asked    \* the last call: its name, its line, what it is given

lines == <<level, priority, attributes, on, asked>>

NoCall == [call |-> "none", irq |-> 0, with |-> <<{}, {}>>]

Init == /\ level = [i \in Lines |-> Lowest] /\ priority = [i \in Lines |-> {}]
        /\ attributes = [i \in Lines |-> {}] /\ on = {} /\ asked = NoCall

\* A call, with one number or two.
Ask(call, i, v) == asked' = [call |-> call, irq |-> i, with |-> <<v, {}>>]
AskTwo(call, i, v, w) == asked' = [call |-> call, irq |-> i, with |-> <<v, w>>]

SetLevel(i, l) == /\ Ask("level", i, l)
                  /\ level' = [level EXCEPT ![i] = l]
                  /\ UNCHANGED <<priority, attributes, on>>

SetPriority(i, p) == /\ Ask("priority", i, p)
                     /\ priority' = [priority EXCEPT ![i] = p]
                     /\ UNCHANGED <<level, attributes, on>>

SetBoth(i, l, p) == /\ AskTwo("both", i, l, p)
                    /\ level' = [level EXCEPT ![i] = l]
                    /\ priority' = [priority EXCEPT ![i] = p]
                    /\ UNCHANGED <<attributes, on>>

SetAttributes(i, a) == /\ Ask("attributes", i, a)
                       /\ attributes' = [attributes EXCEPT ![i] = a]
                       /\ UNCHANGED <<level, priority, on>>

\* The trigger mode is bits 1 and 2 of the attributes.  The promise is kept for
\* the first line of a register; for the others nothing is said of the
\* attributes of the four lines that share it.
SetTrigger(i, mode) ==
    /\ Ask("trigger", i, mode)
    /\ IF i % 4 = 0
       THEN attributes' = [attributes EXCEPT ![i] = (@ \ {1, 2}) \cup {b + 1 : b \in mode}]
       ELSE /\ attributes' \in [Lines -> SUBSET (0 .. 7)]
            /\ \A j \in Lines : j \div 4 # i \div 4 => attributes'[j] = attributes[j]
    /\ UNCHANGED <<level, priority, on>>

SwitchOn(i) == /\ Ask("enable", i, {})
               /\ on' = on \cup {i}
               /\ UNCHANGED <<level, priority, attributes>>

SwitchOff(i) == /\ Ask("disable", i, {})
                /\ on' = on \ {i}
                /\ UNCHANGED <<level, priority, attributes>>

\* The step is that of the call which asked' names.
Next == LET i == asked'.irq
            v == asked'.with[1]
            w == asked'.with[2]
        IN /\ i \in Lines
           /\ \/ v \in Levels /\ SetLevel(i, v)
              \/ v \in Priorities /\ SetPriority(i, v)
              \/ v \in Levels /\ w \in Priorities /\ SetBoth(i, v, w)
              \/ v \in Attributes /\ SetAttributes(i, v)
              \/ v \subseteq {0, 1} /\ SetTrigger(i, v)
              \/ SwitchOn(i)
              \/ SwitchOff(i)

Spec == Init /\ [][Next]_lines
=============================================================================
