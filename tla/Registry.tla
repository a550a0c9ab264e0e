------------------------------ MODULE Registry ------------------------------
(***************************************************************************)
(* What the interrupt API promises its callers: a handler is registered,   *)
(* with the context it is to be called with, and enabled in one step, or   *)
(* is not registered at all; an enabled interrupt calls the handler that   *)
(* is registered for it, with the context registered with it.              *)
(***************************************************************************)
EXTENDS Naturals

CONSTANTS Lines,   \* interrupt numbers
          Isrs,    \* handlers, each with a context of the same name
          None     \* no handler

VARIABLES registered,   \* registered[i]: the handler of line i
          on,           \* the lines that are enabled
          served        \* the last call: line, handler and context

registry == <<registered, on, served>>

Init == /\ registered = [i \in Lines |-> None]
        /\ on = {}
        /\ served = [line |-> None, isr |-> None, context |-> None]

Register(i, isr) == /\ registered' = [registered EXCEPT ![i] = isr]
                    /\ on' = IF isr = None THEN on \ {i} ELSE on \cup {i}
                    /\ UNCHANGED served

Switch(i) == /\ registered[i] # None
             /\ on' \in {on \cup {i}, on \ {i}}
             /\ UNCHANGED <<registered, served>>

Serve(i) == /\ i \in on /\ registered[i] # None
            /\ served' = [line |-> i, isr |-> registered[i], context |-> registered[i]]
            /\ UNCHANGED <<registered, on>>

Next == \E i \in Lines : \/ \E isr \in Isrs \cup {None} : Register(i, isr)
                         \/ Switch(i)
                         \/ Serve(i)

Spec == Init /\ [][Next]_registry
=============================================================================
