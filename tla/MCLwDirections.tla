--------------------------- MODULE MCLwDirections ---------------------------
(***************************************************************************)
(* The LW UART driver used in one direction, which the initial state       *)
(* chooses, or in both.  One at a time, the rings can be deep enough to    *)
(* fill and wrap, and liveness can be checked; with both at once there are *)
(* too many states for that.                                               *)
(***************************************************************************)
EXTENDS MCLwUart

CONSTANT Ways    \* subset of {"tx", "rx", "both"}

VARIABLE way

\* A program that only writes (and breaks, and registers callbacks), or only reads.
OnlyWrites == pc' \notin ReadLabels /\ arrived' = 0
OnlyReads == pc' \notin WriteLabels \cup ControlLabels \cup {"c_wait"}

DirectedInit == Init /\ way \in Ways
DirectedNext == /\ Next /\ way' = way
                /\ way = "tx" => OnlyWrites
                /\ way = "rx" => OnlyReads
DirectedSpec == DirectedInit /\ [][DirectedNext]_<<vars, way>> /\ Fairness
=============================================================================
