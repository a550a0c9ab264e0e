---------------------------- MODULE MCJtagOneWay ----------------------------
(***************************************************************************)
(* The JTAG UART driver used mainly in one direction, which the initial    *)
(* state chooses: blocks written while the host comes and goes, or         *)
(* characters read from a host that stays, with a write of one byte and    *)
(* changes of the time limit in between.  A write longer than the ring has *)
(* to wait for the handler.                                                *)
(***************************************************************************)
EXTENDS JtagUart

LongWrites == {1, 3}
Reads == {0, 2}
SomeTimeouts == {-1, 2}

VARIABLE way

OnlyWrites == pc' \notin ReadLabels /\ typed' = 0 /\ timeout' = timeout
MostlyReads == /\ hostchanges' = 0
               /\ (pc = "idle" /\ pc' = "w_space") => accepted + count' <= 1

OneWayInit == Init /\ way \in {"tx", "rx"}
OneWayNext == Next /\ way' = way /\ IF way = "tx" THEN OnlyWrites ELSE MostlyReads
OneWaySpec == OneWayInit /\ [][OneWayNext]_<<vars, way>> /\ Fairness
=============================================================================
