------------------------------ MODULE MCLwUart ------------------------------
(***************************************************************************)
(* The LW UART driver on small instances: the sets its cfg files choose    *)
(* from.  A length of 0 is legal for write() and read(), and takes a path  *)
(* of its own.                                                             *)
(***************************************************************************)
EXTENDS LwUart

NoLens == {}
ShortWrites == {0, 1, 3}
LongWrites == {2, 5}
Reads == {0, 1, 3}
NoOps == {}
\* Breaks, and a callback for errors.
ThreeOps == {"TRBK_ENABLE", "TRBK_DISABLE", "E"}
Disabled == -1
=============================================================================
