------------------------------ MODULE MCClock -------------------------------
(***************************************************************************)
(* The system clock with words of four values, so that the count rolls     *)
(* over its low word twice, two alarms, and a timer initialised twice.     *)
(***************************************************************************)
EXTENDS Clock

TwoAlarms == {"a1", "a2"}
=============================================================================
