---------------------------- MODULE BlockChannel ----------------------------
(***************************************************************************)
(* What one direction of the JTAG UART driver promises: a bounded          *)
(* first-in first-out queue that is filled and emptied in blocks.  A byte  *)
(* is named by its position in the stream, so "put", what has entered, is  *)
(* a number; "got" is what has left, in the order it left.                 *)
(***************************************************************************)
EXTENDS Integers, Sequences

CONSTANT Capacity

VARIABLES put, queue, got

chan == <<put, queue, got>>

Init == put = 0 /\ queue = <<>> /\ got = <<>>

Put == \E n \in 1 .. Capacity - Len(queue) :
          /\ put' = put + n
          /\ queue' = queue \o [i \in 1 .. n |-> put + i]
          /\ UNCHANGED got

Get == \E n \in 1 .. Len(queue) :
          /\ got' = got \o SubSeq(queue, 1, n)
          /\ queue' = SubSeq(queue, n + 1, Len(queue))
          /\ UNCHANGED put

Next == Put \/ Get

Spec == Init /\ [][Next]_chan
=============================================================================
