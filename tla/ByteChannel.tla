---------------------------- MODULE ByteChannel -----------------------------
(***************************************************************************)
(* What one direction of a UART driver promises, without rings, registers  *)
(* or interrupts: a bounded first-in first-out queue.  "put" and "got" are *)
(* the bytes that have ever entered and left it; a byte may also be thrown *)
(* away, but only by a flush of the whole queue, and only where the        *)
(* channel has one (CanFlush).                                             *)
(***************************************************************************)
EXTENDS Integers, Sequences

CONSTANTS Byte, Capacity, CanFlush

VARIABLES put, queue, got

chan == <<put, queue, got>>

Init == put = <<>> /\ queue = <<>> /\ got = <<>>

Put == \E b \in Byte :
          /\ Len(queue) < Capacity
          /\ queue' = Append(queue, b)
          /\ put' = Append(put, b)
          /\ UNCHANGED got

Get == /\ queue # <<>>
       /\ got' = Append(got, Head(queue))
       /\ queue' = Tail(queue)
       /\ UNCHANGED put

Flush == CanFlush /\ queue' = <<>> /\ UNCHANGED <<put, got>>

Next == Put \/ Get \/ Flush

Spec == Init /\ [][Next]_chan
=============================================================================
