-------------------------------- MODULE Ring --------------------------------
(***************************************************************************)
(* The circular buffers of the two UART drivers: a power-of-two (LW UART)  *)
(* or arbitrary (JTAG UART) number of slots, a start index moved by the    *)
(* consumer, an end index moved by the producer.  One slot always stays    *)
(* empty, so that start = end means "empty" and nothing else.              *)
(***************************************************************************)
EXTENDS Integers, Sequences

\* (index + 1) & mask in the LW UART driver, (index + 1) % BUF_LEN in the
\* JTAG UART driver.
Succ(i, depth) == (i + 1) % depth

Indices(depth) == 0 .. depth - 1

\* The slot k places after index i, for k <= depth: (i + k) % BUF_LEN.
Slot(i, k, depth) == IF i + k < depth THEN i + k ELSE i + k - depth

\* How many slots hold data.
Used(start, end, depth) ==
    IF end >= start THEN end - start ELSE end - start + depth

\* Mutant: the producer does not look whether there is room.
Full_Ignored(start, end, depth) == FALSE
Full(start, end, depth) == Succ(end, depth) = start

\* The data between start and end, oldest first.
Contents(buf, start, end, depth) ==
    [k \in 1 .. Used(start, end, depth) |-> buf[Slot(start, k - 1, depth)]]
=============================================================================
