---------------------------- MODULE DataTheorems ----------------------------
(***************************************************************************)
(* What the operators of Ring and of Llist return, for structures of any   *)
(* size: the facts that make a pair of indices and a buffer a bounded      *)
(* FIFO, and a web of pointers a list that a walk goes round.  And what is *)
(* needed of numbers: induction over a set of them, quotients and          *)
(* remainders, a count read in two words, times made from ticks.           *)
(***************************************************************************)
EXTENDS Ring, Llist, SequenceTheorems, FiniteSetTheorems, TLAPS

(***************************************************************************)
(* Rings.                                                                  *)
(***************************************************************************)
\* The next index, without the modulus.
LEMMA SuccValue ==
  ASSUME NEW d \in Nat \ {0}, NEW i \in Indices(d)
  PROVE  /\ Succ(i, d) = IF i + 1 = d THEN 0 ELSE i + 1
         /\ Succ(i, d) \in Indices(d)
<1>1. CASE i + 1 = d
  BY <1>1 DEF Succ, Indices
<1>2. CASE i + 1 # d
  <2>1. i + 1 \in 0 .. d - 1
    BY <1>2 DEF Indices
  <2>2. (i + 1) % d = i + 1
    BY <2>1
  <2> QED BY <1>2, <2>1, <2>2 DEF Succ, Indices
<1> QED BY <1>1, <1>2

\* The contents are as long as the ring is full, which is never quite.
LEMMA ContentsLen ==
  ASSUME NEW d \in Nat \ {0}, NEW buf,
         NEW start \in Indices(d), NEW end \in Indices(d)
  PROVE  /\ Len(Contents(buf, start, end, d)) = Used(start, end, d)
         /\ Used(start, end, d) \in 0 .. d - 1
<1>1. Used(start, end, d) \in 0 .. d - 1
  BY DEF Used, Indices
<1> QED BY <1>1 DEF Contents

\* They are made of what is in the buffer.
LEMMA ContentsSeq ==
  ASSUME NEW S, NEW d \in Nat \ {0}, NEW buf \in [Indices(d) -> S],
         NEW start \in Indices(d), NEW end \in Indices(d)
  PROVE  Contents(buf, start, end, d) \in Seq(S)
<1>1. Used(start, end, d) \in 0 .. d - 1
  BY ContentsLen
<1>2. \A k \in 1 .. Used(start, end, d) : Slot(start, k - 1, d) \in Indices(d)
  BY <1>1 DEF Slot, Indices, Used
<1>3. Contents(buf, start, end, d) \in [1 .. Used(start, end, d) -> S]
  BY <1>2 DEF Contents
<1> QED BY <1>1, <1>3

\* Filling the free slot changes nothing the consumer can see.
LEMMA WriteFreeSlot ==
  ASSUME NEW d \in Nat \ {0}, NEW S, NEW buf \in [Indices(d) -> S], NEW b,
         NEW start \in Indices(d), NEW end \in Indices(d)
  PROVE  Contents([buf EXCEPT ![end] = b], start, end, d)
           = Contents(buf, start, end, d)
<1>1. \A k \in 1 .. Used(start, end, d) :
         /\ Slot(start, k - 1, d) \in Indices(d)
         /\ Slot(start, k - 1, d) # end
  BY DEF Slot, Indices, Used
<1>2. \A k \in 1 .. Used(start, end, d) :
         [buf EXCEPT ![end] = b][Slot(start, k - 1, d)] = buf[Slot(start, k - 1, d)]
  BY <1>1
<1> QED BY <1>2 DEF Contents

\* Moving the end over it makes it the last element.
LEMMA PublishSlot ==
  ASSUME NEW d \in Nat \ {0}, NEW S, NEW buf \in [Indices(d) -> S],
         NEW start \in Indices(d), NEW end \in Indices(d),
         ~Full(start, end, d)
  PROVE  /\ Contents(buf, start, Succ(end, d), d)
              = Append(Contents(buf, start, end, d), buf[end])
         /\ Used(start, end, d) < d - 1
<1> DEFINE n == Used(start, end, d)
           c == Contents(buf, start, end, d)
<1>1. /\ n \in Nat /\ n < d - 1
      /\ Used(start, Succ(end, d), d) = n + 1
      /\ Slot(start, n, d) = end
  <2>1. Succ(end, d) # start
    BY DEF Full
  <2>2. CASE end + 1 = d
    <3>1. Succ(end, d) = 0
      BY <2>2, SuccValue
    <3> QED BY <2>1, <2>2, <3>1 DEF Used, Slot, Indices
  <2>3. CASE end + 1 # d
    <3>1. Succ(end, d) = end + 1
      BY <2>3, SuccValue
    <3> QED BY <2>1, <2>3, <3>1 DEF Used, Slot, Indices
  <2> QED BY <2>2, <2>3
<1>2. c \in Seq(S) /\ Len(c) = n /\ \A k \in 1 .. n : c[k] = buf[Slot(start, k - 1, d)]
  <2>1. c \in Seq(S) /\ Len(c) = n
    BY ContentsSeq, ContentsLen
  <2>2. \A k \in 1 .. n : c[k] = buf[Slot(start, k - 1, d)]
    BY DEF Contents
  <2> QED BY <2>1, <2>2
<1>3. buf[end] \in S
  OBVIOUS
<1>4. Append(c, buf[end]) = [k \in 1 .. n + 1 |-> IF k = n + 1 THEN buf[end] ELSE c[k]]
  BY <1>1, <1>2, <1>3
<1>5. \A k \in 1 .. n + 1 : buf[Slot(start, k - 1, d)]
                            = IF k = n + 1 THEN buf[end] ELSE c[k]
  BY <1>1, <1>2
<1>6. Contents(buf, start, Succ(end, d), d)
        = [k \in 1 .. n + 1 |-> buf[Slot(start, k - 1, d)]]
  BY <1>1 DEF Contents
<1> QED BY <1>1, <1>4, <1>5, <1>6

\* Moving the start removes the first element.
LEMMA ConsumeSlot ==
  ASSUME NEW d \in Nat \ {0}, NEW S, NEW buf \in [Indices(d) -> S],
         NEW start \in Indices(d), NEW end \in Indices(d),
         start # end
  PROVE  /\ Contents(buf, start, end, d) # <<>>
         /\ Head(Contents(buf, start, end, d)) = buf[start]
         /\ Contents(buf, Succ(start, d), end, d) = Tail(Contents(buf, start, end, d))
<1> DEFINE n == Used(start, end, d)
           c == Contents(buf, start, end, d)
<1>1. /\ n \in Nat /\ n >= 1
      /\ Used(Succ(start, d), end, d) = n - 1
      /\ Slot(start, 0, d) = start
      /\ \A k \in 1 .. n - 1 : Slot(Succ(start, d), k - 1, d) = Slot(start, k, d)
  <2>1. CASE start + 1 = d
    <3>1. Succ(start, d) = 0
      BY <2>1, SuccValue
    <3> QED BY <2>1, <3>1 DEF Used, Slot, Indices
  <2>2. CASE start + 1 # d
    <3>1. Succ(start, d) = start + 1
      BY <2>2, SuccValue
    <3> QED BY <2>2, <3>1 DEF Used, Slot, Indices
  <2> QED BY <2>1, <2>2
<1>2. c \in Seq(S) /\ Len(c) = n /\ \A k \in 1 .. n : c[k] = buf[Slot(start, k - 1, d)]
  <2>1. c \in Seq(S) /\ Len(c) = n
    BY ContentsSeq, ContentsLen
  <2>2. \A k \in 1 .. n : c[k] = buf[Slot(start, k - 1, d)]
    BY DEF Contents
  <2> QED BY <2>1, <2>2
<1>3. c # <<>> /\ Head(c) = c[1]
  BY <1>1, <1>2
<1>4. c[1] = buf[start]
  BY <1>1, <1>2
<1>5. /\ Tail(c) \in Seq(S) /\ Len(Tail(c)) = n - 1
      /\ \A k \in 1 .. n - 1 : Tail(c)[k] = c[k + 1]
  BY <1>1, <1>2, <1>3, HeadTailProperties
<1> DEFINE t == Contents(buf, Succ(start, d), end, d)
<1>6. /\ t \in Seq(S) /\ Len(t) = n - 1
      /\ \A k \in 1 .. n - 1 : t[k] = buf[Slot(Succ(start, d), k - 1, d)]
  <2>1. Succ(start, d) \in Indices(d)
    BY SuccValue
  <2>2. /\ t \in Seq(S) /\ Len(t) = Used(Succ(start, d), end, d)
        /\ \A k \in 1 .. Used(Succ(start, d), end, d) :
              t[k] = buf[Slot(Succ(start, d), k - 1, d)]
    <3>1. t \in Seq(S) /\ Len(t) = Used(Succ(start, d), end, d)
      BY <2>1, ContentsSeq, ContentsLen
    <3>2. \A k \in 1 .. Used(Succ(start, d), end, d) :
              t[k] = buf[Slot(Succ(start, d), k - 1, d)]
      BY DEF Contents
    <3> QED BY <3>1, <3>2
  <2> QED BY <1>1, <2>2
<1>7. \A k \in 1 .. n - 1 : t[k] = Tail(c)[k]
  <2>1. SUFFICES ASSUME NEW k \in 1 .. n - 1 PROVE t[k] = Tail(c)[k]
    OBVIOUS
  <2>2. t[k] = buf[Slot(start, k, d)]
    BY <1>1, <1>6
  <2>3. Tail(c)[k] = c[k + 1] /\ k + 1 \in 1 .. n /\ (k + 1) - 1 = k
    BY <1>1, <1>5
  <2>4. c[k + 1] = buf[Slot(start, (k + 1) - 1, d)]
    BY <1>2, <2>3
  <2> QED BY <2>2, <2>3, <2>4
<1>8. t = Tail(c)
  <2> HIDE DEF c, t, n
  <2> QED BY <1>5, <1>6, <1>7, SeqEqual
<1> QED BY <1>3, <1>4, <1>8

\* Equal indices are an empty ring, and only they are.
LEMMA EmptyRing ==
  ASSUME NEW d \in Nat \ {0}, NEW buf,
         NEW start \in Indices(d), NEW end \in Indices(d)
  PROVE  start = end <=> Contents(buf, start, end, d) = <<>>
<1>1. start = end <=> Used(start, end, d) = 0
  BY DEF Used, Indices
<1>2. Used(start, end, d) \in Nat
  BY DEF Used, Indices
<1>3. CASE Used(start, end, d) = 0
  BY <1>1, <1>3 DEF Contents
<1>4. CASE Used(start, end, d) # 0
  <2>1. 1 \in DOMAIN Contents(buf, start, end, d)
    BY <1>2, <1>4 DEF Contents
  <2> QED BY <1>1, <1>4, <2>1
<1> QED BY <1>3, <1>4

\* A ring from which something was just taken is not full, ...
LEMMA ConsumeNotFull ==
  ASSUME NEW d \in Nat \ {0}, NEW start \in Indices(d), NEW end \in Indices(d),
         start # end
  PROVE  ~Full(Succ(start, d), end, d)
<1>1. Succ(start, d) = (IF start + 1 = d THEN 0 ELSE start + 1)
  BY SuccValue
<1>2. Succ(end, d) = (IF end + 1 = d THEN 0 ELSE end + 1)
  BY SuccValue
<1> QED BY <1>1, <1>2 DEF Full, Indices

\* ... nor is an empty one, if it has two slots.
LEMMA EmptyNotFull ==
  ASSUME NEW d \in Nat \ {0}, d >= 2, NEW end \in Indices(d)
  PROVE  ~Full(end, end, d)
<1>1. Succ(end, d) = (IF end + 1 = d THEN 0 ELSE end + 1)
  BY SuccValue
<1> QED BY <1>1 DEF Full, Indices

\* A reader that takes the first element and a producer that adds a last one
\* do not get in each other's way.
LEMMA TailAppend ==
  ASSUME NEW S, NEW s \in Seq(S), NEW e \in S, s # <<>>
  PROVE  /\ Tail(Append(s, e)) = Append(Tail(s), e)
         /\ Head(Append(s, e)) = Head(s)
         /\ Len(Tail(s)) = Len(s) - 1
<1>1. /\ Tail(s) \in Seq(S) /\ Len(Tail(s)) = Len(s) - 1 /\ Len(s) \in Nat /\ Len(s) > 0
      /\ \A i \in 1 .. Len(s) - 1 : Tail(s)[i] = s[i + 1]
  BY HeadTailProperties, EmptySeq
<1>2. /\ Append(s, e) \in Seq(S) /\ Append(s, e) # <<>> /\ Len(Append(s, e)) = Len(s) + 1
      /\ \A i \in 1 .. Len(s) : Append(s, e)[i] = s[i]
      /\ Append(s, e)[Len(s) + 1] = e
  BY AppendProperties
<1>3. /\ Tail(Append(s, e)) \in Seq(S) /\ Len(Tail(Append(s, e))) = Len(s)
      /\ \A i \in 1 .. Len(s) : Tail(Append(s, e))[i] = Append(s, e)[i + 1]
  BY <1>2, HeadTailProperties
<1>4. /\ Append(Tail(s), e) \in Seq(S) /\ Len(Append(Tail(s), e)) = Len(s)
      /\ \A i \in 1 .. Len(s) - 1 : Append(Tail(s), e)[i] = Tail(s)[i]
      /\ Append(Tail(s), e)[Len(s)] = e
  BY <1>1, AppendProperties
<1>5. \A i \in 1 .. Len(s) : Tail(Append(s, e))[i] = Append(Tail(s), e)[i]
  <2>1. SUFFICES ASSUME NEW i \in 1 .. Len(s)
                 PROVE  Tail(Append(s, e))[i] = Append(Tail(s), e)[i]
    OBVIOUS
  <2>2. CASE i = Len(s)
    BY <1>2, <1>3, <1>4, <2>2
  <2>3. CASE i # Len(s)
    <3>1. i \in 1 .. Len(s) - 1 /\ i + 1 \in 1 .. Len(s)
      <4>1. Len(s) \in Nat
        BY <1>1
      <4> QED BY <2>1, <2>3, <4>1
    <3>2. Tail(Append(s, e))[i] = s[i + 1]
      BY <1>2, <1>3, <3>1
    <3>3. Append(Tail(s), e)[i] = s[i + 1]
      BY <1>1, <1>4, <3>1
    <3> QED BY <3>2, <3>3
  <2> QED BY <2>2, <2>3
<1>6. Tail(Append(s, e)) = Append(Tail(s), e)
  BY <1>3, <1>4, <1>5, SeqEqual
<1>7. Head(Append(s, e)) = Head(s)
  BY <1>1, <1>2
<1> QED BY <1>1, <1>6, <1>7

\* A queue behind a log: adding to the queue adds to the whole, and moving the
\* first element from the queue to the log leaves the whole alone.
LEMMA QueueBehindLog ==
  ASSUME NEW S, NEW log \in Seq(S), NEW q \in Seq(S), NEW e \in S
  PROVE  /\ log \o Append(q, e) = Append(log \o q, e)
         /\ (q # <<>> => Append(log, Head(q)) \o Tail(q) = log \o q)
<1>1. /\ Append(q, e) \in Seq(S) /\ Append(q, e) = q \o <<e>>
      /\ <<e>> \in Seq(S)
  BY AppendProperties
<1>2. log \o q \in Seq(S) /\ Append(log \o q, e) = (log \o q) \o <<e>>
  BY AppendProperties, ConcatProperties
<1>3. (log \o q) \o <<e>> = log \o (q \o <<e>>)
  BY <1>1, ConcatAssociative
<1>4. ASSUME q # <<>>
      PROVE  Append(log, Head(q)) \o Tail(q) = log \o q
  <2>1. Head(q) \in S /\ Tail(q) \in Seq(S) /\ <<Head(q)>> \in Seq(S)
    BY <1>4, HeadTailProperties
  <2>2. Append(log, Head(q)) = log \o <<Head(q)>>
    BY <2>1, AppendProperties
  <2>3. <<Head(q)>> \o Tail(q) = q
    BY <1>4, <2>1
  <2>4. (log \o <<Head(q)>>) \o Tail(q) = log \o (<<Head(q)>> \o Tail(q))
    BY <2>1, ConcatAssociative
  <2> QED BY <2>2, <2>3, <2>4
<1> QED BY <1>1, <1>2, <1>3, <1>4

-----------------------------------------------------------------------------
(***************************************************************************)
(* Blocks: several slots published, or released, at once.                  *)
(***************************************************************************)
LEMMA UsedRange ==
  ASSUME NEW d \in Nat \ {0}, NEW start \in Indices(d), NEW end \in Indices(d)
  PROVE  Used(start, end, d) \in 0 .. d - 1
BY DEF Used, Indices

LEMMA SlotInRing ==
  ASSUME NEW d \in Nat \ {0}, NEW i \in Indices(d), NEW k \in 0 .. d
  PROVE  Slot(i, k, d) \in Indices(d)
BY DEF Slot, Indices

\* Publishing k free slots makes the ring k longer, and they are the last ones.
LEMMA PublishBlock ==
  ASSUME NEW d \in Nat \ {0}, NEW start \in Indices(d), NEW end \in Indices(d),
         NEW k \in Nat, k <= d - 1 - Used(start, end, d)
  PROVE  /\ Used(start, Slot(end, k, d), d) = Used(start, end, d) + k
         /\ Slot(end, k, d) \in Indices(d)
         /\ \A j \in 1 .. k :
               Slot(start, Used(start, end, d) + j - 1, d) = Slot(end, j - 1, d)
BY DEF Used, Slot, Indices

\* Releasing the first k slots makes the ring k shorter; what was k places on
\* is now at the start.
LEMMA ReleaseBlock ==
  ASSUME NEW d \in Nat \ {0}, NEW start \in Indices(d), NEW end \in Indices(d),
         NEW k \in 0 .. Used(start, end, d)
  PROVE  /\ Used(Slot(start, k, d), end, d) = Used(start, end, d) - k
         /\ Slot(start, k, d) \in Indices(d)
         /\ \A j \in 1 .. Used(start, end, d) - k :
               Slot(Slot(start, k, d), j - 1, d) = Slot(start, k + j - 1, d)
BY DEF Used, Slot, Indices

\* The free slots at "end" are not among those in use.
LEMMA FreeSlots ==
  ASSUME NEW d \in Nat \ {0}, NEW start \in Indices(d), NEW end \in Indices(d),
         NEW k \in Nat, k <= d - 1 - Used(start, end, d), end + k <= d,
         NEW j \in 1 .. Used(start, end, d)
  PROVE  Slot(start, j - 1, d) \notin end .. end + k - 1
BY DEF Used, Slot, Indices

\* The remainder of a number less than one turn outside the ring.
LEMMA OneTurn ==
  ASSUME NEW d \in Nat \ {0}, NEW x \in -d .. 2 * d - 1
  PROVE  x % d = IF x < 0 THEN x + d ELSE IF x < d THEN x ELSE x - d
OBVIOUS

\* What the ring's operators are in the arithmetic of the code.
LEMMA RingModulo ==
  ASSUME NEW d \in Nat \ {0}, NEW a \in Indices(d), NEW b \in Indices(d), NEW k \in 0 .. d
  PROVE  /\ (b - a) % d = Used(a, b, d)
         /\ (a - b - 1) % d = d - 1 - Used(a, b, d)
         /\ (a + k) % d = Slot(a, k, d)
<1>1. a \in 0 .. d - 1 /\ b \in 0 .. d - 1
  BY DEF Indices
<1>2. (b - a) % d = Used(a, b, d)
  <2>1. PICK x \in -d .. 2 * d - 1 : x = b - a
    BY <1>1
  <2>2. x % d = IF x < 0 THEN x + d ELSE IF x < d THEN x ELSE x - d
    BY OneTurn
  <2> QED BY <1>1, <2>1, <2>2 DEF Used
<1>3. (a - b - 1) % d = d - 1 - Used(a, b, d)
  <2>1. PICK x \in -d .. 2 * d - 1 : x = a - b - 1
    BY <1>1
  <2>2. x % d = IF x < 0 THEN x + d ELSE IF x < d THEN x ELSE x - d
    BY OneTurn
  <2> QED BY <1>1, <2>1, <2>2 DEF Used
<1>4. (a + k) % d = Slot(a, k, d)
  <2>1. PICK x \in -d .. 2 * d - 1 : x = a + k
    BY <1>1
  <2>2. x % d = IF x < 0 THEN x + d ELSE IF x < d THEN x ELSE x - d
    BY OneTurn
  <2> QED BY <1>1, <2>1, <2>2 DEF Slot
<1> QED BY <1>2, <1>3, <1>4

-----------------------------------------------------------------------------
(***************************************************************************)
(* Division, and counts of two words.                                      *)
(***************************************************************************)
LEMMA DivMod ==
  ASSUME NEW w \in Nat \ {0}, NEW n \in Nat
  PROVE  /\ n \div w \in Nat /\ n % w \in 0 .. w - 1
         /\ n = (n \div w) * w + (n % w)
<1>1. n % w \in 0 .. w - 1 /\ n \div w \in Nat
  OBVIOUS
<1>2. n = w * (n \div w) + (n % w)
  OBVIOUS
<1>3. w * (n \div w) = (n \div w) * w
  BY <1>1
<1> QED BY <1>1, <1>2, <1>3

LEMMA Monotone ==
  ASSUME NEW w \in Nat \ {0}, NEW q \in Nat, NEW p \in Nat, q < p
  PROVE  q * w + w <= p * w
<1>1. (q + 1) * w = q * w + w
  OBVIOUS
<1>2. \A k \in Nat : (q + 1 + k) * w >= (q + 1) * w
  OBVIOUS
<1>3. p = q + 1 + (p - q - 1) /\ p - q - 1 \in Nat
  OBVIOUS
<1>4. p * w >= (q + 1) * w
  BY <1>2, <1>3
<1>5. p * w \in Int /\ q * w \in Int /\ (q + 1) * w \in Int
  OBVIOUS
<1> QED BY <1>1, <1>4, <1>5

\* A quotient and a remainder are the only ones.
LEMMA ModuloOf ==
  ASSUME NEW w \in Nat \ {0}, NEW k \in Nat, NEW x \in 0 .. w - 1
  PROVE  ((k * w) + x) % w = x /\ ((k * w) + x) \div w = k
<1> DEFINE y == (k * w) + x
<1>1. k * w \in Nat /\ y \in Nat
  OBVIOUS
<1>2. PICK p \in Nat, r \in 0 .. w - 1 : y \div w = p /\ y % w = r /\ y = (p * w) + r
  BY <1>1, DivMod
<1>3. p * w \in Nat /\ y = (k * w) + x
  BY <1>2
<1> HIDE DEF y
<1>4. ~(p < k)
  <2> SUFFICES ASSUME p < k PROVE FALSE
    OBVIOUS
  <2>1. p * w + w <= k * w
    BY Monotone
  <2> QED BY <1>1, <1>2, <1>3, <2>1
<1>5. ~(k < p)
  <2> SUFFICES ASSUME k < p PROVE FALSE
    OBVIOUS
  <2>1. k * w + w <= p * w
    BY Monotone
  <2> QED BY <1>1, <1>2, <1>3, <2>1
<1>6. p = k
  BY <1>4, <1>5
<1>7. r = x
  <2>1. p * w = k * w
    BY <1>6
  <2>2. PICK kw \in Nat : kw = k * w
    BY <1>1
  <2>3. y = kw + x /\ y = kw + r
    BY <1>2, <1>3, <2>1, <2>2
  <2>4. x \in Int /\ r \in Int
    OBVIOUS
  <2> QED BY <2>2, <2>3, <2>4
<1> QED BY <1>2, <1>6, <1>7 DEF y

\* A later count has no smaller high word.
LEMMA DivMonotone ==
  ASSUME NEW w \in Nat \ {0}, NEW m \in Nat, NEW n \in Nat, m <= n
  PROVE  m \div w <= n \div w
<1>1. PICK p \in Nat, r \in 0 .. w - 1 : m \div w = p /\ m = p * w + r
  BY DivMod
<1>2. PICK q \in Nat, s \in 0 .. w - 1 : n \div w = q /\ n = q * w + s
  BY DivMod
<1>3. ~(q < p)
  <2> SUFFICES ASSUME q < p PROVE FALSE
    OBVIOUS
  <2>1. q * w + w <= p * w /\ q * w \in Int /\ p * w \in Int
    BY Monotone
  <2> QED BY <1>1, <1>2, <2>1
<1> QED BY <1>1, <1>2, <1>3

\* Two words read one after the other make a count that was, if the high word
\* is still what it was.
LEMMA HalvesMeet ==
  ASSUME NEW w \in Nat \ {0}, NEW h \in Nat, NEW l \in Nat, NEW n \in Nat,
         h <= l, l <= n, n \div w = h \div w
  PROVE  (h \div w) * w + (l % w) = l
<1>1. h \div w <= l \div w /\ l \div w <= n \div w
  BY DivMonotone
<1>2. h \div w \in Nat /\ l \div w \in Nat
  BY DivMod
<1>3. l \div w = h \div w
  BY <1>1, <1>2
<1>4. l = (l \div w) * w + (l % w)
  BY DivMod
<1> QED BY <1>3, <1>4

\* The time n ticks make, in microseconds, as settimeofday() and gettimeofday() both compute
\* it, is wrong by less than a second, and not at all if the rate divides one.
LEMMA GaugeRight ==
  ASSUME NEW U \in Nat \ {0}, NEW r \in 1 .. U, NEW n \in Nat
  PROVE  LET g == ((n \div r) * U) + ((n * (U \div r)) % U)
         IN /\ g \in Nat
            /\ -(r * U) < g * r - n * U /\ g * r - n * U < r * U
            /\ U % r = 0 => g * r = n * U
<1> DEFINE c == n \div r
           d == n % r
           q == U \div r
           u == (n * q) % U
           g == (c * U) + u
<1>0. r \in Nat \ {0}
  OBVIOUS
<1>1. c \in Nat /\ d \in 0 .. r - 1 /\ n = c * r + d
  BY <1>0, DivMod
<1>2. q \in Nat /\ U % r \in 0 .. r - 1 /\ U = q * r + (U % r)
  BY <1>0, DivMod
<1>3. n * q \in Nat /\ u \in 0 .. U - 1
  BY <1>2, DivMod
<1> HIDE DEF c, d, q, u
<1>4. c * U \in Nat /\ g \in Nat
  BY <1>1, <1>3
<1>5. g * r = (c * U) * r + u * r
  BY <1>1, <1>3, <1>4
<1>6. n * U = (c * r) * U + d * U
  BY <1>1
<1>7. (c * U) * r = (c * r) * U /\ (c * r) * U \in Nat
  BY <1>1
<1>8. g * r - n * U = u * r - d * U
  <2>1. u * r \in Nat /\ d * U \in Nat
    BY <1>1, <1>3
  <2> QED BY <1>5, <1>6, <1>7, <2>1
<1>9. u * r <= (U - 1) * r /\ (U - 1) * r = r * U - r
  BY <1>3
<1>10. d * U <= (r - 1) * U /\ (r - 1) * U = r * U - U
  BY <1>1
<1>11. u * r \in Nat /\ d * U \in Nat /\ r * U \in Nat
  BY <1>1, <1>3
<1>12. -(r * U) < g * r - n * U /\ g * r - n * U < r * U
  BY <1>8, <1>9, <1>10, <1>11
<1>13. ASSUME U % r = 0 PROVE g * r = n * U
  <2>1. U = q * r
    BY <1>2, <1>13
  <2>2. n * q = c * U + d * q
    <3>1. n * q = (c * r + d) * q
      BY <1>1
    <3>2. (c * r + d) * q = c * (r * q) + d * q
      BY <1>1, <1>2
    <3>3. r * q = U
      BY <1>2, <2>1
    <3> QED BY <3>1, <3>2, <3>3
  <2>3. d * q \in 0 .. U - 1
    <3>1. d * q <= (r - 1) * q /\ (r - 1) * q = r * q - q /\ r * q = U
      BY <1>1, <1>2, <2>1
    <3>2. q # 0
      BY <1>2, <2>1
    <3>3. d * q \in Nat
      BY <1>1, <1>2
    <3> QED BY <1>2, <3>1, <3>2, <3>3
  <2>4. u = d * q
    <3>1. ((c * U) + (d * q)) % U = d * q
      BY <1>1, <2>3, ModuloOf
    <3> QED BY <2>2, <3>1 DEF u
  <2>5. u * r = d * U
    BY <2>1, <2>4, <1>1, <1>2
  <2> QED BY <1>4, <1>8, <1>11, <2>5
<1> QED BY <1>4, <1>12, <1>13 DEF c, q, u

\* Seconds and microseconds are added separately.
LEMMA SumOfParts ==
  ASSUME NEW U \in Nat \ {0}, NEW a \in Nat, NEW b \in Nat, NEW c \in Nat,
         NEW x \in Int, NEW y \in Int, NEW z \in Int
  PROVE  (((a - b) + c) * U) + ((x - y) + z) = (((a * U) + x) - ((b * U) + y)) + ((c * U) + z)
<1>1. ((a - b) + c) * U = ((a * U) - (b * U)) + (c * U)
  OBVIOUS
<1>2. PICK aU \in Int, bU \in Int, cU \in Int : aU = a * U /\ bU = b * U /\ cU = c * U
  OBVIOUS
<1> QED BY <1>1, <1>2

\* What gettimeofday() makes of it, with n ticks counted, m of them when T was set.
LEMMA ReportRight ==
  ASSUME NEW U \in Nat \ {0}, NEW r \in 1 .. U, NEW T \in Nat, NEW m \in Nat, NEW n \in Nat
  PROVE  LET q == U \div r
             sec == ((T \div U) - (m \div r)) + (n \div r)
             usec == ((T % U) - ((m * q) % U)) + ((n * q) % U)
             t == IF usec < 0 /\ sec <= 0 THEN 0 ELSE (sec * U) + usec
             expected == (T * r) + ((n - m) * U)
             error == (t * r) - expected
         IN IF expected < 0 THEN t * r < (2 * U) * r
            ELSE /\ U % r = 0 => error = 0
                 /\ -((2 * U) * r) < error /\ error < (2 * U) * r
<1> DEFINE q == U \div r
           sec == ((T \div U) - (m \div r)) + (n \div r)
           usec == ((T % U) - ((m * q) % U)) + ((n * q) % U)
           s == (sec * U) + usec
           gm == ((m \div r) * U) + ((m * q) % U)
           gn == ((n \div r) * U) + ((n * q) % U)
           R == r * U
           expected == (T * r) + ((n - m) * U)
<1>1. r \in Nat \ {0} /\ R \in Nat /\ R # 0 /\ (2 * U) * r = R + R
  OBVIOUS
<1>2. /\ T \div U \in Nat /\ T % U \in 0 .. U - 1 /\ T = ((T \div U) * U) + (T % U)
      /\ m \div r \in Nat /\ n \div r \in Nat /\ q \in Nat
  BY <1>1, DivMod
<1>3. m * q \in Nat /\ n * q \in Nat
  BY <1>2
<1>4. (m * q) % U \in 0 .. U - 1 /\ (n * q) % U \in 0 .. U - 1
  BY <1>3, DivMod
<1>5. gm \in Nat /\ -R < gm * r - m * U /\ gm * r - m * U < R /\ (U % r = 0 => gm * r = m * U)
  BY GaugeRight
<1>5a. gn \in Nat /\ -R < gn * r - n * U /\ gn * r - n * U < R /\ (U % r = 0 => gn * r = n * U)
  BY GaugeRight
<1>p. PICK a \in Nat, b \in Nat, c \in Nat, x \in Int, y \in Int, z \in Int :
           /\ a = T \div U /\ b = m \div r /\ c = n \div r
           /\ x = T % U /\ y = (m * q) % U /\ z = (n * q) % U
  BY <1>2, <1>4
<1>6. sec \in Int /\ usec \in Int /\ s \in Int
  <2>1. sec = (a - b) + c /\ usec = (x - y) + z
    BY <1>p
  <2> HIDE DEF sec, usec
  <2> QED BY <2>1
<1>7. s = (T - gm) + gn
  <2>1. s = (((a - b) + c) * U) + ((x - y) + z)
    BY <1>p
  <2>2. T = (a * U) + x /\ gm = (b * U) + y /\ gn = (c * U) + z
    BY <1>p, <1>2
  <2> HIDE DEF s, gm, gn
  <2>3. (((a - b) + c) * U) + ((x - y) + z) = (((a * U) + x) - ((b * U) + y)) + ((c * U) + z)
    BY SumOfParts
  <2> QED BY <2>1, <2>2, <2>3
<1> HIDE DEF gm, gn, sec, usec, s, R, q
<1>8. s * r = (T * r - gm * r) + gn * r
  BY <1>5, <1>5a, <1>7
<1>9. (n - m) * U = n * U - m * U
  OBVIOUS
<1>10. T * r \in Nat /\ gm * r \in Nat /\ gn * r \in Nat /\ n * U \in Nat /\ m * U \in Nat
  BY <1>5, <1>5a
<1>11. s * r - expected = (gn * r - n * U) - (gm * r - m * U)
  BY <1>8, <1>9, <1>10
<1>12. expected \in Int /\ s * r \in Int
  BY <1>8, <1>9, <1>10
<1>13. /\ -(R + R) < s * r - expected /\ s * r - expected < R + R
       /\ U % r = 0 => s * r = expected
  <2>1. -(R + R) < s * r - expected /\ s * r - expected < R + R
    BY <1>1, <1>5, <1>5a, <1>10, <1>11
  <2>2. U % r = 0 => s * r = expected
    BY <1>5, <1>5a, <1>10, <1>11, <1>12
  <2> QED BY <2>1, <2>2
<1>14. CASE ~(usec < 0 /\ sec <= 0)
  <2>1. (IF usec < 0 /\ sec <= 0 THEN 0 ELSE s) = s
    BY <1>14
  <2>2. IF expected < 0 THEN s * r < (2 * U) * r
        ELSE /\ U % r = 0 => s * r - expected = 0
             /\ -((2 * U) * r) < s * r - expected /\ s * r - expected < (2 * U) * r
    <3> HIDE DEF expected
    <3> QED BY <1>1, <1>12, <1>13
  <2> QED BY <2>1, <2>2 DEF q, sec, usec, s
<1>15. CASE usec < 0 /\ sec <= 0
  <2>1. (IF usec < 0 /\ sec <= 0 THEN 0 ELSE s) = 0
    BY <1>15
  <2>2. s < 0
    <3>1. sec * U <= 0
      BY <1>6, <1>15
    <3> QED BY <1>6, <1>15, <3>1 DEF s
  <2>3. s * r < 0
    BY <1>1, <1>6, <2>2
  <2>4. IF expected < 0 THEN 0 * r < (2 * U) * r
        ELSE /\ U % r = 0 => 0 * r - expected = 0
             /\ -((2 * U) * r) < 0 * r - expected /\ 0 * r - expected < (2 * U) * r
    <3> HIDE DEF expected
    <3>1. 0 * r = 0
      OBVIOUS
    <3> QED BY <1>1, <1>12, <1>13, <2>3, <3>1
  <2> QED BY <2>1, <2>4 DEF q, sec, usec, s
<1> QED BY <1>14, <1>15

-----------------------------------------------------------------------------
(***************************************************************************)
(* Induction, over a set of naturals.                                      *)
(***************************************************************************)
Below == {p \in Nat \X Nat : p[1] < p[2]}

\* A set of naturals has a least element.
LEMMA LeastElement ==
  ASSUME NEW T \in SUBSET Nat, T # {}
  PROVE  \E x \in T : \A y \in T : x <= y
<1>1. IsWellFoundedOn(Below, Nat)
  BY NatLessThanWellFounded, Zenon DEF OpToRel, Below
<1>2. PICK x \in T : \A y \in T : <<y, x>> \notin Below
  BY <1>1, WFMin, Zenon
<1>3. \A y \in T : <<y, x>> \in Nat \X Nat /\ (<<y, x>>)[1] = y /\ (<<y, x>>)[2] = x
  OBVIOUS
<1>4. \A y \in T : ~(y < x)
  BY <1>2, <1>3 DEF Below
<1> QED BY <1>4

\* A set that holds 0, and with every number the next, holds them all.
LEMMA Induction ==
  ASSUME NEW P \in SUBSET Nat, 0 \in P, \A n \in P : n + 1 \in P
  PROVE  \A n \in Nat : n \in P
<1> SUFFICES ASSUME Nat \ P # {} PROVE FALSE
  OBVIOUS
<1>1. PICK n \in Nat \ P : \A m \in Nat \ P : n <= m
  BY LeastElement
<1>2. n - 1 \in P
  BY <1>1
<1> QED BY <1>1, <1>2

-----------------------------------------------------------------------------
(***************************************************************************)
(* Walks.                                                                  *)
(***************************************************************************)
Trace(f, links, list, k) ==
    f = [i \in 0 .. k |-> IF i = 0 THEN list ELSE links[f[i - 1]].next]

\* A walk of any length exists, and there is only one.
LEMMA TraceExists ==
  ASSUME NEW links, NEW list
  PROVE  \A k \in Nat : \E f : Trace(f, links, list, k)
<1> DEFINE P == {k \in Nat : \E f : Trace(f, links, list, k)}
<1>1. 0 \in P
  <2>1. Trace([i \in 0 .. 0 |-> list], links, list, 0)
    BY DEF Trace
  <2> QED BY <2>1
<1>2. ASSUME NEW k \in P PROVE k + 1 \in P
  <2>1. PICK f : Trace(f, links, list, k)
    OBVIOUS
  <2> DEFINE g == [i \in 0 .. k + 1 |-> IF i = k + 1 THEN links[f[k]].next ELSE f[i]]
  <2>2. \A i \in 0 .. k + 1 : g[i] = IF i = 0 THEN list ELSE links[g[i - 1]].next
    <3> SUFFICES ASSUME NEW i \in 0 .. k + 1
                 PROVE  g[i] = IF i = 0 THEN list ELSE links[g[i - 1]].next
      OBVIOUS
    <3>1. CASE i = k + 1
      BY <3>1
    <3>2. CASE i \in 0 .. k
      <4>1. f[i] = IF i = 0 THEN list ELSE links[f[i - 1]].next
        BY <2>1, <3>2 DEF Trace
      <4>2. g[i] = f[i] /\ (i # 0 => g[i - 1] = f[i - 1])
        BY <3>2
      <4> QED BY <4>1, <4>2
    <3> QED BY <3>1, <3>2
  <2>3. Trace(g, links, list, k + 1)
    <3>1. g = [i \in 0 .. k + 1 |-> g[i]]
      OBVIOUS
    <3> QED BY <2>2, <3>1 DEF Trace
  <2> QED BY <2>3
<1> HIDE DEF P
<1>3. \A k \in Nat : k \in P
  <2>1. P \in SUBSET Nat
    BY DEF P
  <2> QED BY <1>1, <1>2, <2>1, Induction
<1> QED BY <1>3 DEF P

LEMMA TracesAgree ==
  ASSUME NEW links, NEW list, NEW k \in Nat, NEW m \in Nat, k <= m,
         NEW f, NEW g, Trace(f, links, list, k), Trace(g, links, list, m)
  PROVE  \A i \in 0 .. k : f[i] = g[i]
<1> DEFINE P == {n \in Nat : n \in 0 .. k => f[n] = g[n]}
<1>0. /\ \A i \in 0 .. k : f[i] = IF i = 0 THEN list ELSE links[f[i - 1]].next
      /\ \A i \in 0 .. m : g[i] = IF i = 0 THEN list ELSE links[g[i - 1]].next
  BY DEF Trace
<1>1. 0 \in P
  BY <1>0
<1>2. ASSUME NEW n \in P PROVE n + 1 \in P
  <2>1. CASE n + 1 \in 0 .. k
    <3>1. n \in 0 .. k /\ n + 1 \in 0 .. m /\ n + 1 # 0 /\ n + 1 - 1 = n
      BY <2>1
    <3>2. f[n + 1] = links[f[n]].next /\ g[n + 1] = links[g[n]].next
      BY <1>0, <2>1, <3>1
    <3> QED BY <3>1, <3>2
  <2> QED BY <2>1
<1> HIDE DEF P
<1>3. \A n \in Nat : n \in P
  <2>1. P \in SUBSET Nat
    BY DEF P
  <2> QED BY <1>1, <1>2, <2>1, Induction
<1> QED BY <1>3 DEF P

\* A walk starts at the list and follows "next".
LEMMA WalkSteps ==
  ASSUME NEW links, NEW list
  PROVE  /\ Walk(links, list, 0) = list
         /\ \A k \in Nat : Walk(links, list, k + 1) = links[Walk(links, list, k)].next
<1>1. ASSUME NEW k \in Nat
      PROVE  \E f : Trace(f, links, list, k) /\ Walk(links, list, k) = f[k]
  <2> DEFINE f == CHOOSE g : Trace(g, links, list, k)
  <2>1. Trace(f, links, list, k)
    BY TraceExists, Zenon
  <2>2. Walk(links, list, k) = f[k]
    BY DEF Walk, Trace
  <2> QED BY <2>1, <2>2
<1>2. Walk(links, list, 0) = list
  <2>1. PICK f : Trace(f, links, list, 0) /\ Walk(links, list, 0) = f[0]
    BY <1>1
  <2> QED BY <2>1 DEF Trace
<1>3. ASSUME NEW k \in Nat
      PROVE  Walk(links, list, k + 1) = links[Walk(links, list, k)].next
  <2>1. PICK f : Trace(f, links, list, k) /\ Walk(links, list, k) = f[k]
    BY <1>1
  <2>2. PICK g : Trace(g, links, list, k + 1) /\ Walk(links, list, k + 1) = g[k + 1]
    BY <1>1
  <2>3. f[k] = g[k]
    <3>1. k + 1 \in Nat /\ k <= k + 1 /\ k \in 0 .. k
      OBVIOUS
    <3>2. Trace(f, links, list, k) /\ Trace(g, links, list, k + 1)
      BY <2>1, <2>2
    <3>3. \A i \in 0 .. k : f[i] = g[i]
      BY <3>1, <3>2, TracesAgree
    <3> QED BY <3>1, <3>3
  <2>4. g[k + 1] = links[g[k]].next
    <3>1. k + 1 \in 0 .. k + 1 /\ k + 1 # 0 /\ k + 1 - 1 = k
      OBVIOUS
    <3> QED BY <2>2, <3>1 DEF Trace
  <2> QED BY <2>1, <2>2, <2>3, <2>4
<1> QED BY <1>2, <1>3

-----------------------------------------------------------------------------
(***************************************************************************)
(* Lists.  The nodes c[0], ..., c[n], all different, linked in this order  *)
(* into a circle; c[0] is the head.                                        *)
(***************************************************************************)
Chain(links, c, n) ==
    /\ n \in Nat /\ c \in [0 .. n -> DOMAIN links]
    /\ \A i, j \in 0 .. n : c[i] = c[j] => i = j
    /\ \A i \in 0 .. n - 1 : links[c[i]].next = c[i + 1] /\ links[c[i + 1]].previous = c[i]
    /\ links[c[n]].next = c[0] /\ links[c[0]].previous = c[n]

OnChain(c, n) == {c[i] : i \in 1 .. n}

\* A walk goes round the circle.
LEMMA WalkOnChain ==
  ASSUME NEW links, NEW c, NEW n, Chain(links, c, n)
  PROVE  /\ \A i \in 0 .. n : Walk(links, c[0], i) = c[i]
         /\ Walk(links, c[0], n + 1) = c[0]
         /\ \A k \in Nat : \E i \in 0 .. n : Walk(links, c[0], k) = c[i]
<1> DEFINE w == [k \in Nat |-> Walk(links, c[0], k)]
           P == {k \in Nat : k \in 0 .. n => w[k] = c[k]}
           Q == {k \in Nat : \E i \in 0 .. n : w[k] = c[i]}
<1>0. /\ n \in Nat /\ w[0] = c[0]
      /\ \A k \in Nat : w[k + 1] = links[w[k]].next
      /\ \A i \in 0 .. n - 1 : links[c[i]].next = c[i + 1]
      /\ links[c[n]].next = c[0]
  <2>1. n \in Nat /\ links[c[n]].next = c[0]
    BY DEF Chain
  <2>2. \A i \in 0 .. n - 1 : links[c[i]].next = c[i + 1]
    BY DEF Chain
  <2>3. w[0] = c[0]
    BY WalkSteps
  <2>4. ASSUME NEW k \in Nat PROVE w[k + 1] = links[w[k]].next
    <3>1. Walk(links, c[0], k + 1) = links[Walk(links, c[0], k)].next
      BY WalkSteps, Zenon
    <3> QED BY <3>1
  <2> QED BY <2>1, <2>2, <2>3, <2>4
<1>W. \A k \in Nat : w[k] = Walk(links, c[0], k)
  OBVIOUS
<1> HIDE DEF w
<1>1. \A k \in Nat : k \in P
  <2>1. 0 \in P
    BY <1>0
  <2>2. ASSUME NEW k \in P PROVE k + 1 \in P
    <3>1. CASE k + 1 \in 0 .. n
      <4>1. k \in 0 .. n - 1 /\ k \in 0 .. n /\ k \in Nat
        BY <1>0, <3>1
      <4>2. w[k] = c[k] /\ w[k + 1] = links[w[k]].next /\ links[c[k]].next = c[k + 1]
        BY <1>0, <4>1
      <4> QED BY <4>1, <4>2
    <3> QED BY <3>1
  <2>3. P \in SUBSET Nat
    OBVIOUS
  <2> HIDE DEF P
  <2> QED BY <2>1, <2>2, <2>3, Induction
<1>2. \A i \in 0 .. n : w[i] = c[i]
  BY <1>0, <1>1
<1>3. w[n + 1] = c[0]
  <2>1. w[n] = c[n] /\ w[n + 1] = links[w[n]].next
    BY <1>0, <1>2
  <2> QED BY <1>0, <2>1
<1>4. \A k \in Nat : k \in Q
  <2>1. 0 \in Q
    BY <1>0
  <2>2. ASSUME NEW k \in Q PROVE k + 1 \in Q
    <3>1. PICK i \in 0 .. n : w[k] = c[i]
      OBVIOUS
    <3>2. w[k + 1] = links[c[i]].next
      BY <1>0, <3>1
    <3>3. CASE i = n
      <4>1. w[k + 1] = c[0] /\ 0 \in 0 .. n
        BY <1>0, <3>2, <3>3
      <4> QED BY <4>1
    <3>4. CASE i \in 0 .. n - 1
      <4>1. w[k + 1] = c[i + 1] /\ i + 1 \in 0 .. n
        BY <1>0, <3>2, <3>4
      <4> QED BY <4>1
    <3> QED BY <1>0, <3>3, <3>4
  <2>3. Q \in SUBSET Nat
    OBVIOUS
  <2> HIDE DEF Q
  <2> QED BY <2>1, <2>2, <2>3, Induction
<1>5. \A i \in 0 .. n : i \in Nat /\ n + 1 \in Nat
  BY <1>0
<1> QED BY <1>2, <1>3, <1>4, <1>5, <1>W, <1>0

\* So that a walk as long as there are nodes meets the nodes of the circle and no other.
LEMMA ChainMembers ==
  ASSUME NEW links, IsFiniteSet(DOMAIN links), NEW c, NEW n, Chain(links, c, n)
  PROVE  Members(links, c[0]) = OnChain(c, n) /\ Circular(links, c[0])
<1> DEFINE size == Cardinality(DOMAIN links)
<1>1. n \in Nat /\ size \in Nat /\ n + 1 <= size
  <2>1. n \in Nat /\ size \in Nat
    BY FS_CardinalityType DEF Chain
  <2>2. IsFiniteSet(0 .. n) /\ Cardinality(0 .. n) = n + 1
    BY <2>1, FS_Interval
  <2>3. c \in [0 .. n -> DOMAIN links] /\ \A i, j \in 0 .. n : c[i] = c[j] => i = j
    BY DEF Chain
  <2>4. ~(size < Cardinality(0 .. n))
    BY <2>2, <2>3, FS_PigeonHole
  <2> QED BY <2>1, <2>2, <2>4
<1>2. \A i \in 1 .. n : c[i] # c[0] /\ i \in 1 .. size /\ Walk(links, c[0], i) = c[i]
  <2>1. \A i, j \in 0 .. n : c[i] = c[j] => i = j
    BY DEF Chain
  <2>2. \A i \in 0 .. n : Walk(links, c[0], i) = c[i]
    BY WalkOnChain
  <2> QED BY <1>1, <2>1, <2>2
<1>3. \A k \in 1 .. size : \E i \in 0 .. n : Walk(links, c[0], k) = c[i]
  BY <1>1, WalkOnChain
<1>4. Members(links, c[0]) = OnChain(c, n)
  <2>1. \A x \in OnChain(c, n) : x \in Members(links, c[0])
    BY <1>2 DEF OnChain, Members
  <2>2. ASSUME NEW x \in Members(links, c[0]) PROVE x \in OnChain(c, n)
    <3>1. PICK k \in 1 .. size : x = Walk(links, c[0], k) /\ x # c[0]
      BY DEF Members
    <3>2. PICK i \in 0 .. n : x = c[i]
      BY <1>3, <3>1
    <3>3. i \in 1 .. n
      BY <1>1, <3>1, <3>2
    <3> QED BY <3>2, <3>3 DEF OnChain
  <2> QED BY <2>1, <2>2
<1>5. Circular(links, c[0])
  <2>1. \E k \in 1 .. size : Walk(links, c[0], k) = c[0]
    BY <1>1, WalkOnChain
  <2>2. ASSUME NEW node \in Members(links, c[0]) \cup {c[0]}
        PROVE  links[links[node].next].previous = node
    <3>1. PICK i \in 0 .. n : node = c[i]
      BY <1>1, <1>4 DEF OnChain
    <3>2. CASE i = n
      BY <3>1, <3>2 DEF Chain
    <3>3. CASE i \in 0 .. n - 1
      BY <3>1, <3>3 DEF Chain
    <3> QED BY <1>1, <3>2, <3>3
  <2> QED BY <2>1, <2>2 DEF Circular
<1> QED BY <1>4, <1>5

-----------------------------------------------------------------------------
(***************************************************************************)
(* Insertion and removal.                                                  *)
(***************************************************************************)
Web(D, N) == [D -> [next : N, previous : N]]

\* What each pointer is after an insertion, ...
LEMMA InsertPointers ==
  ASSUME NEW D, NEW N, D \subseteq N, NEW links \in Web(D, N),
         NEW list \in D, NEW entry \in D, links[list].next \in D,
         entry # list, entry # links[list].next
  PROVE  LET r == alt_llist_insert(links, list, entry)
         IN /\ r \in Web(D, N)
            /\ \A x \in D : r[x].next = IF x = list THEN entry
                                         ELSE IF x = entry THEN links[list].next
                                         ELSE links[x].next
            /\ \A x \in D : r[x].previous = IF x = links[list].next THEN entry
                                             ELSE IF x = entry THEN list
                                             ELSE links[x].previous
            /\ \A x \in D \ {list, entry, links[list].next} : r[x] = links[x]
<1> DEFINE first == links[list].next
           a == [links EXCEPT ![entry] = [next |-> first, previous |-> list]]
           b == [a EXCEPT ![first].previous = entry]
           r == [b EXCEPT ![list].next = entry]
<1>1. a \in Web(D, N) /\ a[list] = links[list]
      /\ \A x \in D : a[x] = IF x = entry THEN [next |-> first, previous |-> list]
                                          ELSE links[x]
  BY DEF Web
<1>2. a[list].next = first
  BY <1>1
<1>3. alt_llist_insert(links, list, entry) = r
  BY <1>2 DEF alt_llist_insert
<1> HIDE DEF a
<1>4. b \in Web(D, N)
      /\ \A x \in D : /\ b[x].next = a[x].next
                      /\ b[x].previous = IF x = first THEN entry ELSE a[x].previous
                      /\ x # first => b[x] = a[x]
  BY <1>1 DEF Web
<1> HIDE DEF b
<1>5. r \in Web(D, N)
      /\ \A x \in D : /\ r[x].next = IF x = list THEN entry ELSE b[x].next
                      /\ r[x].previous = b[x].previous
                      /\ x # list => r[x] = b[x]
  BY <1>4 DEF Web
<1> HIDE DEF r
<1>6. \A x \in D : a[x].next = (IF x = entry THEN first ELSE links[x].next)
                   /\ a[x].previous = (IF x = entry THEN list ELSE links[x].previous)
  BY <1>1
<1> HIDE DEF first
<1>7. /\ \A x \in D : r[x].next = IF x = list THEN entry ELSE IF x = entry THEN first
                                   ELSE links[x].next
      /\ \A x \in D : r[x].previous = IF x = first THEN entry ELSE IF x = entry THEN list
                                       ELSE links[x].previous
      /\ \A x \in D \ {list, entry, first} : r[x] = links[x]
  BY <1>1, <1>4, <1>5, <1>6
<1> QED BY <1>3, <1>5, <1>7 DEF first

\* ... and after a removal.
LEMMA RemovePointers ==
  ASSUME NEW D, NEW N, D \subseteq N, NEW links \in Web(D, N), NEW entry \in D,
         links[entry].next \in D \ {entry}, links[entry].previous \in D \ {entry}
  PROVE  LET r == alt_llist_remove(links, entry)
         IN /\ r \in Web(D, N) /\ r[entry] = Alone(entry)
            /\ \A x \in D \ {entry} :
                  /\ r[x].next = IF x = links[entry].previous THEN links[entry].next
                                 ELSE links[x].next
                  /\ r[x].previous = IF x = links[entry].next THEN links[entry].previous
                                     ELSE links[x].previous
            /\ \A x \in D \ {entry, links[entry].next, links[entry].previous} :
                  r[x] = links[x]
<1> DEFINE after == links[entry].next
           before == links[entry].previous
           a == [links EXCEPT ![after].previous = before]
           b == [a EXCEPT ![before].next = after]
           r == [b EXCEPT ![entry] = Alone(entry)]
<1>1. a \in Web(D, N) /\ a[entry] = links[entry]
      /\ \A x \in D : /\ a[x].next = links[x].next
                      /\ a[x].previous = IF x = after THEN before ELSE links[x].previous
                      /\ x # after => a[x] = links[x]
  BY DEF Web
<1>2. a[entry].previous = before /\ a[entry].next = after
  BY <1>1
<1>3. alt_llist_remove(links, entry) = r
  BY <1>2 DEF alt_llist_remove
<1> HIDE DEF a
<1>4. b \in Web(D, N)
      /\ \A x \in D : /\ b[x].next = IF x = before THEN after ELSE a[x].next
                      /\ b[x].previous = a[x].previous
                      /\ x # before => b[x] = a[x]
  BY <1>1 DEF Web
<1> HIDE DEF b
<1>5. r \in Web(D, N) /\ r[entry] = Alone(entry) /\ \A x \in D \ {entry} : r[x] = b[x]
  BY <1>4 DEF Web, Alone
<1> HIDE DEF r
<1> HIDE DEF after, before
<1>6. /\ \A x \in D \ {entry} : r[x].next = IF x = before THEN after ELSE links[x].next
      /\ \A x \in D \ {entry} : r[x].previous = IF x = after THEN before ELSE links[x].previous
      /\ \A x \in D \ {entry, after, before} : r[x] = links[x]
  BY <1>1, <1>4, <1>5
<1> QED BY <1>3, <1>5, <1>6 DEF after, before

\* A node that is alone can be removed again.
LEMMA RemoveAlone ==
  ASSUME NEW D, NEW N, D \subseteq N, NEW links \in Web(D, N), NEW entry \in D,
         links[entry] = Alone(entry)
  PROVE  alt_llist_remove(links, entry) = links
<1>1. links[entry].next = entry /\ links[entry].previous = entry
  BY DEF Alone
<1>2. links[entry] = [next |-> entry, previous |-> entry]
  BY DEF Alone
<1>3. [links EXCEPT ![entry].previous = entry] = links
  BY <1>1, <1>2 DEF Web
<1>4. [links EXCEPT ![entry].next = entry] = links
  BY <1>1, <1>2 DEF Web
<1>5. [links EXCEPT ![entry] = Alone(entry)] = links
  BY DEF Web
<1> QED BY <1>1, <1>3, <1>4, <1>5 DEF alt_llist_remove

\* A node put behind the head is the first of the list.
Behind(c, n, entry) ==
    [i \in 0 .. n + 1 |-> IF i = 0 THEN c[0] ELSE IF i = 1 THEN entry ELSE c[i - 1]]

LEMMA InsertChain ==
  ASSUME NEW D, NEW N, D \subseteq N, NEW links \in Web(D, N), NEW c, NEW n,
         Chain(links, c, n), NEW entry \in D, \A i \in 0 .. n : c[i] # entry
  PROVE  LET r == alt_llist_insert(links, c[0], entry)
         IN /\ r \in Web(D, N) /\ Chain(r, Behind(c, n, entry), n + 1)
            /\ \A x \in D : (x # entry /\ \A i \in 0 .. n : x # c[i]) => r[x] = links[x]
<1> DEFINE r == alt_llist_insert(links, c[0], entry)
           d == Behind(c, n, entry)
           list == c[0]
           first == links[list].next
<1>1. /\ DOMAIN links = D /\ n \in Nat /\ c \in [0 .. n -> D]
      /\ \A i, j \in 0 .. n : c[i] = c[j] => i = j
  BY DEF Chain, Web
<1>2. /\ \A i \in 0 .. n - 1 : links[c[i]].next = c[i + 1] /\ links[c[i + 1]].previous = c[i]
      /\ links[c[n]].next = c[0] /\ links[c[0]].previous = c[n]
  BY DEF Chain
<1>3. list \in D /\ first \in D /\ entry # list /\ entry # first
      /\ (n = 0 => first = c[0]) /\ (n # 0 => first = c[1])
  <2>1. CASE n = 0
    BY <1>1, <1>2, <2>1
  <2>2. CASE n # 0
    <3>1. 0 \in 0 .. n - 1 /\ 0 \in 0 .. n /\ 1 \in 0 .. n /\ 0 + 1 = 1
      BY <1>1, <2>2
    <3>2. first = c[1]
      BY <1>2, <3>1
    <3> QED BY <1>1, <2>2, <3>1, <3>2
  <2> QED BY <2>1, <2>2
<1>4. /\ r \in Web(D, N)
      /\ \A x \in D : r[x].next = IF x = list THEN entry ELSE IF x = entry THEN first
                                   ELSE links[x].next
      /\ \A x \in D : r[x].previous = IF x = first THEN entry ELSE IF x = entry THEN list
                                       ELSE links[x].previous
      /\ \A x \in D \ {list, entry, first} : r[x] = links[x]
  BY <1>3, InsertPointers
<1> HIDE DEF r
<1>5. /\ d[0] = c[0] /\ d[1] = entry /\ \A i \in 1 .. n : d[i + 1] = c[i]
      /\ d \in [0 .. n + 1 -> D]
      /\ \A i \in 2 .. n + 1 : d[i] = c[i - 1] /\ i - 1 \in 1 .. n
  <2>1. 0 \in 0 .. n + 1 /\ 1 \in 0 .. n + 1 /\ \A i \in 1 .. n : i + 1 \in 0 .. n + 1
    BY <1>1
  <2>2. \A i \in 0 .. n + 1 : d[i] = IF i = 0 THEN c[0] ELSE IF i = 1 THEN entry ELSE c[i - 1]
    BY DEF Behind
  <2>3. \A i \in 0 .. n + 1 : d[i] \in D
    BY <1>1, <2>2
  <2>4. d \in [0 .. n + 1 -> D]
    BY <2>3 DEF Behind
  <2>5. d[0] = c[0] /\ d[1] = entry
    BY <2>1, <2>2
  <2>6. \A i \in 1 .. n : d[i + 1] = c[i]
    <3> SUFFICES ASSUME NEW i \in 1 .. n PROVE d[i + 1] = c[i]
      OBVIOUS
    <3>1. i + 1 \in 0 .. n + 1 /\ i + 1 # 0 /\ i + 1 # 1 /\ (i + 1) - 1 = i
      BY <1>1
    <3> QED BY <2>2, <3>1
  <2>7. \A i \in 2 .. n + 1 : d[i] = c[i - 1] /\ i - 1 \in 1 .. n
    BY <1>1, <2>2
  <2> HIDE DEF d
  <2> QED BY <2>4, <2>5, <2>6, <2>7
<1> HIDE DEF d
<1>6. \A i, j \in 0 .. n + 1 : d[i] = d[j] => i = j
  <2>1. \A i \in 0 .. n + 1 : i = 1 \/ i = 0 \/ i \in 2 .. n + 1
    BY <1>1
  <2>2. \A i \in 0 .. n + 1 : d[i] = entry => i = 1
    BY <1>1, <1>3, <1>5, <2>1
  <2>3. \A i \in 0 .. n + 1 : d[i] = c[0] => i = 0
    BY <1>1, <1>3, <1>5, <2>1
  <2>4. \A i, j \in 2 .. n + 1 : d[i] = d[j] => i = j
    BY <1>1, <1>5
  <2> QED BY <1>5, <2>1, <2>2, <2>3, <2>4
<1>7. \A i \in 1 .. n - 1 : r[c[i]].next = c[i + 1] /\ r[c[i + 1]].previous = c[i]
  <2> SUFFICES ASSUME NEW i \in 1 .. n - 1
               PROVE  r[c[i]].next = c[i + 1] /\ r[c[i + 1]].previous = c[i]
    OBVIOUS
  <2>1. i \in 0 .. n - 1 /\ i \in 0 .. n /\ i + 1 \in 0 .. n /\ i # 0 /\ i + 1 # 1
        /\ 0 \in 0 .. n /\ 1 \in 0 .. n /\ n # 0
    BY <1>1
  <2>2. c[i] \in D /\ c[i + 1] \in D /\ c[i] # list /\ c[i] # entry
        /\ c[i + 1] # first /\ c[i + 1] # entry
    BY <1>1, <1>3, <2>1
  <2>3. r[c[i]].next = links[c[i]].next /\ r[c[i + 1]].previous = links[c[i + 1]].previous
    BY <1>4, <2>2
  <2> QED BY <1>2, <2>1, <2>3
<1>8. /\ r[list].next = entry /\ r[entry].previous = list /\ r[entry].next = first
      /\ r[first].previous = entry
  BY <1>3, <1>4
<1>9. n # 0 => r[c[n]].next = c[0] /\ r[c[0]].previous = c[n]
  <2> SUFFICES ASSUME n # 0 PROVE r[c[n]].next = c[0] /\ r[c[0]].previous = c[n]
    OBVIOUS
  <2>1. c[n] \in D /\ c[n] # list /\ c[n] # entry /\ c[0] # first /\ c[0] # entry
    BY <1>1, <1>3
  <2> QED BY <1>2, <1>3, <1>4, <2>1
<1>10. \A i \in 0 .. n : r[d[i]].next = d[i + 1] /\ r[d[i + 1]].previous = d[i]
  <2> SUFFICES ASSUME NEW i \in 0 .. n
               PROVE  r[d[i]].next = d[i + 1] /\ r[d[i + 1]].previous = d[i]
    OBVIOUS
  <2>1. CASE i = 0
    BY <1>5, <1>8, <2>1
  <2>2. CASE i = 1
    <3>1. n # 0 /\ 1 \in 1 .. n
      BY <1>1, <2>2
    <3>2. d[i] = entry /\ d[i + 1] = c[1] /\ first = c[1]
      BY <1>3, <1>5, <2>2, <3>1
    <3> QED BY <1>8, <3>2
  <2>3. CASE i \in 2 .. n
    <3>1. i \in 2 .. n + 1 /\ i \in 1 .. n /\ i - 1 \in 1 .. n - 1 /\ (i - 1) + 1 = i
      BY <1>1, <2>3
    <3>2. d[i] = c[i - 1] /\ d[i + 1] = c[i]
      BY <1>5, <3>1
    <3> QED BY <1>7, <3>1, <3>2
  <2> QED BY <1>1, <2>1, <2>2, <2>3
<1>11. r[d[n + 1]].next = d[0] /\ r[d[0]].previous = d[n + 1]
  <2>1. CASE n = 0
    BY <1>3, <1>5, <1>8, <2>1
  <2>2. CASE n # 0
    <3>1. n \in 1 .. n
      BY <1>1, <2>2
    <3> QED BY <1>5, <1>9, <2>2, <3>1
  <2> QED BY <2>1, <2>2
<1>12. Chain(r, d, n + 1)
  <2>1. DOMAIN r = D
    BY <1>4 DEF Web
  <2>2. n + 1 \in Nat /\ (n + 1) - 1 = n
    BY <1>1
  <2> QED BY <1>5, <1>6, <1>10, <1>11, <2>1, <2>2 DEF Chain
<1>13. \A x \in D : (x # entry /\ \A i \in 0 .. n : x # c[i]) => r[x] = links[x]
  <2>1. 0 \in 0 .. n /\ (n # 0 => 1 \in 0 .. n)
    BY <1>1
  <2> QED BY <1>3, <1>4, <2>1
<1> QED BY <1>4, <1>12, <1>13 DEF r, d

\* A node taken out of the list leaves the others in their order.
Without(c, n, j) == [i \in 0 .. n - 1 |-> IF i < j THEN c[i] ELSE c[i + 1]]

LEMMA RemoveChain ==
  ASSUME NEW D, NEW N, D \subseteq N, NEW links \in Web(D, N), NEW c, NEW n,
         Chain(links, c, n), NEW j \in 1 .. n
  PROVE  LET r == alt_llist_remove(links, c[j])
         IN /\ r \in Web(D, N) /\ r[c[j]] = Alone(c[j])
            /\ Chain(r, Without(c, n, j), n - 1)
            /\ \A x \in D : (\A i \in 0 .. n : x # c[i]) => r[x] = links[x]
<1> DEFINE r == alt_llist_remove(links, c[j])
           d == Without(c, n, j)
           before == c[j - 1]
           after == IF j = n THEN c[0] ELSE c[j + 1]
<1>1. /\ DOMAIN links = D /\ n \in Nat /\ c \in [0 .. n -> D]
      /\ \A i, k \in 0 .. n : c[i] = c[k] => i = k
  BY DEF Chain, Web
<1>2. /\ \A i \in 0 .. n - 1 : links[c[i]].next = c[i + 1] /\ links[c[i + 1]].previous = c[i]
      /\ links[c[n]].next = c[0] /\ links[c[0]].previous = c[n]
  BY DEF Chain
<1>3. /\ n # 0 /\ j \in 0 .. n /\ j - 1 \in 0 .. n - 1 /\ j - 1 \in 0 .. n /\ (j - 1) + 1 = j
      /\ 0 \in 0 .. n /\ n \in 0 .. n /\ j # 0 /\ (j # n => j \in 0 .. n - 1 /\ j + 1 \in 0 .. n)
      /\ j # j - 1 /\ j # j + 1 /\ n - 1 \in Nat
  BY <1>1
<1>4. /\ links[c[j]].next = after /\ links[c[j]].previous = before
      /\ c[j] \in D /\ after \in D \ {c[j]} /\ before \in D \ {c[j]}
  <2>1. links[c[j]].next = after
    BY <1>2, <1>3
  <2>2. links[c[j]].previous = before
    BY <1>2, <1>3
  <2>3. c[j] \in D /\ after \in D /\ before \in D
    BY <1>1, <1>3
  <2>4. after # c[j] /\ before # c[j]
    BY <1>1, <1>3
  <2> QED BY <2>1, <2>2, <2>3, <2>4
<1>5. /\ r \in Web(D, N) /\ r[c[j]] = Alone(c[j])
      /\ \A x \in D \ {c[j]} : r[x].next = IF x = before THEN after ELSE links[x].next
      /\ \A x \in D \ {c[j]} : r[x].previous = IF x = after THEN before ELSE links[x].previous
      /\ \A x \in D \ {c[j], after, before} : r[x] = links[x]
  <2> HIDE DEF before, after
  <2> QED BY <1>4, RemovePointers
<1> HIDE DEF r
<1>6. /\ d \in [0 .. n - 1 -> D]
      /\ \A i \in 0 .. n - 1 : d[i] = IF i < j THEN c[i] ELSE c[i + 1]
  <2>1. \A i \in 0 .. n - 1 : d[i] = IF i < j THEN c[i] ELSE c[i + 1]
    BY DEF Without
  <2>2. \A i \in 0 .. n - 1 : d[i] \in D
    BY <1>1, <2>1
  <2> QED BY <2>1, <2>2 DEF Without
<1> HIDE DEF d
<1>7. \A i, k \in 0 .. n - 1 : d[i] = d[k] => i = k
  <2> SUFFICES ASSUME NEW i \in 0 .. n - 1, NEW k \in 0 .. n - 1, d[i] = d[k] PROVE i = k
    OBVIOUS
  <2> DEFINE at(m) == IF m < j THEN m ELSE m + 1
  <2>1. at(i) \in 0 .. n /\ at(k) \in 0 .. n /\ d[i] = c[at(i)] /\ d[k] = c[at(k)]
    BY <1>1, <1>6
  <2>2. at(i) = at(k)
    BY <1>1, <2>1
  <2> QED BY <2>2
<1>8. \A i \in 0 .. n - 1 : i # j - 1 /\ i # j
                            => r[c[i]].next = c[i + 1] /\ r[c[i + 1]].previous = c[i]
  <2> SUFFICES ASSUME NEW i \in 0 .. n - 1, i # j - 1, i # j
               PROVE  r[c[i]].next = c[i + 1] /\ r[c[i + 1]].previous = c[i]
    OBVIOUS
  <2>1. i \in 0 .. n /\ i + 1 \in 0 .. n /\ i + 1 # j /\ i + 1 # 0 /\ i + 1 # j + 1
    BY <1>1
  <2>2. c[i] \in D \ {c[j]} /\ c[i] # before /\ c[i + 1] \in D \ {c[j]} /\ c[i + 1] # after
    BY <1>1, <1>3, <2>1
  <2>3. r[c[i]].next = links[c[i]].next /\ r[c[i + 1]].previous = links[c[i + 1]].previous
    BY <1>5, <2>2
  <2> QED BY <1>2, <2>3
<1>9. r[before].next = after /\ r[after].previous = before
  BY <1>4, <1>5
<1>10. j # n => r[c[n]].next = c[0] /\ r[c[0]].previous = c[n]
  <2> SUFFICES ASSUME j # n PROVE r[c[n]].next = c[0] /\ r[c[0]].previous = c[n]
    OBVIOUS
  <2>1. n # j - 1 /\ 0 # j + 1
    BY <1>1
  <2>2. c[n] \in D \ {c[j]} /\ c[n] # before /\ c[0] \in D \ {c[j]} /\ c[0] # after
    BY <1>1, <1>3, <2>1
  <2>3. r[c[n]].next = links[c[n]].next /\ r[c[0]].previous = links[c[0]].previous
    BY <1>5, <2>2
  <2> QED BY <1>2, <2>3
<1>11. \A i \in 0 .. n - 2 : r[d[i]].next = d[i + 1] /\ r[d[i + 1]].previous = d[i]
  <2> SUFFICES ASSUME NEW i \in 0 .. n - 2
               PROVE  r[d[i]].next = d[i + 1] /\ r[d[i + 1]].previous = d[i]
    OBVIOUS
  <2>1. i \in 0 .. n - 1 /\ i + 1 \in 0 .. n - 1
    BY <1>1
  <2>2. CASE i + 1 < j
    <3>1. d[i] = c[i] /\ d[i + 1] = c[i + 1] /\ i # j - 1 /\ i # j
      BY <1>6, <2>1, <2>2
    <3> QED BY <1>8, <2>1, <3>1
  <2>3. CASE i + 1 = j
    <3>1. d[i] = before /\ d[i + 1] = after
      BY <1>1, <1>6, <2>1, <2>3
    <3> QED BY <1>9, <3>1
  <2>4. CASE i + 1 > j
    <3>1. d[i] = c[i + 1] /\ d[i + 1] = c[(i + 1) + 1] /\ i + 1 # j - 1 /\ i + 1 # j
      BY <1>6, <2>1, <2>4
    <3> QED BY <1>8, <2>1, <3>1
  <2> QED BY <2>2, <2>3, <2>4
<1>12. r[d[n - 1]].next = d[0] /\ r[d[0]].previous = d[n - 1]
  <2>1. 0 \in 0 .. n - 1 /\ n - 1 \in 0 .. n - 1 /\ d[0] = c[0]
    BY <1>3, <1>6
  <2>2. CASE j = n
    <3>1. d[n - 1] = before /\ after = c[0]
      BY <1>3, <1>6, <2>1, <2>2
    <3> QED BY <1>9, <2>1, <3>1
  <2>3. CASE j # n
    <3>1. d[n - 1] = c[n]
      BY <1>3, <1>6, <2>1, <2>3
    <3> QED BY <1>10, <2>1, <2>3, <3>1
  <2> QED BY <2>2, <2>3
<1>13. Chain(r, d, n - 1)
  <2>1. DOMAIN r = D
    BY <1>5 DEF Web
  <2>2. (n - 1) - 1 = n - 2
    BY <1>1
  <2> QED BY <1>3, <1>6, <1>7, <1>11, <1>12, <2>1, <2>2 DEF Chain
<1>14. \A x \in D : (\A i \in 0 .. n : x # c[i]) => r[x] = links[x]
  BY <1>3, <1>5
<1> QED BY <1>5, <1>13, <1>14 DEF r, d

\* The list then holds what it held, and the new node.
LEMMA InsertMembers ==
  ASSUME NEW c, NEW n \in Nat, NEW entry
  PROVE  OnChain(Behind(c, n, entry), n + 1) = OnChain(c, n) \cup {entry}
<1> DEFINE d == Behind(c, n, entry)
<1>1. \A i \in 0 .. n + 1 : d[i] = IF i = 0 THEN c[0] ELSE IF i = 1 THEN entry ELSE c[i - 1]
  BY DEF Behind
<1> HIDE DEF d
<1>2. \A x \in OnChain(d, n + 1) : x \in OnChain(c, n) \cup {entry}
  <2> SUFFICES ASSUME NEW i \in 1 .. n + 1 PROVE d[i] \in OnChain(c, n) \cup {entry}
    BY DEF OnChain
  <2>1. i = 1 \/ (i - 1 \in 1 .. n /\ i # 0 /\ i # 1)
    OBVIOUS
  <2>2. i \in 0 .. n + 1
    OBVIOUS
  <2> QED BY <1>1, <2>1, <2>2 DEF OnChain
<1>3. \A x \in OnChain(c, n) : x \in OnChain(d, n + 1)
  <2> SUFFICES ASSUME NEW i \in 1 .. n PROVE c[i] \in OnChain(d, n + 1)
    BY DEF OnChain
  <2>1. i + 1 \in 1 .. n + 1 /\ i + 1 \in 0 .. n + 1 /\ i + 1 # 0 /\ i + 1 # 1 /\ (i + 1) - 1 = i
    OBVIOUS
  <2>2. d[i + 1] = c[i]
    BY <1>1, <2>1
  <2> QED BY <2>1, <2>2 DEF OnChain
<1>4. entry \in OnChain(d, n + 1)
  <2>1. 1 \in 1 .. n + 1 /\ 1 \in 0 .. n + 1
    OBVIOUS
  <2> QED BY <1>1, <2>1 DEF OnChain
<1> QED BY <1>2, <1>3, <1>4 DEF d
=============================================================================
