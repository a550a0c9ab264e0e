---------------------------- MODULE MemoryProofs ---------------------------
(***************************************************************************)
(* Proofs about what the services keep in memory: that a flush reaches it, *)
(* that the blocks of the heap lie apart, and that calls are counted in    *)
(* them once, for every size of these and whatever handlers do meanwhile.  *)
(***************************************************************************)
EXTENDS MCHal, DataTheorems

LEMMA ServiceStays == [HalNext]_halvars => service' = service
BY DEF HalNext, halvars

-----------------------------------------------------------------------------
(***************************************************************************)
(* Caches.                                                                 *)
(***************************************************************************)
Frames == 0 .. SETS - 1
MemoryLines == 0 .. Memory - 1

\* A frame is a record of the cache, for a line that belongs there or none; versions are
\* compared, never computed with.
CacheTypes ==
    /\ memory = [l \in MemoryLines |-> memory[l]] /\ latest = [l \in MemoryLines |-> latest[l]]
    /\ cache = [s \in Frames |-> cache[s]]
    /\ \A s \in Frames :
          /\ cache[s] = [line |-> cache[s].line, version |-> cache[s].version, dirty |-> cache[s].dirty]
          /\ cache[s].line \in MemoryLines \cup {-1} /\ cache[s].dirty \in BOOLEAN
          /\ cache[s].line # -1 => cache[s].line % SETS = s
    /\ {start, end, byte} \subseteq Nat
    /\ published \cup loaded \cup waived \subseteq MemoryLines

\* A line in the cache is the latest, a clean one is in memory too, and so is one that is
\* not in the cache, unless it was given up.
Coherent ==
    /\ \A s \in Frames : /\ cache[s].line # -1 => cache[s].version = latest[cache[s].line]
                         /\ cache[s].line # -1 /\ ~cache[s].dirty =>
                               memory[cache[s].line] = latest[cache[s].line]
                         /\ cache[s].line = -1 => ~cache[s].dirty
    /\ \A l \in MemoryLines \ waived : cache[l % SETS].line # l => memory[l] = latest[l]
    /\ \A l \in published \cup loaded : memory[l] = latest[l]
    /\ CodeLine \in loaded => icache \in {-1, latest[CodeLine]}

\* The index of a call goes through the lines of its range, or through the frames, and
\* what it has passed is in memory.
Passed ==
    LET safe == MemoryLines \ (meanwhile \cup waived)
    IN /\ meanwhile \subseteq {HandlerLine}
       /\ flush \in {"flush", "invalidate"} =>
             /\ start <= byte /\ start <= end /\ byte < end + LINE /\ byte % LINE = start % LINE
       /\ flush = "invalidate" => Flush!GivenUp(start, end) \subseteq waived
       /\ flush = "clean" => end = SETS
       /\ flush = "flush" => \A l \in safe : start \div LINE <= l /\ l < byte \div LINE =>
                                                memory[l] = latest[l]
       /\ flush = "clean" => \A l \in safe : l % SETS < byte => memory[l] = latest[l]
       /\ flush = "icache" => \A l \in safe : memory[l] = latest[l]

CacheInv == CacheTypes /\ Coherent /\ Passed

CacheFacts == LINE \in Nat \ {0} /\ SETS \in Nat \ {0} /\ Memory \in Nat \ {0}
              /\ {HandlerLine, EccLine, CodeLine} \subseteq MemoryLines
              /\ Starts \cup RangeLengths \subseteq Nat

LEMMA FactsHold == CacheFacts
BY ServicesAssumption DEF Flush!CacheAssumption, CacheFacts, MemoryLines

LEMMA LinesAre == Flush!Lines = MemoryLines
BY DEF Flush!Lines, MemoryLines

LEMMA FrameOf ==
  ASSUME NEW l \in MemoryLines PROVE l % SETS \in Frames
BY FactsHold DEF CacheFacts, MemoryLines, Frames

\* Writing a frame back brings its line, and no other, up to date in memory.
LEMMA WriteBack ==
  ASSUME CacheTypes, Coherent, NEW s \in Frames
  PROVE  Flush!WrittenBack(s)
            = [l \in MemoryLines |-> IF cache[s].line = l THEN latest[l] ELSE memory[l]]
<1>1. CASE cache[s].dirty
  <2>1. cache[s].line # -1 /\ cache[s].line \in MemoryLines
    BY <1>1 DEF CacheTypes, Coherent
  <2>2. Flush!WrittenBack(s) = [memory EXCEPT ![cache[s].line] = latest[cache[s].line]]
    BY <1>1, <2>1 DEF Flush!WrittenBack, Coherent
  <2>3. DOMAIN memory = MemoryLines
    BY DEF CacheTypes
  <2> QED BY <2>1, <2>2, <2>3
<1>2. CASE ~cache[s].dirty
  <2>1. Flush!WrittenBack(s) = memory
    BY <1>2 DEF Flush!WrittenBack
  <2>2. \A l \in MemoryLines : cache[s].line = l => memory[l] = latest[l]
    BY <1>2, FactsHold DEF Coherent, CacheFacts, MemoryLines
  <2>3. memory = [l \in MemoryLines |-> memory[l]]
    BY DEF CacheTypes
  <2> QED BY <2>1, <2>2, <2>3
<1> QED BY <1>1, <1>2

\* What a store does to a line, to its frame and to the line it puts out.
LEMMA StoreEffect ==
  ASSUME CacheTypes, Coherent, NEW l \in MemoryLines, Flush!Stored(l)
  PROVE  /\ DOMAIN latest' = MemoryLines /\ \A k \in MemoryLines \ {l} : latest'[k] = latest[k]
         /\ latest' = [k \in MemoryLines |-> latest'[k]]
         /\ cache' = [cache EXCEPT ![l % SETS] =
                         [line |-> l, version |-> latest'[l], dirty |-> TRUE]]
         /\ memory' = [k \in MemoryLines |-> memory'[k]]
         /\ \A k \in MemoryLines \ {l} : memory'[k] = IF cache[l % SETS].line = k THEN latest[k]
                                                     ELSE memory[k]
         /\ published' = published \ {l} /\ loaded' = loaded \ {l}
         /\ waived' = waived \ ({l} \ Flush!Forfeit)
<1>1. DOMAIN latest = MemoryLines
  BY DEF CacheTypes
<1>2. latest' = [latest EXCEPT ![l] = Flush!Stores + 1]
  BY DEF Flush!Stored
<1>3. latest'[l] = Flush!Stores + 1
  BY <1>1, <1>2
<1>4. cache' = [cache EXCEPT ![l % SETS] = [line |-> l, version |-> latest'[l], dirty |-> TRUE]]
  BY <1>3 DEF Flush!Stored
<1>5. l % SETS \in Frames
  BY FrameOf
<1>6. memory' = IF cache[l % SETS].line = l THEN memory
                ELSE [k \in MemoryLines |-> IF cache[l % SETS].line = k THEN latest[k] ELSE memory[k]]
  BY <1>5, WriteBack DEF Flush!Stored, Flush!Set
<1>7. /\ memory' = [k \in MemoryLines |-> memory'[k]]
      /\ \A k \in MemoryLines \ {l} : memory'[k] = IF cache[l % SETS].line = k THEN latest[k]
                                                  ELSE memory[k]
  <2>1. CASE cache[l % SETS].line = l
    BY <1>6, <2>1 DEF CacheTypes
  <2>2. CASE cache[l % SETS].line # l
    BY <1>6, <2>2
  <2> QED BY <2>1, <2>2
<1>8. /\ DOMAIN latest' = MemoryLines /\ \A k \in MemoryLines \ {l} : latest'[k] = latest[k]
      /\ latest' = [k \in MemoryLines |-> latest'[k]]
  BY <1>1, <1>2
<1>9. /\ published' = published \ {l} /\ loaded' = loaded \ {l}
      /\ waived' = waived \ ({l} \ Flush!Forfeit)
  BY DEF Flush!Stored
<1> QED BY <1>2, <1>4, <1>7, <1>8, <1>9

LEMMA StoreCoherent ==
  ASSUME CacheTypes, Coherent, NEW l \in MemoryLines, Flush!Stored(l), icache' = icache,
         {start', end', byte'} \subseteq Nat
  PROVE  CacheTypes' /\ Coherent'
<1> DEFINE f == l % SETS
<1>1. f \in Frames /\ DOMAIN cache = Frames
  BY FrameOf DEF CacheTypes
<1>2. \A s \in Frames \ {f} : cache'[s] = cache[s]
  BY <1>1, StoreEffect
<1>3. cache'[f] = [line |-> l, version |-> latest'[l], dirty |-> TRUE]
  BY <1>1, StoreEffect
<1>4. cache' = [s \in Frames |-> cache'[s]]
  BY <1>1, StoreEffect
<1>5. \A s \in Frames \ {f} : cache[s].line # l
  BY FactsHold DEF CacheTypes, CacheFacts, MemoryLines
<1>6. \A k \in MemoryLines \ {l} : memory'[k] = memory[k] \/ memory'[k] = latest'[k]
  BY StoreEffect
<1>a. \A k \in MemoryLines \ {l} : memory'[k] = IF cache[f].line = k THEN latest[k] ELSE memory[k]
  BY StoreEffect
<1>b. \A k \in MemoryLines \ {l} : latest'[k] = latest[k]
  BY StoreEffect
<1>7. l # -1
  BY FactsHold DEF CacheFacts, MemoryLines
<1> HIDE DEF f
<1>8. CacheTypes'
  <2>1. \A s \in Frames :
          /\ cache'[s] = [line |-> cache'[s].line, version |-> cache'[s].version, dirty |-> cache'[s].dirty]
          /\ cache'[s].line \in MemoryLines \cup {-1} /\ cache'[s].dirty \in BOOLEAN
          /\ cache'[s].line # -1 => cache'[s].line % SETS = s
    <3>1. cache'[f].line = l /\ cache'[f].dirty = TRUE /\ cache'[f].version = latest'[l]
      BY <1>3
    <3>2. l % SETS = f
      BY DEF f
    <3>3. ASSUME NEW s \in Frames \ {f}
          PROVE  /\ cache[s] = [line |-> cache[s].line, version |-> cache[s].version, dirty |-> cache[s].dirty]
                 /\ cache[s].line \in MemoryLines \cup {-1} /\ cache[s].dirty \in BOOLEAN
                 /\ cache[s].line # -1 => cache[s].line % SETS = s
      BY DEF CacheTypes
    <3> SUFFICES ASSUME NEW s \in Frames
                 PROVE  /\ cache'[s] = [line |-> cache'[s].line, version |-> cache'[s].version,
                                        dirty |-> cache'[s].dirty]
                        /\ cache'[s].line \in MemoryLines \cup {-1} /\ cache'[s].dirty \in BOOLEAN
                        /\ cache'[s].line # -1 => cache'[s].line % SETS = s
      OBVIOUS
    <3>4. CASE s = f
      BY <1>3, <3>1, <3>2, <3>4
    <3>5. CASE s # f
      BY <1>2, <3>3, <3>5
    <3> QED BY <3>4, <3>5
  <2>2. published' \cup loaded' \cup waived' \subseteq MemoryLines
    <3>1. published' \subseteq published /\ loaded' \subseteq loaded /\ waived' \subseteq waived
      BY StoreEffect
    <3> QED BY <3>1 DEF CacheTypes
  <2> QED BY <1>4, <2>1, <2>2, StoreEffect DEF CacheTypes
<1>9. \A s \in Frames : /\ cache'[s].line # -1 => cache'[s].version = latest'[cache'[s].line]
                        /\ cache'[s].line # -1 /\ ~cache'[s].dirty =>
                               memory'[cache'[s].line] = latest'[cache'[s].line]
                        /\ cache'[s].line = -1 => ~cache'[s].dirty
  <2>1. ASSUME NEW s \in Frames \ {f}, cache[s].line # -1
        PROVE  /\ cache[s].version = latest'[cache[s].line]
               /\ ~cache[s].dirty => memory'[cache[s].line] = latest'[cache[s].line]
    <3>1. cache[s].line \in MemoryLines \ {l}
      BY <1>5, <2>1 DEF CacheTypes
    <3> QED BY <2>1, <3>1, <1>6, StoreEffect DEF Coherent
  <2> QED BY <1>2, <1>3, <1>7, <2>1 DEF Coherent
<1>10. \A k \in MemoryLines \ waived' : cache'[k % SETS].line # k => memory'[k] = latest'[k]
  <2> SUFFICES ASSUME NEW k \in MemoryLines \ waived', cache'[k % SETS].line # k
               PROVE  memory'[k] = latest'[k]
    OBVIOUS
  <2>1. k # l /\ k \notin waived /\ k % SETS \in Frames
    <3>1. k # l
      BY <1>3 DEF f
    <3>2. waived' = waived \ ({l} \ Flush!Forfeit)
      BY StoreEffect
    <3> QED BY <3>1, <3>2, FrameOf
  <2>2. CASE k % SETS = f
    <3>1. memory'[k] = (IF cache[f].line = k THEN latest[k] ELSE memory[k]) /\ latest'[k] = latest[k]
      BY <2>1, <1>a, <1>b
    <3>2. cache[f].line # k => memory[k] = latest[k]
      BY <2>1, <2>2 DEF Coherent
    <3> QED BY <3>1, <3>2
  <2>3. CASE k % SETS # f
    <3>1. cache[k % SETS].line # k
      BY <2>1, <2>3, <1>2
    <3>2. memory[k] = latest[k]
      BY <2>1, <3>1 DEF Coherent
    <3> QED BY <2>1, <3>2, <1>a, <1>b
  <2> QED BY <2>2, <2>3
<1>11. \A k \in published' \cup loaded' : memory'[k] = latest'[k]
  BY <1>6, StoreEffect DEF Coherent, CacheTypes
<1>12. CodeLine \in loaded' => icache' \in {-1, latest'[CodeLine]}
  BY StoreEffect, FactsHold DEF Coherent, CacheFacts
<1> QED BY <1>8, <1>9, <1>10, <1>11, <1>12 DEF Coherent

\* What a cache-block instruction may do without a store.
LEMMA QuietCoherent ==
  ASSUME CacheTypes, Coherent, latest' = latest,
         memory' = [k \in MemoryLines |-> memory'[k]],
         \A k \in MemoryLines : memory'[k] = memory[k] \/ memory'[k] = latest[k],
         cache' = [s \in Frames |-> cache'[s]],
         \A s \in Frames :
            \/ cache'[s] = cache[s]
            \/ cache'[s] = Flush!None
            \/ /\ cache'[s] = [line |-> cache[s].line, version |-> cache[s].version, dirty |-> FALSE]
               /\ cache[s].line # -1 => memory'[cache[s].line] = latest[cache[s].line],
         \A k \in MemoryLines \ waived' : cache'[k % SETS].line # k => memory'[k] = latest[k],
         \A k \in published' \cup loaded' : memory'[k] = latest[k],
         published' \cup loaded' \cup waived' \subseteq MemoryLines,
         CodeLine \in loaded' => icache' \in {-1, latest[CodeLine]},
         {start', end', byte'} \subseteq Nat
  PROVE  CacheTypes' /\ Coherent'
<1>n. Flush!None.line = -1 /\ Flush!None = [line |-> Flush!None.line, version |-> Flush!None.version,
                                            dirty |-> Flush!None.dirty]
      /\ Flush!None.dirty = FALSE
  BY DEF Flush!None
<1>1. ASSUME NEW s \in Frames
      PROVE  /\ cache'[s] = [line |-> cache'[s].line, version |-> cache'[s].version, dirty |-> cache'[s].dirty]
             /\ cache'[s].line \in MemoryLines \cup {-1} /\ cache'[s].dirty \in BOOLEAN
             /\ cache'[s].line # -1 => cache'[s].line % SETS = s
             /\ cache'[s].line # -1 => cache'[s].version = latest[cache'[s].line]
             /\ cache'[s].line # -1 /\ ~cache'[s].dirty =>
                               memory'[cache'[s].line] = latest[cache'[s].line]
             /\ cache'[s].line = -1 => ~cache'[s].dirty
  <2>1. CASE cache'[s] = cache[s]
    BY <2>1 DEF CacheTypes, Coherent
  <2>2. CASE cache'[s] = Flush!None
    BY <2>2, <1>n
  <2>3. CASE /\ cache'[s] = [line |-> cache[s].line, version |-> cache[s].version, dirty |-> FALSE]
             /\ cache[s].line # -1 => memory'[cache[s].line] = latest[cache[s].line]
    <3>1. /\ cache[s].line \in MemoryLines \cup {-1}
          /\ cache[s].line # -1 => cache[s].line % SETS = s
          /\ cache[s].line # -1 => cache[s].version = latest[cache[s].line]
      BY DEF CacheTypes, Coherent
    <3> QED BY <2>3, <3>1
  <2> QED BY <2>1, <2>2, <2>3
<1>2. CacheTypes'
  <2>1. latest' = [k \in MemoryLines |-> latest'[k]]
    BY DEF CacheTypes
  <2> QED BY <1>1, <2>1 DEF CacheTypes
<1>3. Coherent'
  BY <1>1 DEF Coherent
<1> QED BY <1>2, <1>3

\* The line of an address.
LEMMA LineOf ==
  ASSUME NEW a \in Nat, a \div LINE \in MemoryLines
  PROVE  (a \div LINE) % SETS \in Frames
BY FrameOf

LEMMA DropEffect ==
  ASSUME CacheTypes, Coherent, NEW a \in Nat, cache' = Flush!Dropped(a)
  PROVE  /\ cache' = [s \in Frames |-> cache'[s]]
         /\ \A s \in Frames : cache'[s] = cache[s] \/ cache'[s] = Flush!None
         /\ \A k \in MemoryLines : k # a \div LINE /\ cache[k % SETS].line = k =>
                                      cache'[k % SETS].line = k
<1>1. CASE Flush!Held(a)
  <2>1. /\ a \div LINE \in MemoryLines /\ (a \div LINE) % SETS \in Frames
        /\ cache[(a \div LINE) % SETS].line = a \div LINE
    BY <1>1, LineOf, LinesAre DEF Flush!Held, Flush!Set
  <2>2. cache' = [cache EXCEPT ![(a \div LINE) % SETS] = Flush!None]
    BY <1>1 DEF Flush!Dropped
  <2>3. DOMAIN cache = Frames
    BY DEF CacheTypes
  <2>4. \A s \in Frames : cache'[s] = IF s = (a \div LINE) % SETS THEN Flush!None ELSE cache[s]
    BY <2>2, <2>3
  <2>5. cache' = [s \in Frames |-> cache'[s]]
    BY <2>2, <2>3
  <2>6. ASSUME NEW k \in MemoryLines, k # a \div LINE, cache[k % SETS].line = k
        PROVE  cache'[k % SETS].line = k
    <3>1. k % SETS \in Frames /\ k % SETS # (a \div LINE) % SETS
      BY <2>1, <2>6, FrameOf
    <3> QED BY <2>4, <2>6, <3>1
  <2> QED BY <2>4, <2>5, <2>6
<1>2. CASE ~Flush!Held(a)
  <2>1. cache' = cache
    BY <1>2 DEF Flush!Dropped
  <2> QED BY <2>1 DEF CacheTypes
<1> QED BY <1>1, <1>2

\* cbo.flush: nothing that was not given up is lost, and the line is in memory.
LEMMA FlushLine ==
  ASSUME CacheTypes, Coherent, NEW a \in Nat, Flush!ALT_FLUSH_DATA(a)
  PROVE  /\ memory' = [k \in MemoryLines |-> memory'[k]]
         /\ \A k \in MemoryLines : memory'[k] = memory[k] \/ memory'[k] = latest[k]
         /\ \A k \in MemoryLines \ waived : cache'[k % SETS].line # k => memory'[k] = latest[k]
         /\ \A k \in MemoryLines \ waived : k = a \div LINE => memory'[k] = latest[k]
<1>1. cache' = Flush!Dropped(a)
  BY DEF Flush!ALT_FLUSH_DATA
<1>2. CASE Flush!Held(a)
  <2> DEFINE l == a \div LINE
  <2>1. l \in MemoryLines /\ l % SETS \in Frames /\ cache[l % SETS].line = l
    BY <1>2, LineOf, LinesAre DEF Flush!Held, Flush!Set
  <2>2. memory' = [k \in MemoryLines |-> IF cache[l % SETS].line = k THEN latest[k] ELSE memory[k]]
    BY <1>2, <2>1, WriteBack DEF Flush!ALT_FLUSH_DATA
  <2>3. \A k \in MemoryLines : memory'[k] = IF k = l THEN latest[k] ELSE memory[k]
    BY <2>1, <2>2
  <2>4. ASSUME NEW k \in MemoryLines \ waived, cache'[k % SETS].line # k
        PROVE  memory'[k] = latest[k]
    <3>1. k = l \/ cache[k % SETS].line # k
      BY <1>1, <2>4, DropEffect
    <3> QED BY <2>3, <3>1 DEF Coherent
  <2>5. memory' = [k \in MemoryLines |-> memory'[k]]
    BY <2>2
  <2> QED BY <2>3, <2>4, <2>5
<1>3. CASE ~Flush!Held(a)
  <2>1. memory' = memory /\ cache' = cache
    BY <1>3 DEF Flush!ALT_FLUSH_DATA, Flush!Dropped
  <2>2. \A k \in MemoryLines : k = a \div LINE => cache[k % SETS].line # k
    BY <1>3, LinesAre DEF Flush!Held, Flush!Set
  <2> QED BY <2>1, <2>2 DEF Coherent, CacheTypes
<1> QED BY <1>2, <1>3

LEMMA StoreStep ==
  ASSUME CacheInv, Flush!Store \/ Flush!HandlerStores
  PROVE  CacheInv'
<1>1. UNCHANGED <<flush, start, end, byte, icache>>
  BY DEF Flush!Store, Flush!HandlerStores, Flush!range
<1>2. PICK l \in MemoryLines : /\ Flush!Stored(l)
                               /\ \/ flush = "none" /\ meanwhile' = meanwhile
                                  \/ l = HandlerLine /\ meanwhile' = IF flush = "none" THEN {} ELSE {l}
  BY LinesAre, FactsHold DEF Flush!Store, Flush!HandlerStores, CacheFacts
<1>3. CacheTypes' /\ Coherent'
  <2>1. {start', end', byte'} \subseteq Nat
    BY <1>1 DEF CacheInv, CacheTypes
  <2> QED BY <1>1, <1>2, <2>1, StoreCoherent DEF CacheInv
<1>4. Passed'
  <2>1. CASE flush = "none"
    BY <1>1, <1>2, <2>1 DEF CacheInv, Passed
  <2>2. CASE flush # "none"
    <3>1. l = HandlerLine /\ meanwhile' = {l}
      BY <1>2, <2>2
    <3>2. waived' = waived \ ({l} \ Flush!Forfeit)
      BY <1>2, StoreEffect DEF CacheInv
    <3>3. \A k \in MemoryLines \ {l} : memory'[k] = IF cache[l % SETS].line = k THEN latest[k] ELSE memory[k]
      BY <1>2, StoreEffect DEF CacheInv
    <3>4. \A k \in MemoryLines \ {l} : latest'[k] = latest[k]
      BY <1>2, StoreEffect DEF CacheInv
    <3>5. \A k \in MemoryLines \ (meanwhile' \cup waived') :
             /\ k \in MemoryLines \ (meanwhile \cup waived)
             /\ memory[k] = latest[k] => memory'[k] = latest'[k]
      BY <3>1, <3>2, <3>3, <3>4 DEF CacheInv, Passed
    <3>6. flush = "invalidate" => Flush!GivenUp(start, end) \subseteq waived'
      BY <3>2 DEF CacheInv, Passed, Flush!Forfeit
    <3>7. Flush!GivenUp(start, end)' = Flush!GivenUp(start, end)
      BY <1>1 DEF Flush!GivenUp, Flush!Touched, Flush!Overshot, Flush!Lines
    <3> QED BY <1>1, <3>1, <3>5, <3>6, <3>7 DEF CacheInv, Passed
  <2> QED BY <2>1, <2>2
<1> QED BY <1>3, <1>4 DEF CacheInv

LEMMA GivenUpLines ==
  ASSUME NEW a, NEW b PROVE Flush!GivenUp(a, b) \subseteq MemoryLines
BY LinesAre DEF Flush!GivenUp, Flush!Touched, Flush!Overshot

\* A call that begins.
LEMMA CallStep ==
  ASSUME CacheInv,
         Flush!alt_dcache_flush \/ Flush!alt_dcache_flush_no_writeback
            \/ Flush!alt_dcache_flush_all \/ Flush!alt_ecc_exception_register
  PROVE  CacheInv'
<1>1. CASE Flush!alt_dcache_flush \/ Flush!alt_dcache_flush_no_writeback \/ Flush!alt_dcache_flush_all
  <2>1. UNCHANGED <<memory, cache, icache, latest, published, loaded>> /\ meanwhile' = {}
    BY <1>1 DEF Flush!alt_dcache_flush, Flush!alt_dcache_flush_no_writeback,
       Flush!alt_dcache_flush_all, Flush!Called
  <2>2. PICK a \in Nat, n \in Nat :
           /\ start' = a /\ end' = a + n /\ byte' = a
           /\ \/ flush' = "flush" /\ waived' = waived
              \/ flush' = "invalidate" /\ waived' = waived \cup Flush!GivenUp(a, a + n)
              \/ flush' = "clean" /\ a = 0 /\ n = SETS /\ waived' = waived
    <3>1. CASE Flush!alt_dcache_flush
      BY <3>1, FactsHold DEF Flush!alt_dcache_flush, Flush!Called, CacheFacts
    <3>2. CASE Flush!alt_dcache_flush_no_writeback
      BY <3>2, FactsHold DEF Flush!alt_dcache_flush_no_writeback, Flush!Called, CacheFacts
    <3>3. CASE Flush!alt_dcache_flush_all
      BY <3>3, FactsHold DEF Flush!alt_dcache_flush_all, Flush!Called, CacheFacts
    <3> QED BY <1>1, <3>1, <3>2, <3>3
  <2>3. waived \subseteq waived' /\ waived' \subseteq MemoryLines
    BY <2>2, GivenUpLines DEF CacheInv, CacheTypes
  <2>4. CacheTypes' /\ Coherent'
    <3>1. CacheTypes'
      BY <2>1, <2>2, <2>3 DEF CacheInv, CacheTypes
    <3>2. Coherent'
      BY <2>1, <2>3 DEF CacheInv, Coherent
    <3> QED BY <3>1, <3>2
  <2>5. Flush!GivenUp(start, end)' = Flush!GivenUp(start', end')
    BY DEF Flush!GivenUp, Flush!Touched, Flush!Overshot, Flush!Lines
  <2>6. Passed'
    <3>1. flush' = "clean" => \A l \in MemoryLines : ~(l % SETS < byte')
      BY <2>2, FrameOf DEF Frames
    <3>2. start' <= byte' /\ start' <= end' /\ byte' < end' + LINE
      BY <2>2, FactsHold DEF CacheFacts
    <3>3. byte' = start' /\ \A l \in MemoryLines : ~(start' \div LINE <= l /\ l < byte' \div LINE)
      <4>1. start' = a /\ byte' = a /\ a \div LINE \in Int
        BY <2>2, FactsHold DEF CacheFacts
      <4> QED BY <4>1 DEF MemoryLines
    <3> QED BY <2>1, <2>2, <2>5, <3>1, <3>2, <3>3 DEF Passed
  <2> QED BY <2>4, <2>6 DEF CacheInv
<1>2. CASE Flush!alt_ecc_exception_register
  <2>1. /\ Flush!Stored(EccLine) /\ icache' = icache /\ flush' = "flush" /\ meanwhile' = {}
        /\ start' = EccLine * LINE /\ end' = EccLine * LINE + LINE /\ byte' = EccLine * LINE
    BY <1>2 DEF Flush!alt_ecc_exception_register, Flush!Called
  <2>2. EccLine \in MemoryLines /\ EccLine * LINE \in Nat /\ LINE \in Nat \ {0}
    BY FactsHold DEF CacheFacts, MemoryLines
  <2>3. CacheTypes' /\ Coherent'
    BY <2>1, <2>2, StoreCoherent DEF CacheInv
  <2>4. start' <= byte' /\ start' <= end' /\ byte' < end' + LINE /\ byte' = start'
    BY <2>1, <2>2
  <2>5. \A l \in MemoryLines : ~(start' \div LINE <= l /\ l < byte' \div LINE)
    <3>1. start' \div LINE \in Int /\ byte' = start'
      BY <2>1, <2>2
    <3> QED BY <3>1 DEF MemoryLines
  <2> QED BY <2>1, <2>3, <2>4, <2>5 DEF CacheInv, Passed
<1> QED BY <1>1, <1>2

\* Lines a call goes through in steps of one line.
LEMMA NextLine ==
  ASSUME NEW b \in Nat
  PROVE  (b + LINE) % LINE = b % LINE /\ (b + LINE) \div LINE = b \div LINE + 1
BY FactsHold DEF CacheFacts

\* When its index is past the end of the range, a call has passed every line of it, but
\* for the one the index is at if the range is misaligned.
LEMMA RangePassed ==
  ASSUME NEW a \in Nat, NEW b \in Nat, NEW j \in Nat, b <= j, j % LINE = a % LINE,
         NEW l \in Flush!Touched(a, b)
  PROVE  /\ l \in MemoryLines /\ a \div LINE <= l
         /\ l < j \div LINE \/ (l = j \div LINE /\ a % LINE # 0)
<1>1. PICK x \in a .. b - 1 : l = x \div LINE
  BY DEF Flush!Touched
<1>2. l \in MemoryLines /\ x \in Nat /\ LINE \in Nat \ {0}
  BY LinesAre, FactsHold DEF Flush!Touched, CacheFacts
<1>3. a \div LINE <= l /\ l <= j \div LINE
  BY <1>1, <1>2, DivMonotone
<1>4. ASSUME a % LINE = 0, l = j \div LINE PROVE FALSE
  <2>1. j = (j \div LINE) * LINE + (j % LINE) /\ x = (x \div LINE) * LINE + (x % LINE)
    BY <1>2, DivMod
  <2>2. x % LINE \in Nat /\ (x \div LINE) * LINE \in Int
    BY <1>2, DivMod
  <2>3. j = (x \div LINE) * LINE
    BY <1>1, <1>4, <2>1, <2>2
  <2> QED BY <1>1, <2>1, <2>2, <2>3
<1>5. l \in Int /\ j \div LINE \in Int
  BY <1>2 DEF MemoryLines
<1> QED BY <1>2, <1>3, <1>4, <1>5

\* The line an index drops is one its call gives up.
LEMMA DropGivenUp ==
  ASSUME NEW a \in Nat, NEW b \in Nat, NEW j \in Nat, a <= j, j < b + LINE, j % LINE = a % LINE,
         j < b \/ a % LINE # 0, j \div LINE \in MemoryLines
  PROVE  j \div LINE \in Flush!GivenUp(a, b)
<1>1. CASE j < b
  BY <1>1, LinesAre DEF Flush!GivenUp, Flush!Touched
<1>2. CASE ~(j < b)
  <2>1. LINE \in Nat \ {0}
    BY FactsHold DEF CacheFacts
  <2>2. j = (j \div LINE) * LINE + (a % LINE)
    BY <2>1, DivMod
  <2>3. j \in b .. b + LINE - 1
    BY <1>2, <2>1
  <2>4. j \div LINE \in Flush!Overshot(a, b)
    BY <2>2, <2>3, LinesAre DEF Flush!Overshot
  <2> QED BY <1>2, <2>4 DEF Flush!GivenUp
<1> QED BY <1>1, <1>2

LEMMA FlushStep ==
  ASSUME CacheInv, Flush!FlushTurn
  PROVE  CacheInv'
<1> USE DEF CacheInv
<1>t. start \in Nat /\ end \in Nat /\ byte \in Nat /\ LINE \in Nat \ {0}
  BY FactsHold DEF CacheTypes, CacheFacts
<1>p. /\ flush = "flush" /\ start <= byte /\ start <= end /\ byte < end + LINE
      /\ byte % LINE = start % LINE /\ meanwhile \subseteq {HandlerLine}
      /\ \A l \in MemoryLines \ (meanwhile \cup waived) :
            start \div LINE <= l /\ l < byte \div LINE => memory[l] = latest[l]
  BY DEF Passed, Flush!FlushTurn
<1>c. UNCHANGED <<icache, latest, waived, loaded>>
  BY DEF Flush!FlushTurn, Flush!Turn
<1>1. ASSUME Flush!ALT_FLUSH_DATA(byte), {start', end', byte'} \subseteq Nat,
             published' \subseteq MemoryLines,
             \A k \in published' : memory'[k] = latest[k]
      PROVE  CacheTypes' /\ Coherent'
  <2>1. cache' = Flush!Dropped(byte)
    BY <1>1 DEF Flush!ALT_FLUSH_DATA
  <2>2. \A k \in loaded : memory'[k] = latest[k]
    BY <1>1, <1>t, FlushLine DEF Coherent, CacheTypes
  <2>3. /\ \A k \in MemoryLines \ waived' : cache'[k % SETS].line # k => memory'[k] = latest[k]
        /\ memory' = [k \in MemoryLines |-> memory'[k]]
        /\ \A k \in MemoryLines : memory'[k] = memory[k] \/ memory'[k] = latest[k]
    BY <1>1, <1>t, <1>c, FlushLine
  <2>4. cache' = [s \in Frames |-> cache'[s]]
        /\ \A s \in Frames : cache'[s] = cache[s] \/ cache'[s] = Flush!None
    BY <2>1, <1>t, DropEffect
  <2>5. published' \cup loaded' \cup waived' \subseteq MemoryLines
    BY <1>1, <1>c DEF CacheTypes
  <2>6. CodeLine \in loaded' => icache' \in {-1, latest[CodeLine]}
    BY <1>c DEF Coherent
  <2> QED BY <1>1, <1>c, <2>2, <2>3, <2>4, <2>5, <2>6, QuietCoherent
<1>2. CASE byte < end
  <2>1. /\ Flush!ALT_FLUSH_DATA(byte) /\ byte' = byte + LINE
        /\ UNCHANGED <<flush, start, end, meanwhile, published>>
    BY <1>2 DEF Flush!FlushTurn, Flush!Turn
  <2>2. \A k \in MemoryLines : memory'[k] = memory[k] \/ memory'[k] = latest[k]
    BY <2>1, <1>t, FlushLine
  <2>3. \A k \in MemoryLines \ waived : k = byte \div LINE => memory'[k] = latest[k]
    BY <2>1, <1>t, FlushLine
  <2>4. CacheTypes' /\ Coherent'
    <3>1. published \subseteq MemoryLines /\ \A k \in published : memory[k] = latest[k]
      BY DEF Coherent, CacheTypes
    <3>2. \A k \in published' : memory'[k] = latest[k]
      BY <2>1, <2>2, <3>1
    <3>3. {start', end', byte'} \subseteq Nat
      BY <2>1, <1>t
    <3> QED BY <2>1, <3>1, <3>2, <3>3, <1>1
  <2>5. byte' % LINE = start' % LINE /\ byte' \div LINE = byte \div LINE + 1
    BY <2>1, <1>t, <1>p, NextLine
  <2>6. \A l \in MemoryLines \ (meanwhile \cup waived) :
            start \div LINE <= l /\ l < byte' \div LINE => memory'[l] = latest[l]
    <3> SUFFICES ASSUME NEW l \in MemoryLines \ (meanwhile \cup waived),
                        start \div LINE <= l, l < byte' \div LINE
                 PROVE  memory'[l] = latest[l]
      OBVIOUS
    <3>1. l \in Int /\ byte \div LINE \in Int
      BY <1>t DEF MemoryLines
    <3>2. l < byte \div LINE \/ l = byte \div LINE
      BY <2>5, <3>1
    <3> QED BY <3>2, <2>2, <2>3, <1>p
  <2>7. start' <= byte' /\ start' <= end' /\ byte' < end' + LINE
    BY <2>1, <1>2, <1>t, <1>p
  <2>8. Passed'
    BY <2>1, <2>5, <2>6, <2>7, <1>c, <1>p DEF Passed
  <2> QED BY <2>4, <2>8
<1>3. CASE ~(byte < end)
  <2>1. /\ IF start % LINE # 0 THEN Flush!ALT_FLUSH_DATA(byte) ELSE UNCHANGED <<memory, cache>>
        /\ flush' = "none" /\ start' = 0 /\ end' = 0 /\ byte' = 0 /\ meanwhile' = {}
        /\ published' = (published \cup Flush!Touched(start, end)) \ (meanwhile \cup waived)
    BY <1>3 DEF Flush!FlushTurn, Flush!Turn, Flush!Last, Flush!Returned
  <2>2. \A k \in MemoryLines : memory'[k] = memory[k] \/ memory'[k] = latest[k]
    BY <2>1, <1>t, FlushLine
  <2>3. start % LINE # 0 => \A k \in MemoryLines \ waived : k = byte \div LINE => memory'[k] = latest[k]
    BY <2>1, <1>t, FlushLine
  <2>4. \A k \in Flush!Touched(start, end) \ (meanwhile \cup waived) : memory'[k] = latest[k]
    <3> SUFFICES ASSUME NEW k \in Flush!Touched(start, end), k \notin meanwhile \cup waived
                 PROVE  memory'[k] = latest[k]
      OBVIOUS
    <3>1. /\ k \in MemoryLines /\ start \div LINE <= k
          /\ k < byte \div LINE \/ (k = byte \div LINE /\ start % LINE # 0)
      <4>1. end <= byte /\ byte % LINE = start % LINE
        BY <1>3, <1>t, <1>p
      <4> QED BY <4>1, <1>t, RangePassed
    <3>2. start % LINE # 0 /\ k = byte \div LINE => memory'[k] = latest[k]
      BY <2>3, <3>1
    <3>3. k < byte \div LINE => memory[k] = latest[k]
      BY <3>1, <1>p
    <3> QED BY <3>1, <2>2, <3>2, <3>3
  <2>5. published' \subseteq MemoryLines /\ \A k \in published' : memory'[k] = latest[k]
    <3>1. published \subseteq MemoryLines /\ \A k \in published : memory[k] = latest[k]
      BY DEF Coherent, CacheTypes
    <3>2. Flush!Touched(start, end) \subseteq MemoryLines
      BY LinesAre DEF Flush!Touched
    <3> QED BY <2>1, <2>2, <2>4, <3>1, <3>2
  <2>6. CacheTypes' /\ Coherent'
    <3>1. CASE start % LINE # 0
      BY <2>1, <2>5, <3>1, <1>1
    <3>2. CASE start % LINE = 0
      <4>1. memory' = memory /\ cache' = cache
        BY <2>1, <3>2
      <4>2. CacheTypes'
        BY <4>1, <2>1, <2>5, <1>c DEF CacheTypes
      <4>3. Coherent'
        BY <4>1, <2>5, <1>c DEF Coherent
      <4> QED BY <4>2, <4>3
    <3> QED BY <3>1, <3>2
  <2>7. Passed'
    BY <2>1 DEF Passed
  <2> QED BY <2>6, <2>7
<1> QED BY <1>2, <1>3

LEMMA InvalidateStep ==
  ASSUME CacheInv, Flush!InvalidateTurn
  PROVE  CacheInv'
<1> USE DEF CacheInv
<1>t. start \in Nat /\ end \in Nat /\ byte \in Nat /\ LINE \in Nat \ {0}
  BY FactsHold DEF CacheTypes, CacheFacts
<1>p. /\ flush = "invalidate" /\ start <= byte /\ start <= end /\ byte < end + LINE
      /\ byte % LINE = start % LINE /\ meanwhile \subseteq {HandlerLine}
      /\ Flush!GivenUp(start, end) \subseteq waived
  BY DEF Passed, Flush!InvalidateTurn
<1>c. UNCHANGED <<memory, icache, latest, waived, loaded, published>>
  BY DEF Flush!InvalidateTurn, Flush!Turn, Flush!ALT_INVALIDATE_DATA
<1>1. \/ cache' = cache
      \/ cache' = Flush!Dropped(byte) /\ (byte < end \/ start % LINE # 0)
  BY DEF Flush!InvalidateTurn, Flush!Turn, Flush!ALT_INVALIDATE_DATA, Flush!Last
<1>2. \/ byte < end /\ byte' = byte + LINE /\ UNCHANGED <<flush, start, end, meanwhile>>
      \/ flush' = "none" /\ start' = 0 /\ end' = 0 /\ byte' = 0 /\ meanwhile' = {}
  BY DEF Flush!InvalidateTurn, Flush!Turn, Flush!Returned
<1>3. {start', end', byte'} \subseteq Nat
  BY <1>t, <1>2
<1>4. CacheTypes' /\ Coherent'
  <2>1. CASE cache' = cache
    BY <1>3, <1>c, <2>1 DEF CacheTypes, Coherent
  <2>2. CASE cache' = Flush!Dropped(byte) /\ (byte < end \/ start % LINE # 0)
    <3>1. /\ cache' = [s \in Frames |-> cache'[s]]
          /\ \A s \in Frames : cache'[s] = cache[s] \/ cache'[s] = Flush!None
          /\ \A k \in MemoryLines : k # byte \div LINE /\ cache[k % SETS].line = k =>
                                       cache'[k % SETS].line = k
      BY <2>2, <1>t, DropEffect
    <3>2. \A k \in MemoryLines \ waived : k # byte \div LINE
      BY <2>2, <1>t, <1>p, DropGivenUp
    <3>3. \A k \in MemoryLines \ waived' : cache'[k % SETS].line # k => memory'[k] = latest[k]
      BY <3>1, <3>2, <1>c DEF Coherent
    <3>4. memory' = [k \in MemoryLines |-> memory'[k]]
          /\ published' \cup loaded' \cup waived' \subseteq MemoryLines
      BY <1>c DEF CacheTypes
    <3>5. /\ \A k \in published' \cup loaded' : memory'[k] = latest[k]
          /\ CodeLine \in loaded' => icache' \in {-1, latest[CodeLine]}
      BY <1>c DEF Coherent
    <3> QED BY <1>3, <1>c, <3>1, <3>3, <3>4, <3>5, QuietCoherent
  <2> QED BY <1>1, <2>1, <2>2
<1>5. Passed'
  <2>1. CASE byte < end /\ byte' = byte + LINE /\ UNCHANGED <<flush, start, end, meanwhile>>
    <3>1. byte' % LINE = start % LINE
      BY <2>1, <1>t, <1>p, NextLine
    <3>3. start <= byte' /\ byte' < end + LINE
      BY <2>1, <1>t, <1>p
    <3>2. Flush!GivenUp(start, end)' = Flush!GivenUp(start, end)
      BY <2>1 DEF Flush!GivenUp, Flush!Touched, Flush!Overshot, Flush!Lines
    <3> QED BY <2>1, <3>1, <3>2, <3>3, <1>c, <1>p DEF Passed
  <2>2. CASE flush' = "none" /\ start' = 0 /\ end' = 0 /\ byte' = 0 /\ meanwhile' = {}
    BY <2>2 DEF Passed
  <2> QED BY <1>2, <2>1, <2>2
<1> QED BY <1>4, <1>5

LEMMA CleanStep ==
  ASSUME CacheInv, Flush!CleanTurn
  PROVE  CacheInv'
<1> USE DEF CacheInv
<1>t. byte \in Nat /\ SETS \in Nat \ {0}
  BY FactsHold DEF CacheTypes, CacheFacts
<1>p. /\ flush = "clean" /\ end = SETS
      /\ \A l \in MemoryLines \ (meanwhile \cup waived) : l % SETS < byte => memory[l] = latest[l]
  BY DEF Passed, Flush!CleanTurn
<1>c. UNCHANGED <<icache, start, end, latest, meanwhile, waived, published, loaded>>
  BY DEF Flush!CleanTurn
<1>1. CASE byte < end
  <2>1. /\ memory' = Flush!WrittenBack(byte) /\ cache' = [cache EXCEPT ![byte].dirty = FALSE]
        /\ byte' = byte + 1 /\ flush' = flush
    BY <1>1 DEF Flush!CleanTurn
  <2>2. byte \in Frames
    BY <1>1, <1>t, <1>p DEF Frames
  <2>3. memory' = [k \in MemoryLines |-> IF cache[byte].line = k THEN latest[k] ELSE memory[k]]
    BY <2>1, <2>2, WriteBack
  <2>4. \A k \in MemoryLines : /\ memory'[k] = memory[k] \/ memory'[k] = latest[k]
                               /\ cache[byte].line = k => memory'[k] = latest[k]
    BY <2>3
  <2>5. DOMAIN cache = Frames /\ cache = [s \in Frames |-> cache[s]]
    BY DEF CacheTypes
  <2>6. cache' = [s \in Frames |-> cache'[s]] /\ \A s \in Frames \ {byte} : cache'[s] = cache[s]
    BY <2>1, <2>2, <2>5
  <2>7. cache'[byte] = [line |-> cache[byte].line, version |-> cache[byte].version, dirty |-> FALSE]
    <3>1. cache[byte] = [line |-> cache[byte].line, version |-> cache[byte].version,
                         dirty |-> cache[byte].dirty]
      BY <2>2 DEF CacheTypes
    <3>2. cache'[byte] = [cache[byte] EXCEPT !.dirty = FALSE]
      BY <2>1, <2>2, <2>5
    <3> QED BY <3>1, <3>2
  <2>8. cache[byte].line # -1 => memory'[cache[byte].line] = latest[cache[byte].line]
    BY <2>2, <2>4 DEF CacheTypes
  <2>9. \A k \in MemoryLines \ waived' : cache'[k % SETS].line # k => memory'[k] = latest[k]
    <3>1. \A s \in Frames : cache'[s].line = cache[s].line
      BY <2>6, <2>7
    <3> QED BY <3>1, <2>4, <1>c, FrameOf DEF Coherent
  <2>10. CacheTypes' /\ Coherent'
    <3>1. memory' = [k \in MemoryLines |-> memory'[k]]
      BY <2>3
    <3>2. published' \cup loaded' \cup waived' \subseteq MemoryLines
      BY <1>c DEF CacheTypes
    <3>3. \A k \in published' \cup loaded' : memory'[k] = latest[k]
      BY <2>4, <1>c DEF Coherent, CacheTypes
    <3>4. CodeLine \in loaded' => icache' \in {-1, latest[CodeLine]}
      BY <1>c DEF Coherent
    <3>5. {start', end', byte'} \subseteq Nat
      BY <1>c, <2>1, <1>t DEF CacheTypes
    <3>6. \A s \in Frames :
            \/ cache'[s] = cache[s]
            \/ cache'[s] = Flush!None
            \/ /\ cache'[s] = [line |-> cache[s].line, version |-> cache[s].version, dirty |-> FALSE]
               /\ cache[s].line # -1 => memory'[cache[s].line] = latest[cache[s].line]
      BY <2>6, <2>7, <2>8
    <3>7. \A k \in MemoryLines : memory'[k] = memory[k] \/ memory'[k] = latest[k]
      BY <2>4
    <3> QED BY <1>c, <2>6, <2>9, <3>1, <3>2, <3>3, <3>4, <3>5, <3>6, <3>7, QuietCoherent
  <2>11. \A l \in MemoryLines \ (meanwhile \cup waived) : l % SETS < byte' => memory'[l] = latest[l]
    <3> SUFFICES ASSUME NEW l \in MemoryLines \ (meanwhile \cup waived), l % SETS < byte'
                 PROVE  memory'[l] = latest[l]
      OBVIOUS
    <3>1. l % SETS \in Frames
      BY FrameOf
    <3>2. l % SETS < byte \/ l % SETS = byte
      BY <2>1, <3>1, <1>t DEF Frames
    <3>3. cache[l % SETS].line # l => memory[l] = latest[l]
      BY DEF Coherent
    <3> QED BY <3>2, <3>3, <2>4, <1>p
  <2>12. Passed'
    BY <2>1, <2>11, <1>c, <1>p DEF Passed
  <2> QED BY <2>10, <2>12
<1>2. CASE ~(byte < end)
  <2>1. flush' = "icache" /\ UNCHANGED <<byte, memory, cache>>
    BY <1>2 DEF Flush!CleanTurn
  <2>2. CacheTypes' /\ Coherent'
    BY <2>1, <1>c DEF CacheTypes, Coherent
  <2>3. \A l \in MemoryLines : l % SETS < byte
    BY <1>2, <1>t, <1>p, FrameOf DEF Frames
  <2>4. Passed'
    BY <2>1, <2>3, <1>c, <1>p DEF Passed
  <2> QED BY <2>2, <2>4
<1> QED BY <1>1, <1>2

LEMMA FetchStep ==
  ASSUME CacheInv, Flush!Fetch \/ Flush!alt_icache_flush_all
  PROVE  CacheInv'
<1> USE DEF CacheInv
<1>1. CASE Flush!Fetch
  <2>1. icache' = memory[CodeLine]
        /\ UNCHANGED <<memory, cache, flush, start, end, byte, latest, meanwhile, waived, published,
                       loaded>>
    BY <1>1 DEF Flush!Fetch, Flush!range
  <2>2. Flush!GivenUp(start, end)' = Flush!GivenUp(start, end)
    BY <2>1 DEF Flush!GivenUp, Flush!Touched, Flush!Overshot, Flush!Lines
  <2>3. CacheTypes' /\ Coherent'
    BY <2>1 DEF CacheTypes, Coherent
  <2>4. Passed'
    BY <2>1, <2>2 DEF Passed
  <2> QED BY <2>3, <2>4
<1>2. CASE Flush!alt_icache_flush_all
  <2>1. /\ flush = "icache" /\ flush' = "none" /\ start' = 0 /\ end' = 0 /\ byte' = 0 /\ meanwhile' = {}
        /\ icache' = -1 /\ loaded' = MemoryLines \ (meanwhile \cup waived)
        /\ UNCHANGED <<memory, cache, latest, waived, published>>
    BY <1>2, LinesAre DEF Flush!alt_icache_flush_all, Flush!Returned
  <2>2. \A k \in loaded' : memory[k] = latest[k]
    BY <2>1 DEF Passed
  <2>3. CacheTypes' /\ Coherent'
    <3>1. CacheTypes'
      BY <2>1 DEF CacheTypes
    <3>2. Coherent'
      BY <2>1, <2>2 DEF Coherent
    <3> QED BY <3>1, <3>2
  <2>4. Passed'
    BY <2>1 DEF Passed
  <2> QED BY <2>3, <2>4
<1> QED BY <1>1, <1>2

LEMMA CacheStep ==
  ASSUME CacheInv, [Flush!Next]_(Flush!vars)
  PROVE  CacheInv'
<1>1. CASE UNCHANGED Flush!vars
  <2>1. UNCHANGED <<memory, cache, icache, flush, start, end, byte, latest, meanwhile, waived,
                    published, loaded>>
    BY <1>1 DEF Flush!vars
  <2>2. Flush!GivenUp(start, end)' = Flush!GivenUp(start, end)
    BY <2>1 DEF Flush!GivenUp, Flush!Touched, Flush!Overshot, Flush!Lines
  <2> QED BY <2>1, <2>2 DEF CacheInv, CacheTypes, Coherent, Passed
<1> QED BY <1>1, StoreStep, CallStep, FlushStep, InvalidateStep, CleanStep, FetchStep DEF Flush!Next

LEMMA CacheInvInit ==
  ASSUME Flush!Init PROVE CacheInv
<1>1. \A s \in Frames : cache[s] = [line |-> -1, version |-> 0, dirty |-> FALSE]
  BY DEF Flush!Init, Flush!None, Frames
<1>2. /\ memory = [l \in MemoryLines |-> 0] /\ latest = [l \in MemoryLines |-> 0]
      /\ cache = [s \in Frames |-> Flush!None]
      /\ flush = "none" /\ start = 0 /\ end = 0 /\ byte = 0
      /\ meanwhile = {} /\ waived = {} /\ published = {} /\ loaded = {}
  BY LinesAre DEF Flush!Init, Frames
<1>3. CacheTypes
  <2>1. memory = [l \in MemoryLines |-> memory[l]] /\ latest = [l \in MemoryLines |-> latest[l]]
    BY <1>2
  <2>2. cache = [s \in Frames |-> cache[s]]
    BY <1>2
  <2>3. \A s \in Frames : cache[s].line = -1 /\ cache[s].version = 0 /\ cache[s].dirty = FALSE
    BY <1>1
  <2>4. \A s \in Frames : cache[s] = [line |-> cache[s].line, version |-> cache[s].version,
                                     dirty |-> cache[s].dirty]
    BY <1>1, <2>3
  <2>5. {start, end, byte} \subseteq Nat /\ published \cup loaded \cup waived \subseteq MemoryLines
    BY <1>2
  <2> QED BY <2>1, <2>2, <2>3, <2>4, <2>5 DEF CacheTypes
<1>4. Coherent
  BY <1>1, <1>2 DEF Coherent
<1>5. Passed
  BY <1>2 DEF Passed
<1> QED BY <1>3, <1>4, <1>5 DEF CacheInv

LEMMA CachesMove ==
  ASSUME Runs("cache"), [HalNext]_halvars
  PROVE  [Flush!Next]_(Flush!vars)
<1>1. CASE UNCHANGED halvars
  BY <1>1 DEF halvars, cachevars, Flush!vars
<1>2. CASE HalNext
  BY <1>2 DEF HalNext, Runs
<1> QED BY <1>1, <1>2

LEMMA CachesSafe == HalSpec => [](Runs("cache") => CacheInv)
<1>1. HalInit => (Runs("cache") => CacheInv)
  BY CacheInvInit DEF HalInit
<1>2. (Runs("cache") => CacheInv) /\ [HalNext]_halvars => (Runs("cache") => CacheInv)'
  BY ServiceStays, CachesMove, CacheStep DEF Runs
<1> QED BY <1>1, <1>2, PTL DEF HalSpec

\* No store is lost that was not given up, what was flushed is in memory, and code that was
\* loaded is the code that is fetched, for any cache, any ranges and a handler that stores
\* between the instructions (alt_dcache_flush.c, alt_dcache_flush_no_writeback.c,
\* alt_dcache_flush_all.c, alt_icache_flush_all.c).
THEOREM FlushesReach == HalSpec => []FlushesReachMemory
<1>1. CacheInv => Flush!FlushesReachMemory
  <2> SUFFICES ASSUME CacheInv PROVE Flush!FlushesReachMemory
    OBVIOUS
  <2>1. ASSUME NEW l \in MemoryLines \ waived
        PROVE  latest[l] = IF cache[l % SETS].line = l THEN cache[l % SETS].version ELSE memory[l]
    <3>1. l % SETS \in Frames /\ l # -1
      BY FrameOf, FactsHold DEF CacheFacts, MemoryLines
    <3> QED BY <3>1 DEF CacheInv, Coherent
  <2>2. (\A l \in published : memory[l] = latest[l])
        /\ (CodeLine \in loaded => icache \in {-1, latest[CodeLine]})
    BY DEF CacheInv, Coherent
  <2> QED BY <2>1, <2>2, LinesAre DEF Flush!FlushesReachMemory, Flush!Set
<1>2. (Runs("cache") => CacheInv) => FlushesReachMemory
  BY <1>1 DEF FlushesReachMemory
<1> QED BY <1>2, CachesSafe, PTL

-----------------------------------------------------------------------------
(***************************************************************************)
(* The heap and the histogram.                                             *)
(***************************************************************************)
IsMemory(m) == m = [heap |-> m.heap, ptr |-> m.ptr, left |-> m.left, blocks |-> m.blocks, at |-> m.at]
Apart(b, c) == b.at + b.size <= c.at \/ c.at + c.size <= b.at
SlabOf(m) == [at |-> m.ptr, size |-> m.left]
Placed(m, b) == /\ {b.at, b.size} \subseteq Nat /\ b.at % 4 = 0
                /\ b.at + b.size <= m.heap /\ b.at + b.size <= HeapLimit

\* Blocks lie in the heap apart from each other and from what is left of the slab, which is
\* in the heap as well.
Tidy(m) ==
    /\ IsMemory(m) /\ m.heap \in Nat
    /\ Placed(m, SlabOf(m)) /\ m.left % 4 = 0
    /\ \A b \in m.blocks : Placed(m, b) /\ Apart(b, SlabOf(m))
    /\ \A b, c \in m.blocks : b # c => Apart(b, c)

\* The heap was refused, and has not got smaller since.
Exhausted(m) ==
    /\ IsMemory(m) /\ m.heap \in Nat /\ Profiler!Wild(m)
    /\ m.heap + Slab > HeapLimit \/ m.heap + Profiler!SamplesSize > HeapLimit

MemoryInv == IF place = "wild" THEN Exhausted(Profiler!Allocator) ELSE Tidy(Profiler!Allocator)
BucketInv == bucket <= Profiler!PcSamples - (IF TextSize % BytesPerBucket = 0 THEN 1 ELSE 0)
ProfileInv == MemoryInv /\ BucketInv

LEMMA ProfileFacts ==
  /\ {EntrySize, ArcSize, Slab, TextSize, BytesPerBucket} \subseteq Nat \ {0} /\ HeapLimit \in Nat
  /\ EntrySize % 4 = 0 /\ ArcSize % 4 = 0 /\ Slab % 4 = 0 /\ EntrySize <= Slab /\ ArcSize <= Slab
  /\ Increments \subseteq Nat \ {0} /\ Profiler!PcSamples \in Nat /\ Profiler!SamplesSize \in Nat
<1>1. /\ {EntrySize, ArcSize, Slab, TextSize, BytesPerBucket} \subseteq Nat \ {0} /\ HeapLimit \in Nat
      /\ EntrySize % 4 = 0 /\ ArcSize % 4 = 0 /\ Slab % 4 = 0 /\ EntrySize <= Slab /\ ArcSize <= Slab
      /\ Increments \subseteq Nat \ {0}
  BY ServicesAssumption DEF Profiler!ProfileAssumption
<1>2. Profiler!PcSamples \in Nat
  BY <1>1, DivMod DEF Profiler!PcSamples
<1> QED BY <1>1, <1>2 DEF Profiler!SamplesSize

LEMMA AlignedUp ==
  ASSUME NEW n \in Nat
  PROVE  Profiler!Aligned(n) \in Nat /\ n <= Profiler!Aligned(n) /\ Profiler!Aligned(n) % 4 = 0
<1>1. PICK q \in Nat : q = (n + 3) \div 4 /\ n <= q * 4
  OBVIOUS
<1>2. Profiler!Aligned(n) = q * 4
  BY <1>1 DEF Profiler!Aligned
<1> QED BY <1>1, <1>2

\* sbrk() makes room behind all that was handed out, or refuses for good.
LEMMA Sbrk ==
  ASSUME NEW m, IsMemory(m), m.heap \in Nat, NEW n \in Nat
  PROVE  LET s == Profiler!sbrk(m, n)
         IN /\ IsMemory(s) /\ s.heap \in Nat /\ m.heap <= s.heap
            /\ s.ptr = m.ptr /\ s.left = m.left /\ s.blocks = m.blocks
            /\ \/ s.at = Profiler!NoAddress /\ s.heap + n > HeapLimit
               \/ /\ s.at \in Nat /\ s.at % 4 = 0 /\ m.heap <= s.at
                  /\ s.heap = s.at + n /\ s.heap <= HeapLimit
<1> DEFINE bottom == Profiler!Aligned(m.heap)
<1>1. bottom \in Nat /\ m.heap <= bottom /\ bottom % 4 = 0
  BY AlignedUp
<1>2. HeapLimit \in Nat
  BY ProfileFacts
<1> HIDE DEF bottom
<1>3. Profiler!sbrk(m, n) = IF bottom + n > HeapLimit THEN [m EXCEPT !.heap = bottom, !.at = Profiler!NoAddress]
                   ELSE [m EXCEPT !.heap = bottom + n, !.at = bottom]
  BY DEF Profiler!sbrk, bottom
<1>4. CASE bottom + n > HeapLimit
  <2>1. Profiler!sbrk(m, n) = [heap |-> bottom, ptr |-> m.ptr, left |-> m.left, blocks |-> m.blocks, at |-> Profiler!NoAddress]
    BY <1>3, <1>4 DEF IsMemory
  <2> QED BY <1>1, <1>4, <2>1 DEF IsMemory
<1>5. CASE ~(bottom + n > HeapLimit)
  <2>1. Profiler!sbrk(m, n) = [heap |-> bottom + n, ptr |-> m.ptr, left |-> m.left, blocks |-> m.blocks, at |-> bottom]
    BY <1>3, <1>5 DEF IsMemory
  <2> QED BY <1>1, <1>2, <1>5, <2>1 DEF IsMemory
<1> QED BY <1>4, <1>5

LEMMA TakenIs ==
  ASSUME NEW m, IsMemory(m), NEW n
  PROVE  Profiler!Taken(m, n) = [heap |-> m.heap, ptr |-> m.ptr, left |-> m.left,
                        blocks |-> m.blocks \cup {[at |-> m.at, size |-> n]}, at |-> m.at]
BY DEF IsMemory, Profiler!Taken

\* A block that sbrk() has found room for keeps the heap tidy; one that is taken where it
\* refused does not.
LEMMA TakeNew ==
  ASSUME NEW m, Tidy(m), NEW n \in Nat
  PROVE  LET s == Profiler!sbrk(m, n)
         IN /\ s.at # Profiler!NoAddress => Tidy(Profiler!Taken(s, n))
            /\ s.at = Profiler!NoAddress => /\ Tidy(s) /\ s.heap + n > HeapLimit /\ s.heap \in Nat
                                   /\ IsMemory(Profiler!Taken(s, n)) /\ Profiler!Taken(s, n).heap = s.heap
                                   /\ Profiler!Wild(Profiler!Taken(s, n))
<1> DEFINE s == Profiler!sbrk(m, n)
           b == [at |-> s.at, size |-> n]
           t == Profiler!Taken(s, n)
<1>1. /\ IsMemory(s) /\ s.heap \in Nat /\ m.heap <= s.heap
      /\ s.ptr = m.ptr /\ s.left = m.left /\ s.blocks = m.blocks
      /\ \/ s.at = Profiler!NoAddress /\ s.heap + n > HeapLimit
         \/ /\ s.at \in Nat /\ s.at % 4 = 0 /\ m.heap <= s.at
            /\ s.heap = s.at + n /\ s.heap <= HeapLimit
  BY Sbrk DEF Tidy
<1>2. t = [heap |-> s.heap, ptr |-> s.ptr, left |-> s.left, blocks |-> s.blocks \cup {b}, at |-> s.at]
  BY <1>1, TakenIs
<1>3. m.heap \in Nat /\ HeapLimit \in Nat
  BY ProfileFacts DEF Tidy
<1>4. \A c : Placed(m, c) => Placed(s, c) /\ Placed(t, c)
  BY <1>1, <1>2, <1>3 DEF Placed
<1>5. SlabOf(s) = SlabOf(m) /\ SlabOf(t) = SlabOf(m)
  BY <1>1, <1>2 DEF SlabOf
<1> HIDE DEF s, t
<1>6. Tidy(s)
  BY <1>1, <1>4, <1>5 DEF Tidy
<1>7. CASE s.at # Profiler!NoAddress
  <2>1. /\ s.at \in Nat /\ s.at % 4 = 0 /\ m.heap <= s.at
        /\ s.heap = s.at + n /\ s.heap <= HeapLimit
    BY <1>1, <1>7
  <2>2. Placed(t, b)
    BY <1>2, <2>1 DEF Placed
  <2>3. \A c : Placed(m, c) => Apart(b, c) /\ Apart(c, b)
    BY <1>3, <2>1 DEF Placed, Apart
  <2>4. Placed(m, SlabOf(m))
    BY DEF Tidy
  <2> HIDE DEF b
  <2>5. \A c \in m.blocks : Placed(m, c)
    BY DEF Tidy
  <2>6. t.blocks = m.blocks \cup {b} /\ IsMemory(t) /\ t.heap \in Nat /\ t.left = m.left
    BY <1>1, <1>2 DEF IsMemory
  <2>7. \A c \in t.blocks : Placed(t, c) /\ Apart(c, SlabOf(t))
    BY <1>4, <1>5, <2>2, <2>3, <2>4, <2>5, <2>6 DEF Tidy
  <2>8. \A c, d \in t.blocks : c # d => Apart(c, d)
    BY <2>3, <2>5, <2>6 DEF Tidy
  <2> QED BY <1>4, <1>5, <1>7, <2>4, <2>6, <2>7, <2>8 DEF Tidy, s, t
<1>8. CASE s.at = Profiler!NoAddress
  <2>1. s.heap + n > HeapLimit
    BY <1>1, <1>8 DEF Profiler!NoAddress
  <2>2. IsMemory(t) /\ t.heap = s.heap /\ b \in t.blocks
    BY <1>2 DEF IsMemory
  <2>3. Profiler!Wild(t)
    BY <1>8, <2>2 DEF Profiler!Wild, Profiler!NoAddress
  <2> QED BY <1>1, <1>6, <1>8, <2>1, <2>2, <2>3 DEF s, t
<1> QED BY <1>7, <1>8

\* The heap is tidy, or was exhausted.
Good(m) == Tidy(m) \/ Exhausted(m)

LEMMA Moved ==
  ASSUME NEW m, IsMemory(m), NEW p, NEW l
  PROVE  [m EXCEPT !.ptr = p, !.left = l] =
            [heap |-> m.heap, ptr |-> p, left |-> l, blocks |-> m.blocks, at |-> m.at]
<1> DEFINE s == [m EXCEPT !.ptr = p]
<1>1. s = [heap |-> m.heap, ptr |-> p, left |-> m.left, blocks |-> m.blocks, at |-> m.at]
  BY DEF IsMemory
<1>2. [s EXCEPT !.left = l] = [heap |-> m.heap, ptr |-> p, left |-> l, blocks |-> m.blocks, at |-> m.at]
  <2> HIDE DEF s
  <2> QED BY <1>1
<1> QED BY <1>2

LEMMA Changed ==
  ASSUME NEW m, IsMemory(m), NEW a, NEW p, NEW l
  PROVE  [m EXCEPT !.at = a, !.ptr = p, !.left = l] =
            [heap |-> m.heap, ptr |-> p, left |-> l, blocks |-> m.blocks, at |-> a]
<1> DEFINE s == [m EXCEPT !.at = a]
<1>1. s = [heap |-> m.heap, ptr |-> m.ptr, left |-> m.left, blocks |-> m.blocks, at |-> a]
  BY DEF IsMemory
<1>2. [s EXCEPT !.ptr = p, !.left = l] =
         [heap |-> m.heap, ptr |-> p, left |-> l, blocks |-> m.blocks, at |-> a]
  <2>1. /\ IsMemory(s) /\ s.heap = m.heap /\ s.blocks = m.blocks /\ s.at = a
    BY <1>1 DEF IsMemory
  <2> HIDE DEF s
  <2>2. [s EXCEPT !.ptr = p, !.left = l] =
           [heap |-> s.heap, ptr |-> p, left |-> l, blocks |-> s.blocks, at |-> s.at]
    BY <2>1, Moved
  <2> QED BY <2>1, <2>2
<1> QED BY <1>2

\* A block is cut off the slab.
LEMMA Cut ==
  ASSUME NEW m, Tidy(m), NEW n \in Nat, n % 4 = 0, n <= m.left
  PROVE  Tidy(Profiler!Taken([m EXCEPT !.at = m.ptr, !.ptr = @ + n, !.left = @ - n], n))
<1> DEFINE s == [m EXCEPT !.at = m.ptr, !.ptr = @ + n, !.left = @ - n]
           b == [at |-> m.ptr, size |-> n]
           t == Profiler!Taken(s, n)
<1>1. s = [heap |-> m.heap, ptr |-> m.ptr + n, left |-> m.left - n, blocks |-> m.blocks, at |-> m.ptr]
  BY Changed DEF Tidy
<1>2. t = [heap |-> m.heap, ptr |-> m.ptr + n, left |-> m.left - n, blocks |-> m.blocks \cup {b},
           at |-> m.ptr]
  <2>1. IsMemory(s)
    BY <1>1 DEF IsMemory
  <2>2. s.heap = m.heap /\ s.ptr = m.ptr + n /\ s.left = m.left - n /\ s.blocks = m.blocks
        /\ s.at = m.ptr
    BY <1>1
  <2> HIDE DEF s
  <2>3. t = [heap |-> s.heap, ptr |-> s.ptr, left |-> s.left,
             blocks |-> s.blocks \cup {[at |-> s.at, size |-> n]}, at |-> s.at]
    BY <2>1, TakenIs
  <2> QED BY <2>2, <2>3
<1>3. /\ {m.ptr, m.left} \subseteq Nat /\ m.ptr % 4 = 0 /\ m.left % 4 = 0 /\ m.heap \in Nat
      /\ m.ptr + m.left <= m.heap /\ m.ptr + m.left <= HeapLimit /\ HeapLimit \in Nat
  BY ProfileFacts DEF Tidy, Placed, SlabOf
<1> HIDE DEF t
<1>4. SlabOf(t) = [at |-> m.ptr + n, size |-> m.left - n] /\ t.heap = m.heap /\ t.left = m.left - n
      /\ IsMemory(t) /\ t.blocks = m.blocks \cup {b}
  BY <1>2 DEF SlabOf, IsMemory
<1>5. (m.ptr + n) % 4 = 0 /\ (m.left - n) % 4 = 0 /\ m.left - n \in Nat /\ m.ptr + n \in Nat
  BY <1>3
<1>6. Placed(t, SlabOf(t)) /\ Placed(t, b) /\ Apart(b, SlabOf(t))
  BY <1>3, <1>4, <1>5 DEF Placed, Apart
<1>7. \A c \in m.blocks : Placed(t, c) /\ Apart(c, SlabOf(t)) /\ Apart(c, b) /\ Apart(b, c)
  <2> SUFFICES ASSUME NEW c \in m.blocks
               PROVE  Placed(t, c) /\ Apart(c, SlabOf(t)) /\ Apart(c, b) /\ Apart(b, c)
    OBVIOUS
  <2>1. /\ {c.at, c.size} \subseteq Nat /\ c.at % 4 = 0
        /\ c.at + c.size <= m.heap /\ c.at + c.size <= HeapLimit
    BY DEF Tidy, Placed
  <2>2. c.at + c.size <= m.ptr \/ m.ptr + m.left <= c.at
    BY DEF Tidy, Apart, SlabOf
  <2> QED BY <1>3, <1>4, <1>5, <2>1, <2>2 DEF Placed, Apart
<1> HIDE DEF b
<1>8. \A c, d \in t.blocks : c # d => Apart(c, d)
  BY <1>4, <1>7 DEF Tidy
<1>9. \A c \in t.blocks : Placed(t, c) /\ Apart(c, SlabOf(t))
  BY <1>4, <1>6, <1>7
<1>10. Tidy(t)
  BY <1>3, <1>4, <1>5, <1>6, <1>8, <1>9 DEF Tidy
<1> QED BY <1>10 DEF t

\* A slab that sbrk() has found room for lies behind all blocks.
LEMMA NewSlab ==
  ASSUME NEW m, Tidy(m), Profiler!sbrk(m, Slab).at # Profiler!NoAddress
  PROVE  LET s == Profiler!sbrk(m, Slab)
             t == [s EXCEPT !.ptr = s.at, !.left = Slab]
         IN Tidy(t) /\ t.left = Slab
<1> DEFINE s == Profiler!sbrk(m, Slab)
           t == [s EXCEPT !.ptr = s.at, !.left = Slab]
<1>0. Slab \in Nat /\ Slab % 4 = 0 /\ HeapLimit \in Nat /\ m.heap \in Nat
  BY ProfileFacts DEF Tidy
<1>1. /\ IsMemory(s) /\ s.heap \in Nat /\ m.heap <= s.heap /\ s.blocks = m.blocks
      /\ s.at \in Nat /\ s.at % 4 = 0 /\ m.heap <= s.at
      /\ s.heap = s.at + Slab /\ s.heap <= HeapLimit
  BY <1>0, Sbrk DEF Tidy
<1> HIDE DEF s
<1>2. t = [heap |-> s.heap, ptr |-> s.at, left |-> Slab, blocks |-> m.blocks, at |-> s.at]
  <2>0. IsMemory(s)
    BY <1>1
  <2>1. [s EXCEPT !.ptr = s.at, !.left = Slab] =
           [heap |-> s.heap, ptr |-> s.at, left |-> Slab, blocks |-> s.blocks, at |-> s.at]
    BY <2>0, Moved
  <2> QED BY <1>1, <2>1 DEF t
<1> HIDE DEF t
<1>3. /\ SlabOf(t) = [at |-> s.at, size |-> Slab] /\ t.heap = s.heap /\ t.left = Slab
      /\ IsMemory(t) /\ t.blocks = m.blocks
  BY <1>2 DEF SlabOf, IsMemory
<1>4. Placed(t, SlabOf(t))
  BY <1>0, <1>1, <1>3 DEF Placed
<1>5. \A c \in m.blocks : Placed(t, c) /\ Apart(c, SlabOf(t))
  <2> SUFFICES ASSUME NEW c \in m.blocks PROVE Placed(t, c) /\ Apart(c, SlabOf(t))
    OBVIOUS
  <2>1. /\ {c.at, c.size} \subseteq Nat /\ c.at % 4 = 0
        /\ c.at + c.size <= m.heap /\ c.at + c.size <= HeapLimit
    BY DEF Tidy, Placed
  <2> QED BY <1>0, <1>1, <1>3, <2>1 DEF Placed, Apart
<1>6. \A b, c \in t.blocks : b # c => Apart(b, c)
  BY <1>3 DEF Tidy
<1>7. Tidy(t) /\ t.left = Slab
  BY <1>0, <1>1, <1>3, <1>4, <1>5, <1>6 DEF Tidy
<1> QED BY <1>7 DEF s, t

\* The slab after mcount_allocate() has seen to it that there is one, and what becomes of it.
SlabFor(m, n) == IF n > m.left THEN [Profiler!sbrk(m, Slab) EXCEPT !.ptr = Profiler!sbrk(m, Slab).at, !.left = Slab] ELSE m
CutOff(s, n) == Profiler!Taken([s EXCEPT !.at = s.ptr, !.ptr = @ + n, !.left = @ - n], n)

LEMMA AllocateIs ==
  ASSUME NEW m, NEW n
  PROVE  Profiler!mcount_allocate(m, n) = CutOff(SlabFor(m, n), n)
BY DEF Profiler!mcount_allocate, SlabFor, CutOff

LEMMA CutOffIs ==
  ASSUME NEW m, IsMemory(m), NEW n
  PROVE  /\ IsMemory(CutOff(m, n)) /\ CutOff(m, n).heap = m.heap
         /\ CutOff(m, n).blocks = m.blocks \cup {[at |-> m.ptr, size |-> n]}
<1> DEFINE s == [m EXCEPT !.at = m.ptr, !.ptr = @ + n, !.left = @ - n]
<1>1. s = [heap |-> m.heap, ptr |-> m.ptr + n, left |-> m.left - n, blocks |-> m.blocks, at |-> m.ptr]
  BY Changed
<1>2. IsMemory(s)
  BY <1>1 DEF IsMemory
<1>3. CutOff(m, n) = Profiler!Taken(s, n)
  BY DEF CutOff
<1> HIDE DEF s
<1>4. CutOff(m, n) = [heap |-> s.heap, ptr |-> s.ptr, left |-> s.left,
                      blocks |-> s.blocks \cup {[at |-> s.at, size |-> n]}, at |-> s.at]
  BY <1>2, <1>3, TakenIs
<1> QED BY <1>1, <1>4 DEF IsMemory

LEMMA Allocated ==
  ASSUME NEW m, Good(m), NEW n \in {EntrySize, ArcSize}
  PROVE  Good(Profiler!mcount_allocate(m, n))
<1> DEFINE s == SlabFor(m, n)
           t == CutOff(s, n)
<1>0. /\ n \in Nat /\ n % 4 = 0 /\ n <= Slab /\ Slab \in Nat /\ HeapLimit \in Nat
      /\ Profiler!SamplesSize \in Nat
  BY ProfileFacts
<1>1. IsMemory(m) /\ m.heap \in Nat
  BY DEF Good, Tidy, Exhausted
<1>2. /\ IsMemory(Profiler!sbrk(m, Slab)) /\ Profiler!sbrk(m, Slab).heap \in Nat /\ m.heap <= Profiler!sbrk(m, Slab).heap
      /\ Profiler!sbrk(m, Slab).blocks = m.blocks
      /\ Profiler!sbrk(m, Slab).at = Profiler!NoAddress => Profiler!sbrk(m, Slab).heap + Slab > HeapLimit
  <2> DEFINE r == Profiler!sbrk(m, Slab)
  <2>1. /\ IsMemory(r) /\ r.heap \in Nat /\ m.heap <= r.heap /\ r.blocks = m.blocks
        /\ (r.at = Profiler!NoAddress /\ r.heap + Slab > HeapLimit) \/ r.at \in Nat
    BY <1>0, <1>1, Sbrk
  <2> HIDE DEF r
  <2>2. r.at = Profiler!NoAddress => r.heap + Slab > HeapLimit
    BY <2>1 DEF Profiler!NoAddress
  <2> QED BY <2>1, <2>2 DEF r
<1>3. /\ IsMemory(s) /\ s.heap \in Nat /\ m.heap <= s.heap /\ s.blocks = m.blocks
      /\ n > m.left => s.heap = Profiler!sbrk(m, Slab).heap /\ s.ptr = Profiler!sbrk(m, Slab).at
  <2>1. CASE n > m.left
    <3> DEFINE r == Profiler!sbrk(m, Slab)
    <3>1. IsMemory(r)
      BY <1>2
    <3>2. s = [r EXCEPT !.ptr = r.at, !.left = Slab]
      BY <2>1 DEF SlabFor
    <3> HIDE DEF r, s
    <3>3. s = [heap |-> r.heap, ptr |-> r.at, left |-> Slab, blocks |-> r.blocks, at |-> r.at]
      BY <3>1, <3>2, Moved
    <3> QED BY <1>2, <3>3 DEF IsMemory, r
  <2>2. CASE ~(n > m.left)
    <3>1. s = m
      BY <2>2 DEF SlabFor
    <3> QED BY <1>1, <2>2, <3>1
  <2> QED BY <2>1, <2>2
<1>4. Profiler!mcount_allocate(m, n) = t
  BY AllocateIs
<1>5. IsMemory(t) /\ t.heap = s.heap /\ t.blocks = m.blocks \cup {[at |-> s.ptr, size |-> n]}
  BY <1>3, CutOffIs
<1>6. CASE Exhausted(m)
  <2>1. Profiler!Wild(t)
    BY <1>5, <1>6 DEF Exhausted, Profiler!Wild
  <2>2. t.heap + Slab > HeapLimit \/ t.heap + Profiler!SamplesSize > HeapLimit
    BY <1>0, <1>1, <1>3, <1>5, <1>6 DEF Exhausted
  <2> QED BY <1>3, <1>4, <1>5, <2>1, <2>2 DEF Good, Exhausted
<1>7. CASE Tidy(m) /\ n > m.left /\ Profiler!sbrk(m, Slab).at = Profiler!NoAddress
  <2>1. s.ptr = Profiler!NoAddress /\ s.heap + Slab > HeapLimit
    BY <1>2, <1>3, <1>7
  <2>2. [at |-> s.ptr, size |-> n] \in t.blocks
    BY <1>5
  <2> HIDE DEF s, t
  <2>3. [at |-> s.ptr, size |-> n].at < 0
    BY <2>1 DEF Profiler!NoAddress
  <2>4. Profiler!Wild(t)
    BY <2>2, <2>3 DEF Profiler!Wild
  <2> QED BY <1>3, <1>4, <1>5, <2>1, <2>4 DEF Good, Exhausted
<1>8. CASE Tidy(m) /\ ~(n > m.left /\ Profiler!sbrk(m, Slab).at = Profiler!NoAddress)
  <2>1. Tidy(s) /\ n <= s.left
    <3>1. CASE n > m.left
      BY <1>0, <1>8, <3>1, NewSlab DEF SlabFor
    <3>2. CASE ~(n > m.left)
      <4>1. s = m /\ m.left \in Nat
        BY <1>8, <3>2 DEF SlabFor, Tidy, Placed, SlabOf
      <4> QED BY <1>0, <1>8, <3>2, <4>1
    <3> QED BY <3>1, <3>2
  <2> HIDE DEF s
  <2>2. Tidy(t)
    BY <1>0, <2>1, Cut DEF CutOff
  <2> QED BY <1>4, <2>2 DEF Good
<1> QED BY <1>6, <1>7, <1>8 DEF Good

LEMMA Sampled ==
  ASSUME NEW m, Tidy(m)
  PROVE  Good(Profiler!SampleBuffer(m))
<1>1. Profiler!SamplesSize \in Nat
  BY ProfileFacts
<1> DEFINE s == Profiler!sbrk(m, Profiler!SamplesSize)
           t == Profiler!Taken(s, Profiler!SamplesSize)
<1>2. /\ s.at # Profiler!NoAddress => Tidy(t)
      /\ s.at = Profiler!NoAddress => /\ s.heap + Profiler!SamplesSize > HeapLimit /\ s.heap \in Nat
                             /\ IsMemory(t) /\ t.heap = s.heap /\ Profiler!Wild(t)
  BY <1>1, TakeNew
<1>3. Profiler!SampleBuffer(m) = t
  BY DEF Profiler!SampleBuffer
<1> HIDE DEF s, t
<1> QED BY <1>2, <1>3 DEF Good, Exhausted

\* Of a good memory: it is exhausted if and only if it is wild.
LEMMA WildIs ==
  ASSUME NEW m, Good(m)
  PROVE  IF Profiler!Wild(m) THEN Exhausted(m) ELSE Tidy(m)
BY DEF Good, Tidy, Placed, Exhausted, Profiler!Wild

-----------------------------------------------------------------------------
\* Steps that store what the allocator made of the memory.
LEMMA Stored ==
  ASSUME NEW m, Good(m), Profiler!Store(m), place' = (IF Profiler!Wild(m) THEN "wild" ELSE place'),
         ~Profiler!Wild(m) => place' # "wild"
  PROVE  MemoryInv'
<1>1. Profiler!Allocator' = [heap |-> m.heap, ptr |-> m.ptr, left |-> m.left, blocks |-> m.blocks, at |-> Profiler!NoAddress]
  BY DEF Profiler!Allocator, Profiler!Store
<1>2. /\ IsMemory(Profiler!Allocator') /\ Profiler!Allocator'.heap = m.heap /\ Profiler!Allocator'.ptr = m.ptr
      /\ Profiler!Allocator'.left = m.left /\ Profiler!Allocator'.blocks = m.blocks
  BY <1>1 DEF IsMemory
<1> HIDE DEF Profiler!Allocator
<1>3. Tidy(m) => Tidy(Profiler!Allocator')
  <2>1. SlabOf(m) = SlabOf(Profiler!Allocator') /\ \A b : Placed(m, b) <=> Placed(Profiler!Allocator', b)
    BY <1>2 DEF SlabOf, Placed
  <2> QED BY <1>2, <2>1 DEF Tidy
<1>4. Exhausted(m) => Exhausted(Profiler!Allocator')
  BY <1>2 DEF Exhausted, Profiler!Wild
<1> QED BY <1>3, <1>4, WildIs DEF MemoryInv

LEMMA MemoryKept ==
  ASSUME ProfileInv, Profiler!Next
  PROVE  MemoryInv'
<1>1. CASE UNCHANGED Profiler!memory /\ (place' = "wild" <=> place = "wild")
  <2>1. Profiler!Allocator' = Profiler!Allocator
    BY <1>1 DEF Profiler!Allocator, Profiler!memory
  <2> QED BY <1>1, <2>1 DEF ProfileInv, MemoryInv
<1>2. CASE Profiler!Malloc
  <2>1. PICK n \in Increments : LET m == Profiler!sbrk(Profiler!Allocator, n)
                                IN Profiler!Store(IF m.at = Profiler!NoAddress THEN m ELSE Profiler!Taken(m, n))
    BY <1>2 DEF Profiler!Malloc
  <2>2. place = "" /\ place' = ""
    BY <1>2 DEF Profiler!Malloc
  <2>3. Tidy(Profiler!Allocator) /\ n \in Nat
    BY <2>2, ProfileFacts DEF ProfileInv, MemoryInv
  <2> DEFINE s == Profiler!sbrk(Profiler!Allocator, n)
             m == IF s.at = Profiler!NoAddress THEN s ELSE Profiler!Taken(s, n)
  <2>4. Tidy(m) /\ Profiler!Store(m)
    BY <2>1, <2>3, TakeNew
  <2> HIDE DEF m
  <2>5. ~Profiler!Wild(m) /\ Good(m)
    BY <2>4, WildIs DEF Good, Tidy, Placed, Profiler!Wild
  <2> QED BY <2>2, <2>4, <2>5, Stored
<1>3. CASE Profiler!R_Start /\ rate # 0
  <2> DEFINE m == Profiler!SampleBuffer(Profiler!Allocator)
  <2>1. Profiler!Store(m) /\ place' = IF Profiler!Wild(m) THEN "wild" ELSE "r_disable"
    BY <1>3 DEF Profiler!R_Start, Profiler!Enter
  <2>2. Good(m)
    BY <1>3, Sampled DEF ProfileInv, MemoryInv, Profiler!R_Start, Profiler!At
  <2> HIDE DEF m
  <2> QED BY <2>1, <2>2, Stored
<1>4. CASE Profiler!R_Entry
  <2> DEFINE m == Profiler!mcount_allocate(Profiler!Allocator, EntrySize)
  <2>1. Profiler!Store(m) /\ place' = IF Profiler!Wild(m) THEN "wild" ELSE "r_head"
    BY <1>4 DEF Profiler!R_Entry, Profiler!Enter
  <2>2. Good(m)
    BY <1>4, Allocated DEF ProfileInv, MemoryInv, Profiler!R_Entry, Profiler!At, Good
  <2> HIDE DEF m
  <2> QED BY <2>1, <2>2, Stored
<1>5. CASE Profiler!R_Arc
  <2> DEFINE m == Profiler!mcount_allocate(Profiler!Allocator, ArcSize)
  <2>1. Profiler!Store(m) /\ place' = IF Profiler!Wild(m) THEN "wild" ELSE "r_link"
    BY <1>5 DEF Profiler!R_Arc, Profiler!Enter
  <2>2. Good(m)
    BY <1>5, Allocated DEF ProfileInv, MemoryInv, Profiler!R_Arc, Profiler!At, Good
  <2> HIDE DEF m
  <2> QED BY <2>1, <2>2, Stored
<1>6. CASE Profiler!I_Call
  <2>1. PICK a \in Arcs : Profiler!Recorded(a)
    BY <1>6 DEF Profiler!I_Call
  <2>2. place # "wild" /\ Tidy(Profiler!Allocator)
    BY <1>6 DEF Profiler!I_Call, Profiler!Interrupt, ProfileInv, MemoryInv
  <2> DEFINE i == Profiler!EntryOf(functions, a.self)
             known == i # 0 /\ Profiler!ArcOf(functions[i].arcs, a.from) # 0
             starting == ~known /\ need_init /\ rate # 0
             m0 == IF starting THEN Profiler!SampleBuffer(Profiler!Allocator) ELSE Profiler!Allocator
             m1 == IF i = 0 THEN Profiler!mcount_allocate(m0, EntrySize) ELSE m0
             m2 == Profiler!mcount_allocate(m1, ArcSize)
  <2>3. CASE known
    <3>1. UNCHANGED <<Profiler!memory, Profiler!sampler, place>>
      BY <2>1, <2>3 DEF Profiler!Recorded
    <3> QED BY <1>1, <3>1
  <2>4. CASE ~known
    <3>1. Profiler!Store(m2) /\ place' = IF Profiler!Wild(m2) THEN "wild" ELSE place
      BY <2>1, <2>4 DEF Profiler!Recorded
    <3>2. Good(m0)
      BY <2>2, Sampled DEF Good
    <3> HIDE DEF m0
    <3>3. Good(m1)
      BY <3>2, Allocated
    <3> HIDE DEF m1
    <3>4. Good(m2)
      BY <3>3, Allocated
    <3> HIDE DEF m2
    <3> QED BY <2>2, <3>1, <3>4, Stored
  <2> QED BY <2>3, <2>4
<1>7. CASE ~(Profiler!Malloc \/ (Profiler!R_Start /\ rate # 0) \/ Profiler!R_Entry \/ Profiler!R_Arc \/ Profiler!I_Call)
  <2>1. UNCHANGED Profiler!memory /\ (place' = "wild" <=> place = "wild")
    BY <1>7 DEF Profiler!Next, Profiler!SetRate, Profiler!M_Call, Profiler!M_Entry, Profiler!M_Arc, Profiler!M_Load, Profiler!M_Store, Profiler!R_Test, Profiler!R_Clear, Profiler!R_Start,
       Profiler!R_Disable, Profiler!R_Head, Profiler!R_Link, Profiler!R_Enable, Profiler!Sample, Profiler!At, Profiler!Enter, Profiler!Return
  <2> QED BY <1>1, <2>1
<1> QED BY <1>2, <1>3, <1>4, <1>5, <1>6, <1>7

\* The last byte of the text is in the last bucket, or the one behind.
LEMMA BucketKept ==
  ASSUME BucketInv, Profiler!Next
  PROVE  BucketInv'
<1> DEFINE most == Profiler!PcSamples - (IF TextSize % BytesPerBucket = 0 THEN 1 ELSE 0)
<1>0. TextSize \in Nat \ {0} /\ BytesPerBucket \in Nat \ {0} /\ Profiler!PcSamples \in Nat
  BY ProfileFacts
<1>1. /\ TextSize = (Profiler!PcSamples * BytesPerBucket) + (TextSize % BytesPerBucket)
      /\ TextSize % BytesPerBucket \in 0 .. BytesPerBucket - 1
  BY <1>0, DivMod DEF Profiler!PcSamples
<1>2. (TextSize - 1) \div BytesPerBucket <= most
  <2>1. CASE TextSize % BytesPerBucket = 0
    <3>1. Profiler!PcSamples # 0
      BY <1>0, <1>1, <2>1
    <3>2. Profiler!PcSamples * BytesPerBucket = ((Profiler!PcSamples - 1) * BytesPerBucket) + BytesPerBucket
      BY <1>0
    <3>3. TextSize - 1 = ((Profiler!PcSamples - 1) * BytesPerBucket) + (BytesPerBucket - 1)
      <4>1. (Profiler!PcSamples - 1) * BytesPerBucket \in Int
        BY <1>0
      <4> QED BY <1>0, <1>1, <2>1, <3>2, <4>1
    <3>4. Profiler!PcSamples - 1 \in Nat /\ BytesPerBucket - 1 \in 0 .. BytesPerBucket - 1
      BY <1>0, <3>1
    <3>5. (TextSize - 1) \div BytesPerBucket = Profiler!PcSamples - 1
      BY <1>0, <3>3, <3>4, ModuloOf
    <3> QED BY <1>0, <2>1, <3>5
  <2>2. CASE TextSize % BytesPerBucket # 0
    <3>1. (TextSize - 1) \div BytesPerBucket <= TextSize \div BytesPerBucket
      BY <1>0, DivMonotone
    <3> QED BY <1>0, <2>2, <3>1 DEF Profiler!PcSamples
  <2> QED BY <2>1, <2>2
<1>3. 0 \div BytesPerBucket <= most
  <2>1. 0 \div BytesPerBucket <= (TextSize - 1) \div BytesPerBucket
    BY <1>0, DivMonotone
  <2>2. 0 \div BytesPerBucket \in Int /\ (TextSize - 1) \div BytesPerBucket \in Int /\ most \in Int
    BY <1>0
  <2> QED BY <1>2, <2>1, <2>2
<1>4. CASE Profiler!Sample
  <2>1. bucket' = 0 \div BytesPerBucket \/ bucket' = (TextSize - 1) \div BytesPerBucket
    BY <1>4 DEF Profiler!Sample
  <2> QED BY <1>2, <1>3, <2>1 DEF BucketInv
<1>5. CASE ~Profiler!Sample
  <2>1. CASE \E a \in Arcs : Profiler!Recorded(a)
    BY <2>1 DEF Profiler!Recorded, Profiler!sampler, BucketInv
  <2>2. CASE ~\E a \in Arcs : Profiler!Recorded(a)
    <3>1. bucket' = bucket
      BY <1>5, <2>2 DEF Profiler!Next, Profiler!Malloc, Profiler!SetRate, Profiler!M_Call, Profiler!M_Entry, Profiler!M_Arc, Profiler!M_Load, Profiler!M_Store, Profiler!R_Test,
         Profiler!R_Clear, Profiler!R_Start, Profiler!R_Disable, Profiler!R_Entry, Profiler!R_Head, Profiler!R_Arc, Profiler!R_Link, Profiler!R_Enable, Profiler!I_Call, Profiler!sampler
    <3> QED BY <3>1 DEF BucketInv
  <2> QED BY <2>1, <2>2
<1> QED BY <1>4, <1>5

LEMMA ProfileInvInit == Profiler!Init => ProfileInv
<1> SUFFICES ASSUME Profiler!Init PROVE ProfileInv
  OBVIOUS
<1>1. Profiler!Allocator = [heap |-> 1, ptr |-> 0, left |-> 0, blocks |-> {}, at |-> Profiler!NoAddress]
  BY DEF Profiler!Allocator, Profiler!Init
<1>2. Tidy(Profiler!Allocator)
  BY <1>1, ProfileFacts DEF Tidy, IsMemory, Placed, SlabOf
<1>3. BucketInv
  <2>1. bucket = -1 /\ Profiler!PcSamples \in Nat
    BY ProfileFacts DEF Profiler!Init, Profiler!NoAddress
  <2> QED BY <2>1 DEF BucketInv
<1>4. place = ""
  BY DEF Profiler!Init
<1> QED BY <1>2, <1>3, <1>4 DEF ProfileInv, MemoryInv

LEMMA ProfileInvKept == ProfileInv /\ [Profiler!Next]_(Profiler!vars) => ProfileInv'
<1> SUFFICES ASSUME ProfileInv, [Profiler!Next]_(Profiler!vars) PROVE ProfileInv'
  OBVIOUS
<1>1. CASE UNCHANGED Profiler!vars
  <2>1. Profiler!Allocator' = Profiler!Allocator /\ place' = place /\ bucket' = bucket
    BY <1>1 DEF Profiler!vars, Profiler!Allocator
  <2> QED BY <2>1 DEF ProfileInv, MemoryInv, BucketInv
<1>2. CASE Profiler!Next
  BY <1>2, MemoryKept, BucketKept DEF ProfileInv
<1> QED BY <1>1, <1>2

LEMMA ProfileInvSays == ProfileInv => Profiler!BlocksDisjoint
<1> SUFFICES ASSUME ProfileInv PROVE Profiler!BlocksDisjoint
  OBVIOUS
<1>1. Profiler!Allocator.blocks = blocks /\ Profiler!Allocator.heap = heap_end
  BY DEF Profiler!Allocator
<1> HIDE DEF Profiler!Allocator
<1>2. CASE place # "wild"
  <2>1. Tidy(Profiler!Allocator)
    BY <1>2 DEF ProfileInv, MemoryInv
  <2>2. \A b \in blocks : b.at >= 0 /\ b.at % 4 = 0 /\ b.at + b.size <= HeapLimit
    BY <1>1, <2>1 DEF Tidy, Placed
  <2>3. \A b, c \in blocks : b # c => b.at + b.size <= c.at \/ c.at + c.size <= b.at
    BY <1>1, <2>1 DEF Tidy, Apart
  <2> QED BY <1>2, <2>2, <2>3 DEF ProfileInv, BucketInv, Profiler!BlocksDisjoint
<1>3. CASE place = "wild"
  <2>1. Exhausted(Profiler!Allocator)
    BY <1>3 DEF ProfileInv, MemoryInv
  <2>2. heap_end + Slab > HeapLimit \/ heap_end + Profiler!SamplesSize > HeapLimit
    BY <1>1, <2>1 DEF Exhausted
  <2> QED BY <1>3, <2>2 DEF ProfileInv, BucketInv, Profiler!BlocksDisjoint
<1> QED BY <1>2, <1>3

LEMMA ProfileMoves ==
  ASSUME Runs("profile"), [HalNext]_halvars
  PROVE  [Profiler!Next]_(Profiler!vars)
<1>1. CASE UNCHANGED halvars
  BY <1>1 DEF halvars, profvars, Profiler!vars
<1>2. CASE HalNext
  BY <1>2 DEF HalNext, Runs
<1> QED BY <1>1, <1>2

LEMMA ProfileSafe == HalSpec => [](Runs("profile") => ProfileInv)
<1>1. HalInit => (Runs("profile") => ProfileInv)
  BY ProfileInvInit DEF HalInit
<1>2. (Runs("profile") => ProfileInv) /\ [HalNext]_halvars => (Runs("profile") => ProfileInv)'
  <2> SUFFICES ASSUME Runs("profile") => ProfileInv, [HalNext]_halvars, Runs("profile")'
               PROVE  ProfileInv'
    OBVIOUS
  <2>1. Runs("profile") /\ ProfileInv
    BY ServiceStays DEF Runs
  <2>2. [Profiler!Next]_(Profiler!vars)
    BY <2>1, ProfileMoves
  <2> QED BY <2>1, <2>2, ProfileInvKept
<1> QED BY <1>1, <1>2, PTL DEF HalSpec

\* Whatever malloc(), mcount and the sampler ask for, from main and from handlers in any
\* order, blocks are aligned, in the heap and apart from each other until the heap is
\* exhausted (alt_sbrk.c, alt_gmon.c); and the sampler counts in the histogram or in the one
\* bucket behind it.
THEOREM BlocksAreDisjoint == HalSpec => []BlocksDisjoint
<1>1. (Runs("profile") => ProfileInv) => BlocksDisjoint
  BY ProfileInvSays DEF BlocksDisjoint
<1> QED BY <1>1, ProfileSafe, PTL

-----------------------------------------------------------------------------
(***************************************************************************)
(* The calls that are counted.  Sums first.                                *)
(***************************************************************************)
Running(f, s, n) == f = [k \in 0 .. n |-> IF k = 0 THEN 0 ELSE f[k - 1] + s[k]]

LEMMA RunningExists ==
  ASSUME NEW s \in Seq(Nat)
  PROVE  \E f : Running(f, s, Len(s))
<1> DEFINE P == {n \in Nat : \E f : Running(f, s, n)}
<1>1. 0 \in P
  <2>1. Running([k \in 0 .. 0 |-> 0], s, 0)
    BY DEF Running
  <2> QED BY <2>1
<1>2. ASSUME NEW n \in P PROVE n + 1 \in P
  <2>1. PICK f : Running(f, s, n)
    OBVIOUS
  <2> DEFINE g == [k \in 0 .. n + 1 |-> IF k = n + 1 THEN f[n] + s[n + 1] ELSE f[k]]
  <2>2. \A k \in 0 .. n + 1 : g[k] = IF k = 0 THEN 0 ELSE g[k - 1] + s[k]
    <3> SUFFICES ASSUME NEW k \in 0 .. n + 1
                 PROVE  g[k] = IF k = 0 THEN 0 ELSE g[k - 1] + s[k]
      OBVIOUS
    <3>1. CASE k = n + 1
      BY <3>1
    <3>2. CASE k \in 0 .. n
      <4>1. f[k] = IF k = 0 THEN 0 ELSE f[k - 1] + s[k]
        BY <2>1, <3>2 DEF Running
      <4>2. g[k] = f[k] /\ (k # 0 => g[k - 1] = f[k - 1])
        BY <3>2
      <4> QED BY <4>1, <4>2
    <3> QED BY <3>1, <3>2
  <2>3. Running(g, s, n + 1)
    <3>1. g = [k \in 0 .. n + 1 |-> g[k]]
      OBVIOUS
    <3> QED BY <2>2, <3>1 DEF Running
  <2> QED BY <2>3
<1>3. \A n \in Nat : n \in P
  <2>1. P \in SUBSET Nat
    OBVIOUS
  <2> HIDE DEF P
  <2> QED BY <1>1, <1>2, <2>1, Induction
<1>4. Len(s) \in P
  <2>1. Len(s) \in Nat
    OBVIOUS
  <2> HIDE DEF P
  <2> QED BY <1>3, <2>1
<1> QED BY <1>4

\* A sum, by the sums on the way to it.
LEMMA SumIs ==
  ASSUME NEW s \in Seq(Nat)
  PROVE  \E f \in [0 .. Len(s) -> Nat] :
            /\ f[0] = 0 /\ \A k \in 1 .. Len(s) : f[k] = f[k - 1] + s[k]
            /\ Profiler!Sum(s) = f[Len(s)]
<1> DEFINE f == CHOOSE g : Running(g, s, Len(s))
<1>1. Profiler!Sum(s) = f[Len(s)]
  BY DEF Profiler!Sum, Running
<1>2. Running(f, s, Len(s))
  BY RunningExists
<1> HIDE DEF f
<1>3. f[0] = 0 /\ \A k \in 1 .. Len(s) : f[k] = f[k - 1] + s[k]
  BY <1>2 DEF Running
<1> DEFINE P == {k \in Nat : k <= Len(s) => f[k] \in Nat}
<1>4. 0 \in P
  BY <1>3
<1>5. ASSUME NEW k \in P PROVE k + 1 \in P
  <2>1. CASE k + 1 <= Len(s)
    <3>1. f[k + 1] = f[k] + s[k + 1] /\ f[k] \in Nat /\ s[k + 1] \in Nat
      BY <1>3, <2>1
    <3> QED BY <3>1
  <2> QED BY <2>1
<1>6. \A k \in Nat : k \in P
  <2>1. P \in SUBSET Nat
    OBVIOUS
  <2> HIDE DEF P
  <2> QED BY <1>4, <1>5, <2>1, Induction
<1>7. f \in [0 .. Len(s) -> Nat]
  <2>1. f = [k \in 0 .. Len(s) |-> f[k]]
    BY <1>2 DEF Running
  <2>2. \A k \in 0 .. Len(s) : f[k] \in Nat
    BY <1>6
  <2> QED BY <2>1, <2>2
<1> QED BY <1>1, <1>3, <1>7

LEMMA SumType ==
  ASSUME NEW s \in Seq(Nat)
  PROVE  Profiler!Sum(s) \in Nat
BY SumIs

LEMMA SumOfNone == Profiler!Sum(<<>>) = 0
<1>1. <<>> \in Seq(Nat) /\ Len(<<>>) = 0
  OBVIOUS
<1> QED BY <1>1, SumIs

\* A sequence that differs in one place.
LEMMA SumChanged ==
  ASSUME NEW s \in Seq(Nat), NEW t \in Seq(Nat), Len(t) = Len(s), NEW i \in 1 .. Len(s),
         \A k \in 1 .. Len(s) : k # i => t[k] = s[k]
  PROVE  Profiler!Sum(t) + s[i] = Profiler!Sum(s) + t[i] /\ s[i] <= Profiler!Sum(s)
<1>1. PICK f \in [0 .. Len(s) -> Nat] :
            /\ f[0] = 0 /\ \A k \in 1 .. Len(s) : f[k] = f[k - 1] + s[k]
            /\ Profiler!Sum(s) = f[Len(s)]
  BY SumIs
<1>2. PICK g \in [0 .. Len(s) -> Nat] :
            /\ g[0] = 0 /\ \A k \in 1 .. Len(s) : g[k] = g[k - 1] + t[k]
            /\ Profiler!Sum(t) = g[Len(s)]
  BY SumIs
<1>3. s[i] \in Nat /\ t[i] \in Nat
  OBVIOUS
<1> DEFINE P == {k \in Nat : k <= Len(s) => /\ k < i => g[k] = f[k]
                                            /\ i <= k => g[k] + s[i] = f[k] + t[i] /\ s[i] <= f[k]}
<1>4. 0 \in P
  BY <1>1, <1>2
<1>5. ASSUME NEW k \in P PROVE k + 1 \in P
  <2>0. k \in Nat /\ (k <= Len(s) => /\ k < i => g[k] = f[k]
                                     /\ i <= k => g[k] + s[i] = f[k] + t[i] /\ s[i] <= f[k])
    OBVIOUS
  <2>1. ASSUME k + 1 <= Len(s)
        PROVE  /\ k + 1 < i => g[k + 1] = f[k + 1]
               /\ i <= k + 1 => g[k + 1] + s[i] = f[k + 1] + t[i] /\ s[i] <= f[k + 1]
    <3> HIDE DEF P
    <3>1. /\ f[k + 1] = f[k] + s[k + 1] /\ g[k + 1] = g[k] + t[k + 1]
          /\ f[k] \in Nat /\ g[k] \in Nat /\ s[k + 1] \in Nat /\ t[k + 1] \in Nat
      <4>1. k + 1 \in 1 .. Len(s) /\ k \in 0 .. Len(s) /\ k + 1 - 1 = k
        BY <2>0, <2>1
      <4>2. f[k] \in Nat /\ g[k] \in Nat
        BY <4>1
      <4>5. s[k + 1] \in Nat /\ t[k + 1] \in Nat
        BY <4>1, ElementOfSeq
      <4>3. f[k + 1] = f[k + 1 - 1] + s[k + 1]
        BY <1>1, <4>1
      <4>4. g[k + 1] = g[k + 1 - 1] + t[k + 1]
        BY <1>2, <4>1
      <4> QED BY <4>1, <4>2, <4>3, <4>4, <4>5
    <3>2. k + 1 # i => t[k + 1] = s[k + 1]
      BY <2>0, <2>1
    <3>3. /\ k < i => g[k] = f[k]
          /\ i <= k => g[k] + s[i] = f[k] + t[i] /\ s[i] <= f[k]
      <4>1. Len(s) \in Nat
        OBVIOUS
      <4>2. k <= Len(s)
        BY <2>0, <2>1, <4>1
      <4> QED BY <2>0, <4>2
    <3>4. CASE k + 1 < i
      BY <2>0, <3>1, <3>2, <3>3, <3>4
    <3>5. CASE k + 1 = i
      <4>1. g[i] = f[k] + t[i] /\ f[i] = f[k] + s[i]
        BY <2>0, <3>1, <3>3, <3>5
      <4>2. g[i] + s[i] = f[i] + t[i] /\ s[i] <= f[i]
        BY <1>3, <2>0, <3>1, <3>5, <4>1
      <4> QED BY <3>5, <4>2
    <3>6. CASE k + 1 > i
      <4>1. t[k + 1] = s[k + 1] /\ g[k] + s[i] = f[k] + t[i] /\ s[i] <= f[k]
        BY <2>0, <3>2, <3>3, <3>6
      <4>2. f[k + 1] = f[k] + s[k + 1] /\ g[k + 1] = g[k] + s[k + 1]
        BY <3>1, <4>1
      <4>3. g[k] + s[k + 1] + s[i] = f[k] + s[k + 1] + t[i] /\ s[i] <= f[k] + s[k + 1]
        <5> DEFINE a == f[k]  b == g[k]  c == s[k + 1]  x == s[i]  y == t[i]
        <5>1. a \in Nat /\ b \in Nat /\ c \in Nat /\ x \in Nat /\ y \in Nat
          BY <1>3, <3>1
        <5>2. b + x = a + y /\ x <= a
          BY <4>1
        <5> HIDE DEF a, b, c, x, y
        <5>3. b + c + x = a + c + y
          <6>1. (b + x) + c = (a + y) + c
            BY <5>2
          <6>2. b + c + x = (b + x) + c
            BY <5>1
          <6>3. a + c + y = (a + y) + c
            BY <5>1
          <6> QED BY <6>1, <6>2, <6>3
        <5>4. x <= a + c
          BY <5>1, <5>2
        <5> QED BY <5>3, <5>4 DEF a, b, c, x, y
      <4>5. g[k + 1] + s[i] = f[k + 1] + t[i] /\ s[i] <= f[k + 1]
        BY <4>2, <4>3
      <4> QED BY <2>0, <3>6, <4>5
    <3> QED BY <2>0, <3>4, <3>5, <3>6
  <2> QED BY <2>0, <2>1
<1>6. \A k \in Nat : k \in P
  <2>1. P \in SUBSET Nat
    OBVIOUS
  <2> HIDE DEF P
  <2> QED BY <1>4, <1>5, <2>1, Induction
<1>7. Len(s) \in Nat /\ i <= Len(s)
  OBVIOUS
<1>8. g[Len(s)] + s[i] = f[Len(s)] + t[i] /\ s[i] <= f[Len(s)]
  BY <1>6, <1>7
<1> QED BY <1>1, <1>2, <1>8

\* One more at the head.
LEMMA SumPrepended ==
  ASSUME NEW s \in Seq(Nat), NEW t \in Seq(Nat), Len(t) = Len(s) + 1,
         \A k \in 1 .. Len(s) : t[k + 1] = s[k]
  PROVE  Profiler!Sum(t) = t[1] + Profiler!Sum(s)
<1>1. PICK f \in [0 .. Len(s) -> Nat] :
            /\ f[0] = 0 /\ \A k \in 1 .. Len(s) : f[k] = f[k - 1] + s[k]
            /\ Profiler!Sum(s) = f[Len(s)]
  BY SumIs
<1>2. PICK g \in [0 .. Len(s) + 1 -> Nat] :
            /\ g[0] = 0 /\ \A k \in 1 .. Len(s) + 1 : g[k] = g[k - 1] + t[k]
            /\ Profiler!Sum(t) = g[Len(s) + 1]
  BY SumIs
<1>3. t[1] \in Nat /\ Len(s) \in Nat
  OBVIOUS
<1> DEFINE P == {k \in Nat : k <= Len(s) => g[k + 1] = t[1] + f[k]}
<1>4. 0 \in P
  <2>1. 1 \in 1 .. Len(s) + 1 /\ 1 - 1 = 0
    BY <1>3
  <2>2. g[1] = g[0] + t[1]
    BY <1>2, <2>1
  <2>3. g[1] = t[1] + f[0]
    BY <1>1, <1>2, <1>3, <2>2
  <2> QED BY <2>3
<1>5. ASSUME NEW k \in P PROVE k + 1 \in P
  <2>0. k \in Nat /\ (k <= Len(s) => g[k + 1] = t[1] + f[k])
    OBVIOUS
  <2>1. ASSUME k + 1 <= Len(s) PROVE g[k + 1 + 1] = t[1] + f[k + 1]
    <3> HIDE DEF P
    <3>1. k + 1 \in 1 .. Len(s) /\ k + 2 \in 1 .. Len(s) + 1 /\ k + 2 - 1 = k + 1 /\ k + 1 - 1 = k
          /\ k \in 0 .. Len(s) /\ k + 1 \in 0 .. Len(s) + 1 /\ k + 1 + 1 = k + 2
      BY <2>0, <2>1
    <3>2. /\ f[k + 1] = f[k] + s[k + 1] /\ g[k + 2] = g[k + 1] + t[k + 2]
          /\ f[k] \in Nat /\ g[k + 1] \in Nat /\ s[k + 1] \in Nat
      <4>1. f[k] \in Nat /\ g[k + 1] \in Nat
        BY <3>1
      <4>4. s[k + 1] \in Nat
        BY <3>1, ElementOfSeq
      <4>2. f[k + 1] = f[k + 1 - 1] + s[k + 1]
        BY <1>1, <3>1
      <4>3. g[k + 2] = g[k + 2 - 1] + t[k + 2]
        BY <1>2, <3>1
      <4> QED BY <3>1, <4>1, <4>2, <4>3, <4>4
    <3>3. t[k + 2] = s[k + 1]
      BY <3>1
    <3>4. g[k + 1] = t[1] + f[k]
      BY <2>0, <2>1
    <3>5. g[k + 2] = t[1] + f[k + 1]
      BY <1>3, <3>2, <3>3, <3>4
    <3> QED BY <3>1, <3>5
  <2> QED BY <2>0, <2>1
<1>6. \A k \in Nat : k \in P
  <2>1. P \in SUBSET Nat
    OBVIOUS
  <2> HIDE DEF P
  <2> QED BY <1>4, <1>5, <2>1, Induction
<1>7. Len(s) \in P
  BY <1>3, <1>6
<1> QED BY <1>1, <1>2, <1>3, <1>7

\* What the calls of an arc add up to in a list.
Weight(r, a) == IF r.from = a.from THEN r.count ELSE 0
Weights(e, a) == [j \in DOMAIN e.arcs |-> Weight(e.arcs[j], a)]
TotalOf(fns, a) == Profiler!Sum([i \in DOMAIN fns |-> Profiler!Within(fns[i], a)])

\* What the program does to the list.
WithEntry(fns, x, self) == <<Profiler!NewEntry(x, self)>> \o fns
WithArc(fns, e, y, from) == [fns EXCEPT ![e].arcs = <<Profiler!NewArc(y, from)>> \o fns[e].arcs]
WithCount(fns, e, j, c) == [fns EXCEPT ![e].arcs[j].count = c]

ArcRecords == [at : Int, from : {a.from : a \in Arcs}, count : Nat]
EntryRecords == [at : Int, self : {a.self : a \in Arcs}, arcs : Seq(ArcRecords)]

\* The list has the arc a at address y, in the entry at address x, with the count n.
Holds(fns, x, y, a, n) ==
    \E i \in DOMAIN fns : /\ fns[i].at = x /\ fns[i].self = a.self
                          /\ \E j \in DOMAIN fns[i].arcs :
                                fns[i].arcs[j] = [at |-> y, from |-> a.from, count |-> n]
HasEntry(fns, x, a) == \E i \in DOMAIN fns : fns[i].at = x /\ fns[i].self = a.self

\* An address names one entry, and in an entry one arc.
Distinct(fns) ==
    /\ \A i, j \in DOMAIN fns : fns[i].at = fns[j].at => i = j
    /\ \A i \in DOMAIN fns : \A j, k \in DOMAIN fns[i].arcs :
          fns[i].arcs[j].at = fns[i].arcs[k].at => j = k

\* Entries and arcs are in blocks that were handed out for them.
Backed(fns, lent) ==
    \A i \in DOMAIN fns :
        /\ [at |-> fns[i].at, size |-> EntrySize] \in lent
        /\ \A j \in DOMAIN fns[i].arcs : [at |-> fns[i].arcs[j].at, size |-> ArcSize] \in lent

Addresses(f) == f = [entry |-> f.entry, arc |-> f.arc, next |-> f.next] /\ f.entry \in Int /\ f.arc \in Int
CountTypes ==
    /\ functions \in Seq(EntryRecords)
    /\ arc \in Arcs /\ value \in Nat
    /\ Addresses(found)
    /\ done \in [Arcs -> Nat] /\ started \in [Arcs -> Nat]

Beginning == {"r_init", "r_clear", "r_start", "r_disable"}
Linking == {"r_entry", "r_head", "r_arc", "r_link"}
Pending == {"m_entry", "m_arc", "m_load", "m_store"} \cup Beginning \cup Linking

\* What main has found is still listed; what it read with interrupts off is as it read it.
MainInv ==
    /\ place \in Beginning => found.entry = Profiler!NoAddress \/ HasEntry(functions, found.entry, arc)
    /\ place \in {"m_arc", "m_load", "m_store", "r_arc", "r_link"} => HasEntry(functions, found.entry, arc)
    /\ place = "m_load" => \E n \in Nat : Holds(functions, found.entry, found.arc, arc, n)
    /\ place \in Linking \cup {"r_enable"} => ~on
    /\ place = "r_head" => /\ found.next = functions
                           /\ [at |-> found.entry, size |-> EntrySize] \in blocks
                           /\ \A i \in DOMAIN functions : functions[i].at # found.entry
    /\ place = "r_link" =>
          /\ [at |-> found.arc, size |-> ArcSize] \in blocks
          /\ \A i \in DOMAIN functions : functions[i].at = found.entry =>
                /\ found.next = functions[i].arcs
                /\ \A j \in DOMAIN functions[i].arcs : functions[i].arcs[j].at # found.arc

ListInv == place # "wild" => Distinct(functions) /\ Backed(functions, blocks) /\ MainInv

\* The calls that are counted, and those that are still to be.
Balanced ==
    \A a \in Arcs :
        /\ done[a] + (IF a = arc /\ place = "r_enable" THEN 1 ELSE 0) <= TotalOf(functions, a)
        /\ TotalOf(functions, a) + (IF a = arc /\ place \in Pending THEN 1 ELSE 0) <= started[a]

\* The calls that main undoes when it stores are not among those done.
Loaded ==
    place = "m_store" => \E n \in Nat : /\ Holds(functions, found.entry, found.arc, arc, n)
                                        /\ value <= n
                                        /\ done[arc] + (n - value) <= TotalOf(functions, arc)

CountInv == CountTypes /\ ListInv /\ Balanced /\ Loaded

\* The list gns is fns with one more entry, or one more arc in an entry, or another count.
EntryMore(gns, fns, x, b) ==
    /\ gns \in Seq(EntryRecords) /\ Len(gns) = Len(fns) + 1
    /\ gns[1] = [at |-> x, self |-> b.self, arcs |-> <<>>]
    /\ \A k \in 1 .. Len(fns) : gns[k + 1] = fns[k]
    /\ \A k \in DOMAIN gns : k = 1 \/ (k - 1 \in 1 .. Len(fns) /\ gns[k] = fns[k - 1])
    /\ \A a : TotalOf(gns, a) = TotalOf(fns, a)
SameBut(gns, fns, e) ==
    /\ gns \in Seq(EntryRecords) /\ Len(gns) = Len(fns) /\ DOMAIN gns = DOMAIN fns
    /\ gns[e] = [at |-> fns[e].at, self |-> fns[e].self, arcs |-> gns[e].arcs]
    /\ \A i \in 1 .. Len(fns) : i # e => gns[i] = fns[i]
ArcMore(gns, fns, e, y, b) ==
    /\ SameBut(gns, fns, e)
    /\ Len(gns[e].arcs) = Len(fns[e].arcs) + 1 /\ gns[e].arcs[1].at = y
    /\ \A k \in 1 .. Len(fns[e].arcs) : gns[e].arcs[k + 1] = fns[e].arcs[k]
    /\ \A k \in DOMAIN gns[e].arcs : k = 1 \/ (/\ k - 1 \in 1 .. Len(fns[e].arcs)
                                               /\ gns[e].arcs[k] = fns[e].arcs[k - 1])
    /\ TotalOf(gns, b) = TotalOf(fns, b) + 1
    /\ \A a \in Arcs : a # b => TotalOf(gns, a) = TotalOf(fns, a)
CountOther(gns, fns, e, j, b, c) ==
    /\ SameBut(gns, fns, e)
    /\ Len(gns[e].arcs) = Len(fns[e].arcs) /\ DOMAIN gns[e].arcs = DOMAIN fns[e].arcs
    /\ gns[e].arcs[j] = [at |-> fns[e].arcs[j].at, from |-> b.from, count |-> c]
    /\ \A k \in 1 .. Len(fns[e].arcs) : k # j => gns[e].arcs[k] = fns[e].arcs[k]
    /\ TotalOf(gns, b) + fns[e].arcs[j].count = TotalOf(fns, b) + c
    /\ fns[e].arcs[j].count <= TotalOf(fns, b)
    /\ \A a \in Arcs : a # b => TotalOf(gns, a) = TotalOf(fns, a)
\* A count that is listed is still listed, or it is the one that is another.
HeldStill(gns, fns, e, j, b, c) ==
    /\ \A x, a : HasEntry(fns, x, a) => HasEntry(gns, x, a)
    /\ \A x, y, a, n : Holds(fns, x, y, a, n) =>
          \/ Holds(gns, x, y, a, n)
          \/ /\ y = fns[e].arcs[j].at /\ n = fns[e].arcs[j].count
             /\ a.self = b.self /\ a.from = b.from /\ Holds(gns, x, y, a, c)

-----------------------------------------------------------------------------
(***************************************************************************)
(* Lists.                                                                  *)
(***************************************************************************)
LEMMA FirstIs ==
  ASSUME NEW S \in SUBSET Nat, 0 \notin S
  PROVE  IF S = {} THEN Profiler!First(S) = 0 ELSE Profiler!First(S) \in S /\ Profiler!First(S) # 0
<1>1. CASE S = {}
  BY <1>1 DEF Profiler!First
<1>2. CASE S # {}
  <2>1. \E i \in S : \A j \in S : i <= j
    BY <1>2, LeastElement
  <2>2. Profiler!First(S) = CHOOSE i \in S : \A j \in S : i <= j
    BY <1>2 DEF Profiler!First
  <2>3. Profiler!First(S) \in S
    BY <2>1, <2>2
  <2> QED BY <1>2, <2>3
<1> QED BY <1>1, <1>2

LEMMA NaturalSeq ==
  ASSUME NEW n \in Nat, NEW f \in [1 .. n -> Nat]
  PROVE  f \in Seq(Nat) /\ Len(f) = n
OBVIOUS

LEMMA WeightsIs ==
  ASSUME NEW e \in EntryRecords, NEW a
  PROVE  /\ Weights(e, a) \in Seq(Nat) /\ Len(Weights(e, a)) = Len(e.arcs)
         /\ e.arcs \in Seq(ArcRecords) /\ DOMAIN e.arcs = 1 .. Len(e.arcs)
         /\ \A j \in 1 .. Len(e.arcs) : Weights(e, a)[j] = Weight(e.arcs[j], a)
<1>1. e.arcs \in Seq(ArcRecords) /\ DOMAIN e.arcs = 1 .. Len(e.arcs) /\ Len(e.arcs) \in Nat
  BY DEF EntryRecords
<1>2. \A j \in 1 .. Len(e.arcs) : e.arcs[j] \in ArcRecords
  BY <1>1, ElementOfSeq
<1>3. \A j \in 1 .. Len(e.arcs) : Weight(e.arcs[j], a) \in Nat
  BY <1>2 DEF ArcRecords, Weight
<1>4. Weights(e, a) \in [1 .. Len(e.arcs) -> Nat]
  BY <1>1, <1>3 DEF Weights
<1>5. Weights(e, a) \in Seq(Nat) /\ Len(Weights(e, a)) = Len(e.arcs)
  BY <1>1, <1>4, NaturalSeq
<1> QED BY <1>1, <1>5 DEF Weights

LEMMA WithinIs ==
  ASSUME NEW e, NEW a
  PROVE  Profiler!Within(e, a) = IF e.self # a.self THEN 0 ELSE Profiler!Sum(Weights(e, a))
BY DEF Profiler!Within, Weights, Weight

LEMMA WithinType ==
  ASSUME NEW e \in EntryRecords, NEW a
  PROVE  Profiler!Within(e, a) \in Nat
<1>1. Profiler!Sum(Weights(e, a)) \in Nat
  BY WeightsIs, SumType
<1> QED BY <1>1, WithinIs

LEMMA ColumnIs ==
  ASSUME NEW fns \in Seq(EntryRecords), NEW a
  PROVE  LET s == [i \in DOMAIN fns |-> Profiler!Within(fns[i], a)]
         IN /\ s \in Seq(Nat) /\ Len(s) = Len(fns)
            /\ \A i \in 1 .. Len(fns) : s[i] = Profiler!Within(fns[i], a)
<1> DEFINE s == [i \in DOMAIN fns |-> Profiler!Within(fns[i], a)]
<1>1. DOMAIN fns = 1 .. Len(fns) /\ Len(fns) \in Nat
  OBVIOUS
<1>2. \A i \in 1 .. Len(fns) : Profiler!Within(fns[i], a) \in Nat
  BY ElementOfSeq, WithinType
<1>3. s \in [1 .. Len(fns) -> Nat] /\ \A i \in 1 .. Len(fns) : s[i] = Profiler!Within(fns[i], a)
  BY <1>1, <1>2
<1> HIDE DEF s
<1>4. s \in Seq(Nat) /\ Len(s) = Len(fns)
  BY <1>1, <1>3, NaturalSeq
<1> QED BY <1>3, <1>4 DEF s

LEMMA TotalType ==
  ASSUME NEW fns \in Seq(EntryRecords), NEW a
  PROVE  TotalOf(fns, a) \in Nat
<1> DEFINE s == [i \in DOMAIN fns |-> Profiler!Within(fns[i], a)]
<1>1. s \in Seq(Nat)
  BY ColumnIs
<1> HIDE DEF s
<1>2. Profiler!Sum(s) \in Nat
  BY <1>1, SumType
<1> QED BY <1>2 DEF s, TotalOf

\* One entry of the list is another.
LEMMA TotalChanged ==
  ASSUME NEW fns \in Seq(EntryRecords), NEW gns \in Seq(EntryRecords), Len(gns) = Len(fns),
         NEW e \in 1 .. Len(fns), \A i \in 1 .. Len(fns) : i # e => gns[i] = fns[i], NEW a
  PROVE  /\ TotalOf(gns, a) + Profiler!Within(fns[e], a) = TotalOf(fns, a) + Profiler!Within(gns[e], a)
         /\ Profiler!Within(fns[e], a) <= TotalOf(fns, a)
<1> DEFINE s == [i \in DOMAIN fns |-> Profiler!Within(fns[i], a)]
           t == [i \in DOMAIN gns |-> Profiler!Within(gns[i], a)]
<1>1. s \in Seq(Nat) /\ Len(s) = Len(fns) /\ \A i \in 1 .. Len(fns) : s[i] = Profiler!Within(fns[i], a)
  BY ColumnIs
<1>2. t \in Seq(Nat) /\ Len(t) = Len(fns) /\ \A i \in 1 .. Len(fns) : t[i] = Profiler!Within(gns[i], a)
  BY ColumnIs
<1>3. TotalOf(fns, a) = Profiler!Sum(s) /\ TotalOf(gns, a) = Profiler!Sum(t)
  BY DEF TotalOf
<1> HIDE DEF s, t
<1>4. \A k \in 1 .. Len(s) : k # e => t[k] = s[k]
  BY <1>1, <1>2
<1>5. Profiler!Sum(t) + s[e] = Profiler!Sum(s) + t[e] /\ s[e] <= Profiler!Sum(s)
  BY <1>1, <1>2, <1>4, SumChanged
<1> QED BY <1>1, <1>2, <1>3, <1>5

-----------------------------------------------------------------------------
\* A sequence with one more at the head.
LEMMA Prepended ==
  ASSUME NEW T, NEW s \in Seq(T), NEW x \in T
  PROVE  LET t == <<x>> \o s
         IN /\ t \in Seq(T) /\ Len(t) = Len(s) + 1 /\ t[1] = x
            /\ \A k \in 1 .. Len(s) : t[k + 1] = s[k]
            /\ \A k \in DOMAIN t : k = 1 \/ (k - 1 \in 1 .. Len(s) /\ t[k] = s[k - 1])
<1>1. <<x>> \in Seq(T) /\ Len(<<x>>) = 1
  OBVIOUS
<1> DEFINE t == <<x>> \o s
<1>2. /\ t \in Seq(T) /\ Len(t) = Len(s) + 1
      /\ \A k \in 1 .. Len(t) : t[k] = IF k <= 1 THEN x ELSE s[k - 1]
  BY <1>1, ConcatProperties
<1> HIDE DEF t
<1>3. Len(s) \in Nat /\ DOMAIN t = 1 .. Len(t)
  BY <1>2
<1>4. t[1] = x /\ \A k \in 1 .. Len(s) : t[k + 1] = s[k]
  BY <1>2, <1>3
<1>5. \A k \in DOMAIN t : k = 1 \/ (k - 1 \in 1 .. Len(s) /\ t[k] = s[k - 1])
  BY <1>2, <1>3
<1> QED BY <1>2, <1>4, <1>5 DEF t

\* A new entry has no arcs, and counts nothing.
LEMMA EntryPrepended ==
  ASSUME NEW fns \in Seq(EntryRecords), NEW x \in Int, NEW b \in Arcs
  PROVE  EntryMore(WithEntry(fns, x, b.self), fns, x, b)
<1> DEFINE new == Profiler!NewEntry(x, b.self)
           gns == <<new>> \o fns
<1>1. new = [at |-> x, self |-> b.self, arcs |-> <<>>] /\ new \in EntryRecords
  BY DEF Profiler!NewEntry, EntryRecords
<1> HIDE DEF new
<1>2. /\ gns \in Seq(EntryRecords) /\ Len(gns) = Len(fns) + 1 /\ gns[1] = new
      /\ \A k \in 1 .. Len(fns) : gns[k + 1] = fns[k]
      /\ \A k \in DOMAIN gns : k = 1 \/ (k - 1 \in 1 .. Len(fns) /\ gns[k] = fns[k - 1])
  BY <1>1, Prepended
<1> HIDE DEF gns
<1>3. ASSUME NEW a PROVE TotalOf(gns, a) = TotalOf(fns, a)
  <2> DEFINE s == [i \in DOMAIN fns |-> Profiler!Within(fns[i], a)]
             t == [i \in DOMAIN gns |-> Profiler!Within(gns[i], a)]
  <2>1. s \in Seq(Nat) /\ Len(s) = Len(fns) /\ \A i \in 1 .. Len(fns) : s[i] = Profiler!Within(fns[i], a)
    BY ColumnIs
  <2>2. t \in Seq(Nat) /\ Len(t) = Len(gns) /\ \A i \in 1 .. Len(gns) : t[i] = Profiler!Within(gns[i], a)
    BY <1>2, ColumnIs
  <2>3. TotalOf(fns, a) = Profiler!Sum(s) /\ TotalOf(gns, a) = Profiler!Sum(t)
    BY DEF TotalOf
  <2> HIDE DEF s, t
  <2>4. \A k \in 1 .. Len(s) : t[k + 1] = s[k]
    BY <1>2, <2>1, <2>2
  <2>5. Profiler!Sum(t) = t[1] + Profiler!Sum(s)
    BY <1>2, <2>1, <2>2, <2>4, SumPrepended
  <2>6. t[1] = Profiler!Within(new, a)
    BY <1>2, <2>2
  <2>7. Profiler!Within(new, a) = 0
    <3>1. Weights(new, a) = <<>>
      <4>1. Weights(new, a) \in Seq(Nat) /\ Len(Weights(new, a)) = 0
        BY <1>1, WeightsIs
      <4> QED BY <4>1, EmptySeq
    <3> QED BY <3>1, SumOfNone, WithinIs
  <2>8. Profiler!Sum(s) \in Nat
    BY <2>1, SumType
  <2> QED BY <2>3, <2>5, <2>6, <2>7, <2>8
<1>4. \A a : TotalOf(gns, a) = TotalOf(fns, a)
  BY <1>3
<1> QED BY <1>1, <1>2, <1>4 DEF gns, new, WithEntry, EntryMore

LEMMA EntryIs ==
  ASSUME NEW fns \in Seq(EntryRecords), NEW e \in 1 .. Len(fns)
  PROVE  /\ fns[e] \in EntryRecords /\ fns[e].arcs \in Seq(ArcRecords)
         /\ fns[e] = [at |-> fns[e].at, self |-> fns[e].self, arcs |-> fns[e].arcs]
         /\ \A j \in 1 .. Len(fns[e].arcs) :
               /\ fns[e].arcs[j] \in ArcRecords /\ fns[e].arcs[j].count \in Nat
               /\ fns[e].arcs[j] = [at |-> fns[e].arcs[j].at, from |-> fns[e].arcs[j].from,
                                    count |-> fns[e].arcs[j].count]
<1>1. fns[e] \in EntryRecords
  BY ElementOfSeq
<1>2. fns[e].arcs \in Seq(ArcRecords)
  BY <1>1 DEF EntryRecords
<1>3. \A j \in 1 .. Len(fns[e].arcs) : fns[e].arcs[j] \in ArcRecords
  BY <1>2, ElementOfSeq
<1>4. fns[e] = [at |-> fns[e].at, self |-> fns[e].self, arcs |-> fns[e].arcs]
  BY <1>1 DEF EntryRecords
<1>5. \A r \in ArcRecords : r.count \in Nat /\ r = [at |-> r.at, from |-> r.from, count |-> r.count]
  BY DEF ArcRecords
<1> QED BY <1>1, <1>2, <1>3, <1>4, <1>5

LEMMA ArcsReplaced ==
  ASSUME NEW fns \in Seq(EntryRecords), NEW e \in 1 .. Len(fns), NEW new \in Seq(ArcRecords)
  PROVE  LET gns == [fns EXCEPT ![e].arcs = new]
         IN /\ gns \in Seq(EntryRecords) /\ Len(gns) = Len(fns) /\ DOMAIN gns = DOMAIN fns
            /\ gns[e] = [at |-> fns[e].at, self |-> fns[e].self, arcs |-> new]
            /\ \A i \in 1 .. Len(fns) : i # e => gns[i] = fns[i]
<1> DEFINE r == [at |-> fns[e].at, self |-> fns[e].self, arcs |-> new]
           gns == [fns EXCEPT ![e].arcs = new]
<1>1. r \in EntryRecords /\ [fns[e] EXCEPT !.arcs = new] = r
  <2>1. fns[e] \in EntryRecords
    BY ElementOfSeq
  <2>2. fns[e].at \in Int /\ fns[e].self \in {a.self : a \in Arcs}
        /\ fns[e] = [at |-> fns[e].at, self |-> fns[e].self, arcs |-> fns[e].arcs]
    BY <2>1 DEF EntryRecords
  <2> QED BY <2>2 DEF EntryRecords
<1>2. gns = [fns EXCEPT ![e] = r]
  BY <1>1
<1> HIDE DEF r, gns
<1>3. gns \in Seq(EntryRecords) /\ Len(gns) = Len(fns) /\ DOMAIN gns = DOMAIN fns
  BY <1>1, <1>2
<1>4. gns[e] = r /\ \A i \in 1 .. Len(fns) : i # e => gns[i] = fns[i]
  BY <1>2
<1> QED BY <1>3, <1>4 DEF r, gns

LEMMA CountReplaced ==
  ASSUME NEW arcs \in Seq(ArcRecords), NEW j \in 1 .. Len(arcs), NEW c \in Nat
  PROVE  LET new == [arcs EXCEPT ![j].count = c]
         IN /\ new \in Seq(ArcRecords) /\ Len(new) = Len(arcs) /\ DOMAIN new = DOMAIN arcs
            /\ new[j] = [at |-> arcs[j].at, from |-> arcs[j].from, count |-> c]
            /\ \A k \in 1 .. Len(arcs) : k # j => new[k] = arcs[k]
<1> DEFINE r == [at |-> arcs[j].at, from |-> arcs[j].from, count |-> c]
           new == [arcs EXCEPT ![j].count = c]
<1>0. arcs[j] \in ArcRecords
  BY ElementOfSeq
<1>1. r \in ArcRecords /\ [arcs[j] EXCEPT !.count = c] = r
  BY <1>0 DEF ArcRecords
<1>2. new = [arcs EXCEPT ![j] = r]
  BY <1>1
<1> HIDE DEF r, new
<1>3. new \in Seq(ArcRecords) /\ Len(new) = Len(arcs) /\ DOMAIN new = DOMAIN arcs
  BY <1>1, <1>2
<1>4. new[j] = r /\ \A k \in 1 .. Len(arcs) : k # j => new[k] = arcs[k]
  BY <1>2
<1> QED BY <1>3, <1>4 DEF r, new

\* An arc is lent by its function and its caller.
LEMMA ArcsDiffer ==
  ASSUME NEW a \in Arcs, NEW b \in Arcs, a.self = b.self, a.from = b.from
  PROVE  a = b
BY ServicesAssumption DEF Profiler!ProfileAssumption

\* A new arc counts one call.
LEMMA ArcPrepended ==
  ASSUME NEW fns \in Seq(EntryRecords), NEW e \in 1 .. Len(fns), NEW y \in Int,
         NEW b \in Arcs, fns[e].self = b.self
  PROVE  ArcMore(WithArc(fns, e, y, b.from), fns, e, y, b)
<1> DEFINE one == Profiler!NewArc(y, b.from)
           arcs == fns[e].arcs
           new == <<one>> \o arcs
           gns == [fns EXCEPT ![e].arcs = new]
<1>1. one = [at |-> y, from |-> b.from, count |-> 1] /\ one \in ArcRecords
  BY DEF Profiler!NewArc, ArcRecords
<1>2. arcs \in Seq(ArcRecords) /\ fns[e] \in EntryRecords
  BY EntryIs
<1> HIDE DEF one
<1>3. /\ new \in Seq(ArcRecords) /\ Len(new) = Len(arcs) + 1 /\ new[1] = one
      /\ \A k \in 1 .. Len(arcs) : new[k + 1] = arcs[k]
      /\ \A k \in DOMAIN new : k = 1 \/ (k - 1 \in 1 .. Len(arcs) /\ new[k] = arcs[k - 1])
  BY <1>1, <1>2, Prepended
<1> HIDE DEF new
<1>4. /\ gns \in Seq(EntryRecords) /\ Len(gns) = Len(fns) /\ DOMAIN gns = DOMAIN fns
      /\ gns[e] = [at |-> fns[e].at, self |-> fns[e].self, arcs |-> new]
      /\ \A i \in 1 .. Len(fns) : i # e => gns[i] = fns[i]
  BY <1>3, ArcsReplaced
<1> HIDE DEF gns
<1>5. gns[e].arcs = new /\ gns[e].self = b.self /\ gns[e] \in EntryRecords
  BY <1>4, EntryIs
<1>6. ASSUME NEW a \in Arcs
      PROVE  Profiler!Within(gns[e], a) = Profiler!Within(fns[e], a) + (IF a = b THEN 1 ELSE 0)
  <2>1. CASE a.self # b.self
    BY <1>5, <2>1, WithinIs
  <2>2. CASE a.self = b.self
    <3>1. /\ Weights(fns[e], a) \in Seq(Nat) /\ Len(Weights(fns[e], a)) = Len(fns[e].arcs)
          /\ \A j \in 1 .. Len(fns[e].arcs) : Weights(fns[e], a)[j] = Weight(fns[e].arcs[j], a)
      BY <1>2, WeightsIs
    <3>2. /\ Weights(gns[e], a) \in Seq(Nat) /\ Len(Weights(gns[e], a)) = Len(gns[e].arcs)
          /\ \A j \in 1 .. Len(gns[e].arcs) : Weights(gns[e], a)[j] = Weight(gns[e].arcs[j], a)
      BY <1>5, WeightsIs
    <3> DEFINE s == Weights(fns[e], a)
               t == Weights(gns[e], a)
    <3>10. /\ s \in Seq(Nat) /\ Len(s) = Len(arcs)
          /\ \A j \in 1 .. Len(arcs) : s[j] = Weight(arcs[j], a)
      BY <3>1
    <3>11. /\ t \in Seq(Nat) /\ Len(t) = Len(new)
          /\ \A j \in 1 .. Len(new) : t[j] = Weight(new[j], a)
      BY <1>5, <3>2
    <3>3. Profiler!Within(fns[e], a) = Profiler!Sum(s) /\ Profiler!Within(gns[e], a) = Profiler!Sum(t)
      BY <1>5, <2>2, WithinIs
    <3> HIDE DEF s, t, arcs
    <3>4. Len(arcs) \in Nat
      BY <1>2
    <3>5. \A k \in 1 .. Len(s) : t[k + 1] = s[k]
      <4> SUFFICES ASSUME NEW k \in 1 .. Len(arcs) PROVE t[k + 1] = s[k]
        BY <3>10
      <4>1. k + 1 \in 1 .. Len(new)
        BY <1>3, <3>4
      <4>2. new[k + 1] = arcs[k]
        BY <1>3
      <4>3. t[k + 1] = Weight(new[k + 1], a)
        BY <3>11, <4>1
      <4>4. s[k] = Weight(arcs[k], a)
        BY <3>10
      <4> QED BY <4>2, <4>3, <4>4
    <3>6. Profiler!Sum(t) = t[1] + Profiler!Sum(s) /\ Profiler!Sum(s) \in Nat
      BY <1>3, <3>10, <3>11, <3>5, SumPrepended, SumType
    <3>7. t[1] = IF a = b THEN 1 ELSE 0
      <4>1. 1 \in 1 .. Len(new)
        BY <1>3, <3>4
      <4>2. t[1] = Weight(one, a)
        BY <1>3, <3>11, <4>1
      <4>3. t[1] = IF b.from = a.from THEN 1 ELSE 0
        BY <1>1, <4>2 DEF Weight
      <4> QED BY <2>2, <4>3, ArcsDiffer
    <3>8. Profiler!Sum(t) = Profiler!Sum(s) + (IF a = b THEN 1 ELSE 0)
      BY <3>6, <3>7
    <3> QED BY <3>3, <3>8
  <2> QED BY <2>1, <2>2, WithinType, <1>2
<1>7. \A a \in Arcs : TotalOf(gns, a) = TotalOf(fns, a) + (IF a = b THEN 1 ELSE 0)
  <2> SUFFICES ASSUME NEW a \in Arcs
               PROVE  TotalOf(gns, a) = TotalOf(fns, a) + (IF a = b THEN 1 ELSE 0)
    OBVIOUS
  <2>1. TotalOf(gns, a) + Profiler!Within(fns[e], a) = TotalOf(fns, a) + Profiler!Within(gns[e], a)
    BY <1>4, TotalChanged
  <2>2. Profiler!Within(fns[e], a) \in Nat /\ TotalOf(gns, a) \in Nat /\ TotalOf(fns, a) \in Nat
    BY <1>2, <1>4, WithinType, TotalType
  <2> QED BY <1>6, <2>1, <2>2
<1>8. /\ TotalOf(gns, b) = TotalOf(fns, b) + 1
      /\ \A a \in Arcs : a # b => TotalOf(gns, a) = TotalOf(fns, a)
  <2>1. \A a \in Arcs : TotalOf(fns, a) \in Nat
    BY TotalType
  <2> QED BY <1>7, <2>1
<1>9. gns[e].arcs[1].at = y
  BY <1>1, <1>3, <1>5
<1>10. SameBut(gns, fns, e)
  BY <1>4, <1>5 DEF SameBut
<1>11. ArcMore(gns, fns, e, y, b)
  BY <1>3, <1>5, <1>8, <1>9, <1>10 DEF ArcMore
<1> QED BY <1>11 DEF gns, new, one, WithArc

\* A count is another.
LEMMA CountChanged ==
  ASSUME NEW fns \in Seq(EntryRecords), NEW e \in 1 .. Len(fns), NEW j \in 1 .. Len(fns[e].arcs),
         NEW c \in Nat, NEW b \in Arcs, fns[e].self = b.self, fns[e].arcs[j].from = b.from
  PROVE  CountOther(WithCount(fns, e, j, c), fns, e, j, b, c)
<1> DEFINE arcs == fns[e].arcs
           old == arcs[j]
           new == [arcs EXCEPT ![j].count = c]
           gns == [fns EXCEPT ![e].arcs = new]
<1>1. arcs \in Seq(ArcRecords) /\ fns[e] \in EntryRecords /\ old.count \in Nat
  BY EntryIs
<1>2. WithCount(fns, e, j, c) = gns
  BY DEF WithCount
<1>3. /\ new \in Seq(ArcRecords) /\ Len(new) = Len(arcs) /\ DOMAIN new = DOMAIN arcs
      /\ new[j] = [at |-> old.at, from |-> b.from, count |-> c]
      /\ \A k \in 1 .. Len(arcs) : k # j => new[k] = arcs[k]
  BY <1>1, CountReplaced
<1> HIDE DEF new
<1>4. /\ gns \in Seq(EntryRecords) /\ Len(gns) = Len(fns) /\ DOMAIN gns = DOMAIN fns
      /\ gns[e] = [at |-> fns[e].at, self |-> fns[e].self, arcs |-> new]
      /\ \A i \in 1 .. Len(fns) : i # e => gns[i] = fns[i]
  BY <1>3, ArcsReplaced
<1> HIDE DEF gns
<1>5. gns[e].arcs = new /\ gns[e].self = b.self /\ gns[e] \in EntryRecords
  BY <1>4, EntryIs
<1>6. ASSUME NEW a \in Arcs
      PROVE  /\ a # b => Profiler!Within(gns[e], a) = Profiler!Within(fns[e], a)
             /\ a = b => /\ Profiler!Within(gns[e], a) + old.count = Profiler!Within(fns[e], a) + c
                         /\ old.count <= Profiler!Within(fns[e], a)
  <2>1. CASE a.self # b.self
    BY <1>5, <2>1, WithinIs
  <2>2. CASE a.self = b.self
    <3>1. /\ Weights(fns[e], a) \in Seq(Nat) /\ Len(Weights(fns[e], a)) = Len(fns[e].arcs)
          /\ \A k \in 1 .. Len(fns[e].arcs) : Weights(fns[e], a)[k] = Weight(fns[e].arcs[k], a)
      BY <1>1, WeightsIs
    <3>2. /\ Weights(gns[e], a) \in Seq(Nat) /\ Len(Weights(gns[e], a)) = Len(gns[e].arcs)
          /\ \A k \in 1 .. Len(gns[e].arcs) : Weights(gns[e], a)[k] = Weight(gns[e].arcs[k], a)
      BY <1>5, WeightsIs
    <3> DEFINE s == Weights(fns[e], a)
               t == Weights(gns[e], a)
    <3>10. /\ s \in Seq(Nat) /\ Len(s) = Len(arcs)
          /\ \A k \in 1 .. Len(arcs) : s[k] = Weight(arcs[k], a)
      BY <3>1
    <3>11. /\ t \in Seq(Nat) /\ Len(t) = Len(new)
          /\ \A k \in 1 .. Len(new) : t[k] = Weight(new[k], a)
      BY <1>5, <3>2
    <3>3. Profiler!Within(fns[e], a) = Profiler!Sum(s) /\ Profiler!Within(gns[e], a) = Profiler!Sum(t)
      BY <1>5, <2>2, WithinIs
    <3>0. j \in 1 .. Len(arcs)
      OBVIOUS
    <3>4. \A k \in 1 .. Len(s) : k # j => t[k] = s[k]
      <4> SUFFICES ASSUME NEW k \in 1 .. Len(arcs), k # j PROVE t[k] = s[k]
        BY <3>10
      <4>1. new[k] = arcs[k]
        BY <1>3
      <4>2. t[k] = Weight(new[k], a)
        BY <1>3, <3>11
      <4>3. s[k] = Weight(arcs[k], a)
        BY <3>10
      <4> QED BY <4>1, <4>2, <4>3
    <3>5. Profiler!Sum(t) + s[j] = Profiler!Sum(s) + t[j] /\ s[j] <= Profiler!Sum(s)
      BY <1>3, <3>10, <3>11, <3>4, SumChanged
    <3>6. s[j] = (IF b.from = a.from THEN old.count ELSE 0) /\ t[j] = (IF b.from = a.from THEN c ELSE 0)
      <4>1. s[j] = Weight(old, a)
        BY <3>10
      <4>2. t[j] = Weight(new[j], a)
        BY <1>3, <3>11
      <4>3. old.from = b.from /\ new[j].from = b.from /\ new[j].count = c
        BY <1>3
      <4> QED BY <4>1, <4>2, <4>3 DEF Weight
    <3>7. Profiler!Sum(s) \in Nat /\ Profiler!Sum(t) \in Nat
      BY <3>10, <3>11, SumType
    <3> HIDE DEF s, t, arcs, old
    <3>8. CASE a = b
      BY <3>3, <3>5, <3>6, <3>8
    <3>9. CASE a # b
      <4>1. b.from # a.from
        BY <2>2, <3>9, ArcsDiffer
      <4>2. Profiler!Sum(t) = Profiler!Sum(s)
        BY <3>5, <3>6, <3>7, <4>1
      <4> QED BY <3>3, <3>9, <4>2
    <3> QED BY <3>8, <3>9
  <2> QED BY <2>1, <2>2
<1>7. ASSUME NEW a \in Arcs
      PROVE  /\ a # b => TotalOf(gns, a) = TotalOf(fns, a)
             /\ a = b => /\ TotalOf(gns, a) + old.count = TotalOf(fns, a) + c
                         /\ old.count <= TotalOf(fns, a)
  <2>1. /\ TotalOf(gns, a) + Profiler!Within(fns[e], a) = TotalOf(fns, a) + Profiler!Within(gns[e], a)
        /\ Profiler!Within(fns[e], a) <= TotalOf(fns, a)
    BY <1>4, TotalChanged
  <2>2. Profiler!Within(fns[e], a) \in Nat /\ Profiler!Within(gns[e], a) \in Nat /\ TotalOf(gns, a) \in Nat
        /\ TotalOf(fns, a) \in Nat
    BY <1>1, <1>4, <1>5, WithinType, TotalType
  <2> HIDE DEF old
  <2>3. CASE a = b
    <3>1. /\ Profiler!Within(gns[e], a) + old.count = Profiler!Within(fns[e], a) + c
          /\ old.count <= Profiler!Within(fns[e], a)
      BY <1>6, <2>3
    <3>3. TotalOf(gns, a) + old.count = TotalOf(fns, a) + c /\ old.count <= TotalOf(fns, a)
      <4> DEFINE v == Profiler!Within(fns[e], a)  x == Profiler!Within(gns[e], a)
                 p == TotalOf(fns, a)  q == TotalOf(gns, a)  o == old.count
      <4>1. v \in Nat /\ x \in Nat /\ p \in Nat /\ q \in Nat /\ o \in Nat
        BY <1>1, <2>2
      <4>2. q + v = p + x /\ v <= p /\ x + o = v + c /\ o <= v
        BY <2>1, <3>1
      <4> HIDE DEF v, x, p, q, o
      <4>3. q + o = p + c
        BY <4>1, <4>2
      <4>4. o <= p
        BY <4>1, <4>2
      <4> QED BY <4>3, <4>4 DEF p, q, o
    <3> QED BY <2>3, <3>3
  <2>4. CASE a # b
    <3>1. Profiler!Within(gns[e], a) = Profiler!Within(fns[e], a)
      BY <1>6, <2>4
    <3> QED BY <2>1, <2>2, <2>4, <3>1
  <2> QED BY <2>3, <2>4
<1>8. SameBut(gns, fns, e)
  BY <1>4, <1>5 DEF SameBut
<1>9. CountOther(gns, fns, e, j, b, c)
  BY <1>3, <1>5, <1>7, <1>8 DEF CountOther
<1> QED BY <1>2, <1>9 DEF gns

-----------------------------------------------------------------------------
\* What a search finds.
LEMMA EntryOfIs ==
  ASSUME NEW fns \in Seq(EntryRecords), NEW self, NEW e, e = Profiler!EntryOf(fns, self)
  PROVE  \/ e = 0 /\ \A i \in DOMAIN fns : fns[i].self # self
         \/ e # 0 /\ e \in 1 .. Len(fns) /\ fns[e].self = self
<1> DEFINE S == {i \in DOMAIN fns : fns[i].self = self}
<1>1. S \in SUBSET Nat /\ 0 \notin S
  OBVIOUS
<1>2. e = Profiler!First(S)
  BY DEF Profiler!EntryOf
<1>3. IF S = {} THEN e = 0 ELSE e \in S /\ e # 0
  BY <1>1, <1>2, FirstIs
<1> QED BY <1>3

LEMMA EntryAtIs ==
  ASSUME NEW fns \in Seq(EntryRecords), Distinct(fns), NEW i \in DOMAIN fns
  PROVE  Profiler!EntryAt(fns, fns[i].at) = i
<1> DEFINE S == {k \in DOMAIN fns : fns[k].at = fns[i].at}
<1>1. S \in SUBSET Nat /\ 0 \notin S /\ i \in S
  OBVIOUS
<1>2. \A k \in S : k = i
  BY DEF Distinct
<1>3. Profiler!EntryAt(fns, fns[i].at) = Profiler!First(S)
  BY DEF Profiler!EntryAt
<1>4. Profiler!First(S) \in S
  BY <1>1, FirstIs
<1> QED BY <1>2, <1>3, <1>4

LEMMA ArcOfIs ==
  ASSUME NEW arcs \in Seq(ArcRecords), NEW from, NEW j, j = Profiler!ArcOf(arcs, from)
  PROVE  \/ j = 0
         \/ j # 0 /\ j \in 1 .. Len(arcs) /\ arcs[j].from = from
<1> DEFINE S == {i \in DOMAIN arcs : arcs[i].from = from}
<1>1. S \in SUBSET Nat /\ 0 \notin S
  OBVIOUS
<1>2. j = Profiler!First(S)
  BY DEF Profiler!ArcOf
<1>3. IF S = {} THEN j = 0 ELSE j \in S /\ j # 0
  BY <1>1, <1>2, FirstIs
<1> QED BY <1>3

LEMMA ArcAtIs ==
  ASSUME NEW fns \in Seq(EntryRecords), Distinct(fns), NEW i \in DOMAIN fns,
         NEW j \in DOMAIN fns[i].arcs
  PROVE  Profiler!ArcAt(fns[i].arcs, fns[i].arcs[j].at) = j
<1> DEFINE arcs == fns[i].arcs
           S == {k \in DOMAIN arcs : arcs[k].at = arcs[j].at}
<1>0. DOMAIN arcs = 1 .. Len(arcs) /\ Len(arcs) \in Nat
  BY EntryIs
<1>1. S \in SUBSET Nat /\ 0 \notin S /\ j \in S
  BY <1>0
<1>2. \A k \in S : k = j
  BY DEF Distinct
<1>3. Profiler!ArcAt(arcs, arcs[j].at) = Profiler!First(S)
  BY DEF Profiler!ArcAt
<1>4. Profiler!First(S) \in S
  BY <1>1, FirstIs
<1> QED BY <1>2, <1>3, <1>4

-----------------------------------------------------------------------------
\* Nothing that was listed is lost.
Keeps(fns, gns) ==
    /\ \A x, a : HasEntry(fns, x, a) => HasEntry(gns, x, a)
    /\ \A x, y, a, n : Holds(fns, x, y, a, n) => Holds(gns, x, y, a, n)

LEMMA EntryLinked ==
  ASSUME NEW fns \in Seq(EntryRecords), NEW x \in Int, NEW b \in Arcs, NEW lent, NEW more,
         Distinct(fns), Backed(fns, lent), lent \subseteq more,
         [at |-> x, size |-> EntrySize] \in more, \A i \in DOMAIN fns : fns[i].at # x
  PROVE  LET gns == WithEntry(fns, x, b.self)
         IN Distinct(gns) /\ Backed(gns, more) /\ Keeps(fns, gns) /\ HasEntry(gns, x, b)
<1> DEFINE gns == WithEntry(fns, x, b.self)
<1>0. EntryMore(gns, fns, x, b)
  BY EntryPrepended
<1> HIDE DEF gns
<1>1. /\ gns \in Seq(EntryRecords) /\ Len(gns) = Len(fns) + 1
      /\ gns[1] = [at |-> x, self |-> b.self, arcs |-> <<>>]
      /\ \A k \in 1 .. Len(fns) : gns[k + 1] = fns[k]
      /\ \A k \in DOMAIN gns : k = 1 \/ (k - 1 \in 1 .. Len(fns) /\ gns[k] = fns[k - 1])
  BY <1>0 DEF EntryMore
<1>2. DOMAIN fns = 1 .. Len(fns) /\ DOMAIN gns = 1 .. Len(gns) /\ Len(fns) \in Nat
  BY <1>1
<1>3. \A i \in DOMAIN fns : i + 1 \in DOMAIN gns /\ gns[i + 1] = fns[i]
  BY <1>1, <1>2
<1>4. 1 \in DOMAIN gns /\ gns[1].at = x /\ gns[1].self = b.self /\ DOMAIN gns[1].arcs = {}
  BY <1>1, <1>2
<1>5. ASSUME NEW i \in DOMAIN gns, i # 1
      PROVE  i - 1 \in DOMAIN fns /\ gns[i] = fns[i - 1] /\ i \in Nat
  BY <1>1, <1>2, <1>5
<1>6. Distinct(gns)
  <2>1. ASSUME NEW i \in DOMAIN gns, NEW j \in DOMAIN gns, gns[i].at = gns[j].at PROVE i = j
    <3>1. CASE i = 1 \/ j = 1
      BY <1>4, <1>5, <2>1, <3>1
    <3>2. CASE i # 1 /\ j # 1
      <4>1. i - 1 = j - 1
        BY <1>5, <2>1, <3>2 DEF Distinct
      <4> QED BY <1>5, <3>2, <4>1
    <3> QED BY <3>1, <3>2
  <2>2. ASSUME NEW i \in DOMAIN gns, NEW j \in DOMAIN gns[i].arcs, NEW k \in DOMAIN gns[i].arcs,
               gns[i].arcs[j].at = gns[i].arcs[k].at
        PROVE  j = k
    <3>1. CASE i = 1
      BY <1>4, <3>1
    <3>2. CASE i # 1
      BY <1>5, <2>2, <3>2 DEF Distinct
    <3> QED BY <3>1, <3>2
  <2> QED BY <2>1, <2>2 DEF Distinct
<1>7. Backed(gns, more)
  <2> SUFFICES ASSUME NEW i \in DOMAIN gns
               PROVE  /\ [at |-> gns[i].at, size |-> EntrySize] \in more
                      /\ \A j \in DOMAIN gns[i].arcs : [at |-> gns[i].arcs[j].at, size |-> ArcSize] \in more
    BY DEF Backed
  <2>1. CASE i = 1
    BY <1>4, <2>1
  <2>2. CASE i # 1
    BY <1>5, <2>2 DEF Backed
  <2> QED BY <2>1, <2>2
<1>8. \A y, a : HasEntry(fns, y, a) => HasEntry(gns, y, a)
  BY <1>3 DEF HasEntry
<1>9. \A z, y, a, n : Holds(fns, z, y, a, n) => Holds(gns, z, y, a, n)
  BY <1>3 DEF Holds
<1>10. HasEntry(gns, x, b)
  BY <1>4 DEF HasEntry
<1> QED BY <1>6, <1>7, <1>8, <1>9, <1>10 DEF gns, Keeps

LEMMA ArcLinked ==
  ASSUME NEW fns \in Seq(EntryRecords), NEW e \in DOMAIN fns, NEW y \in Int, NEW b \in Arcs,
         fns[e].self = b.self, NEW lent, NEW more,
         Distinct(fns), Backed(fns, lent), lent \subseteq more,
         [at |-> y, size |-> ArcSize] \in more, \A j \in DOMAIN fns[e].arcs : fns[e].arcs[j].at # y
  PROVE  LET gns == WithArc(fns, e, y, b.from)
         IN Distinct(gns) /\ Backed(gns, more) /\ Keeps(fns, gns)
<1> DEFINE gns == WithArc(fns, e, y, b.from)
<1>0. ArcMore(gns, fns, e, y, b)
  <2>1. e \in 1 .. Len(fns)
    OBVIOUS
  <2> QED BY <2>1, ArcPrepended
<1> HIDE DEF gns
<1>1. /\ gns \in Seq(EntryRecords) /\ Len(gns) = Len(fns) /\ DOMAIN gns = DOMAIN fns
      /\ gns[e] = [at |-> fns[e].at, self |-> fns[e].self, arcs |-> gns[e].arcs]
      /\ Len(gns[e].arcs) = Len(fns[e].arcs) + 1 /\ gns[e].arcs[1].at = y
      /\ \A k \in 1 .. Len(fns[e].arcs) : gns[e].arcs[k + 1] = fns[e].arcs[k]
      /\ \A k \in DOMAIN gns[e].arcs : k = 1 \/ (/\ k - 1 \in 1 .. Len(fns[e].arcs)
                                                 /\ gns[e].arcs[k] = fns[e].arcs[k - 1])
      /\ \A i \in 1 .. Len(fns) : i # e => gns[i] = fns[i]
  BY <1>0 DEF ArcMore, SameBut
<1> DEFINE arcs == fns[e].arcs  new == gns[e].arcs
<1>2. /\ arcs \in Seq(ArcRecords) /\ DOMAIN arcs = 1 .. Len(arcs) /\ Len(arcs) \in Nat
      /\ new \in Seq(ArcRecords) /\ DOMAIN new = 1 .. Len(new)
  <2>1. arcs \in Seq(ArcRecords)
    <3>1. e \in 1 .. Len(fns)
      OBVIOUS
    <3> QED BY <3>1, EntryIs
  <2>2. new \in Seq(ArcRecords)
    BY <1>1, EntryIs
  <2> QED BY <2>1, <2>2
<1>3. \A k \in DOMAIN arcs : k + 1 \in DOMAIN new /\ new[k + 1] = arcs[k]
  BY <1>1, <1>2
<1>4. ASSUME NEW k \in DOMAIN new, k # 1
      PROVE  k - 1 \in DOMAIN arcs /\ new[k] = arcs[k - 1] /\ k \in Nat
  BY <1>1, <1>2, <1>4
<1>5. \A i \in DOMAIN fns : gns[i].at = fns[i].at /\ gns[i].self = fns[i].self /\ (i # e => gns[i] = fns[i])
  <2>1. gns[e].at = fns[e].at /\ gns[e].self = fns[e].self
    BY <1>1
  <2> QED BY <1>1, <2>1
<1>6. new[1].at = y
  BY <1>1
<1>7. Distinct(gns)
  <2>1. ASSUME NEW i \in DOMAIN gns, NEW j \in DOMAIN gns, gns[i].at = gns[j].at PROVE i = j
    BY <1>1, <1>5, <2>1 DEF Distinct
  <2>2. ASSUME NEW i \in DOMAIN gns, NEW j \in DOMAIN gns[i].arcs, NEW k \in DOMAIN gns[i].arcs,
               gns[i].arcs[j].at = gns[i].arcs[k].at
        PROVE  j = k
    <3>1. CASE i # e
      BY <1>1, <1>5, <2>2, <3>1 DEF Distinct
    <3>2. CASE i = e /\ (j = 1 \/ k = 1)
      <4>1. j \in DOMAIN new /\ k \in DOMAIN new /\ new[j].at = new[k].at
        BY <2>2, <3>2
      <4> QED BY <1>4, <1>6, <3>2, <4>1
    <3>3. CASE i = e /\ j # 1 /\ k # 1
      <4>1. j \in DOMAIN new /\ k \in DOMAIN new /\ new[j].at = new[k].at
        BY <2>2, <3>3
      <4>2. j - 1 = k - 1
        BY <1>4, <3>3, <4>1 DEF Distinct
      <4> QED BY <1>4, <3>3, <4>1, <4>2
    <3> QED BY <3>1, <3>2, <3>3
  <2> QED BY <2>1, <2>2 DEF Distinct
<1>8. Backed(gns, more)
  <2> SUFFICES ASSUME NEW i \in DOMAIN gns
               PROVE  /\ [at |-> gns[i].at, size |-> EntrySize] \in more
                      /\ \A j \in DOMAIN gns[i].arcs : [at |-> gns[i].arcs[j].at, size |-> ArcSize] \in more
    BY DEF Backed
  <2>1. [at |-> gns[i].at, size |-> EntrySize] \in more
    BY <1>1, <1>5 DEF Backed
  <2>2. ASSUME NEW j \in DOMAIN gns[i].arcs PROVE [at |-> gns[i].arcs[j].at, size |-> ArcSize] \in more
    <3>1. CASE i # e
      BY <1>1, <1>5, <3>1 DEF Backed
    <3>2. CASE i = e /\ j = 1
      BY <1>6, <3>2
    <3>3. CASE i = e /\ j # 1
      <4>1. j - 1 \in DOMAIN arcs /\ new[j] = arcs[j - 1]
        BY <1>4, <3>3
      <4> QED BY <3>3, <4>1 DEF Backed
    <3> QED BY <3>1, <3>2, <3>3
  <2> QED BY <2>1, <2>2
<1>9. \A x, a : HasEntry(fns, x, a) => HasEntry(gns, x, a)
  BY <1>1, <1>5 DEF HasEntry
<1>10. ASSUME NEW x, NEW z, NEW a, NEW n, Holds(fns, x, z, a, n) PROVE Holds(gns, x, z, a, n)
  <2>1. PICK i \in DOMAIN fns : /\ fns[i].at = x /\ fns[i].self = a.self
                                /\ \E j \in DOMAIN fns[i].arcs :
                                      fns[i].arcs[j] = [at |-> z, from |-> a.from, count |-> n]
    BY <1>10 DEF Holds
  <2>2. PICK j \in DOMAIN fns[i].arcs : fns[i].arcs[j] = [at |-> z, from |-> a.from, count |-> n]
    BY <2>1
  <2>3. \E k \in DOMAIN gns[i].arcs : gns[i].arcs[k] = fns[i].arcs[j]
    <3>1. CASE i # e
      BY <1>5, <3>1
    <3>2. CASE i = e
      <4>1. j + 1 \in DOMAIN new /\ new[j + 1] = arcs[j]
        BY <1>3, <3>2
      <4> QED BY <3>2, <4>1
    <3> QED BY <3>1, <3>2
  <2> QED BY <1>1, <1>5, <2>1, <2>2, <2>3 DEF Holds
<1> QED BY <1>7, <1>8, <1>9, <1>10 DEF gns, Keeps

\* A count that changes leaves everything else as it is.
LEMMA CountKept ==
  ASSUME NEW fns \in Seq(EntryRecords), NEW e \in DOMAIN fns, NEW j \in DOMAIN fns[e].arcs,
         NEW c \in Nat, NEW b \in Arcs, fns[e].self = b.self, fns[e].arcs[j].from = b.from,
         NEW lent, Distinct(fns), Backed(fns, lent)
  PROVE  LET gns == WithCount(fns, e, j, c)
         IN Distinct(gns) /\ Backed(gns, lent) /\ HeldStill(gns, fns, e, j, b, c)
<1> DEFINE gns == WithCount(fns, e, j, c)
           old == fns[e].arcs[j]
<1>0. e \in 1 .. Len(fns) /\ j \in 1 .. Len(fns[e].arcs) /\ DOMAIN fns[e].arcs = 1 .. Len(fns[e].arcs)
  <2>1. e \in 1 .. Len(fns)
    OBVIOUS
  <2>2. fns[e].arcs \in Seq(ArcRecords)
    BY <2>1, EntryIs
  <2> QED BY <2>1, <2>2
<1>9. CountOther(gns, fns, e, j, b, c)
  BY <1>0, CountChanged
<1> HIDE DEF gns
<1>1. /\ DOMAIN gns = DOMAIN fns
      /\ gns[e] = [at |-> fns[e].at, self |-> fns[e].self, arcs |-> gns[e].arcs]
      /\ DOMAIN gns[e].arcs = DOMAIN fns[e].arcs
      /\ gns[e].arcs[j] = [at |-> old.at, from |-> b.from, count |-> c]
      /\ \A k \in 1 .. Len(fns[e].arcs) : k # j => gns[e].arcs[k] = fns[e].arcs[k]
      /\ \A i \in 1 .. Len(fns) : i # e => gns[i] = fns[i]
  BY <1>9 DEF CountOther, SameBut
<1>2. \A i \in DOMAIN fns : /\ gns[i].at = fns[i].at /\ gns[i].self = fns[i].self
                            /\ DOMAIN gns[i].arcs = DOMAIN fns[i].arcs
  <2>1. gns[e].at = fns[e].at /\ gns[e].self = fns[e].self
    BY <1>1
  <2> QED BY <1>1, <2>1
<1>3. \A i \in DOMAIN fns : \A k \in DOMAIN fns[i].arcs :
         (i # e \/ k # j) => gns[i].arcs[k] = fns[i].arcs[k]
  BY <1>0, <1>1
<1>4. gns[e].arcs[j].at = old.at
  BY <1>1
<1>5. \A i \in DOMAIN fns : \A k \in DOMAIN fns[i].arcs : gns[i].arcs[k].at = fns[i].arcs[k].at
  BY <1>3, <1>4
<1>6. Distinct(gns) /\ Backed(gns, lent)
  <2>1. \A i, k \in DOMAIN gns : gns[i].at = gns[k].at => i = k
    BY <1>1, <1>2 DEF Distinct
  <2>2. ASSUME NEW i \in DOMAIN gns, NEW k \in DOMAIN gns[i].arcs, NEW l \in DOMAIN gns[i].arcs,
               gns[i].arcs[k].at = gns[i].arcs[l].at
        PROVE  k = l
    <3>1. i \in DOMAIN fns /\ k \in DOMAIN fns[i].arcs /\ l \in DOMAIN fns[i].arcs
      BY <1>1, <1>2
    <3>2. fns[i].arcs[k].at = fns[i].arcs[l].at
      BY <1>5, <2>2, <3>1
    <3> QED BY <3>1, <3>2 DEF Distinct
  <2>3. ASSUME NEW i \in DOMAIN gns
        PROVE  /\ [at |-> gns[i].at, size |-> EntrySize] \in lent
               /\ \A k \in DOMAIN gns[i].arcs : [at |-> gns[i].arcs[k].at, size |-> ArcSize] \in lent
    <3>1. i \in DOMAIN fns /\ gns[i].at = fns[i].at /\ DOMAIN gns[i].arcs = DOMAIN fns[i].arcs
      BY <1>1, <1>2
    <3>2. \A k \in DOMAIN gns[i].arcs : gns[i].arcs[k].at = fns[i].arcs[k].at
      BY <1>5, <3>1
    <3> QED BY <3>1, <3>2 DEF Backed
  <2> QED BY <2>1, <2>2, <2>3 DEF Distinct, Backed
<1>7. \A x, a : HasEntry(fns, x, a) => HasEntry(gns, x, a)
  BY <1>1, <1>2 DEF HasEntry
<1>8. ASSUME NEW x, NEW y, NEW a, NEW n, Holds(fns, x, y, a, n)
      PROVE  \/ Holds(gns, x, y, a, n)
             \/ /\ y = old.at /\ n = old.count
                /\ a.self = b.self /\ a.from = b.from /\ Holds(gns, x, y, a, c)
  <2>1. PICK i \in DOMAIN fns : /\ fns[i].at = x /\ fns[i].self = a.self
                                /\ \E k \in DOMAIN fns[i].arcs :
                                      fns[i].arcs[k] = [at |-> y, from |-> a.from, count |-> n]
    BY <1>8 DEF Holds
  <2>2. PICK k \in DOMAIN fns[i].arcs : fns[i].arcs[k] = [at |-> y, from |-> a.from, count |-> n]
    BY <2>1
  <2>3. i \in DOMAIN gns /\ gns[i].at = x /\ gns[i].self = a.self /\ k \in DOMAIN gns[i].arcs
    BY <1>1, <1>2, <2>1
  <2>4. CASE i # e \/ k # j
    <3>1. gns[i].arcs[k] = [at |-> y, from |-> a.from, count |-> n]
      BY <1>3, <2>2, <2>4
    <3> QED BY <2>3, <3>1 DEF Holds
  <2>5. CASE i = e /\ k = j
    <3>1. y = old.at /\ n = old.count /\ a.from = b.from /\ a.self = b.self
      BY <2>1, <2>2, <2>5
    <3>2. gns[i].arcs[k] = [at |-> y, from |-> a.from, count |-> c]
      BY <1>1, <2>5, <3>1
    <3> QED BY <2>3, <3>1, <3>2 DEF Holds
  <2> QED BY <2>4, <2>5
<1>10. HeldStill(gns, fns, e, j, b, c)
  BY <1>7, <1>8 DEF HeldStill
<1> QED BY <1>6, <1>10 DEF gns

\* Addresses are numbers, be the heap exhausted or not.
Numeric(m) == IsMemory(m) /\ m.heap \in Nat /\ m.ptr \in Int /\ m.left \in Int

LEMMA TidyNumeric ==
  ASSUME NEW m, Tidy(m)
  PROVE  Numeric(m) /\ ~Profiler!Wild(m)
BY DEF Tidy, Numeric, Placed, SlabOf, Profiler!Wild

LEMMA CutOffRecord ==
  ASSUME NEW m, IsMemory(m), NEW n
  PROVE  CutOff(m, n) = [heap |-> m.heap, ptr |-> m.ptr + n, left |-> m.left - n,
                         blocks |-> m.blocks \cup {[at |-> m.ptr, size |-> n]}, at |-> m.ptr]
<1> DEFINE s == [m EXCEPT !.at = m.ptr, !.ptr = @ + n, !.left = @ - n]
<1>1. s = [heap |-> m.heap, ptr |-> m.ptr + n, left |-> m.left - n, blocks |-> m.blocks, at |-> m.ptr]
  BY Changed
<1>2. IsMemory(s)
  BY <1>1 DEF IsMemory
<1>3. CutOff(m, n) = Profiler!Taken(s, n)
  BY DEF CutOff
<1> HIDE DEF s
<1>4. CutOff(m, n) = [heap |-> s.heap, ptr |-> s.ptr, left |-> s.left,
                      blocks |-> s.blocks \cup {[at |-> s.at, size |-> n]}, at |-> s.at]
  BY <1>2, <1>3, TakenIs
<1> QED BY <1>1, <1>4

\* Where mcount_allocate() finds what it hands out.
LEMMA SlabIs ==
  ASSUME NEW m, Numeric(m), NEW n
  PROVE  LET s == SlabFor(m, n)
         IN /\ Numeric(s) /\ s.blocks = m.blocks
            /\ \/ s.ptr = m.ptr /\ ~(n > m.left)
               \/ s.ptr = Profiler!NoAddress
               \/ s.ptr \in Nat /\ m.heap <= s.ptr
<1>0. Slab \in Nat /\ Slab \in Int
  BY ProfileFacts
<1>1. CASE n > m.left
  <2> DEFINE r == Profiler!sbrk(m, Slab)
             s == SlabFor(m, n)
  <2>1. /\ IsMemory(r) /\ r.heap \in Nat /\ m.heap <= r.heap /\ r.blocks = m.blocks
        /\ r.at = Profiler!NoAddress \/ (r.at \in Nat /\ m.heap <= r.at)
    BY <1>0, Sbrk DEF Numeric
  <2>2. s = [r EXCEPT !.ptr = r.at, !.left = Slab]
    BY <1>1 DEF SlabFor
  <2> HIDE DEF r, s
  <2>3. s = [heap |-> r.heap, ptr |-> r.at, left |-> Slab, blocks |-> r.blocks, at |-> r.at]
    BY <2>1, <2>2, Moved
  <2>4. Numeric(s) /\ s.blocks = m.blocks /\ s.ptr = r.at
    BY <1>0, <2>1, <2>3 DEF Numeric, IsMemory, Profiler!NoAddress
  <2> QED BY <2>1, <2>4 DEF s
<1>2. CASE ~(n > m.left)
  BY <1>2 DEF SlabFor
<1> QED BY <1>1, <1>2

LEMMA AllocatedAt ==
  ASSUME NEW m, Numeric(m), NEW n \in {EntrySize, ArcSize}
  PROVE  LET t == Profiler!mcount_allocate(m, n)
         IN Numeric(t) /\ t.at \in Int /\ t.blocks = m.blocks \cup {[at |-> t.at, size |-> n]}
<1> DEFINE s == SlabFor(m, n)
           t == Profiler!mcount_allocate(m, n)
<1>0. n \in Nat
  BY ProfileFacts
<1>1. Numeric(s) /\ s.blocks = m.blocks
  BY SlabIs
<1>2. t = CutOff(s, n)
  BY AllocateIs
<1> HIDE DEF s, t
<1>3. t = [heap |-> s.heap, ptr |-> s.ptr + n, left |-> s.left - n,
           blocks |-> s.blocks \cup {[at |-> s.ptr, size |-> n]}, at |-> s.ptr]
  BY <1>1, <1>2, CutOffRecord DEF Numeric
<1>4. Numeric(t) /\ t.at \in Int /\ t.blocks = m.blocks \cup {[at |-> t.at, size |-> n]}
  BY <1>0, <1>1, <1>3 DEF Numeric, IsMemory
<1> QED BY <1>4 DEF t

\* It is at no address that was handed out before.
LEMMA FreshAt ==
  ASSUME NEW m, Tidy(m), NEW n \in {EntrySize, ArcSize}, ~Profiler!Wild(Profiler!mcount_allocate(m, n)),
         NEW b \in m.blocks, b.size # 0
  PROVE  b.at # Profiler!mcount_allocate(m, n).at
<1> DEFINE s == SlabFor(m, n)
           t == Profiler!mcount_allocate(m, n)
<1>0. n \in Nat \ {0}
  BY ProfileFacts
<1>1. /\ Numeric(s) /\ s.blocks = m.blocks
      /\ \/ s.ptr = m.ptr /\ ~(n > m.left)
         \/ s.ptr = Profiler!NoAddress
         \/ s.ptr \in Nat /\ m.heap <= s.ptr
  BY SlabIs, TidyNumeric
<1>2. t = CutOff(s, n)
  BY AllocateIs
<1>3. t = [heap |-> s.heap, ptr |-> s.ptr + n, left |-> s.left - n,
           blocks |-> s.blocks \cup {[at |-> s.ptr, size |-> n]}, at |-> s.ptr]
  BY <1>1, <1>2, CutOffRecord DEF Numeric
<1>4. t.at = s.ptr
  BY <1>3
<1>5. s.ptr # Profiler!NoAddress
  <2>1. [at |-> s.ptr, size |-> n] \in t.blocks /\ ~Profiler!Wild(t)
    BY <1>3
  <2> HIDE DEF s, t
  <2>2. ~([at |-> s.ptr, size |-> n].at < 0)
    BY <2>1 DEF Profiler!Wild
  <2> QED BY <2>2 DEF Profiler!NoAddress
<1> HIDE DEF s, t
<1>6. /\ b.at \in Nat /\ b.size \in Nat /\ b.at + b.size <= m.heap /\ m.heap \in Nat
      /\ m.ptr \in Nat /\ m.left \in Nat
      /\ b.at + b.size <= m.ptr \/ m.ptr + m.left <= b.at
  <2>1. Placed(m, b) /\ Apart(b, SlabOf(m)) /\ Placed(m, SlabOf(m)) /\ m.heap \in Nat
    BY DEF Tidy
  <2> QED BY <2>1 DEF Placed, Apart, SlabOf
<1>7. b.at # s.ptr
  <2>1. CASE s.ptr = m.ptr /\ ~(n > m.left)
    BY <1>0, <1>6, <2>1
  <2>2. CASE s.ptr \in Nat /\ m.heap <= s.ptr
    BY <1>6, <2>2
  <2> QED BY <1>1, <1>5, <2>1, <2>2
<1> QED BY <1>4, <1>7 DEF t

LEMMA SampleBufferAt ==
  ASSUME NEW m, Numeric(m)
  PROVE  LET t == Profiler!SampleBuffer(m) IN Numeric(t) /\ m.blocks \subseteq t.blocks
<1> DEFINE s == Profiler!sbrk(m, Profiler!SamplesSize)
           t == Profiler!SampleBuffer(m)
<1>1. Profiler!SamplesSize \in Nat
  BY ProfileFacts
<1>2. IsMemory(s) /\ s.heap \in Nat /\ s.ptr = m.ptr /\ s.left = m.left /\ s.blocks = m.blocks
  BY <1>1, Sbrk DEF Numeric
<1>3. t = Profiler!Taken(s, Profiler!SamplesSize)
  BY DEF Profiler!SampleBuffer
<1> HIDE DEF s, t
<1>4. t = [heap |-> s.heap, ptr |-> s.ptr, left |-> s.left,
           blocks |-> s.blocks \cup {[at |-> s.at, size |-> Profiler!SamplesSize]}, at |-> s.at]
  BY <1>2, <1>3, TakenIs
<1>5. Numeric(t) /\ m.blocks \subseteq t.blocks
  BY <1>2, <1>4 DEF Numeric, IsMemory
<1> QED BY <1>5 DEF t

\* A memory that grew out of one that is wild is wild.
LEMMA WildStays ==
  ASSUME NEW m, NEW t, m.blocks \subseteq t.blocks, ~Profiler!Wild(t)
  PROVE  ~Profiler!Wild(m)
BY DEF Profiler!Wild

LEMMA AllocatorIs ==
  ASSUME ProfileInv, place # "wild"
  PROVE  Tidy(Profiler!Allocator) /\ Numeric(Profiler!Allocator) /\ Profiler!Allocator.blocks = blocks
<1>1. Tidy(Profiler!Allocator)
  BY DEF ProfileInv, MemoryInv
<1>2. Profiler!Allocator.blocks = blocks
  BY DEF Profiler!Allocator
<1> QED BY <1>1, <1>2, TidyNumeric

-----------------------------------------------------------------------------
\* The steps.
LEMMA CountInvInit == Profiler!Init => CountInv
<1> SUFFICES ASSUME Profiler!Init PROVE CountInv
  OBVIOUS
<1>1. functions = <<>> /\ place = "" /\ found = [entry |-> -1, arc |-> -1, next |-> <<>>]
  BY DEF Profiler!Init, Profiler!Nothing, Profiler!NoAddress
<1>2. CountTypes
  <2>1. Addresses(found)
    <3> DEFINE none == <<>>
    <3>1. found = [entry |-> -1, arc |-> -1, next |-> none]
      BY <1>1
    <3> HIDE DEF none
    <3> QED BY <3>1 DEF Addresses
  <2>2. functions \in Seq(EntryRecords)
    BY <1>1, EmptySeq
  <2>3. done \in [Arcs -> Nat] /\ started \in [Arcs -> Nat]
    BY DEF Profiler!Init
  <2> QED BY <2>1, <2>2, <2>3 DEF CountTypes, Profiler!Init
<1>3. \A a : TotalOf(functions, a) = 0
  <2> SUFFICES ASSUME NEW a PROVE TotalOf(functions, a) = 0
    OBVIOUS
  <2> DEFINE s == [i \in DOMAIN functions |-> Profiler!Within(functions[i], a)]
  <2>1. s \in Seq(Nat) /\ Len(s) = Len(functions)
    BY <1>2, ColumnIs DEF CountTypes
  <2> HIDE DEF s
  <2>2. Len(functions) = 0
    BY <1>1
  <2>3. s = <<>>
    BY <2>1, <2>2, EmptySeq
  <2> QED BY <2>3, SumOfNone DEF TotalOf, s
<1>4. ListInv
  <2>1. DOMAIN functions = {}
    <3>1. functions \in Seq(EntryRecords) /\ Len(functions) = 0
      BY <1>1, <1>2 DEF CountTypes
    <3> QED BY <3>1
  <2>2. Distinct(functions) /\ Backed(functions, blocks)
    BY <2>1 DEF Distinct, Backed
  <2>3. MainInv
    BY <1>1 DEF MainInv, Beginning, Linking
  <2> QED BY <2>2, <2>3 DEF ListInv
<1>5. Balanced
  <2>1. \A a \in Arcs : done[a] = 0 /\ started[a] = 0
    BY DEF Profiler!Init
  <2>2. place # "r_enable" /\ place \notin Pending
    BY <1>1 DEF Pending, Beginning, Linking
  <2> QED BY <1>3, <2>1, <2>2 DEF Balanced
<1>6. Loaded
  BY <1>1 DEF Loaded
<1> QED BY <1>2, <1>4, <1>5, <1>6 DEF CountInv

LEMMA TotalsAreNumbers ==
  ASSUME CountTypes
  PROVE  \A a \in Arcs : TotalOf(functions, a) \in Nat /\ done[a] \in Nat /\ started[a] \in Nat
BY TotalType DEF CountTypes

\* What a step keeps that counts nothing.
LEMMA Uncounted ==
  ASSUME CountInv, functions' = functions, started' = started, done' = done, arc' = arc,
         blocks \subseteq blocks', place # "wild", place' # "r_enable", place # "r_enable",
         place' \in Pending => place \in Pending
  PROVE  Balanced' /\ Distinct(functions') /\ Backed(functions', blocks')
<1>1. Distinct(functions) /\ Backed(functions, blocks)
  BY DEF CountInv, ListInv
<1>2. Backed(functions', blocks')
  BY <1>1 DEF Backed
<1>3. Balanced'
  <2> SUFFICES ASSUME NEW a \in Arcs
               PROVE  /\ done[a] + (IF a = arc /\ place' = "r_enable" THEN 1 ELSE 0) <= TotalOf(functions, a)
                      /\ TotalOf(functions, a) + (IF a = arc /\ place' \in Pending THEN 1 ELSE 0) <= started[a]
    BY DEF Balanced
  <2>1. TotalOf(functions, a) \in Nat /\ done[a] \in Nat /\ started[a] \in Nat
    BY TotalsAreNumbers DEF CountInv
  <2>2. /\ done[a] + (IF a = arc /\ place = "r_enable" THEN 1 ELSE 0) <= TotalOf(functions, a)
        /\ TotalOf(functions, a) + (IF a = arc /\ place \in Pending THEN 1 ELSE 0) <= started[a]
    BY DEF CountInv, Balanced
  <2> QED BY <2>1, <2>2
<1> QED BY <1>1, <1>2, <1>3

LEMMA M_CallCounts ==
  ASSUME CountInv, Profiler!M_Call
  PROVE  CountInv'
<1>1. PICK a \in Arcs : arc' = a /\ started' = [started EXCEPT ![a] = @ + 1]
  BY DEF Profiler!M_Call
<1>2. /\ place = "" /\ place' = "m_entry" /\ functions' = functions /\ done' = done
      /\ blocks' = blocks /\ found' = [entry |-> -1, arc |-> -1, next |-> <<>>] /\ value' = 0
  BY DEF Profiler!M_Call, Profiler!At, Profiler!Enter, Profiler!memory, Profiler!Nothing, Profiler!NoAddress
<1>3. CountTypes'
  <2>1. Addresses(found')
    <3> DEFINE none == <<>>
    <3>1. found' = [entry |-> -1, arc |-> -1, next |-> none]
      BY <1>2
    <3> HIDE DEF none
    <3> QED BY <3>1 DEF Addresses
  <2>2. started' \in [Arcs -> Nat]
    BY <1>1 DEF CountInv, CountTypes
  <2> QED BY <1>1, <1>2, <2>1, <2>2 DEF CountInv, CountTypes
<1>4. ListInv'
  BY <1>2 DEF CountInv, ListInv, MainInv, Beginning, Linking
<1>5. Balanced'
  <2> SUFFICES ASSUME NEW b \in Arcs
               PROVE  /\ done[b] + 0 <= TotalOf(functions, b)
                      /\ TotalOf(functions, b) + (IF b = a THEN 1 ELSE 0) <= started'[b]
    BY <1>1, <1>2 DEF Balanced, Pending
  <2>1. TotalOf(functions, b) \in Nat /\ done[b] \in Nat /\ started[b] \in Nat
    BY TotalsAreNumbers DEF CountInv
  <2>2. done[b] + 0 <= TotalOf(functions, b) /\ TotalOf(functions, b) + 0 <= started[b]
    BY <1>2 DEF CountInv, Balanced, Pending, Beginning, Linking
  <2>3. started'[b] = started[b] + (IF b = a THEN 1 ELSE 0)
    BY <1>1 DEF CountInv, CountTypes
  <2> QED BY <2>1, <2>2, <2>3
<1>6. Loaded'
  BY <1>2 DEF Loaded
<1> QED BY <1>3, <1>4, <1>5, <1>6 DEF CountInv

LEMMA M_EntryCounts ==
  ASSUME CountInv, Profiler!M_Entry
  PROVE  CountInv'
<1> DEFINE i == Profiler!EntryOf(functions, arc.self)
           x == IF i = 0 THEN Profiler!NoAddress ELSE functions[i].at
<1>1. /\ place = "m_entry" /\ place' = (IF i = 0 THEN "r_init" ELSE "m_arc")
      /\ functions' = functions /\ done' = done /\ started' = started /\ arc' = arc
      /\ blocks' = blocks /\ value' = value /\ found' = [found EXCEPT !.entry = x]
  BY DEF Profiler!M_Entry, Profiler!At, Profiler!Enter, Profiler!memory, Profiler!history
<1>2. found' = [entry |-> x, arc |-> found.arc, next |-> found.next]
  BY <1>1 DEF CountInv, CountTypes, Addresses
<1>3. \/ i = 0 /\ x = Profiler!NoAddress
      \/ i # 0 /\ x \in Int /\ HasEntry(functions, x, arc)
  <2>1. functions \in Seq(EntryRecords)
    BY DEF CountInv, CountTypes
  <2>2. i = 0 \/ (i # 0 /\ i \in 1 .. Len(functions) /\ functions[i].self = arc.self)
    BY <2>1, EntryOfIs
  <2> HIDE DEF i
  <2>3. CASE i # 0
    <3>1. functions[i] \in EntryRecords /\ i \in DOMAIN functions
      BY <2>1, <2>2, <2>3, ElementOfSeq
    <3> QED BY <2>2, <2>3, <3>1 DEF HasEntry, EntryRecords
  <2> QED BY <2>3
<1> HIDE DEF i, x
<1>4. CountTypes'
  <2>1. Addresses(found')
    BY <1>2, <1>3 DEF CountInv, CountTypes, Addresses, Profiler!NoAddress
  <2> QED BY <1>1, <2>1 DEF CountInv, CountTypes
<1>5. Balanced' /\ Distinct(functions') /\ Backed(functions', blocks')
  BY <1>1, Uncounted DEF Pending, Beginning
<1>6. MainInv'
  BY <1>1, <1>2, <1>3 DEF MainInv, Beginning, Linking
<1>7. Loaded'
  BY <1>1 DEF Loaded
<1> QED BY <1>4, <1>5, <1>6, <1>7 DEF CountInv, ListInv

LEMMA M_ArcCounts ==
  ASSUME CountInv, Profiler!M_Arc
  PROVE  CountInv'
<1>1. place = "m_arc" /\ functions \in Seq(EntryRecords) /\ Distinct(functions)
      /\ HasEntry(functions, found.entry, arc)
  BY DEF Profiler!M_Arc, Profiler!At, CountInv, CountTypes, ListInv, MainInv
<1>2. PICK i \in DOMAIN functions : functions[i].at = found.entry /\ functions[i].self = arc.self
  BY <1>1 DEF HasEntry
<1>3. Profiler!EntryAt(functions, found.entry) = i
  BY <1>1, <1>2, EntryAtIs
<1> DEFINE arcs == functions[i].arcs
           j == Profiler!ArcOf(arcs, arc.from)
           y == IF j = 0 THEN Profiler!NoAddress ELSE arcs[j].at
<1>4. /\ place' = (IF j = 0 THEN "r_init" ELSE "m_load")
      /\ functions' = functions /\ done' = done /\ started' = started /\ arc' = arc
      /\ blocks' = blocks /\ value' = value /\ found' = [found EXCEPT !.arc = y]
  BY <1>3 DEF Profiler!M_Arc, Profiler!Enter, Profiler!memory, Profiler!history
<1>5. found' = [entry |-> found.entry, arc |-> y, next |-> found.next]
  BY <1>4 DEF CountInv, CountTypes, Addresses
<1>6. \/ j = 0 /\ y = Profiler!NoAddress
      \/ j # 0 /\ y \in Int /\ \E n \in Nat : Holds(functions, found.entry, y, arc, n)
  <2>1. arcs \in Seq(ArcRecords)
    <3>1. i \in 1 .. Len(functions)
      BY <1>1
    <3> QED BY <1>1, <3>1, EntryIs
  <2>2. j = 0 \/ (j # 0 /\ j \in 1 .. Len(arcs) /\ arcs[j].from = arc.from)
    BY <2>1, ArcOfIs
  <2> HIDE DEF j
  <2>3. CASE j # 0
    <3>1. arcs[j] \in ArcRecords /\ j \in DOMAIN arcs
      BY <2>1, <2>2, <2>3, ElementOfSeq
    <3>2. /\ arcs[j].at \in Int /\ arcs[j].count \in Nat
          /\ arcs[j] = [at |-> arcs[j].at, from |-> arc.from, count |-> arcs[j].count]
      BY <2>2, <2>3, <3>1 DEF ArcRecords
    <3>3. Holds(functions, found.entry, arcs[j].at, arc, arcs[j].count)
      BY <1>2, <3>1, <3>2 DEF Holds
    <3> QED BY <2>3, <3>2, <3>3
  <2> QED BY <2>3
<1> HIDE DEF j, y
<1>7. CountTypes'
  <2>1. Addresses(found')
    BY <1>5, <1>6 DEF CountInv, CountTypes, Addresses, Profiler!NoAddress
  <2> QED BY <1>4, <2>1 DEF CountInv, CountTypes
<1>8. Balanced' /\ Distinct(functions') /\ Backed(functions', blocks')
  BY <1>1, <1>4, Uncounted DEF Pending, Beginning
<1>9. MainInv'
  BY <1>1, <1>4, <1>5, <1>6 DEF MainInv, Beginning, Linking
<1>10. Loaded'
  BY <1>4 DEF Loaded
<1> QED BY <1>7, <1>8, <1>9, <1>10 DEF CountInv, ListInv

\* Where main's count is.
LEMMA CountIs ==
  ASSUME CountTypes, Distinct(functions), NEW n, Holds(functions, found.entry, found.arc, arc, n)
  PROVE  \E i \in DOMAIN functions : \E j \in DOMAIN functions[i].arcs :
            /\ Profiler!Count(functions)[1] = i /\ Profiler!Count(functions)[2] = j
            /\ functions[i].self = arc.self /\ functions[i].at = found.entry
            /\ functions[i].arcs[j] = [at |-> found.arc, from |-> arc.from, count |-> n]
<1>1. PICK i \in DOMAIN functions :
            /\ functions[i].at = found.entry /\ functions[i].self = arc.self
            /\ \E j \in DOMAIN functions[i].arcs :
                  functions[i].arcs[j] = [at |-> found.arc, from |-> arc.from, count |-> n]
  BY DEF Holds
<1>2. PICK j \in DOMAIN functions[i].arcs :
            functions[i].arcs[j] = [at |-> found.arc, from |-> arc.from, count |-> n]
  BY <1>1
<1>3. functions \in Seq(EntryRecords)
  BY DEF CountTypes
<1>4. Profiler!EntryAt(functions, found.entry) = i
  BY <1>1, <1>3, EntryAtIs
<1>5. functions[i].arcs[j].at = found.arc
  BY <1>2
<1>6. Profiler!ArcAt(functions[i].arcs, found.arc) = j
  BY <1>3, <1>5, ArcAtIs
<1>7. Profiler!Count(functions)[1] = i /\ Profiler!Count(functions)[2] = j
  BY <1>4, <1>6 DEF Profiler!Count
<1> QED BY <1>1, <1>2, <1>7

LEMMA M_LoadCounts ==
  ASSUME CountInv, Profiler!M_Load
  PROVE  CountInv'
<1>1. place = "m_load" /\ CountTypes /\ Distinct(functions) /\ HasEntry(functions, found.entry, arc)
  BY DEF Profiler!M_Load, Profiler!At, CountInv, ListInv, MainInv
<1>2. PICK n \in Nat : Holds(functions, found.entry, found.arc, arc, n)
  BY <1>1 DEF CountInv, ListInv, MainInv
<1>3. PICK i \in DOMAIN functions : \E j \in DOMAIN functions[i].arcs :
            /\ Profiler!Count(functions)[1] = i /\ Profiler!Count(functions)[2] = j
            /\ functions[i].arcs[j] = [at |-> found.arc, from |-> arc.from, count |-> n]
  BY <1>1, <1>2, CountIs
<1>4. PICK j \in DOMAIN functions[i].arcs :
            /\ Profiler!Count(functions)[1] = i /\ Profiler!Count(functions)[2] = j
            /\ functions[i].arcs[j] = [at |-> found.arc, from |-> arc.from, count |-> n]
  BY <1>3
<1>5. /\ place' = "m_store" /\ functions' = functions /\ done' = done /\ started' = started
      /\ arc' = arc /\ blocks' = blocks /\ found' = found
      /\ value' = functions[Profiler!Count(functions)[1]].arcs[Profiler!Count(functions)[2]].count
  BY DEF Profiler!M_Load, Profiler!Enter, Profiler!memory, Profiler!history
<1>6. value' = n
  BY <1>4, <1>5
<1>7. CountTypes'
  BY <1>1, <1>5, <1>6 DEF CountTypes
<1>8. Balanced' /\ Distinct(functions') /\ Backed(functions', blocks')
  BY <1>1, <1>5, Uncounted DEF Pending
<1>9. MainInv'
  BY <1>1, <1>5 DEF MainInv, Beginning, Linking
<1>10. Loaded'
  <2>1. done[arc] \in Nat /\ TotalOf(functions, arc) \in Nat /\ arc \in Arcs
    BY <1>1, TotalsAreNumbers DEF CountTypes
  <2>2. done[arc] + 0 <= TotalOf(functions, arc)
    BY <1>1, <2>1 DEF CountInv, Balanced
  <2>3. n <= n /\ done[arc] + (n - n) <= TotalOf(functions, arc)
    BY <2>1, <2>2
  <2> QED BY <1>2, <1>5, <1>6, <2>3 DEF Loaded
<1> QED BY <1>7, <1>8, <1>9, <1>10 DEF CountInv, ListInv

LEMMA M_StoreCounts ==
  ASSUME CountInv, Profiler!M_Store
  PROVE  CountInv'
<1>1. place = "m_store" /\ CountTypes /\ Distinct(functions) /\ Backed(functions, blocks)
  BY DEF Profiler!M_Store, Profiler!At, CountInv, ListInv
<1>2. PICK n \in Nat : /\ Holds(functions, found.entry, found.arc, arc, n) /\ value <= n
                       /\ done[arc] + (n - value) <= TotalOf(functions, arc)
  BY <1>1 DEF CountInv, Loaded
<1>3. PICK i \in DOMAIN functions : \E j \in DOMAIN functions[i].arcs :
            /\ Profiler!Count(functions)[1] = i /\ Profiler!Count(functions)[2] = j
            /\ functions[i].self = arc.self
            /\ functions[i].arcs[j] = [at |-> found.arc, from |-> arc.from, count |-> n]
  BY <1>1, <1>2, CountIs
<1>4. PICK j \in DOMAIN functions[i].arcs :
            /\ Profiler!Count(functions)[1] = i /\ Profiler!Count(functions)[2] = j
            /\ functions[i].self = arc.self
            /\ functions[i].arcs[j] = [at |-> found.arc, from |-> arc.from, count |-> n]
  BY <1>3
<1>5. /\ place' = "" /\ started' = started /\ arc' = arc /\ blocks' = blocks /\ found' = found
      /\ value' = value /\ done' = [done EXCEPT ![arc] = @ + 1]
      /\ functions' = WithCount(functions, Profiler!Count(functions)[1], Profiler!Count(functions)[2], value + 1)
  BY DEF Profiler!M_Store, Profiler!Enter, Profiler!Return, Profiler!memory, Profiler!recording, WithCount
<1>6. functions' = WithCount(functions, i, j, value + 1)
  BY <1>4, <1>5
<1>7. functions \in Seq(EntryRecords) /\ value + 1 \in Nat /\ arc \in Arcs
  BY <1>1 DEF CountTypes
<1>8. functions[i].arcs[j].from = arc.from /\ functions[i].arcs[j].count = n
  BY <1>4
<1>9. i \in 1 .. Len(functions) /\ j \in 1 .. Len(functions[i].arcs)
  <2>1. i \in 1 .. Len(functions)
    BY <1>7
  <2>2. functions[i].arcs \in Seq(ArcRecords)
    BY <1>7, <2>1, EntryIs
  <2> QED BY <2>1, <2>2
<1>10. CountOther(functions', functions, i, j, arc, value + 1)
  BY <1>4, <1>6, <1>7, <1>8, <1>9, CountChanged
<1>11. functions' \in Seq(EntryRecords)
  BY <1>10 DEF CountOther, SameBut
<1>12. CountTypes'
  <2>1. done' \in [Arcs -> Nat]
    <3>1. done \in [Arcs -> Nat] /\ arc \in Arcs
      BY <1>1 DEF CountTypes
    <3>2. done[arc] + 1 \in Nat
      BY <3>1
    <3> QED BY <1>5, <3>1, <3>2
  <2> QED BY <1>1, <1>5, <1>11, <2>1 DEF CountTypes
<1>13. Distinct(functions') /\ Backed(functions', blocks')
  BY <1>1, <1>4, <1>5, <1>6, <1>7, <1>8, CountKept
<1>14. ListInv'
  BY <1>5, <1>13 DEF ListInv, MainInv, Beginning, Linking
<1>15. Balanced'
  <2> SUFFICES ASSUME NEW a \in Arcs
               PROVE  /\ done'[a] + 0 <= TotalOf(functions', a)
                      /\ TotalOf(functions', a) + 0 <= started[a]
    BY <1>5 DEF Balanced, Pending, Beginning, Linking
  <2>1. /\ TotalOf(functions, a) \in Nat /\ done[a] \in Nat /\ started[a] \in Nat
        /\ TotalOf(functions', a) \in Nat
    BY <1>1, <1>11, TotalsAreNumbers, TotalType
  <2>2. /\ done[a] + 0 <= TotalOf(functions, a)
        /\ TotalOf(functions, a) + (IF a = arc THEN 1 ELSE 0) <= started[a]
    BY <1>1 DEF CountInv, Balanced, Pending
  <2>3. CASE a # arc
    <3>1. TotalOf(functions', a) = TotalOf(functions, a) /\ done'[a] = done[a]
      BY <1>1, <1>5, <1>10, <2>3 DEF CountOther, CountTypes
    <3> QED BY <2>1, <2>2, <2>3, <3>1
  <2>4. CASE a = arc
    <3>1. /\ TotalOf(functions', a) + n = TotalOf(functions, a) + (value + 1)
          /\ done'[a] = done[a] + 1 /\ value \in Nat
      BY <1>1, <1>5, <1>8, <1>10, <2>4 DEF CountOther, CountTypes
    <3> DEFINE p == TotalOf(functions, a)  q == TotalOf(functions', a)  d == done[a]  s == started[a]
    <3>2. /\ p \in Nat /\ q \in Nat /\ d \in Nat /\ s \in Nat
          /\ q + n = p + (value + 1) /\ value <= n /\ d + (n - value) <= p /\ p + 1 <= s
      BY <1>2, <2>1, <2>2, <2>4, <3>1
    <3> HIDE DEF p, q, d, s
    <3>3. d + 1 <= q /\ q <= s
      BY <3>1, <3>2
    <3>4. d + 1 + 0 <= q /\ q + 0 <= s
      BY <3>2, <3>3
    <3> QED BY <3>1, <3>4 DEF p, q, d, s
  <2> QED BY <2>3, <2>4
<1>16. Loaded'
  BY <1>5 DEF Loaded
<1> QED BY <1>12, <1>14, <1>15, <1>16 DEF CountInv

\* Steps that neither list nor count anything, and find no memory.
LEMMA QuietCounts ==
  ASSUME CountInv, Profiler!SetRate \/ Profiler!R_Test \/ Profiler!R_Clear \/ Profiler!R_Disable \/ Profiler!Sample \/ UNCHANGED Profiler!vars
  PROVE  CountInv'
<1>1. /\ functions' = functions /\ done' = done /\ started' = started /\ arc' = arc
      /\ blocks' = blocks /\ value' = value /\ found' = found
  BY DEF Profiler!SetRate, Profiler!R_Test, Profiler!R_Clear, Profiler!R_Disable, Profiler!Sample, Profiler!vars, Profiler!memory, Profiler!recording, Profiler!history, Profiler!At, Profiler!Enter
<1>2. CountTypes'
  BY <1>1 DEF CountInv, CountTypes
<1>3. CASE place' = place /\ on' = on
  BY <1>1, <1>2, <1>3 DEF CountInv, ListInv, MainInv, Balanced, Loaded
<1>4. CASE Profiler!R_Test \/ Profiler!R_Clear \/ Profiler!R_Disable
  <2>1. /\ place \in Beginning /\ place \in Pending /\ place # "wild" /\ place # "r_enable"
        /\ place' \in {"r_clear", "r_start", "r_disable", "r_entry", "r_arc"}
    BY <1>4 DEF Profiler!R_Test, Profiler!R_Clear, Profiler!R_Disable, Profiler!At, Profiler!Enter, Beginning, Pending
  <2>2. place' \in {"r_entry", "r_arc"} => ~on' /\ (place' = "r_arc" => found.entry # Profiler!NoAddress)
    BY <1>4 DEF Profiler!R_Test, Profiler!R_Clear, Profiler!R_Disable, Profiler!At, Profiler!Enter
  <2>3. Balanced' /\ Distinct(functions') /\ Backed(functions', blocks')
    BY <1>1, <2>1, Uncounted DEF Pending, Beginning, Linking
  <2>4. MainInv'
    BY <1>1, <2>1, <2>2 DEF CountInv, ListInv, MainInv, Beginning, Linking
  <2>5. Loaded'
    BY <2>1 DEF Loaded
  <2> QED BY <1>2, <2>3, <2>4, <2>5 DEF CountInv, ListInv
<1>5. Profiler!SetRate \/ Profiler!Sample \/ UNCHANGED Profiler!vars => place' = place /\ on' = on
  BY DEF Profiler!SetRate, Profiler!Sample, Profiler!vars
<1> QED BY <1>3, <1>4, <1>5

\* Steps that only take memory.
LEMMA TakersCount ==
  ASSUME ProfileInv, CountInv, Profiler!Malloc \/ Profiler!R_Start
  PROVE  CountInv'
<1>0. place # "wild"
  BY DEF Profiler!Malloc, Profiler!R_Start, Profiler!At
<1>1. /\ functions' = functions /\ done' = done /\ started' = started /\ arc' = arc
      /\ value' = value /\ found' = found /\ on' = on
  BY DEF Profiler!Malloc, Profiler!R_Start, Profiler!recording, Profiler!history
<1>2. blocks \subseteq blocks'
  <2>1. Numeric(Profiler!Allocator) /\ IsMemory(Profiler!Allocator) /\ Profiler!Allocator.heap \in Nat /\ Profiler!Allocator.blocks = blocks
    BY <1>0, AllocatorIs DEF Numeric
  <2>2. CASE Profiler!Malloc
    <3>1. PICK n \in Increments : LET m == Profiler!sbrk(Profiler!Allocator, n)
                                  IN Profiler!Store(IF m.at = Profiler!NoAddress THEN m ELSE Profiler!Taken(m, n))
      BY <2>2 DEF Profiler!Malloc
    <3> DEFINE m == Profiler!sbrk(Profiler!Allocator, n)
    <3>2. n \in Nat
      BY ProfileFacts
    <3>3. IsMemory(m) /\ m.blocks = blocks
      BY <2>1, <3>2, Sbrk
    <3>4. Profiler!Store(IF m.at = Profiler!NoAddress THEN m ELSE Profiler!Taken(m, n))
      BY <3>1
    <3> HIDE DEF m
    <3>5. blocks \subseteq Profiler!Taken(m, n).blocks
      BY <3>3, TakenIs
    <3> QED BY <3>3, <3>4, <3>5 DEF Profiler!Store
  <2>3. CASE Profiler!R_Start
    <3>1. CASE rate = 0
      BY <2>3, <3>1 DEF Profiler!R_Start, Profiler!memory
    <3>2. CASE rate # 0
      <4> DEFINE m == Profiler!SampleBuffer(Profiler!Allocator)
      <4>1. Profiler!Store(m)
        BY <2>3, <3>2 DEF Profiler!R_Start
      <4>2. Profiler!Allocator.blocks \subseteq m.blocks
        BY <2>1, SampleBufferAt
      <4> HIDE DEF m
      <4> QED BY <2>1, <4>1, <4>2 DEF Profiler!Store
    <3> QED BY <3>1, <3>2
  <2> QED BY <2>2, <2>3
<1>3. CountTypes'
  BY <1>1 DEF CountInv, CountTypes
<1>4. \/ place = "" /\ place' = ""
      \/ place = "r_start" /\ place' \in {"wild", "r_disable"}
  BY DEF Profiler!Malloc, Profiler!R_Start, Profiler!At, Profiler!Enter
<1>5. Balanced' /\ Distinct(functions') /\ Backed(functions', blocks')
  BY <1>0, <1>1, <1>2, <1>4, Uncounted DEF Pending, Beginning, Linking
<1>6. place' # "wild" => MainInv'
  BY <1>1, <1>4 DEF CountInv, ListInv, MainInv, Beginning, Linking
<1>7. Loaded'
  BY <1>4 DEF Loaded
<1> QED BY <1>3, <1>5, <1>6, <1>7 DEF CountInv, ListInv

\* What mcount_allocate() hands out is no listed address.
LEMMA HandedOut ==
  ASSUME ProfileInv, CountTypes, ListInv, place # "wild", NEW n \in {EntrySize, ArcSize}
  PROVE  LET t == Profiler!mcount_allocate(Profiler!Allocator, n)
         IN /\ t.at \in Int /\ blocks \subseteq t.blocks /\ [at |-> t.at, size |-> n] \in t.blocks
            /\ ~Profiler!Wild(t) => \A i \in DOMAIN functions :
                              /\ functions[i].at # t.at
                              /\ \A j \in DOMAIN functions[i].arcs : functions[i].arcs[j].at # t.at
<1> DEFINE t == Profiler!mcount_allocate(Profiler!Allocator, n)
<1>1. Tidy(Profiler!Allocator) /\ Numeric(Profiler!Allocator) /\ Profiler!Allocator.blocks = blocks
  BY AllocatorIs
<1>2. t.at \in Int /\ t.blocks = blocks \cup {[at |-> t.at, size |-> n]}
  BY <1>1, AllocatedAt
<1>3. ~Profiler!Wild(t) => \A b \in blocks : b.size # 0 => b.at # t.at
  BY <1>1, FreshAt
<1>4. EntrySize # 0 /\ ArcSize # 0
  BY ProfileFacts
<1> HIDE DEF t
<1>5. ASSUME ~Profiler!Wild(t), NEW i \in DOMAIN functions
      PROVE  /\ functions[i].at # t.at
             /\ \A j \in DOMAIN functions[i].arcs : functions[i].arcs[j].at # t.at
  <2>1. /\ [at |-> functions[i].at, size |-> EntrySize] \in blocks
        /\ \A j \in DOMAIN functions[i].arcs : [at |-> functions[i].arcs[j].at, size |-> ArcSize] \in blocks
    BY DEF ListInv, Backed
  <2>2. \A x, z : [at |-> x, size |-> z] \in blocks /\ z # 0 => x # t.at
    <3> SUFFICES ASSUME NEW x, NEW z, [at |-> x, size |-> z] \in blocks, z # 0 PROVE x # t.at
      OBVIOUS
    <3> DEFINE b == [at |-> x, size |-> z]
    <3>1. b \in blocks /\ b.at = x /\ b.size = z
      OBVIOUS
    <3> HIDE DEF b
    <3> QED BY <1>3, <1>5, <3>1
  <2> QED BY <1>4, <2>1, <2>2
<1> QED BY <1>2, <1>5 DEF t

LEMMA R_EntryCounts ==
  ASSUME ProfileInv, CountInv, Profiler!R_Entry
  PROVE  CountInv'
<1> DEFINE m == Profiler!mcount_allocate(Profiler!Allocator, EntrySize)
<1>1. /\ place = "r_entry" /\ functions' = functions /\ done' = done /\ started' = started
      /\ arc' = arc /\ value' = value /\ on' = on /\ blocks' = m.blocks
      /\ found' = [found EXCEPT !.entry = m.at, !.next = functions]
      /\ place' = (IF Profiler!Wild(m) THEN "wild" ELSE "r_head")
  BY DEF Profiler!R_Entry, Profiler!At, Profiler!Enter, Profiler!Store, Profiler!history
<1>2. /\ m.at \in Int /\ blocks \subseteq m.blocks /\ [at |-> m.at, size |-> EntrySize] \in m.blocks
      /\ ~Profiler!Wild(m) => \A i \in DOMAIN functions : functions[i].at # m.at
  BY <1>1, HandedOut DEF CountInv
<1> HIDE DEF m
<1>3. Addresses(found) /\ ~on
  BY <1>1 DEF CountInv, CountTypes, ListInv, MainInv, Linking
<1>4. found' = [entry |-> m.at, arc |-> found.arc, next |-> functions]
  <2> DEFINE f == [found EXCEPT !.entry = m.at]
  <2>1. f = [entry |-> m.at, arc |-> found.arc, next |-> found.next]
    BY <1>3 DEF Addresses
  <2>2. found' = [f EXCEPT !.next = functions]
    BY <1>1
  <2> HIDE DEF f
  <2> QED BY <2>1, <2>2
<1>5. CountTypes'
  <2>1. Addresses(found')
    BY <1>2, <1>3, <1>4 DEF Addresses
  <2> QED BY <1>1, <2>1 DEF CountInv, CountTypes
<1>6. Balanced' /\ Distinct(functions') /\ Backed(functions', blocks')
  BY <1>1, <1>2, Uncounted DEF Pending, Beginning, Linking
<1>7. place' # "wild" => MainInv'
  BY <1>1, <1>2, <1>3, <1>4 DEF MainInv, Beginning, Linking
<1>8. Loaded'
  BY <1>1 DEF Loaded
<1> QED BY <1>5, <1>6, <1>7, <1>8 DEF CountInv, ListInv

LEMMA R_HeadCounts ==
  ASSUME CountInv, Profiler!R_Head
  PROVE  CountInv'
<1>1. /\ place = "r_head" /\ done' = done /\ started' = started
      /\ arc' = arc /\ value' = value /\ on' = on /\ blocks' = blocks /\ found' = found
      /\ place' = "r_arc" /\ functions' = <<Profiler!NewEntry(found.entry, arc.self)>> \o found.next
  BY DEF Profiler!R_Head, Profiler!At, Profiler!Enter, Profiler!memory, Profiler!recording, Profiler!history
<1>2. /\ CountTypes /\ Distinct(functions) /\ Backed(functions, blocks) /\ ~on
      /\ found.next = functions /\ [at |-> found.entry, size |-> EntrySize] \in blocks
      /\ \A i \in DOMAIN functions : functions[i].at # found.entry
  BY <1>1 DEF CountInv, ListInv, MainInv, Linking
<1>3. functions' = WithEntry(functions, found.entry, arc.self)
  BY <1>1, <1>2 DEF WithEntry
<1>4. functions \in Seq(EntryRecords) /\ found.entry \in Int /\ arc \in Arcs
  BY <1>2 DEF CountTypes, Addresses
<1>5. EntryMore(functions', functions, found.entry, arc)
  BY <1>3, <1>4, EntryPrepended
<1>6. Distinct(functions') /\ Backed(functions', blocks) /\ HasEntry(functions', found.entry, arc)
  BY <1>2, <1>3, <1>4, EntryLinked
<1>7. CountTypes'
  BY <1>1, <1>2, <1>5 DEF CountTypes, EntryMore
<1>8. MainInv'
  BY <1>1, <1>2, <1>6 DEF MainInv, Beginning, Linking
<1>9. Balanced'
  <2>1. \A a \in Arcs : TotalOf(functions', a) = TotalOf(functions, a)
    BY <1>5 DEF EntryMore
  <2> QED BY <1>1, <2>1 DEF CountInv, Balanced, Pending, Linking
<1>10. Loaded'
  BY <1>1 DEF Loaded
<1> QED BY <1>1, <1>6, <1>7, <1>8, <1>9, <1>10 DEF CountInv, ListInv

LEMMA R_ArcCounts ==
  ASSUME ProfileInv, CountInv, Profiler!R_Arc
  PROVE  CountInv'
<1> DEFINE m == Profiler!mcount_allocate(Profiler!Allocator, ArcSize)
<1>1. /\ place = "r_arc" /\ CountTypes /\ Distinct(functions) /\ ~on
      /\ HasEntry(functions, found.entry, arc) /\ functions \in Seq(EntryRecords)
  BY DEF Profiler!R_Arc, Profiler!At, CountInv, CountTypes, ListInv, MainInv, Linking
<1>2. PICK i \in DOMAIN functions : functions[i].at = found.entry /\ functions[i].self = arc.self
  BY <1>1 DEF HasEntry
<1>3. Profiler!EntryAt(functions, found.entry) = i
  BY <1>1, <1>2, EntryAtIs
<1>4. /\ functions' = functions /\ done' = done /\ started' = started
      /\ arc' = arc /\ value' = value /\ on' = on /\ blocks' = m.blocks
      /\ found' = [found EXCEPT !.arc = m.at, !.next = functions[i].arcs]
      /\ place' = (IF Profiler!Wild(m) THEN "wild" ELSE "r_link")
  BY <1>3 DEF Profiler!R_Arc, Profiler!Enter, Profiler!Store, Profiler!history
<1>5. /\ m.at \in Int /\ blocks \subseteq m.blocks /\ [at |-> m.at, size |-> ArcSize] \in m.blocks
      /\ ~Profiler!Wild(m) => \A j \in DOMAIN functions[i].arcs : functions[i].arcs[j].at # m.at
  BY <1>1, HandedOut DEF CountInv
<1> HIDE DEF m
<1>6. found' = [entry |-> found.entry, arc |-> m.at, next |-> functions[i].arcs]
  <2> DEFINE f == [found EXCEPT !.arc = m.at]
  <2>1. f = [entry |-> found.entry, arc |-> m.at, next |-> found.next]
    BY <1>1 DEF CountTypes, Addresses
  <2>2. found' = [f EXCEPT !.next = functions[i].arcs]
    BY <1>4
  <2> HIDE DEF f
  <2> QED BY <2>1, <2>2
<1>7. CountTypes'
  <2>1. Addresses(found')
    BY <1>1, <1>5, <1>6 DEF CountTypes, Addresses
  <2> QED BY <1>1, <1>4, <2>1 DEF CountTypes
<1>8. Balanced' /\ Distinct(functions') /\ Backed(functions', blocks')
  BY <1>1, <1>4, <1>5, Uncounted DEF Pending, Beginning, Linking
<1>9. place' # "wild" => MainInv'
  <2>1. \A k \in DOMAIN functions : functions[k].at = found.entry => k = i
    BY <1>1, <1>2 DEF Distinct
  <2>2. found'.entry = found.entry /\ found'.arc = m.at /\ found'.next = functions[i].arcs
    BY <1>6
  <2>3. ASSUME place' # "wild" PROVE MainInv'
    <3>1. place' = "r_link" /\ ~Profiler!Wild(m)
      BY <1>4, <2>3
    <3>2. ASSUME NEW k \in DOMAIN functions, functions[k].at = found.entry
          PROVE  /\ found'.next = functions[k].arcs
                 /\ \A j \in DOMAIN functions[k].arcs : functions[k].arcs[j].at # found'.arc
      BY <1>5, <2>1, <2>2, <3>1, <3>2
    <3> QED BY <1>1, <1>4, <1>5, <2>2, <3>1, <3>2 DEF MainInv, Beginning, Linking
  <2> QED BY <2>3
<1>10. Loaded'
  BY <1>4 DEF Loaded
<1> QED BY <1>7, <1>8, <1>9, <1>10 DEF CountInv, ListInv

\* What a step does to the totals that counts a call of the arc b.
CalledOnce(gns, fns, b) ==
    /\ TotalOf(gns, b) = TotalOf(fns, b) + 1
    /\ \A a \in Arcs : a # b => TotalOf(gns, a) = TotalOf(fns, a)

LEMMA R_LinkCounts ==
  ASSUME CountInv, Profiler!R_Link
  PROVE  CountInv'
<1>1. /\ place = "r_link" /\ CountTypes /\ Distinct(functions) /\ Backed(functions, blocks) /\ ~on
      /\ HasEntry(functions, found.entry, arc) /\ functions \in Seq(EntryRecords)
      /\ [at |-> found.arc, size |-> ArcSize] \in blocks /\ found.arc \in Int /\ arc \in Arcs
  BY DEF Profiler!R_Link, Profiler!At, CountInv, CountTypes, ListInv, MainInv, Linking, Addresses
<1>2. PICK i \in DOMAIN functions : functions[i].at = found.entry /\ functions[i].self = arc.self
  BY <1>1 DEF HasEntry
<1>3. Profiler!EntryAt(functions, found.entry) = i
  BY <1>1, <1>2, EntryAtIs
<1>4. found.next = functions[i].arcs /\ \A j \in DOMAIN functions[i].arcs : functions[i].arcs[j].at # found.arc
  BY <1>1, <1>2 DEF CountInv, ListInv, MainInv
<1>5. /\ done' = done /\ started' = started /\ arc' = arc /\ value' = value /\ on' = on
      /\ blocks' = blocks /\ found' = found /\ place' = "r_enable"
      /\ functions' = [functions EXCEPT ![i].arcs = <<Profiler!NewArc(found.arc, arc.from)>> \o found.next]
  BY <1>3 DEF Profiler!R_Link, Profiler!Enter, Profiler!memory, Profiler!recording, Profiler!history
<1>6. functions' = WithArc(functions, i, found.arc, arc.from)
  BY <1>4, <1>5 DEF WithArc
<1>7. ArcMore(functions', functions, i, found.arc, arc)
  <2>1. i \in 1 .. Len(functions)
    BY <1>1
  <2> QED BY <1>1, <1>2, <1>6, <2>1, ArcPrepended
<1>8. Distinct(functions') /\ Backed(functions', blocks)
  BY <1>1, <1>2, <1>4, <1>6, ArcLinked
<1>9. functions' \in Seq(EntryRecords) /\ CalledOnce(functions', functions, arc)
  BY <1>7 DEF ArcMore, SameBut, CalledOnce
<1>10. CountTypes'
  BY <1>1, <1>5, <1>9 DEF CountTypes
<1>11. MainInv'
  BY <1>1, <1>5 DEF MainInv, Beginning, Linking
<1>12. Balanced'
  <2> SUFFICES ASSUME NEW a \in Arcs
               PROVE  /\ done[a] + (IF a = arc THEN 1 ELSE 0) <= TotalOf(functions', a)
                      /\ TotalOf(functions', a) + 0 <= started[a]
    BY <1>5 DEF Balanced, Pending, Beginning, Linking
  <2>1. /\ TotalOf(functions, a) \in Nat /\ done[a] \in Nat /\ started[a] \in Nat
    BY <1>1, TotalsAreNumbers
  <2>2. /\ done[a] + 0 <= TotalOf(functions, a)
        /\ TotalOf(functions, a) + (IF a = arc THEN 1 ELSE 0) <= started[a]
    BY <1>1 DEF CountInv, Balanced, Pending, Linking
  <2>3. TotalOf(functions', a) = TotalOf(functions, a) + (IF a = arc THEN 1 ELSE 0)
    BY <1>9, <2>1 DEF CalledOnce
  <2> QED BY <2>1, <2>2, <2>3
<1>13. Loaded'
  BY <1>5 DEF Loaded
<1> QED BY <1>5, <1>8, <1>10, <1>11, <1>12, <1>13 DEF CountInv, ListInv

LEMMA R_EnableCounts ==
  ASSUME CountInv, Profiler!R_Enable
  PROVE  CountInv'
<1>1. /\ place = "r_enable" /\ CountTypes /\ Distinct(functions) /\ Backed(functions, blocks)
      /\ started' = started /\ arc' = arc /\ value' = value /\ functions' = functions
      /\ blocks' = blocks /\ found' = found /\ place' = "" /\ done' = [done EXCEPT ![arc] = @ + 1]
  BY DEF Profiler!R_Enable, Profiler!At, Profiler!Enter, Profiler!Return, Profiler!memory, Profiler!recording, CountInv, ListInv
<1>2. CountTypes'
  <2>1. done' \in [Arcs -> Nat]
    <3>1. done \in [Arcs -> Nat] /\ arc \in Arcs
      BY <1>1 DEF CountTypes
    <3>2. done[arc] + 1 \in Nat
      BY <3>1
    <3> QED BY <1>1, <3>1, <3>2
  <2> QED BY <1>1, <2>1 DEF CountTypes
<1>3. MainInv'
  BY <1>1 DEF MainInv, Beginning, Linking
<1>4. Balanced'
  <2> SUFFICES ASSUME NEW a \in Arcs
               PROVE  /\ done'[a] + 0 <= TotalOf(functions, a)
                      /\ TotalOf(functions, a) + 0 <= started[a]
    BY <1>1 DEF Balanced, Pending, Beginning, Linking
  <2>1. /\ TotalOf(functions, a) \in Nat /\ done[a] \in Nat /\ started[a] \in Nat
    BY <1>1, TotalsAreNumbers
  <2>2. /\ done[a] + (IF a = arc THEN 1 ELSE 0) <= TotalOf(functions, a)
        /\ TotalOf(functions, a) + 0 <= started[a]
    BY <1>1 DEF CountInv, Balanced, Pending, Beginning, Linking
  <2>3. done'[a] = done[a] + (IF a = arc THEN 1 ELSE 0)
    <3>1. done \in [Arcs -> Nat] /\ arc \in Arcs /\ done' = [done EXCEPT ![arc] = @ + 1]
      BY <1>1 DEF CountTypes
    <3>2. CASE a = arc
      BY <3>1, <3>2
    <3>3. CASE a # arc
      BY <2>1, <3>1, <3>3
    <3> QED BY <3>2, <3>3
  <2> QED BY <2>1, <2>2, <2>3
<1>5. Loaded'
  BY <1>1 DEF Loaded
<1> QED BY <1>1, <1>2, <1>3, <1>4, <1>5 DEF CountInv, ListInv

\* A handler records a call that is listed: main's place in the list is as it was.
LEMMA KnownCounts ==
  ASSUME CountTypes, Distinct(functions), Backed(functions, blocks),
         NEW a \in Arcs, NEW i \in DOMAIN functions, NEW j \in DOMAIN functions[i].arcs,
         functions[i].self = a.self, functions[i].arcs[j].from = a.from,
         functions' = WithCount(functions, i, j, functions[i].arcs[j].count + 1)
  PROVE  /\ functions' \in Seq(EntryRecords) /\ CalledOnce(functions', functions, a)
         /\ Distinct(functions') /\ Backed(functions', blocks)
         /\ HeldStill(functions', functions, i, j, a, functions[i].arcs[j].count + 1)
<1> DEFINE n == functions[i].arcs[j].count
<1>0. functions \in Seq(EntryRecords)
  BY DEF CountTypes
<1>1. i \in 1 .. Len(functions) /\ j \in 1 .. Len(functions[i].arcs) /\ n \in Nat
  <2>1. i \in 1 .. Len(functions)
    BY <1>0
  <2>2. functions[i].arcs \in Seq(ArcRecords)
    BY <1>0, <2>1, EntryIs
  <2>3. j \in 1 .. Len(functions[i].arcs)
    BY <2>2
  <2> QED BY <1>0, <2>1, <2>3, EntryIs
<1>2. n + 1 \in Nat
  BY <1>1
<1> HIDE DEF n
<1>3. functions' = WithCount(functions, i, j, n + 1)
  BY DEF n
<1>4. CountOther(functions', functions, i, j, a, n + 1)
  BY <1>0, <1>1, <1>2, <1>3, CountChanged
<1>5. /\ Distinct(functions') /\ Backed(functions', blocks)
      /\ HeldStill(functions', functions, i, j, a, n + 1)
  BY <1>0, <1>2, <1>3, CountKept
<1>6. functions' \in Seq(EntryRecords)
  BY <1>4 DEF CountOther, SameBut
<1>7. CalledOnce(functions', functions, a)
  <2>1. TotalOf(functions', a) \in Nat /\ TotalOf(functions, a) \in Nat
    BY <1>0, <1>6, TotalType
  <2>2. TotalOf(functions', a) + n = TotalOf(functions, a) + (n + 1)
    BY <1>4 DEF CountOther, n
  <2>3. TotalOf(functions', a) = TotalOf(functions, a) + 1
    BY <1>1, <2>1, <2>2
  <2> QED BY <1>4, <2>3 DEF CountOther, CalledOnce
<1> QED BY <1>5, <1>6, <1>7 DEF n

\* One that is not gets an arc of its own, and an entry if its function has none.
LEMMA UnknownCounts ==
  ASSUME ProfileInv, CountTypes, ListInv, place # "wild", NEW a \in Arcs, Profiler!Recorded(a),
         ~(/\ Profiler!EntryOf(functions, a.self) # 0
           /\ Profiler!ArcOf(functions[Profiler!EntryOf(functions, a.self)].arcs, a.from) # 0)
  PROVE  /\ functions' \in Seq(EntryRecords) /\ CalledOnce(functions', functions, a)
         /\ blocks \subseteq blocks'
         /\ place' = place \/ place' = "wild"
         /\ place' # "wild" => /\ Distinct(functions') /\ Backed(functions', blocks')
                               /\ Keeps(functions, functions')
<1> DEFINE i == Profiler!EntryOf(functions, a.self)
           known == i # 0 /\ Profiler!ArcOf(functions[i].arcs, a.from) # 0
           starting == ~known /\ need_init /\ rate # 0
           m0 == IF starting THEN Profiler!SampleBuffer(Profiler!Allocator) ELSE Profiler!Allocator
           m1 == IF i = 0 THEN Profiler!mcount_allocate(m0, EntrySize) ELSE m0
           fns == IF i = 0 THEN WithEntry(functions, m1.at, a.self) ELSE functions
           e == Profiler!EntryOf(fns, a.self)
           m2 == Profiler!mcount_allocate(m1, ArcSize)
<1>0. functions \in Seq(EntryRecords)
  BY DEF CountTypes
<1>1. /\ functions' = WithArc(fns, e, m2.at, a.from) /\ blocks' = m2.blocks
      /\ place' = (IF Profiler!Wild(m2) THEN "wild" ELSE place)
  BY DEF Profiler!Recorded, WithEntry, WithArc, Profiler!Store
<1>2. Tidy(Profiler!Allocator) /\ Numeric(Profiler!Allocator) /\ Profiler!Allocator.blocks = blocks
  BY AllocatorIs
<1>3. Good(m0) /\ Numeric(m0) /\ blocks \subseteq m0.blocks
  BY <1>2, Sampled, SampleBufferAt DEF Good
<1>4. i = 0 \/ (i # 0 /\ i \in 1 .. Len(functions) /\ functions[i].self = a.self)
  BY <1>0, EntryOfIs
<1> HIDE DEF m0, i
<1>5. /\ Good(m1) /\ Numeric(m1) /\ m0.blocks \subseteq m1.blocks
      /\ i = 0 => m1.at \in Int /\ [at |-> m1.at, size |-> EntrySize] \in m1.blocks
  <2>1. CASE i = 0
    BY <1>3, <2>1, Allocated, AllocatedAt
  <2>2. CASE i # 0
    BY <1>3, <2>2
  <2> QED BY <2>1, <2>2
<1>6. fns \in Seq(EntryRecords) /\ \A b : TotalOf(fns, b) = TotalOf(functions, b)
  <2>1. CASE i = 0
    <3>1. EntryMore(WithEntry(functions, m1.at, a.self), functions, m1.at, a)
      BY <1>0, <1>5, <2>1, EntryPrepended
    <3> QED BY <2>1, <3>1 DEF EntryMore
  <2>2. CASE i # 0
    BY <1>0, <2>2
  <2> QED BY <2>1, <2>2
<1>7. e \in 1 .. Len(fns) /\ e \in DOMAIN fns /\ fns[e].self = a.self
  <2>1. CASE i = 0
    <3>1. EntryMore(fns, functions, m1.at, a)
      BY <1>0, <1>5, <2>1, EntryPrepended
    <3>2. Len(fns) = Len(functions) + 1 /\ fns[1].self = a.self /\ Len(functions) \in Nat
      BY <1>0, <3>1 DEF EntryMore
    <3>3. 1 \in DOMAIN fns
      BY <1>6, <3>2
    <3> HIDE DEF fns
    <3>4. e = 0 => fns[1].self # a.self
      BY <1>6, <3>3, EntryOfIs
    <3>5. e \in 1 .. Len(fns) /\ fns[e].self = a.self
      BY <1>6, <3>2, <3>4, EntryOfIs
    <3> QED BY <1>6, <3>5
  <2>2. CASE i # 0
    <3>1. fns = functions /\ e = i
      BY <2>2 DEF i
    <3> QED BY <1>0, <1>4, <2>2, <3>1
  <2> QED BY <2>1, <2>2
<1>8. ~Profiler!Wild(m1) =>
         /\ Distinct(fns) /\ Backed(fns, m1.blocks) /\ Keeps(functions, fns)
  <2> SUFFICES ASSUME ~Profiler!Wild(m1) PROVE Distinct(fns) /\ Backed(fns, m1.blocks) /\ Keeps(functions, fns)
    OBVIOUS
  <2>1. Distinct(functions) /\ Backed(functions, blocks) /\ Backed(functions, m0.blocks)
    BY <1>3 DEF ListInv, Backed
  <2>2. CASE i = 0
    <3>1. ~Profiler!Wild(m0)
      BY <1>5, WildStays
    <3>2. Tidy(m0)
      BY <1>3, <3>1, WildIs
    <3>3. m1 = Profiler!mcount_allocate(m0, EntrySize)
      BY <2>2
    <3>4. \A b \in m0.blocks : b.size # 0 => b.at # m1.at
      BY <3>2, <3>3, FreshAt
    <3>5. \A k \in DOMAIN functions : functions[k].at # m1.at
      <4> SUFFICES ASSUME NEW k \in DOMAIN functions PROVE functions[k].at # m1.at
        OBVIOUS
      <4> DEFINE b == [at |-> functions[k].at, size |-> EntrySize]
      <4>1. b \in m0.blocks /\ b.at = functions[k].at /\ b.size # 0
        BY <2>1, ProfileFacts DEF Backed
      <4> HIDE DEF b
      <4> QED BY <3>4, <4>1
    <3> HIDE DEF m1
    <3> QED BY <1>0, <1>5, <2>1, <2>2, <3>5, EntryLinked
  <2>3. CASE i # 0
    <3>1. fns = functions /\ m1 = m0
      BY <2>3
    <3> QED BY <2>1, <3>1 DEF Keeps
  <2> QED BY <2>2, <2>3
<1> HIDE DEF m1, fns, e
<1>9. m2.at \in Int /\ m1.blocks \subseteq m2.blocks /\ [at |-> m2.at, size |-> ArcSize] \in m2.blocks
  BY <1>5, AllocatedAt
<1>10. ArcMore(functions', fns, e, m2.at, a)
  <2> HIDE DEF m2
  <2> QED BY <1>1, <1>6, <1>7, <1>9, ArcPrepended
<1>11. functions' \in Seq(EntryRecords) /\ CalledOnce(functions', functions, a)
  BY <1>6, <1>10 DEF ArcMore, SameBut, CalledOnce
<1>12. ASSUME ~Profiler!Wild(m2)
       PROVE  Distinct(functions') /\ Backed(functions', blocks') /\ Keeps(functions, functions')
  <2>1. ~Profiler!Wild(m1)
    BY <1>9, <1>12, WildStays
  <2>2. Tidy(m1)
    BY <1>5, <2>1, WildIs
  <2>3. \A b \in m1.blocks : b.size # 0 => b.at # m2.at
    BY <1>12, <2>2, FreshAt
  <2> HIDE DEF m2
  <2>4. \A k \in DOMAIN fns[e].arcs : fns[e].arcs[k].at # m2.at
    <3> SUFFICES ASSUME NEW k \in DOMAIN fns[e].arcs PROVE fns[e].arcs[k].at # m2.at
      OBVIOUS
    <3> DEFINE b == [at |-> fns[e].arcs[k].at, size |-> ArcSize]
    <3>1. b \in m1.blocks /\ b.at = fns[e].arcs[k].at /\ b.size # 0
      BY <1>7, <1>8, <2>1, ProfileFacts DEF Backed
    <3> HIDE DEF b
    <3> QED BY <2>3, <3>1
  <2>5. Distinct(functions') /\ Backed(functions', m2.blocks) /\ Keeps(fns, functions')
    BY <1>1, <1>6, <1>7, <1>8, <1>9, <2>1, <2>4, ArcLinked
  <2> QED BY <1>1, <1>8, <2>1, <2>5 DEF Keeps
<1> HIDE DEF m2
<1>13. blocks \subseteq blocks'
  BY <1>1, <1>3, <1>5, <1>9
<1> QED BY <1>1, <1>11, <1>12, <1>13

LEMMA I_CallCounts ==
  ASSUME ProfileInv, CountInv, Profiler!I_Call
  PROVE  CountInv'
<1>1. PICK a \in Arcs : /\ Profiler!Recorded(a) /\ started' = [started EXCEPT ![a] = @ + 1]
                        /\ done' = IF Profiler!Undone(a) THEN done ELSE [done EXCEPT ![a] = @ + 1]
  BY DEF Profiler!I_Call
<1>2. /\ on /\ place # "wild" /\ on' = on /\ arc' = arc /\ found' = found /\ value' = value
      /\ CountTypes /\ ListInv /\ Distinct(functions) /\ Backed(functions, blocks) /\ MainInv
  BY DEF Profiler!I_Call, Profiler!Interrupt, Profiler!recording, CountInv, ListInv
<1> DEFINE i == Profiler!EntryOf(functions, a.self)
           j == Profiler!ArcOf(functions[i].arcs, a.from)
           known == i # 0 /\ j # 0
           n1 == functions[i].arcs[j].count + 1
<1>3. ASSUME known
      PROVE  /\ functions' = WithCount(functions, i, j, n1)
             /\ i \in DOMAIN functions /\ j \in DOMAIN functions[i].arcs
             /\ functions[i].self = a.self /\ functions[i].arcs[j].from = a.from
             /\ UNCHANGED <<Profiler!memory, place>>
  <2>1. functions \in Seq(EntryRecords)
    BY <1>2 DEF CountTypes
  <2>2. i \in 1 .. Len(functions) /\ functions[i].self = a.self
    BY <1>3, <2>1, EntryOfIs
  <2>3. functions[i].arcs \in Seq(ArcRecords)
    BY <2>1, <2>2, EntryIs
  <2>4. j \in 1 .. Len(functions[i].arcs) /\ functions[i].arcs[j].from = a.from
    BY <1>3, <2>3, ArcOfIs
  <2>5. functions' = WithCount(functions, i, j, n1) /\ UNCHANGED <<Profiler!memory, place>>
    BY <1>1, <1>3 DEF Profiler!Recorded, WithCount
  <2> QED BY <2>1, <2>2, <2>3, <2>4, <2>5
<1>5. /\ functions' \in Seq(EntryRecords) /\ CalledOnce(functions', functions, a)
      /\ blocks \subseteq blocks'
      /\ place' = place \/ place' = "wild"
      /\ place' # "wild" => /\ Distinct(functions') /\ Backed(functions', blocks')
                            /\ IF known THEN HeldStill(functions', functions, i, j, a, n1)
                               ELSE Keeps(functions, functions')
  <2>1. CASE known
    <3>1. /\ functions' \in Seq(EntryRecords) /\ CalledOnce(functions', functions, a)
          /\ Distinct(functions') /\ Backed(functions', blocks)
          /\ HeldStill(functions', functions, i, j, a, n1)
      BY <1>2, <1>3, <2>1, KnownCounts
    <3>2. blocks' = blocks /\ place' = place
      BY <1>3, <2>1 DEF Profiler!memory
    <3> QED BY <2>1, <3>1, <3>2
  <2>2. CASE ~known
    BY <1>1, <1>2, <2>2, UnknownCounts
  <2> QED BY <2>1, <2>2
<1>6. Profiler!Undone(a) => /\ place = "m_store" /\ a = arc
  BY DEF Profiler!Undone, Profiler!At
<1>7. known /\ place = "m_store" /\ a = arc /\ functions[i].arcs[j].at = found.arc => Profiler!Undone(a)
  BY DEF Profiler!Undone, Profiler!At
<1> DEFINE old == functions[i].arcs[j]
<1>8. place' # "wild" =>
         /\ \A x, b : HasEntry(functions, x, b) => HasEntry(functions', x, b)
         /\ \A x, y, b, n : Holds(functions, x, y, b, n) =>
               \/ Holds(functions', x, y, b, n)
               \/ /\ known /\ y = old.at /\ n = old.count
                  /\ b.self = a.self /\ b.from = a.from /\ Holds(functions', x, y, b, n + 1)
  BY <1>5 DEF HeldStill, Keeps
<1> HIDE DEF i, j
<1>9. CountTypes'
  <2>1. started \in [Arcs -> Nat] /\ done \in [Arcs -> Nat] /\ started[a] + 1 \in Nat /\ done[a] + 1 \in Nat
    BY <1>2 DEF CountTypes
  <2>2. started' \in [Arcs -> Nat] /\ done' \in [Arcs -> Nat]
    BY <1>1, <2>1
  <2> QED BY <1>2, <1>5, <2>2 DEF CountTypes
<1>10. place \notin Linking \cup {"r_enable"}
  BY <1>2 DEF MainInv
<1>11. ListInv'
  <2> SUFFICES ASSUME place' # "wild" PROVE Distinct(functions') /\ Backed(functions', blocks') /\ MainInv'
    BY DEF ListInv
  <2>1. place' = place
    BY <1>5
  <2>2. place = "m_load" => \E n \in Nat : Holds(functions', found.entry, found.arc, arc, n)
    <3> SUFFICES ASSUME place = "m_load" PROVE \E n \in Nat : Holds(functions', found.entry, found.arc, arc, n)
      OBVIOUS
    <3>1. PICK n \in Nat : Holds(functions, found.entry, found.arc, arc, n)
      BY <1>2 DEF MainInv
    <3>2. Holds(functions', found.entry, found.arc, arc, n) \/ Holds(functions', found.entry, found.arc, arc, n + 1)
      BY <1>8, <3>1
    <3>3. n + 1 \in Nat
      OBVIOUS
    <3> QED BY <3>2, <3>3
  <2>3. /\ place \in Beginning => found.entry = Profiler!NoAddress \/ HasEntry(functions', found.entry, arc)
        /\ place \in {"m_arc", "m_load", "m_store", "r_arc", "r_link"} => HasEntry(functions', found.entry, arc)
    BY <1>2, <1>8 DEF MainInv
  <2>4. MainInv'
    BY <1>2, <1>10, <2>1, <2>2, <2>3 DEF MainInv, Linking
  <2> QED BY <1>5, <2>4
<1>12. \A b \in Arcs : /\ TotalOf(functions, b) \in Nat /\ done[b] \in Nat /\ started[b] \in Nat
                       /\ TotalOf(functions', b) = TotalOf(functions, b) + (IF b = a THEN 1 ELSE 0)
                       /\ started'[b] = started[b] + (IF b = a THEN 1 ELSE 0)
                       /\ done'[b] = done[b] + (IF b = a /\ ~Profiler!Undone(a) THEN 1 ELSE 0)
  <2> SUFFICES ASSUME NEW b \in Arcs
               PROVE  /\ TotalOf(functions, b) \in Nat /\ done[b] \in Nat /\ started[b] \in Nat
                      /\ TotalOf(functions', b) = TotalOf(functions, b) + (IF b = a THEN 1 ELSE 0)
                      /\ started'[b] = started[b] + (IF b = a THEN 1 ELSE 0)
                      /\ done'[b] = done[b] + (IF b = a /\ ~Profiler!Undone(a) THEN 1 ELSE 0)
    OBVIOUS
  <2>1. /\ TotalOf(functions, b) \in Nat /\ done[b] \in Nat /\ started[b] \in Nat
        /\ done \in [Arcs -> Nat] /\ started \in [Arcs -> Nat]
    BY <1>2, TotalsAreNumbers DEF CountTypes
  <2>2. TotalOf(functions', b) = TotalOf(functions, b) + (IF b = a THEN 1 ELSE 0)
    BY <1>5, <2>1 DEF CalledOnce
  <2>3. started'[b] = started[b] + (IF b = a THEN 1 ELSE 0)
    <3>1. started' = [started EXCEPT ![a] = @ + 1]
      BY <1>1
    <3> QED BY <2>1, <3>1
  <2>4. done'[b] = done[b] + (IF b = a /\ ~Profiler!Undone(a) THEN 1 ELSE 0)
    <3>1. done' = IF Profiler!Undone(a) THEN done ELSE [done EXCEPT ![a] = @ + 1]
      BY <1>1
    <3>2. CASE Profiler!Undone(a)
      BY <2>1, <3>1, <3>2
    <3>3. CASE ~Profiler!Undone(a)
      BY <2>1, <3>1, <3>3
    <3> QED BY <3>2, <3>3
  <2> QED BY <2>1, <2>2, <2>3, <2>4
<1>13. Balanced'
  <2> SUFFICES ASSUME NEW b \in Arcs
               PROVE  /\ done'[b] + (IF b = arc /\ place' = "r_enable" THEN 1 ELSE 0) <= TotalOf(functions', b)
                      /\ TotalOf(functions', b) + (IF b = arc /\ place' \in Pending THEN 1 ELSE 0) <= started'[b]
    BY <1>2 DEF Balanced
  <2>1. /\ done[b] + (IF b = arc /\ place = "r_enable" THEN 1 ELSE 0) <= TotalOf(functions, b)
        /\ TotalOf(functions, b) + (IF b = arc /\ place \in Pending THEN 1 ELSE 0) <= started[b]
    BY DEF CountInv, Balanced
  <2>2. place # "r_enable" /\ place' # "r_enable" /\ (place' \in Pending => place \in Pending)
    BY <1>5, <1>10 DEF Pending, Beginning, Linking
  <2> HIDE DEF known, old, n1
  <2> QED BY <1>12, <2>1, <2>2
<1>14. Loaded'
  <2> SUFFICES ASSUME place' = "m_store"
               PROVE  \E n \in Nat : /\ Holds(functions', found.entry, found.arc, arc, n) /\ value <= n
                                     /\ done'[arc] + (n - value) <= TotalOf(functions', arc)
    BY <1>2 DEF Loaded
  <2>1. place = "m_store" /\ arc \in Arcs /\ value \in Nat
    BY <1>2, <1>5 DEF CountTypes
  <2>2. PICK n \in Nat : /\ Holds(functions, found.entry, found.arc, arc, n) /\ value <= n
                         /\ done[arc] + (n - value) <= TotalOf(functions, arc)
    BY <2>1 DEF CountInv, Loaded
  <2> DEFINE p == TotalOf(functions, arc)  q == TotalOf(functions', arc)  d == done[arc]  f == done'[arc]
  <2>3. /\ p \in Nat /\ d \in Nat /\ q = p + (IF arc = a THEN 1 ELSE 0)
        /\ f = d + (IF arc = a /\ ~Profiler!Undone(a) THEN 1 ELSE 0)
    BY <1>12, <2>1
  <2>4. d + (n - value) <= p
    BY <2>2
  <2>5. CASE Holds(functions', found.entry, found.arc, arc, n)
    <3>1. f + (n - value) <= q
      <4> HIDE DEF p, q, d, f
      <4>1. CASE arc = a
        BY <2>1, <2>3, <2>4, <4>1
      <4>2. CASE arc # a
        BY <2>1, <2>3, <2>4, <4>2
      <4> QED BY <4>1, <4>2
    <3> QED BY <2>2, <2>5, <3>1
  <2>6. CASE ~Holds(functions', found.entry, found.arc, arc, n)
    <3>1. /\ known /\ found.arc = old.at /\ arc.self = a.self /\ arc.from = a.from
          /\ Holds(functions', found.entry, found.arc, arc, n + 1)
      BY <1>8, <2>1, <2>2, <2>6
    <3>2. arc = a
      BY <2>1, <3>1, ArcsDiffer
    <3>3. Profiler!Undone(a)
      BY <1>7, <2>1, <3>1, <3>2
    <3>4. n + 1 \in Nat /\ value <= n + 1 /\ f + (n + 1 - value) <= q
      <4>1. q = p + 1 /\ f = d
        BY <2>3, <3>2, <3>3
      <4>2. value \in Nat /\ value <= n /\ d + (n - value) <= p /\ p \in Nat /\ d \in Nat
        BY <2>1, <2>2, <2>3
      <4> HIDE DEF p, q, d, f
      <4>3. d + (n + 1 - value) <= p + 1 /\ n + 1 \in Nat /\ value <= n + 1
        BY <4>2
      <4> QED BY <4>1, <4>3
    <3> DEFINE Fits(m) == /\ Holds(functions', found.entry, found.arc, arc, m) /\ value <= m
                          /\ f + (m - value) <= q
    <3>5. Fits(n + 1) /\ n + 1 \in Nat
      <4>1. f \in Nat /\ q \in Nat /\ value \in Nat
        BY <2>1, <2>3
      <4> HIDE DEF p, q, d, f
      <4> QED BY <3>1, <3>4, <4>1
    <3> HIDE DEF Fits
    <3>6. \E m \in Nat : Fits(m)
      BY <3>5
    <3> QED BY <3>6 DEF Fits
  <2> QED BY <2>5, <2>6
<1> QED BY <1>9, <1>11, <1>13, <1>14 DEF CountInv

LEMMA CountInvKept == ProfileInv /\ CountInv /\ [Profiler!Next]_(Profiler!vars) => CountInv'
<1> SUFFICES ASSUME ProfileInv, CountInv, [Profiler!Next]_(Profiler!vars) PROVE CountInv'
  OBVIOUS
<1>1. CASE Profiler!SetRate \/ Profiler!R_Test \/ Profiler!R_Clear \/ Profiler!R_Disable \/ Profiler!Sample \/ UNCHANGED Profiler!vars
  BY <1>1, QuietCounts
<1>2. CASE Profiler!Malloc \/ Profiler!R_Start
  BY <1>2, TakersCount
<1>3. CASE Profiler!M_Call
  BY <1>3, M_CallCounts
<1>4. CASE Profiler!M_Entry
  BY <1>4, M_EntryCounts
<1>5. CASE Profiler!M_Arc
  BY <1>5, M_ArcCounts
<1>6. CASE Profiler!M_Load
  BY <1>6, M_LoadCounts
<1>7. CASE Profiler!M_Store
  BY <1>7, M_StoreCounts
<1>8. CASE Profiler!R_Entry
  BY <1>8, R_EntryCounts
<1>9. CASE Profiler!R_Head
  BY <1>9, R_HeadCounts
<1>10. CASE Profiler!R_Arc
  BY <1>10, R_ArcCounts
<1>11. CASE Profiler!R_Link
  BY <1>11, R_LinkCounts
<1>12. CASE Profiler!R_Enable
  BY <1>12, R_EnableCounts
<1>13. CASE Profiler!I_Call
  BY <1>13, I_CallCounts
<1> QED BY <1>1, <1>2, <1>3, <1>4, <1>5, <1>6, <1>7, <1>8, <1>9, <1>10, <1>11, <1>12, <1>13 DEF Profiler!Next

LEMMA CountInvSays == CountInv => Profiler!CallsCounted
<1> SUFFICES ASSUME CountInv, NEW a \in Arcs PROVE done[a] <= Profiler!Total(a) /\ Profiler!Total(a) <= started[a]
  BY DEF Profiler!CallsCounted
<1>1. TotalOf(functions, a) \in Nat /\ done[a] \in Nat /\ started[a] \in Nat
  BY TotalsAreNumbers DEF CountInv
<1>2. /\ done[a] + (IF a = arc /\ place = "r_enable" THEN 1 ELSE 0) <= TotalOf(functions, a)
      /\ TotalOf(functions, a) + (IF a = arc /\ place \in Pending THEN 1 ELSE 0) <= started[a]
  BY DEF CountInv, Balanced
<1>3. Profiler!Total(a) = TotalOf(functions, a)
  BY DEF Profiler!Total, TotalOf
<1> QED BY <1>1, <1>2, <1>3

LEMMA CountsSafe == HalSpec => [](Runs("profile") => CountInv)
<1>1. HalInit => (Runs("profile") => CountInv)
  BY CountInvInit DEF HalInit
<1>2. /\ Runs("profile") => ProfileInv
      /\ Runs("profile") => CountInv
      /\ [HalNext]_halvars
      => (Runs("profile") => CountInv)'
  <2> SUFFICES ASSUME Runs("profile") => ProfileInv, Runs("profile") => CountInv,
                      [HalNext]_halvars, Runs("profile")'
               PROVE  CountInv'
    OBVIOUS
  <2>1. Runs("profile") /\ ProfileInv /\ CountInv
    BY ServiceStays DEF Runs
  <2>2. [Profiler!Next]_(Profiler!vars)
    BY <2>1, ProfileMoves
  <2> QED BY <2>1, <2>2, CountInvKept
<1> QED BY <1>1, <1>2, ProfileSafe, PTL DEF HalSpec

\* However main and the handlers interleave, no call that has ended is missing from the sum
\* over the copies of its arc, and none is counted that was not made, but for those that main
\* undoes with the count it had loaded (mcount, __mcount_record); be the heap exhausted or not.
THEOREM CallsAreCounted == HalSpec => []CallsCounted
<1>1. (Runs("profile") => CountInv) => CallsCounted
  BY CountInvSays DEF CallsCounted
<1> QED BY <1>1, CountsSafe, PTL
=============================================================================
