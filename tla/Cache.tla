-------------------------------- MODULE Cache --------------------------------
(***************************************************************************)
(* The data cache calls of the HAL on a write-back cache, one cache-block  *)
(* instruction at a time, with a handler that stores between them, and the *)
(* registration of the ECC handler, which must reach memory.  Contents are *)
(* abstracted to versions of whole lines; the cache and its instructions   *)
(* are the processor's, and only stores bring lines into it.               *)
(***************************************************************************)
EXTENDS Integers

CONSTANTS
    LINE,            \* ALT_CPU_DCACHE_LINE_SIZE: bytes in a line
    SETS,            \* lines in the cache, mapped directly
    Memory,          \* lines in memory
    HandlerLine,     \* the line a handler stores into
    EccLine,         \* the line of alt_ecc_exception_handler
    CodeLine,        \* the line of a piece of code
    Starts, Lengths, \* of ranges
    MaxStores        \* bound

\* What the constants may be.
CacheAssumption == /\ {LINE, SETS, Memory} \subseteq Nat \ {0} /\ MaxStores \in Nat
                   /\ {HandlerLine, EccLine, CodeLine} \subseteq 0 .. Memory - 1
                   /\ Starts \cup Lengths \subseteq Nat

Lines == 0 .. Memory - 1
None == [line |-> -1, version |-> 0, dirty |-> FALSE]

VARIABLES
    memory,          \* version of each line in memory
    cache,           \* per set: the line it holds, its version, and whether it is dirty
    icache,          \* version of the code in the instruction cache, or -1
    call, start, end, i,      \* the call that runs, its range of bytes, and its index
    latest, meanwhile,        \* history: version stored last; lines stored since the call began
    waived,          \* history: lines whose contents the program gave up
    published, loaded         \* history: lines not stored since they were flushed; since both
                     \* caches were
vars == <<memory, cache, icache, call, start, end, i, latest, meanwhile, waived,
          published, loaded>>

range == <<call, start, end, i>>

Init == /\ memory = [l \in Lines |-> 0] /\ cache = [s \in 0 .. SETS - 1 |-> None]
        /\ icache = -1
        /\ call = "none" /\ start = 0 /\ end = 0 /\ i = 0
        /\ latest = [l \in Lines |-> 0] /\ meanwhile = {} /\ waived = {} /\ published = {}
        /\ loaded = {}

-----------------------------------------------------------------------------
(***************************************************************************)
(* The processor.                                                          *)
(***************************************************************************)
Set(l) == cache[l % SETS]
WrittenBack(s) == IF cache[s].dirty THEN [memory EXCEPT ![cache[s].line] = cache[s].version]
                  ELSE memory

\* The lines a range of bytes touches.
Touched(a, b) == {x \div LINE : x \in a .. b - 1} \cap Lines

\* A range that does not start on a line also costs the line its index has come to
\* behind the range, of which it need not hold a byte.
Overshot(a, b) == {l \in Lines : (l * LINE) + (a % LINE) \in b .. b + LINE - 1}
GivenUp(a, b) == Touched(a, b) \cup (IF a % LINE = 0 THEN {} ELSE Overshot(a, b))
Forfeit == IF call = "invalidate" THEN GivenUp(start, end) ELSE {}

Stores == CHOOSE n \in 0 .. MaxStores : /\ \E l \in Lines : latest[l] = n
                                        /\ \A l \in Lines : latest[l] <= n

\* A line that is not in the cache takes the place of another, which goes to memory.
Stored(l) ==
    /\ Stores < MaxStores
    /\ latest' = [latest EXCEPT ![l] = Stores + 1]
    /\ memory' = IF Set(l).line = l THEN memory ELSE WrittenBack(l % SETS)
    /\ cache' = [cache EXCEPT ![l % SETS] = [line |-> l, version |-> Stores + 1, dirty |-> TRUE]]
    /\ waived' = waived \ ({l} \ Forfeit) /\ published' = published \ {l} /\ loaded' = loaded \ {l}

Fetch ==
    /\ call = "none" /\ icache = -1 /\ icache' = memory[CodeLine]
    /\ UNCHANGED <<memory, cache, range, latest, meanwhile, waived, published, loaded>>

Store == /\ call = "none" /\ \E l \in Lines \ {HandlerLine} : Stored(l)
         /\ UNCHANGED <<icache, range, meanwhile>>

\* A handler stores at any time.
HandlerStores == /\ Stored(HandlerLine) /\ meanwhile' = IF call = "none" THEN {} ELSE {HandlerLine}
                 /\ UNCHANGED <<icache, range>>

\* The instructions on the line of an address; a line that is not cached is left alone.
Held(a) == a \div LINE \in Lines /\ Set(a \div LINE).line = a \div LINE
Dropped(a) == IF Held(a) THEN [cache EXCEPT ![(a \div LINE) % SETS] = None] ELSE cache
ALT_FLUSH_DATA(a) ==
    /\ memory' = IF Held(a) THEN WrittenBack((a \div LINE) % SETS) ELSE memory
    /\ cache' = Dropped(a)
ALT_INVALIDATE_DATA(a) == cache' = Dropped(a) /\ UNCHANGED memory

-----------------------------------------------------------------------------
(***************************************************************************)
(* The calls.                                                              *)
(***************************************************************************)
Returned == call' = "none" /\ start' = 0 /\ end' = 0 /\ i' = 0 /\ meanwhile' = {}
Called(name, a, n) ==
    /\ call = "none" /\ call' = name /\ start' = a /\ end' = a + n /\ i' = a
    /\ meanwhile' = {}

alt_dcache_flush == \E a \in Starts, n \in Lengths :
    /\ Called("flush", a, n)
    /\ UNCHANGED <<memory, cache, icache, latest, waived, published, loaded>>

alt_dcache_flush_no_writeback == \E a \in Starts, n \in Lengths :
    /\ Called("invalidate", a, n)
    /\ waived' = waived \cup GivenUp(a, a + n)
    /\ UNCHANGED <<memory, cache, icache, latest, published, loaded>>

alt_dcache_flush_all == /\ Called("clean", 0, SETS)
                        /\ UNCHANGED <<memory, cache, icache, latest, waived, published, loaded>>

\* The variable is four bytes of its line; then it is flushed.
alt_ecc_exception_register ==
    /\ Called("flush", EccLine * LINE, LINE)
    /\ Stored(EccLine) /\ UNCHANGED icache

\* Mutant: the last line of a misaligned range is forgotten.
Last_Forgotten == FALSE

Last == start % LINE # 0

\* One more turn of the loop, and after the last, one more line if the range was
\* misaligned.
Turn(instruction) ==
    /\ IF i < end THEN instruction /\ i' = i + LINE /\ UNCHANGED <<call, start, end, meanwhile>>
       ELSE (IF Last THEN instruction ELSE UNCHANGED <<memory, cache>>) /\ Returned
    /\ UNCHANGED <<icache, latest, waived, loaded>>

FlushTurn ==
    /\ call = "flush" /\ Turn(ALT_FLUSH_DATA(i))
    /\ published' = IF i < end THEN published
                    ELSE (published \cup Touched(start, end)) \ (meanwhile \cup waived)

InvalidateTurn == /\ call = "invalidate" /\ Turn(ALT_INVALIDATE_DATA(i)) /\ UNCHANGED published

\* By index, every set once; the lines stay in the cache.
CleanTurn ==
    /\ call = "clean"
    /\ IF i < end
       THEN /\ memory' = WrittenBack(i) /\ cache' = [cache EXCEPT ![i].dirty = FALSE]
            /\ i' = i + 1 /\ UNCHANGED call
       ELSE call' = "icache" /\ UNCHANGED <<i, memory, cache>>
    /\ UNCHANGED <<icache, start, end, latest, meanwhile, waived, published, loaded>>

\* alt_icache_flush_all(), which alt_load() calls after alt_dcache_flush_all().
alt_icache_flush_all ==
    /\ call = "icache" /\ Returned /\ icache' = -1
    /\ loaded' = Lines \ (meanwhile \cup waived)
    /\ UNCHANGED <<memory, cache, latest, waived, published>>

Next == \/ Fetch \/ Store \/ HandlerStores
        \/ alt_dcache_flush \/ alt_dcache_flush_no_writeback \/ alt_dcache_flush_all
        \/ alt_ecc_exception_register \/ FlushTurn \/ InvalidateTurn \/ CleanTurn
        \/ alt_icache_flush_all

Spec == Init /\ [][Next]_vars

-----------------------------------------------------------------------------
\* No store is lost but in the lines whose contents alt_dcache_flush_no_writeback()
\* was told to give up and, when its range does not start on a line, the line its
\* index has come to behind the range.  What alt_dcache_flush() was given is in
\* memory when it returns, but for what a handler stored meanwhile, so the ECC
\* handler is found there.  And code loaded before alt_load() flushes both caches
\* is the code that is fetched.
FlushesReachMemory ==
    /\ \A l \in Lines \ waived : latest[l] = IF Set(l).line = l THEN Set(l).version ELSE memory[l]
    /\ \A l \in published : memory[l] = latest[l]
    /\ CodeLine \in loaded => icache \in {-1, latest[CodeLine]}
=============================================================================
