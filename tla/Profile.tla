------------------------------- MODULE Profile -------------------------------
(***************************************************************************)
(* The profiler: mcount (alt_mcount.S), which every instrumented function  *)
(* calls on entry, be it main's or a handler's; __mcount_record() and the  *)
(* sampler behind it (alt_gmon.c); and sbrk() (alt_sbrk.c), from which they *)
(* and malloc() take memory.                                               *)
(*                                                                         *)
(* A step of main is one access to what a handler may change.  A handler   *)
(* runs to its end before main goes on, so a call it makes is one step.    *)
(***************************************************************************)
EXTENDS Integers, Sequences, FiniteSets

CONSTANTS
    Arcs,            \* the calls that happen: [self, from]
    EntrySize, ArcSize,          \* sizeof(struct mcount_fn_entry), ... mcount_fn_arc
    Slab,            \* MCOUNT_SLAB_INCREMENT
    TextSize,        \* etext - stext
    BytesPerBucket,  \* PCSAMPLE_BYTES_PER_BUCKET
    HeapLimit,       \* __alt_heap_limit - __alt_heap_start
    Increments,      \* what malloc() asks sbrk() for
    MaxBlocks,       \* bound: malloc() asks while fewer blocks are out
    MaxCalls,        \* bound: instrumented calls of main
    MaxIsrCalls      \* bound: interrupts

\* What the constants may be.
ProfileAssumption ==
    /\ \A n \in {EntrySize, ArcSize, Slab} : n \in Nat \ {0} /\ n % 4 = 0
    /\ EntrySize <= Slab /\ ArcSize <= Slab
    /\ \A a, b \in Arcs : a.self = b.self /\ a.from = b.from => a = b
    /\ {TextSize, BytesPerBucket} \subseteq Nat \ {0} /\ HeapLimit \in Nat
    /\ Increments \subseteq Nat \ {0} /\ MaxBlocks \in Nat /\ MaxCalls \in Nat /\ MaxIsrCalls \in Nat

NoAddress == -1      \* no address; also what sbrk() answers when it fails

VARIABLES
    on,              \* interrupts are on
    heap_end,        \* static of alt_sbrk.c
    slab_ptr, slab_size,         \* mcount_slab_ptr, mcount_slab_size
    functions,       \* the list of a bucket: [at, self, arcs], the newest first
    need_init, rate, \* pcsample_need_init; alt_ticks_per_second()
    s_pcsamples, starts,         \* the histogram; alarms started
    place,           \* where main is: "" in uninstrumented code
    arc,             \* the call it is recording
    found,           \* addresses main has: of the entry, of the arc, of the next list member
    value,           \* the count it has loaded
    blocks,          \* history: [at, size] that were allocated
    bucket,          \* history: the bucket of the last sample
    started, done,   \* history: calls of each arc begun, and those that ended and count
    isrcalls, maincalls          \* bounds
vars == <<on, heap_end, slab_ptr, slab_size, functions, need_init, rate, s_pcsamples, starts,
          place, arc, found, value, blocks, bucket, started, done, isrcalls, maincalls>>

memory == <<heap_end, slab_ptr, slab_size, blocks>>
sampler == <<need_init, rate, s_pcsamples, starts, bucket>>
recording == <<arc, found, value>>
history == <<started, done, isrcalls, maincalls>>
Nothing == [entry |-> NoAddress, arc |-> NoAddress, next |-> <<>>]

Init == /\ on = TRUE /\ heap_end = 1 /\ slab_ptr = 0 /\ slab_size = 0
        /\ functions = <<>>
        /\ need_init = TRUE /\ rate = 0 /\ s_pcsamples = NoAddress /\ starts = 0 /\ bucket = NoAddress
        /\ place = "" /\ arc \in Arcs /\ found = Nothing /\ value = 0
        /\ blocks = {} /\ started = [a \in Arcs |-> 0] /\ done = [a \in Arcs |-> 0]
        /\ isrcalls = 0 /\ maincalls = 0

-----------------------------------------------------------------------------
(***************************************************************************)
(* Memory, as functions from [heap_end, slab_ptr, slab_size, blocks] to    *)
(* the same with the address allotted.                                     *)
(***************************************************************************)
Allocator == [heap |-> heap_end, ptr |-> slab_ptr, left |-> slab_size, blocks |-> blocks, at |-> NoAddress]
Store(m) == /\ heap_end' = m.heap /\ slab_ptr' = m.ptr /\ slab_size' = m.left
            /\ blocks' = m.blocks

\* Mutant: data is not aligned on a word boundary.
Aligned_Not(n) == n
Aligned(n) == ((n + 3) \div 4) * 4

\* The end is aligned even when the request is refused.
sbrk(m, incr) ==
    LET start == Aligned(m.heap)
    IN IF start + incr > HeapLimit
       THEN [m EXCEPT !.heap = start, !.at = NoAddress]
       ELSE [m EXCEPT !.heap = start + incr, !.at = start]

\* A block for the history: of the size that the caller will use.
Taken(m, size) == [m EXCEPT !.blocks = @ \cup {[at |-> m.at, size |-> size]}]

\* What sbrk() answers is not looked at.
mcount_allocate(m, size) ==
    LET new == sbrk(m, Slab)
        slab == IF size > m.left THEN [new EXCEPT !.ptr = new.at, !.left = Slab] ELSE m
    IN Taken([slab EXCEPT !.at = slab.ptr, !.ptr = @ + size, !.left = @ - size], size)

\* malloc() asks for more, with interrupts off in the call.
Malloc == /\ place = "" /\ Cardinality(blocks) < MaxBlocks
          /\ \E incr \in Increments : LET m == sbrk(Allocator, incr)
                                      IN Store(IF m.at = NoAddress THEN m ELSE Taken(m, incr))
          /\ UNCHANGED <<on, functions, sampler, place, recording, history>>

-----------------------------------------------------------------------------
(***************************************************************************)
(* Lists.  An entry and an arc are found by their address.                 *)
(***************************************************************************)
First(places) == IF places = {} THEN 0
                 ELSE CHOOSE i \in places : \A j \in places : i <= j
EntryOf(fns, self) == First({i \in DOMAIN fns : fns[i].self = self})
EntryAt(fns, at) == First({i \in DOMAIN fns : fns[i].at = at})
ArcOf(arcs, from) == First({i \in DOMAIN arcs : arcs[i].from = from})
ArcAt(arcs, at) == First({i \in DOMAIN arcs : arcs[i].at = at})
NewEntry(at, self) == [at |-> at, self |-> self, arcs |-> <<>>]
NewArc(at, from) == [at |-> at, from |-> from, count |-> 1]

\* niosv_pcsample_init; with no tick rate it is tried again at the next call.
PcSamples == TextSize \div BytesPerBucket
SamplesSize == 2 * PcSamples

\* A buffer that could not be had is -1, which is not 0, and is cleared as well.
SampleBuffer(m) == Taken(sbrk(m, SamplesSize), SamplesSize)

Wild(m) == \E b \in m.blocks : b.at < 0

\* The whole of mcount, for a handler.
Recorded(a) ==
    LET i == EntryOf(functions, a.self)
        known == i # 0 /\ ArcOf(functions[i].arcs, a.from) # 0
        starting == ~known /\ need_init /\ rate # 0
        m0 == IF starting THEN SampleBuffer(Allocator) ELSE Allocator
        m1 == IF i = 0 THEN mcount_allocate(m0, EntrySize) ELSE m0
        fns == IF i = 0 THEN <<NewEntry(m1.at, a.self)>> \o functions ELSE functions
        e == EntryOf(fns, a.self)
        m2 == mcount_allocate(m1, ArcSize)
    IN IF known
       THEN /\ functions' = [functions EXCEPT ![i].arcs[ArcOf(functions[i].arcs, a.from)].count = @ + 1]
            /\ UNCHANGED <<memory, sampler, place>>
       ELSE /\ functions' = [fns EXCEPT ![e].arcs = <<NewArc(m2.at, a.from)>> \o @]
            /\ Store(m2)
            /\ need_init' = (need_init /\ ~starting)
            /\ starts' = IF starting THEN starts + 1 ELSE starts
            /\ s_pcsamples' = IF starting THEN m0.at ELSE s_pcsamples
            /\ place' = IF Wild(m2) THEN "wild" ELSE place
            /\ UNCHANGED <<rate, bucket>>

-----------------------------------------------------------------------------
At(p) == place = p
Enter(p) == place' = p

\* main calls an instrumented function: the list of functions is searched, ...
M_Call == /\ At("") /\ \E a \in Arcs : /\ arc' = a
                                       /\ started' = [started EXCEPT ![a] = @ + 1]
          /\ maincalls < MaxCalls /\ maincalls' = maincalls + 1
          /\ Enter("m_entry") /\ found' = Nothing /\ value' = 0
          /\ UNCHANGED <<on, memory, functions, sampler, done, isrcalls>>

\* ... from its head, as it is now: members are only added before it; ...
M_Entry == /\ At("m_entry")
           /\ LET i == EntryOf(functions, arc.self)
              IN /\ found' = [found EXCEPT !.entry = IF i = 0 THEN NoAddress ELSE functions[i].at]
                 /\ Enter(IF i = 0 THEN "r_init" ELSE "m_arc")
           /\ UNCHANGED <<on, memory, functions, sampler, arc, value, history>>

\* ... then the list of its arcs; ...
M_Arc == /\ At("m_arc")
         /\ LET arcs == functions[EntryAt(functions, found.entry)].arcs
                j == ArcOf(arcs, arc.from)
            IN /\ found' = [found EXCEPT !.arc = IF j = 0 THEN NoAddress ELSE arcs[j].at]
               /\ Enter(IF j = 0 THEN "r_init" ELSE "m_load")
         /\ UNCHANGED <<on, memory, functions, sampler, arc, value, history>>

Count(fns) == LET e == EntryAt(fns, found.entry) IN <<e, ArcAt(fns[e].arcs, found.arc)>>

\* ... and the count is loaded, and stored.
M_Load == /\ At("m_load")
          /\ LET c == Count(functions) IN value' = functions[c[1]].arcs[c[2]].count
          /\ Enter("m_store")
          /\ UNCHANGED <<on, memory, functions, sampler, arc, found, history>>

Return == Enter("") /\ done' = [done EXCEPT ![arc] = @ + 1]

M_Store == /\ At("m_store")
           /\ LET c == Count(functions)
              IN functions' = [functions EXCEPT ![c[1]].arcs[c[2]].count = value + 1]
           /\ Return
           /\ UNCHANGED <<on, memory, sampler, recording, started, isrcalls, maincalls>>

-----------------------------------------------------------------------------
(***************************************************************************)
(* __mcount_record for main.                                               *)
(***************************************************************************)
R_Test == /\ At("r_init")
          /\ Enter(IF need_init THEN "r_clear" ELSE "r_disable")
          /\ UNCHANGED <<on, memory, functions, sampler, recording, history>>

\* pcsample_need_init is false while the sampler is being started.
R_Clear == /\ At("r_clear")
           /\ need_init' = FALSE
           /\ Enter("r_start")
           /\ UNCHANGED <<on, memory, functions, rate, s_pcsamples, starts, bucket, recording, history>>

R_Start == /\ At("r_start")
           /\ need_init' = (rate = 0)
           /\ LET m == SampleBuffer(Allocator)
              IN IF rate = 0 THEN Enter("r_disable") /\ UNCHANGED <<memory, s_pcsamples, starts>>
                 ELSE /\ Store(m) /\ s_pcsamples' = m.at /\ starts' = starts + 1
                      /\ Enter(IF Wild(m) THEN "wild" ELSE "r_disable")
           /\ UNCHANGED <<on, functions, rate, bucket, recording, history>>

\* Mutant: interrupts stay on.
R_Disable_Not == /\ At("r_disable")
                 /\ Enter(IF found.entry = NoAddress THEN "r_entry" ELSE "r_arc")
                 /\ UNCHANGED <<on, memory, functions, sampler, recording, history>>

R_Disable == /\ At("r_disable")
             /\ on' = FALSE
             /\ Enter(IF found.entry = NoAddress THEN "r_entry" ELSE "r_arc")
             /\ UNCHANGED <<memory, functions, sampler, recording, history>>

\* A new entry: memory, its fields with the head of the list, the new head.
R_Entry == /\ At("r_entry")
           /\ LET m == mcount_allocate(Allocator, EntrySize)
              IN /\ Store(m)
                 /\ found' = [found EXCEPT !.entry = m.at, !.next = functions]
                 /\ Enter(IF Wild(m) THEN "wild" ELSE "r_head")
           /\ UNCHANGED <<on, functions, sampler, arc, value, history>>

R_Head == /\ At("r_head")
          /\ functions' = <<NewEntry(found.entry, arc.self)>> \o found.next
          /\ Enter("r_arc")
          /\ UNCHANGED <<on, memory, sampler, recording, history>>

\* A new arc likewise.
R_Arc == /\ At("r_arc")
         /\ LET m == mcount_allocate(Allocator, ArcSize)
            IN /\ Store(m)
               /\ found' = [found EXCEPT !.arc = m.at,
                               !.next = functions[EntryAt(functions, found.entry)].arcs]
               /\ Enter(IF Wild(m) THEN "wild" ELSE "r_link")
         /\ UNCHANGED <<on, functions, sampler, arc, value, history>>

R_Link == /\ At("r_link")
          /\ functions' = [functions EXCEPT ![EntryAt(functions, found.entry)].arcs =
                              <<NewArc(found.arc, arc.from)>> \o found.next]
          /\ Enter("r_enable")
          /\ UNCHANGED <<on, memory, sampler, recording, history>>

R_Enable == /\ At("r_enable")
            /\ on' = TRUE
            /\ Return
            /\ UNCHANGED <<memory, functions, sampler, recording, started, isrcalls, maincalls>>

-----------------------------------------------------------------------------
(***************************************************************************)
(* Interrupts.                                                             *)
(***************************************************************************)
Interrupt == on /\ place # "wild" /\ isrcalls < MaxIsrCalls /\ isrcalls' = isrcalls + 1

\* main has loaded the count that the handler is going to increment.
Undone(a) == /\ At("m_store") /\ a = arc
             /\ LET i == EntryOf(functions, a.self)
                    j == ArcOf(functions[i].arcs, a.from)
                IN functions[i].arcs[j].at = found.arc

\* A handler calls an instrumented function.
I_Call == /\ Interrupt
          /\ \E a \in Arcs :
                /\ Recorded(a)
                /\ started' = [started EXCEPT ![a] = @ + 1]
                /\ done' = IF Undone(a) THEN done ELSE [done EXCEPT ![a] = @ + 1]
          /\ UNCHANGED <<on, recording, maincalls>>

\* The timer sets the tick rate when it is initialised, by main.
SetRate == /\ At("") /\ rate = 0
           /\ rate' = 1
           /\ UNCHANGED <<on, memory, functions, need_init, s_pcsamples, starts, bucket, place,
                          recording, history>>

\* niosv_pcsample: main was somewhere in the text.
Sample == /\ Interrupt /\ starts > 0
          /\ \E pc \in {0, TextSize - 1} :
                bucket' = pc \div BytesPerBucket
          /\ UNCHANGED <<on, memory, functions, need_init, rate, s_pcsamples, starts, place,
                          recording, started, done, maincalls>>

Next == \/ Malloc \/ SetRate
        \/ M_Call \/ M_Entry \/ M_Arc \/ M_Load \/ M_Store
        \/ R_Test \/ R_Clear \/ R_Start \/ R_Disable \/ R_Entry \/ R_Head \/ R_Arc \/ R_Link \/ R_Enable
        \/ I_Call \/ Sample

Spec == Init /\ [][Next]_vars

-----------------------------------------------------------------------------
\* The copies of an arc, and what they add up to.
Sum(s) == LET sum[k \in 0 .. Len(s)] == IF k = 0 THEN 0 ELSE sum[k - 1] + s[k]
          IN sum[Len(s)]
Within(e, a) == IF e.self # a.self THEN 0
                ELSE Sum([j \in DOMAIN e.arcs |->
                             IF e.arcs[j].from = a.from THEN e.arcs[j].count ELSE 0])
Total(a) == Sum([i \in DOMAIN functions |-> Within(functions[i], a)])

\* However main and the handlers interleave, an arc or a function may be listed
\* twice, but no call is missing from the sum over the copies of its arc, and none
\* is counted that was not made, except this: a handler's call is undone by main
\* if main has just loaded the same count.
CallsCounted == \A a \in Arcs : done[a] <= Total(a) /\ Total(a) <= started[a]

\* What sbrk() and the slab allocator hand out is aligned, lies in the heap and
\* does not overlap, until the heap is exhausted: then a block may be at -1, and the
\* slab goes on from there.  A sample is counted in the histogram, or in the bucket
\* behind it if the text does not end with a bucket.
BlocksDisjoint ==
    /\ place # "wild" =>
          /\ \A b \in blocks : b.at >= 0 /\ b.at % 4 = 0 /\ b.at + b.size <= HeapLimit
          /\ \A b, c \in blocks : b # c => b.at + b.size <= c.at \/ c.at + c.size <= b.at
    /\ bucket <= PcSamples - (IF TextSize % BytesPerBucket = 0 THEN 1 ELSE 0)
    /\ place = "wild" => heap_end + Slab > HeapLimit \/ heap_end + SamplesSize > HeapLimit
=============================================================================
