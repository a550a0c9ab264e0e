-------------------------------- MODULE Dfl --------------------------------
(***************************************************************************)
(* The device feature list walker (intel_fpga_api_cmn_dfl.c) and the table *)
(* of interfaces it fills (intel_fpga_api_cmn_inf.c, _niosv.c).            *)
(*                                                                         *)
(* The hardware describes its interfaces in lists of headers; a header has *)
(* parameter blocks, and a block of branch identifier leads to a list of   *)
(* further interfaces.  Interfaces are numbered in the order of the walk,  *)
(* so that a hierarchy is the function from each one to its parent.        *)
(***************************************************************************)
EXTENDS Integers, Sequences, FiniteSets, Functions

CONSTANTS
    MaxInterfaces,   \* bound: interfaces of the hardware
    Increment,       \* DFH_PARENT_STACK_INCR_SIZE
    MaxScans,        \* bound: calls of fpga_platform_init
    NullBlocks,      \* may a parameter list end in a block without data? a subset of BOOLEAN
    Absolute         \* the interfaces whose addresses are absolute

\* What the constants may be.
DflAssumption == /\ MaxInterfaces \in Nat \ {0} /\ Increment \in Nat \ {0, 1}
                 /\ MaxScans \in Nat /\ NullBlocks \subseteq BOOLEAN
                 /\ Absolute \subseteq Nat /\ MaxInterfaces <= 60

VARIABLES
    rom,             \* the hierarchy, and how it is written down
    walk,            \* "idle", "count", "collect", "done", "overrun"
    frames,          \* the calls of deal_with_interface_at_current_level
    head, top, size, \* dfh_parent_stack
    scanned,         \* s_scanned_interface_count
    index,           \* s_interface_index
    table,           \* g_common_fpga_interface_info_vec
    scans            \* bound
stack == <<head, top, size>>
vars == <<rom, walk, frames, stack, scanned, index, table, scans>>

-----------------------------------------------------------------------------
(***************************************************************************)
(* The hierarchy.                                                          *)
(***************************************************************************)
Least(S) == CHOOSE x \in S : \A y \in S : x <= y
Greatest(S) == CHOOSE x \in S : \A y \in S : x >= y

Interfaces(r) == 0 .. Cardinality(DOMAIN r.parent) - 1

\* parent[i] is -1 or before i, and a subtree is not resumed once left.
Hierarchy(parent) ==
    \A i \in DOMAIN parent : /\ parent[i] < i
                             /\ \A j \in DOMAIN parent : parent[i] < j /\ j < i => parent[j] >= parent[i]

Children(r, i) == {j \in Interfaces(r) : r.parent[j] = i}

\* A list starts at the first child, and where a second branch was taken.
StartsList(r, j) == j = Least(Children(r, r.parent[j])) \/ j \in r.forked
EndsList(r, i) == LET later == {j \in Children(r, r.parent[i]) : j > i}
                  IN later # {} => StartsList(r, Least(later))
Following(r, i) == Least({j \in Children(r, r.parent[i]) : j > i})

\* The blocks of interface i: an ordinary one if it has any, and the branches,
\* which are known by the interface they lead to.
Other == -1
Ascending(S) == CHOOSE s \in Injection(1 .. Cardinality(S), S) :
                    \A j, k \in DOMAIN s : j < k => s[j] < s[k]
Blocks(r, i) == (IF i \in r.plain THEN <<Other>> ELSE <<>>)
                \o Ascending({j \in Children(r, i) : StartsList(r, j)})

Roms == UNION {{[parent |-> p, forked |-> f, plain |-> {0}, null |-> b] :
                   p \in {q \in [0 .. n - 1 -> -1 .. n - 2] : Hierarchy(q)},
                   f \in {g \in SUBSET (1 .. n - 1) : Cardinality(g) <= 1},
                   b \in NullBlocks} : n \in 1 .. MaxInterfaces}

\* The list at the start of the walk is one list.
Written == \A j \in rom.forked : rom.parent[j] # -1

-----------------------------------------------------------------------------
(***************************************************************************)
(* How the hardware writes it down: 256 bytes of 64-bit words for each     *)
(* interface, a word being the record of its fields.                       *)
(***************************************************************************)
At(i) == 256 * (i + 1)
Registers(i) == 4 * i

\* Bit 0 of an address marks it as absolute; else it counts from the header.
Address(i, to) == IF i \in Absolute THEN to + 1 ELSE to - At(i)

BranchId == 12
BlockId(b) == IF b = Other THEN 7 ELSE BranchId
BlockData(i, b) == IF b = Other THEN <<i>> ELSE <<Address(i, At(b)), 256>>

\* The last block says its size, another one where the next begins; the list may
\* also end in a block without data.
BlockWords(r, i, k) ==
    LET b == Blocks(r, i)[k]
        last == k = Len(Blocks(r, i)) /\ ~r.null
        data == BlockData(i, b)
    IN <<[version |-> k, param_id |-> BlockId(b), eop |-> last,
          next |-> Len(data) + (IF last THEN 0 ELSE 1)]>> \o data

Words(r, i) ==
    LET n == Len(Blocks(r, i))
        parameters[k \in 0 .. n] ==
            IF k = 0 THEN <<>> ELSE parameters[k - 1] \o BlockWords(r, i, k)
    IN <<[eol |-> EndsList(r, i),
          next |-> IF EndsList(r, i) THEN 0 ELSE At(Following(r, i)) - At(i)],
         i + 10, i + 20, Address(i, Registers(i)),
         [instance_id |-> i, group_id |-> i + 1, has_params |-> n > 0]>>
       \o parameters[n]
       \o <<[version |-> 0, param_id |-> 0, eop |-> TRUE, next |-> 0]>>

(***************************************************************************)
(* How the walker reads it.                                                *)
(***************************************************************************)
common_dfl_read_64(a) == Words(rom, (a \div 256) - 1)[((a % 256) \div 8) + 1]

is_eol(dfh) == common_dfl_read_64(dfh).eol
get_next_dfh_addr(dfh) == dfh + common_dfl_read_64(dfh).next
get_x_feature_guid_128(dfh) == <<common_dfl_read_64(dfh + 16), common_dfl_read_64(dfh + 8)>>
get_instance_id(dfh) == common_dfl_read_64(dfh + 32).instance_id
get_group_id(dfh) == common_dfl_read_64(dfh + 32).group_id
has_params(dfh) == common_dfl_read_64(dfh + 32).has_params
get_base_address(dfh) == LET csr_addr == common_dfl_read_64(dfh + 24)
                         IN IF csr_addr % 2 = 1 THEN csr_addr - 1 ELSE dfh + csr_addr

get_first_param_header_addr(dfh) == dfh + 40
is_last_param_block(at) == common_dfl_read_64(at).eop
get_next_param_byte_offset(at) == 8 * common_dfl_read_64(at).next
ListEnds(at) == is_last_param_block(at) /\ get_next_param_byte_offset(at) = 0

\* param_data_allocate and param_data_copy: of the last block the offset is the
\* size of the data, of another one the header counts.
param_data(at) ==
    LET bytes == get_next_param_byte_offset(at) - (IF is_last_param_block(at) THEN 0 ELSE 8)
    IN [w \in 1 .. bytes \div 8 |-> common_dfl_read_64(at + 8 * w)]

\* set_parameter_properties.  Making room for the next block before it is read,
\* it counts the block without data too, as one of zeros.
Zeros == [version |-> 0, param_id |-> 0, data |-> <<>>]
set_parameter_properties(dfh) ==
    LET first == get_first_param_header_addr(dfh)
        from[at \in {a \in first .. dfh + 255 : a % 8 = 0}] ==
            IF ListEnds(at) THEN IF at = first THEN <<>> ELSE <<Zeros>>
            ELSE <<[version |-> common_dfl_read_64(at).version,
                    param_id |-> common_dfl_read_64(at).param_id, data |-> param_data(at)]>>
                 \o (IF is_last_param_block(at) THEN <<>>
                     ELSE from[at + get_next_param_byte_offset(at)])
    IN IF has_params(dfh) THEN from[first] ELSE <<>>

Init == /\ rom \in Roms /\ Written
        /\ walk = "idle" /\ frames = <<>>
        /\ head = <<>> /\ top = 0 /\ size = 0      \* not DFH_PARENT_STACK_default
        /\ scanned = 0 /\ index = 0 /\ table = <<>> /\ scans = 0

-----------------------------------------------------------------------------
(***************************************************************************)
(* The stack.  Cells beyond its size are kept to see what is written there.*)
(***************************************************************************)
dfh_parent_stack_push(data) ==
    LET grown == IF top = size THEN size + Increment ELSE size
        old(i) == IF i \in DOMAIN head /\ i < size THEN head[i] ELSE 0
    IN /\ size' = grown
       /\ top' = top + 1
       /\ head' = [i \in 0 .. Greatest({grown - 1, top + 1}) |->
                      IF i = top + 1 THEN data ELSE old(i)]

\* Mutant: the entry stays when its list has been walked.
dfh_parent_stack_pop_Not == UNCHANGED stack

dfh_parent_stack_pop == top' = top - 1 /\ UNCHANGED <<head, size>>

\* What set_interface_properties looks at, after a push.
dfh_parent_stack_peek == head'[top']

-----------------------------------------------------------------------------
(***************************************************************************)
(* The walk, twice: to count the interfaces, and to fill the table.        *)
(***************************************************************************)
set_interface_properties(dfh) ==
    [base_address |-> get_base_address(dfh), guid |-> get_x_feature_guid_128(dfh),
     instance_id |-> get_instance_id(dfh), group_id |-> get_group_id(dfh),
     dfh_parent |-> dfh_parent_stack_peek, parameters |-> set_parameter_properties(dfh),
     is_mmio_opened |-> FALSE, is_interrupt_opened |-> FALSE]

\* A call starts at the first parameter block, if there is one.
NoBlock == 0
Call(dfh) == [dfh |-> dfh,
              block |-> IF has_params(dfh) /\ ~ListEnds(get_first_param_header_addr(dfh))
                        THEN get_first_param_header_addr(dfh) ELSE NoBlock]

\* deal_with_interface_at_current_level(dfh), until it looks at the blocks.
Visit(dfh, callers) ==
    /\ frames' = Append(callers, Call(dfh))
    /\ IF walk = "count"
       THEN scanned' = scanned + 1 /\ UNCHANGED <<index, table>>
       ELSE /\ index' = index + 1
            /\ table' = [table EXCEPT ![index + 1] = set_interface_properties(dfh)]
            /\ UNCHANGED scanned

\* common_fpga_interface_info_vec_resize of an empty table: entries of zeros.
Cleared(n) == [i \in 0 .. n - 1 |-> <<>>]

Current == frames[Len(frames)]
Callers == SubSeq(frames, 1, Len(frames) - 1)
Walking == walk \in {"count", "collect"} /\ frames # <<>>
BlocksLeft == Current.block # NoBlock
IsBranch == common_dfl_read_64(Current.block).param_id = BranchId

\* The rest of the loop of process_param_list_for_known_param_id.
NextBlock(f) ==
    LET at == f[Len(f)].block
        next == at + get_next_param_byte_offset(at)
    IN [f EXCEPT ![Len(f)].block = IF is_last_param_block(at) \/ ListEnds(next) THEN NoBlock
                                   ELSE next]

\* The low bits of the address of a list are flags.
branch_dfl_64_data == common_dfl_read_64(Current.block + 8)
next_level_dfl_start_address ==
    LET to == (branch_dfl_64_data \div 8) * 8
    IN IF branch_dfl_64_data % 2 = 1 THEN to ELSE Current.dfh + to

first_dfh_addr == At(0)

\* common_dfl_scan_multi_interfaces: the old table is given up.
StartCount == /\ walk \in {"idle", "done"} /\ scans < MaxScans
              /\ walk' = "count" /\ scans' = scans + 1
              /\ dfh_parent_stack_push(-1)
              /\ table' = Cleared(0) /\ scanned' = 1
              /\ frames' = <<Call(first_dfh_addr)>>
              /\ UNCHANGED <<rom, index>>

\* The table gets the size counted, and is filled with zeros.
StartCollect == /\ walk = "count" /\ frames = <<>>
                /\ walk' = "collect"
                /\ dfh_parent_stack_push(-1)
                /\ frames' = <<Call(first_dfh_addr)>>
                /\ index' = 0
                /\ table' = [Cleared(scanned) EXCEPT ![0] = set_interface_properties(first_dfh_addr)]
                /\ UNCHANGED <<rom, scanned, scans>>

\* handle_branch_param_id.  The interface is taken from the counter, which has
\* moved on if the same interface had a branch before.
handle_branch_param_id == /\ Walking /\ BlocksLeft /\ IsBranch
                          /\ dfh_parent_stack_push(index)
                          /\ IF top' >= size'
                             THEN walk' = "overrun" /\ UNCHANGED <<frames, scanned, index, table>>
                             ELSE walk' = walk /\ Visit(next_level_dfl_start_address, frames)
                          /\ UNCHANGED <<rom, scans>>

OtherBlock == /\ Walking /\ BlocksLeft /\ ~IsBranch
              /\ frames' = NextBlock(frames)
              /\ UNCHANGED <<rom, walk, stack, scanned, index, table, scans>>

NextInterface == /\ Walking /\ ~BlocksLeft /\ ~is_eol(Current.dfh)
                 /\ UNCHANGED <<rom, walk, stack, scans>>
                 /\ Visit(get_next_dfh_addr(Current.dfh), Callers)

\* The end of a list: the caller goes on with its next block.
EndOfList == /\ Walking /\ ~BlocksLeft /\ is_eol(Current.dfh)
             /\ dfh_parent_stack_pop
             /\ frames' = IF Callers = <<>> THEN <<>> ELSE NextBlock(Callers)
             /\ UNCHANGED <<rom, walk, scanned, index, table, scans>>

\* dfh_parent_stack_resize(0): the memory is freed, the top stays.
EndOfScan == /\ walk = "collect" /\ frames = <<>>
             /\ walk' = "done" /\ head' = <<>> /\ size' = 0
             /\ UNCHANGED <<rom, frames, top, scanned, index, table, scans>>

-----------------------------------------------------------------------------
\* The program opens an interface, which must not be open, and closes it.
Opening(i, flag) == /\ walk = "done" /\ i \in DOMAIN table
                    /\ table' = [table EXCEPT ![i][flag] = ~@]
                    /\ UNCHANGED <<rom, walk, frames, stack, scanned, index, scans>>

fpga_open(i) == ~table[i].is_mmio_opened /\ Opening(i, "is_mmio_opened")
fpga_close(i) == table[i].is_mmio_opened /\ Opening(i, "is_mmio_opened")
fpga_interrupt_open(i) == ~table[i].is_interrupt_opened /\ Opening(i, "is_interrupt_opened")
fpga_interrupt_close(i) == table[i].is_interrupt_opened /\ Opening(i, "is_interrupt_opened")

fpga_platform_cleanup == /\ walk = "done" /\ table # <<>>
                         /\ table' = Cleared(0) /\ walk' = "idle"
                         /\ UNCHANGED <<rom, frames, stack, scanned, index, scans>>

Scan == \/ StartCount \/ StartCollect \/ handle_branch_param_id \/ OtherBlock
        \/ NextInterface \/ EndOfList \/ EndOfScan

Next == \/ Scan \/ fpga_platform_cleanup
        \/ \E i \in DOMAIN table : /\ walk = "done"
                                   /\ \/ fpga_open(i) \/ fpga_close(i)
                                      \/ fpga_interrupt_open(i) \/ fpga_interrupt_close(i)

Spec == Init /\ [][Next]_vars

-----------------------------------------------------------------------------
(***************************************************************************)
(* Properties.                                                             *)
(***************************************************************************)
Deepest == LET d[i \in DOMAIN rom.parent] ==
                 IF rom.parent[i] = -1 THEN 0 ELSE 1 + d[rom.parent[i]]
         IN Greatest(Range(d))

\* What the hierarchy says of interface i.
Described(i) ==
    LET blocks == [k \in 1 .. Len(Blocks(rom, i)) |->
                      [version |-> k, param_id |-> BlockId(Blocks(rom, i)[k]),
                       data |-> BlockData(i, Blocks(rom, i)[k])]]
    IN [base_address |-> Registers(i), guid |-> <<i + 20, i + 10>>,
        instance_id |-> i, group_id |-> i + 1,
        parameters |-> IF rom.null /\ blocks # <<>> THEN Append(blocks, Zeros) ELSE blocks]

\* Every interface is found once, in the order of the lists, with its registers,
\* its identity, its parameters and, unless an interface has two branches, with
\* its parent; a second scan finds the same.
TableComplete == /\ DOMAIN table = DOMAIN rom.parent
                 /\ \A i \in DOMAIN table :
                       /\ \A f \in DOMAIN Described(i) : table[i][f] = Described(i)[f]
                       /\ rom.forked = {} => table[i].dfh_parent = rom.parent[i]

\* The scan ends with that table, unless the hierarchy is too deep: the stack of
\* parents holds Increment - 1 levels, and the next entry is written behind it.
DflTableRight == /\ walk = "done" => TableComplete
                 /\ walk = "overrun" => Deepest >= Increment - 1
=============================================================================
