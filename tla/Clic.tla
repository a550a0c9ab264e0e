-------------------------------- MODULE Clic --------------------------------
(***************************************************************************)
(* The Core Level Interrupt Controller calls of sys/alt_irq.h: each packs  *)
(* a field of one platform line into a byte, and the byte into a register  *)
(* that four lines share, reached through MISELECT.  A byte, and a number  *)
(* that goes into one, is the set of its one bits.                         *)
(*                                                                         *)
(* A call is one step: it is not protected against a handler that moves    *)
(* MISELECT under it, and the program must see to that itself.             *)
(***************************************************************************)
EXTENDS Integers, FiniteSets

CONSTANTS
    NIRQ,                \* ALT_NIRQ
    LevelBits,           \* ALT_CLIC_CTL_NUM_LEVEL_BITS
    PriorityBits,        \* ALT_CLIC_CTL_NUM_PRIORITY_BITS
    Irqs,                \* the lines the program configures
    MaxCalls             \* bound

\* What the constants may be.
ClicAssumption == /\ NIRQ \in Nat \ {0} /\ Irqs \subseteq 0 .. NIRQ - 1
                  /\ LevelBits \in Nat /\ PriorityBits \in Nat
                  /\ LevelBits + PriorityBits <= 8 /\ MaxCalls \in Nat

LevelShift == 8 - LevelBits
PriorityShift == 8 - (LevelBits + PriorityBits)

\* Shifts of an alt_u8: what leaves the byte is lost.
ShiftLeft(n, k) == {b + k : b \in n} \cap 0 .. 7
ShiftRight(n, k) == {b - k : b \in {c \in n : c >= k}}

\* The interrupt number of a platform line, its register and its slice.
Id(irq) == irq + 16
Register(irq) == Id(irq) \div 4
Slice(irq) == Id(irq) % 4
Words == 0 .. (NIRQ + 18) \div 4

VARIABLES clicintctl, clicintattr,   \* registers of four bytes each
          clicintie,                 \* enabled interrupts
          asked,                     \* history: the last call
          calls
vars == <<clicintctl, clicintattr, clicintie, asked, calls>>

\* intel_niosv_clic_csrind_init; with 8 level bits 0 would switch a line off.
Init == /\ clicintctl = [w \in Words |-> [s \in 0 .. 3 |-> IF LevelBits = 8 THEN {0} ELSE {}]]
        /\ clicintattr = [w \in Words |-> [s \in 0 .. 3 |-> {}]]
        /\ clicintie = {} /\ asked = [call |-> "none", irq |-> 0, with |-> <<{}, {}>>] /\ calls = 0

-----------------------------------------------------------------------------
\* Mutant: the level is shifted to where the priority goes.
alt_clic_encode_ctl_byte_Low(level, priority) ==
    ShiftLeft(level, PriorityShift) \cup ShiftLeft(priority, PriorityShift)
    \cup 0 .. PriorityShift - 1

\* Level, priority, and ones below.  The mask is as wide as both fields.
alt_clic_encode_ctl_byte(level, priority) ==
    ShiftLeft(level, LevelShift)
    \cup ShiftLeft(priority \cap 0 .. 7 - PriorityShift, PriorityShift)
    \cup 0 .. 7 - (LevelBits + PriorityBits)

alt_clic_ctl_level_bits_of(byte) == ShiftRight(byte, LevelShift)
alt_clic_ctl_priority_bits_of(byte) ==
    ShiftRight(byte \cap 0 .. 7 - LevelBits, PriorityShift)

alt_clic_encode_attr_byte(privilege, invert, edge, vectored) ==
    ShiftLeft(privilege \cap {0, 1}, 6) \cup ShiftLeft(invert \cap {0}, 2)
    \cup ShiftLeft(edge \cap {0}, 1) \cup (vectored \cap {0})

alt_clic_privilege_mode_bits_of(byte) == ShiftRight(byte, 6) \cap {0, 1}
alt_clic_invert_trigger_bit_of(byte) == ShiftRight(byte, 2) \cap {0}
alt_clic_edge_trigger_bit_of(byte) == ShiftRight(byte, 1) \cap {0}
alt_clic_hardware_vectored_bit_of(byte) == byte \cap {0}

alt_clic_get_ctl_byte(irq) == clicintctl[Register(irq)][Slice(irq)]
alt_clic_get_level(irq) == alt_clic_ctl_level_bits_of(alt_clic_get_ctl_byte(irq))
alt_clic_get_priority(irq) == alt_clic_ctl_priority_bits_of(alt_clic_get_ctl_byte(irq))
alt_clic_get_attr_byte(irq) == clicintattr[Register(irq)][Slice(irq)]
alt_clic_get_trigger_mode(irq) == ShiftRight(alt_clic_get_attr_byte(irq), 1) \cap {0, 1}

-----------------------------------------------------------------------------
\* A call of the program.  One with a number that is no platform line returns at
\* once.
Call(call, irq, v, w) == /\ calls < MaxCalls /\ calls' = calls + 1
                         /\ asked' = [call |-> call, irq |-> irq, with |-> <<v, w>>]

Store(reg, irq, byte) == [reg EXCEPT ![Register(irq)][Slice(irq)] = byte]

alt_clic_set_ctl_byte(irq, byte) ==
    /\ clicintctl' = Store(clicintctl, irq, byte)
    /\ UNCHANGED <<clicintattr, clicintie>>

alt_clic_set_level(irq, level) ==
    alt_clic_set_ctl_byte(irq, alt_clic_encode_ctl_byte(level, alt_clic_get_priority(irq)))

alt_clic_set_priority(irq, priority) ==
    alt_clic_set_ctl_byte(irq, alt_clic_encode_ctl_byte(alt_clic_get_level(irq), priority))

alt_clic_set_attr_byte(irq, byte) ==
    /\ clicintattr' = Store(clicintattr, irq, byte)
    /\ UNCHANGED <<clicintctl, clicintie>>

\* The mask of the old mode is shifted by the number of the slice, not to the
\* slice: it clears bits of the first slice.
alt_clic_set_trigger_mode(irq, mode) ==
    LET word == clicintattr[Register(irq)]
        masked == [word EXCEPT ![0] = @ \ {1 + Slice(irq), 2 + Slice(irq)}]
    IN /\ clicintattr' = [clicintattr EXCEPT ![Register(irq)] =
                            [masked EXCEPT ![Slice(irq)] = @ \cup ShiftLeft(mode, 1)]]
       /\ UNCHANGED <<clicintctl, clicintie>>

\* With the CLIC the two calls write clicintie as well as mie.
alt_ic_irq_enable(irq) == /\ clicintie' = clicintie \cup {Id(irq)}
                          /\ UNCHANGED <<clicintctl, clicintattr>>
alt_ic_irq_disable(irq) == /\ clicintie' = clicintie \ {Id(irq)}
                           /\ UNCHANGED <<clicintctl, clicintattr>>

Levels == SUBSET (0 .. LevelBits - 1)
Priorities == SUBSET (0 .. PriorityBits - 1)
\* Machine mode, with every trigger and with or without hardware vectoring.
Attributes == {alt_clic_encode_attr_byte({0, 1}, i, e, v) :
                  i \in SUBSET {0}, e \in SUBSET {0}, v \in SUBSET {0}}

Next == \E irq \in Irqs :
           \/ \E l \in Levels, p \in Priorities :
                 /\ Call("both", irq, l, p)
                 /\ alt_clic_set_ctl_byte(irq, alt_clic_encode_ctl_byte(l, p))
           \/ \E l \in Levels : Call("level", irq, l, {}) /\ alt_clic_set_level(irq, l)
           \/ \E p \in Priorities : Call("priority", irq, p, {}) /\ alt_clic_set_priority(irq, p)
           \/ \E byte \in Attributes : /\ Call("attributes", irq, byte, {})
                                       /\ alt_clic_set_attr_byte(irq, byte)
           \/ \E mode \in SUBSET {0, 1} : /\ Call("trigger", irq, mode, {})
                                          /\ alt_clic_set_trigger_mode(irq, mode)
           \/ Call("enable", irq, {}, {}) /\ alt_ic_irq_enable(irq)
           \/ Call("disable", irq, {}, {}) /\ alt_ic_irq_disable(irq)

Spec == Init /\ [][Next]_vars

-----------------------------------------------------------------------------
Platform == 0 .. NIRQ - 1

Configuration == INSTANCE ClicLines WITH
    Lines <- Platform,
    Lowest <- IF LevelBits = 8 THEN {0} ELSE {},
    level <- [i \in Platform |-> alt_clic_get_level(i)],
    priority <- [i \in Platform |-> alt_clic_get_priority(i)],
    attributes <- [i \in Platform |-> alt_clic_get_attr_byte(i)],
    on <- {i \in Platform : Id(i) \in clicintie}

\* A call changes the field it names of the line it names, and what it set is
\* what the corresponding call reads: no line disturbs the three that share its
\* registers (but for the trigger mode of a line that is not the first of its
\* four), and no field the other fields of its byte.
ClicRefined == Configuration!Spec
=============================================================================
