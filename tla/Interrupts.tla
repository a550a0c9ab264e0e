----------------------------- MODULE Interrupts -----------------------------
(***************************************************************************)
(* Traps and interrupts of the HAL on the Nios V core: the inline calls of *)
(* sys/alt_irq.h, registration (alt_iic_isr_register.c), the dispatcher of *)
(* the direct mode (machine_trap.S, alt_irq_handler.c), and the one of the *)
(* vectored mode (alt_vic_isr_wrapper.c).                                  *)
(*                                                                         *)
(* A step of main is one access to what a handler may look at: the MIE     *)
(* bit, the mie register, a field of the table.  The CPU takes a pending   *)
(* interrupt before the next instruction of main.                          *)
(***************************************************************************)
EXTENDS Integers, Sequences, FiniteSets

CONSTANTS
    NIRQ,            \* ALT_NIRQ: platform lines
    Isrs,            \* handlers, each with a context of the same name
    NULL,            \* no handler
    Modes,           \* ALT_CPU_INT_MODE: "direct", "vic"
    EccPresent,      \* ALT_CPU_ECC_PRESENT with a handler registered
    MaxDepth,        \* bound: nested calls of alt_irq_disable_all
    MaxOps,          \* bound: calls main makes
    MaxRequests      \* bound: requests of the devices, together

ASSUME IrqAssumption == /\ NIRQ \in Nat \ {0} /\ NULL \notin Isrs
                        /\ Modes \subseteq {"direct", "vic"} /\ EccPresent \in BOOLEAN
                        /\ MaxDepth \in Nat /\ MaxOps \in Nat /\ MaxRequests \in Nat

\* Bits of the mie and mip registers, which are the exception codes as well.
NIOSV_SOFTWARE_IRQ == 3
NIOSV_TIMER_IRQ == 7
NIOSV_ECC_EXCEPTION == 19
ILLEGAL_INSTRUCTION == 2

Lines == 0 .. NIRQ - 1

\* Platform line 0 is bit 16; a number beyond the lines is refused.
ALT_REMAP_IRQ_NUM(irq) == IF irq > NIRQ - 1 THEN -1 ELSE irq + 16

Bit(irq) == ALT_REMAP_IRQ_NUM(irq)
Bits == {NIOSV_SOFTWARE_IRQ, NIOSV_TIMER_IRQ} \cup {Bit(i) : i \in Lines}

VARIABLES
    mode,             \* ALT_CPU_INT_MODE of the build
    mie,              \* mstatus.MIE
    mpie,             \* mstatus.MPIE
    enable,           \* the mie register
    pending,          \* the mip register
    alt_irq,          \* alt_irq[i]: handler and context
    timer_handler, software_handler,       \* alt_niosv_*_interrupt_handler
    exception_handler,                     \* what the registered one answers
    pc, irq, isr, contexts,  \* main: its place, its arguments, its saved contexts
    trap,             \* the place in the trap, "none" outside
    cause,            \* mcause: [interrupt, code]
    active,           \* the lines alt_irq_handler found pending
    status,           \* the context a handler saved
    served,           \* history: the last call of a platform handler
    ops, requests     \* bounds

hart == <<mode, mie, mpie, enable, pending>>
tables == <<alt_irq, timer_handler, software_handler, exception_handler>>
main == <<pc, irq, isr, contexts, ops>>
trapvars == <<trap, cause, active, status, served>>
vars == <<hart, tables, main, trapvars, requests>>

NoCall == [line |-> NULL, isr |-> NULL, context |-> NULL]
NoCause == [interrupt |-> FALSE, code |-> 0]

Init == /\ mode \in Modes /\ mie = FALSE /\ mpie = FALSE
        /\ enable = {} /\ pending = {}
        /\ alt_irq = [i \in Lines |-> [handler |-> NULL, context |-> NULL]]
        /\ timer_handler = NULL /\ software_handler = NULL /\ exception_handler = NULL
        /\ pc = "alt_irq_init" /\ irq = 0 /\ isr = NULL /\ contexts = <<>> /\ ops = 0
        /\ trap = "none" /\ cause = NoCause /\ active = {} /\ status = FALSE
        /\ served = NoCall /\ requests = 0

-----------------------------------------------------------------------------
(***************************************************************************)
(* sys/alt_irq.h: single instructions on control and status registers.     *)
(***************************************************************************)
Interruptible == mie /\ pending \cap enable # {}

\* Returns the old MIE; clears it.
alt_irq_disable_all(context) == context = mie /\ mie' = FALSE

\* Mutant: interrupts are on afterwards whatever the context says.
alt_irq_enable_all_Always(context) == mie' = TRUE

\* Only a context in which interrupts were on turns them on again.
alt_irq_enable_all(context) == mie' = (mie \/ context)

alt_ic_irq_enable(i) == enable' = enable \cup {Bit(i)}
alt_ic_irq_disable(i) == enable' = enable \ {Bit(i)}

\* Mutant: lines that ask and are not enabled count as well.
alt_irq_pending_Unmasked == {i \in Lines : Bit(i) \in pending}

\* The platform lines that ask and are enabled.
alt_irq_pending == {i \in Lines : Bit(i) \in pending \cap enable}

-----------------------------------------------------------------------------
\* main runs outside traps.
At(label) == pc = label /\ trap = "none" /\ ~Interruptible
Goto(label) == pc' = label

\* intel_niosv_irq_init, then alt_irq_cpu_enable_interrupts.
AltIrqInit == /\ At("alt_irq_init")
              /\ enable' = {}
              /\ Goto("cpu_enable")
              /\ UNCHANGED <<mode, mie, mpie, pending, tables, irq, isr, contexts, ops,
                             trapvars, requests>>

CpuEnable == /\ At("cpu_enable")
             /\ mie' = TRUE
             /\ Goto("idle")
             /\ UNCHANGED <<mode, mpie, enable, pending, tables, irq, isr, contexts, ops,
                            trapvars, requests>>

\* main makes a call.
Call == At("idle") /\ ops < MaxOps /\ ops' = ops + 1

\* alt_irq_disable_all() around a critical section of the program.
DisableAll == /\ Call /\ Len(contexts) < MaxDepth
              /\ \E context \in BOOLEAN : /\ alt_irq_disable_all(context)
                                          /\ contexts' = Append(contexts, context)
              /\ UNCHANGED <<mode, mpie, enable, pending, tables, pc, irq, isr, trapvars,
                             requests>>

Last(s) == s[Len(s)]
Front(s) == SubSeq(s, 1, Len(s) - 1)

\* ... and alt_irq_enable_all(context) at its end.
EnableAll == /\ At("idle") /\ contexts # <<>>
             /\ alt_irq_enable_all(Last(contexts))
             /\ contexts' = Front(contexts)
             /\ UNCHANGED <<mode, mpie, enable, pending, tables, pc, irq, isr, ops,
                            trapvars, requests>>

\* alt_ic_irq_enable() and alt_ic_irq_disable() of a line that has a handler.
SwitchLine == /\ Call
              /\ \E i \in Lines : /\ alt_irq[i].handler # NULL
                                  /\ alt_ic_irq_enable(i) \/ alt_ic_irq_disable(i)
              /\ UNCHANGED <<mode, mie, mpie, pending, tables, pc, irq, isr, contexts,
                             trapvars, requests>>

-----------------------------------------------------------------------------
(***************************************************************************)
(* alt_ic_isr_register: five steps, the first of which turns interrupts    *)
(* off.  A number beyond the table is refused before the first.            *)
(***************************************************************************)

\* Mutant: the table is updated with interrupts on.
R_Disable_Not(i, k) ==
    /\ Call /\ i < NIRQ
    /\ contexts' = Append(contexts, mie) /\ mie' = mie
    /\ irq' = i /\ isr' = k
    /\ Goto("r_handler")
    /\ UNCHANGED <<mode, mpie, enable, pending, tables, trapvars, requests>>

R_Disable(i, k) ==
    /\ Call /\ i < NIRQ
    /\ \E context \in BOOLEAN : /\ alt_irq_disable_all(context)
                                /\ contexts' = Append(contexts, context)
    /\ irq' = i /\ isr' = k
    /\ Goto("r_handler")
    /\ UNCHANGED <<mode, mpie, enable, pending, tables, trapvars, requests>>

R_Handler == /\ At("r_handler")
             /\ alt_irq' = [alt_irq EXCEPT ![irq].handler = isr]
             /\ Goto("r_context")
             /\ UNCHANGED <<hart, timer_handler, software_handler, exception_handler, irq,
                            isr, contexts, ops, trapvars, requests>>

R_Context == /\ At("r_context")
             /\ alt_irq' = [alt_irq EXCEPT ![irq].context = isr]
             /\ Goto("r_enable")
             /\ UNCHANGED <<hart, timer_handler, software_handler, exception_handler, irq,
                            isr, contexts, ops, trapvars, requests>>

R_Enable == /\ At("r_enable")
            /\ IF isr # NULL THEN alt_ic_irq_enable(irq) ELSE alt_ic_irq_disable(irq)
            /\ Goto("r_restore")
            /\ UNCHANGED <<mode, mie, mpie, pending, tables, irq, isr, contexts, ops,
                           trapvars, requests>>

R_Restore == /\ At("r_restore")
             /\ alt_irq_enable_all(Last(contexts))
             /\ contexts' = Front(contexts)
             /\ Goto("idle") /\ irq' = 0 /\ isr' = NULL
             /\ UNCHANGED <<mode, mpie, enable, pending, tables, ops, trapvars, requests>>

\* The timer's handler is registered, and then its interrupt enabled, by
\* alt_niosv_timer_sc_init; a program may do the same with the software one.
RegisterTimer == /\ Call
                 /\ timer_handler' \in Isrs
                 /\ enable' = enable \cup {NIOSV_TIMER_IRQ}
                 /\ UNCHANGED <<mode, mie, mpie, pending, alt_irq, software_handler,
                                exception_handler, pc, irq, isr, contexts, trapvars, requests>>

RegisterSoftware == /\ Call
                    /\ software_handler' \in Isrs
                    /\ enable' = enable \cup {NIOSV_SOFTWARE_IRQ}
                    /\ UNCHANGED <<mode, mie, mpie, pending, alt_irq, timer_handler,
                                   exception_handler, pc, irq, isr, contexts, trapvars,
                                   requests>>

\* alt_niosv_trigger_msw_interrupt
TriggerSoftware == /\ Call
                   /\ pending' = pending \cup {NIOSV_SOFTWARE_IRQ}
                   /\ UNCHANGED <<mode, mie, mpie, enable, tables, pc, irq, isr, contexts,
                                  trapvars, requests>>

\* alt_instruction_exception_register: a handler that has the instruction
\* skipped, or issued again after it has mended the cause; or none.
RegisterException == /\ Call
                     /\ exception_handler' \in {"skip", "reissue", NULL}
                     /\ UNCHANGED <<hart, alt_irq, timer_handler, software_handler, pc,
                                    irq, isr, contexts, trapvars, requests>>

-----------------------------------------------------------------------------
(***************************************************************************)
(* The trap.  The hart turns interrupts off and remembers MIE; everything  *)
(* until mret runs with them off.                                          *)
(***************************************************************************)
Enter(c) == /\ cause' = c
            /\ mpie' = mie /\ mie' = FALSE
            /\ trap' = "handle_trap"
            /\ UNCHANGED <<mode, enable, pending, tables, pc, irq, isr, contexts, active,
                           status, served, requests>>

T_Interrupt == /\ trap = "none" /\ Interruptible
               /\ \E b \in pending \cap enable : Enter([interrupt |-> TRUE, code |-> b])
               /\ UNCHANGED ops

\* An instruction of main traps: an illegal one, or one that meets an ECC error.
T_Exception == /\ Call
               /\ \E code \in {ILLEGAL_INSTRUCTION} \cup
                              (IF EccPresent THEN {NIOSV_ECC_EXCEPTION} ELSE {}) :
                     Enter([interrupt |-> FALSE, code |-> code])

\* What handle_trap and the entries of the vector table do with each cause: call
\* a handler, look for platform interrupts, return, or stop in the debugger.
TimerDestination == IF timer_handler # NULL \/ mode = "vic" THEN "isr" ELSE "mret"
SoftwareDestination == IF software_handler # NULL THEN "isr" ELSE "mret"
PlatformDestination(i) == CASE mode = "direct" -> "first_pending"
                            [] mode = "vic" /\ alt_irq[i].handler # NULL -> "call"
                            [] OTHER -> "break"

is_ecc_handler_present(code) == EccPresent /\ code = NIOSV_ECC_EXCEPTION

\* The handler's answer moves mepc or leaves it: either way main goes on, or
\* traps again.  The vectored build knows no ECC exception.
ExceptionDestination(code) ==
    IF \/ exception_handler # NULL
       \/ mode = "direct" /\ is_ecc_handler_present(code)
    THEN "mret" ELSE "break"

\* In the vectored mode the hart enters the wrapper of the line by itself.
Wrapper(c) == IF c.interrupt /\ c.code >= 16 /\ mode = "vic" THEN {c.code - 16} ELSE {}

T_Handle ==
    /\ trap = "handle_trap"
    /\ trap' = CASE ~cause.interrupt -> ExceptionDestination(cause.code)
                 [] cause.interrupt /\ cause.code = NIOSV_TIMER_IRQ -> TimerDestination
                 [] cause.interrupt /\ cause.code = NIOSV_SOFTWARE_IRQ -> SoftwareDestination
                 [] OTHER -> PlatformDestination(cause.code - 16)
    /\ active' = Wrapper(cause)
    /\ UNCHANGED <<hart, tables, main, cause, status, served, requests>>

\* alt_irq_handler looks for pending lines.  Finding none at first it would
\* shift its mask for ever.
T_FirstPending == /\ trap = "first_pending"
                  /\ active' = alt_irq_pending
                  /\ trap' = IF active' = {} THEN "endless" ELSE "call"
                  /\ UNCHANGED <<hart, tables, main, cause, status, served, requests>>

T_NextPending == /\ trap = "next_pending"
                 /\ active' = alt_irq_pending
                 /\ trap' = IF active' = {} THEN "mret" ELSE "call"
                 /\ UNCHANGED <<hart, tables, main, cause, status, served, requests>>

Lowest(S) == {i \in S : \A j \in S : i <= j}

\* The lowest active line's handler is called with its context.
T_Call == /\ trap = "call"
          /\ \E i \in Lowest(active) :
                /\ served' = [line |-> i, isr |-> alt_irq[i].handler,
                              context |-> alt_irq[i].context]
                /\ cause' = [cause EXCEPT !.code = Bit(i)]
                /\ trap' = IF alt_irq[i].handler = NULL THEN "wild" ELSE "isr"
          /\ UNCHANGED <<hart, tables, main, active, status, requests>>

\* A handler: a critical section of its own, as the timer's has around
\* alt_tick() and the drivers have around a write to a shared word, ...
T_Isr == /\ trap = "isr"
         /\ \E context \in BOOLEAN : alt_irq_disable_all(context) /\ status' = context
         /\ trap' = "serve"
         /\ UNCHANGED <<mode, mpie, enable, pending, tables, main, cause, active, served,
                        requests>>

\* ... in which it serves its device, which takes its request back, and may
\* register another handler in its place, or none.
T_Serve == /\ trap = "serve"
           /\ pending' = pending \ {cause.code}
           /\ \/ UNCHANGED <<alt_irq, enable>>
              \/ /\ cause.code >= 16
                 /\ alt_irq' = [alt_irq EXCEPT ![served.line] = [handler |-> NULL, context |-> NULL]]
                 /\ alt_ic_irq_disable(served.line)
           /\ trap' = "leave"
           /\ UNCHANGED <<mode, mie, mpie, timer_handler, software_handler,
                          exception_handler, main, cause, active, status, served, requests>>

T_Leave == /\ trap = "leave"
           /\ alt_irq_enable_all(status) /\ status' = FALSE
           /\ trap' = IF mode = "direct" /\ cause.code >= 16 THEN "next_pending" ELSE "mret"
           /\ UNCHANGED <<mode, mpie, enable, pending, tables, main, cause, active, served,
                          requests>>

\* mret: MIE is what it was at the entry.
T_Mret == /\ trap = "mret"
          /\ mie' = mpie /\ mpie' = FALSE
          /\ trap' = "none" /\ cause' = NoCause /\ active' = {}
          /\ UNCHANGED <<mode, enable, pending, tables, main, status, served, requests>>

-----------------------------------------------------------------------------
\* A device asks; its line stays up until its handler has served it.
D_Request == /\ requests < MaxRequests
             /\ requests' = requests + 1
             /\ \E b \in Bits \ (pending \cup {NIOSV_SOFTWARE_IRQ}) :
                   pending' = pending \cup {b}
             /\ UNCHANGED <<mode, mie, mpie, enable, tables, main, trapvars>>

-----------------------------------------------------------------------------
Boot == AltIrqInit \/ CpuEnable
Registering == R_Handler \/ R_Context \/ R_Enable \/ R_Restore
Program == \/ DisableAll \/ SwitchLine \/ RegisterTimer \/ RegisterSoftware
           \/ TriggerSoftware \/ RegisterException
           \/ \E i \in Lines, k \in Isrs \cup {NULL} : R_Disable(i, k)
Trap == \/ T_Interrupt \/ T_Handle \/ T_FirstPending \/ T_NextPending \/ T_Call
        \/ T_Isr \/ T_Serve \/ T_Leave \/ T_Mret

Next == Boot \/ Program \/ EnableAll \/ Registering \/ T_Exception \/ Trap \/ D_Request

\* The CPU executes the calls made and the traps taken, and the program ends
\* its critical sections.
Fairness == WF_vars(Boot) /\ WF_vars(EnableAll) /\ WF_vars(Registering) /\ WF_vars(Trap)

Spec == Init /\ [][Next]_vars
FairSpec == Spec /\ Fairness

-----------------------------------------------------------------------------
(***************************************************************************)
(* Properties.                                                             *)
(***************************************************************************)

\* The type of every variable.
MainLabels == {"alt_irq_init", "cpu_enable", "idle", "r_handler", "r_context", "r_enable",
               "r_restore"}
TrapLabels == {"none", "handle_trap", "first_pending", "next_pending", "call", "isr", "serve",
               "leave", "mret", "break", "endless", "wild"}
Handler == Isrs \cup {NULL}

HartType == /\ mode \in Modes /\ mie \in BOOLEAN /\ mpie \in BOOLEAN
            /\ enable \subseteq Bits /\ pending \subseteq Bits
TableType == /\ alt_irq \in [Lines -> [handler : Handler, context : Handler]]
             /\ timer_handler \in Handler /\ software_handler \in Handler
             /\ exception_handler \in {"skip", "reissue", NULL}
MainType == /\ pc \in MainLabels /\ irq \in Lines /\ isr \in Handler
            /\ contexts \in Seq(BOOLEAN) /\ ops \in Nat
TrapType == /\ trap \in TrapLabels /\ active \subseteq Lines /\ status \in BOOLEAN
            /\ cause \in [interrupt : BOOLEAN, code : Nat] /\ requests \in Nat
TypeOK == HartType /\ TableType /\ MainType /\ TrapType

\* The handler table, as a program sees it that is not in the middle of a
\* registration.
Registered == [i \in Lines |-> IF pc = "r_context" /\ i = irq THEN isr
                               ELSE alt_irq[i].handler]
On == LET on == {i \in Lines : Bit(i) \in enable}
      IN CASE pc \in {"r_context", "r_enable"} /\ isr # NULL -> on \cup {irq}
           [] pc \in {"r_context", "r_enable"} /\ isr = NULL -> on \ {irq}
           [] OTHER -> on

Api == INSTANCE Registry WITH Lines <- Lines, Isrs <- Isrs, None <- NULL,
                              registered <- Registered, on <- On, served <- served

\* Registration is atomic to the interrupts: none is served with half of an
\* entry, by a handler that has been taken away, or by none.
RegistryRefined == Api!Spec

\* Between alt_irq_disable_all() and the alt_irq_enable_all() that restores its
\* context, and in a handler, no interrupt can be taken, however they nest.
CriticalSections == (contexts # <<>> \/ trap # "none") => ~mie

\* A request of a line that is enabled is served, or the line switched off,
\* unless the hart has stopped for an exception nobody handles.
RequestServed == \A i \in Lines : (Bit(i) \in pending \cap enable) ~>
                                     (Bit(i) \notin pending \cap enable \/ trap = "break")
=============================================================================
