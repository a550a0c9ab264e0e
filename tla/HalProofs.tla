------------------------------ MODULE HalProofs -----------------------------
(***************************************************************************)
(* Proofs about the services of the HAL that MCHal puts side by side, for  *)
(* every value of their constants.  A service is proved about in its own   *)
(* terms, and then as the one that moves.                                  *)
(***************************************************************************)
EXTENDS MCHal, DataTheorems

-----------------------------------------------------------------------------
(***************************************************************************)
(* Traps and interrupts: critical sections hold however they nest, and     *)
(* registration is atomic to the interrupts.                               *)
(***************************************************************************)
\* Interrupts are off in traps and while a context is held; the outermost context
\* alone can say that they were on, and a trap taken in a critical section does not
\* turn them on at its end.
Masked == /\ contexts # <<>> \/ trap # "none" => ~mie
          /\ pc \in {"alt_irq_init", "cpu_enable"} => ~mie
          /\ \A k \in 2 .. Len(contexts) : contexts[k] = FALSE
          /\ trap # "none" /\ contexts # <<>> => ~mpie
          /\ trap \in {"serve", "leave"} => status = FALSE

\* Where main is: a registration holds a context, and traps are taken only
\* between calls.
Placed == /\ pc \in {"r_handler", "r_context", "r_enable", "r_restore"} => contexts # <<>>
          /\ pc \in {"alt_irq_init", "cpu_enable"} => contexts = <<>>
          /\ pc = "alt_irq_init" => enable = {}
          /\ trap # "none" => pc = "idle"

\* The table: outside a registration an entry has the context of its handler, and
\* a line that is enabled has a handler.
Entered == /\ \A i \in Lines : ~(pc = "r_context" /\ i = irq) =>
                  alt_irq[i].context = alt_irq[i].handler
           /\ pc \in {"r_context", "r_enable"} => alt_irq[irq].handler = isr
           /\ \A i \in Lines : ~(pc \in {"r_context", "r_enable"} /\ i = irq)
                                  /\ Bit(i) \in enable => alt_irq[i].handler # NULL

\* The dispatcher: what it is about to serve is enabled.
Dispatched == /\ trap = "handle_trap" /\ cause.interrupt => cause.code \in enable
              /\ trap = "call" => \A i \in active : Bit(i) \in enable
              /\ trap \in {"isr", "serve", "leave"} /\ cause.code >= 16 =>
                     served.line \in Lines

IInv == TypeOK /\ Masked /\ Placed /\ Entered /\ Dispatched

-----------------------------------------------------------------------------
LEMMA Numerals == /\ \A i \in Lines : i \in Nat /\ Bit(i) = i + 16 /\ Bit(i) \in Bits
                  /\ \A b \in Bits : b \in Nat /\ (b >= 16 => b - 16 \in Lines /\ Bit(b - 16) = b)
                  /\ 0 \in Lines /\ NIOSV_TIMER_IRQ = 7 /\ NIOSV_SOFTWARE_IRQ = 3
<1>1. \A i \in Lines : i \in Nat /\ Bit(i) = i + 16 /\ Bit(i) \in Bits
  BY IrqAssumption DEF Lines, Bit, ALT_REMAP_IRQ_NUM, Bits
<1>2. \A b \in Bits : b \in {3, 7} \/ \E i \in Lines : b = i + 16
  BY <1>1 DEF Bits, NIOSV_TIMER_IRQ, NIOSV_SOFTWARE_IRQ
<1>3. \A b \in Bits : b \in Nat /\ (b >= 16 => b - 16 \in Lines /\ Bit(b - 16) = b)
  BY <1>1, <1>2
<1>4. 0 \in Lines
  BY IrqAssumption DEF Lines
<1> QED BY <1>1, <1>3, <1>4 DEF NIOSV_TIMER_IRQ, NIOSV_SOFTWARE_IRQ

LEMMA Saved ==
  ASSUME NEW s \in Seq(BOOLEAN), NEW b \in BOOLEAN
  PROVE  /\ Append(s, b) \in Seq(BOOLEAN) /\ Append(s, b) # <<>>
         /\ Len(Append(s, b)) = Len(s) + 1 /\ Append(s, b)[Len(s) + 1] = b
         /\ \A k \in 1 .. Len(s) : Append(s, b)[k] = s[k]
BY AppendProperties

LEMMA Restored ==
  ASSUME NEW s \in Seq(BOOLEAN), s # <<>>
  PROVE  /\ Front(s) \in Seq(BOOLEAN) /\ Last(s) \in BOOLEAN
         /\ Len(Front(s)) = Len(s) - 1 /\ Last(s) = s[Len(s)] /\ Len(s) \in Nat \ {0}
         /\ \A k \in 1 .. Len(s) - 1 : Front(s)[k] = s[k]
         /\ Front(s) # <<>> => Len(s) >= 2
<1>1. Len(s) \in Nat \ {0} /\ DOMAIN s = 1 .. Len(s)
  BY EmptySeq, LenProperties
<1>2. Front(s) \in Seq(BOOLEAN) /\ Len(Front(s)) = Len(s) - 1
         /\ \A k \in 1 .. Len(s) - 1 : Front(s)[k] = s[k]
  BY <1>1 DEF Front
<1>3. Front(s) # <<>> => Len(Front(s)) # 0
  BY <1>2, EmptySeq
<1> QED BY <1>1, <1>2, <1>3 DEF Last

\* The first of the five steps of a registration, whatever its arguments.
Disabling == \E i \in Lines, k \in Isrs \cup {NULL} : R_Disable(i, k)

\* The steps, one by one.
LEMMA Steps ==
  ASSUME Next
  PROVE  \/ AltIrqInit \/ CpuEnable \/ DisableAll \/ EnableAll \/ SwitchLine
         \/ Disabling \/ R_Handler \/ R_Context \/ R_Enable \/ R_Restore
         \/ RegisterTimer \/ RegisterSoftware \/ TriggerSoftware
         \/ RegisterException \/ T_Interrupt \/ T_Exception \/ T_Handle
         \/ T_FirstPending \/ T_NextPending \/ T_Call \/ T_Isr \/ T_Serve
         \/ T_Leave \/ T_Mret \/ D_Request
BY DEF Next, Boot, Program, Registering, Trap, Disabling

\* The types, step by step.
LEMMA StepTypeOK ==
  ASSUME IInv, [Next]_vars
  PROVE  TypeOK'
<1>1. CASE AltIrqInit
  BY <1>1
  DEF vars, hart, tables, main, trapvars, AltIrqInit, IInv, TypeOK, HartType, TableType,
      MainType, TrapType, Handler, At, Goto, Call, MainLabels
<1>2. CASE CpuEnable
  BY <1>2
  DEF vars, hart, tables, main, trapvars, CpuEnable, IInv, TypeOK, HartType, TableType,
      MainType, TrapType, Handler, At, Goto, Call, MainLabels
<1>3. CASE DisableAll
  <2>1. contexts \in Seq(BOOLEAN) /\ mie \in BOOLEAN
    BY DEF IInv, TypeOK, MainType, HartType
  <2>2. contexts' = Append(contexts, mie)
    BY <1>3 DEF DisableAll, alt_irq_disable_all
  <2>3. contexts' \in Seq(BOOLEAN)
    BY <2>1, <2>2, Saved
  <2>4. mie' = FALSE
    BY <1>3 DEF DisableAll, alt_irq_disable_all
  <2>5. ops' \in Nat /\ TableType' /\ TrapType'
    BY <1>3 DEF vars, hart, tables, main, trapvars, DisableAll, Call, IInv, TypeOK, HartType,
       TableType, MainType, TrapType
  <2>6. irq' \in Lines /\ isr' \in Handler /\ pc' \in MainLabels
    BY <1>3 DEF DisableAll, IInv, TypeOK, MainType, Handler, MainLabels, Goto
  <2>7. UNCHANGED <<mode, mpie, enable, pending>>
    BY <1>3 DEF DisableAll
  <2> QED BY <2>3, <2>4, <2>5, <2>6, <2>7 DEF IInv, TypeOK, HartType, MainType
<1>4. CASE EnableAll
  BY <1>4, Restored
  DEF vars, hart, tables, main, trapvars, EnableAll, IInv, TypeOK, HartType, TableType,
      MainType, TrapType, Handler, At, Goto, Call, alt_irq_enable_all
<1>5. CASE SwitchLine
  BY <1>5, Numerals
  DEF vars, hart, tables, main, trapvars, SwitchLine, IInv, TypeOK, HartType, TableType,
      MainType, TrapType, Handler, At, Goto, Call, alt_ic_irq_enable, alt_ic_irq_disable
<1>6. CASE Disabling
  <2>1. contexts \in Seq(BOOLEAN) /\ mie \in BOOLEAN
    BY DEF IInv, TypeOK, MainType, HartType
  <2>2. contexts' = Append(contexts, mie)
    BY <1>6 DEF Disabling, R_Disable, alt_irq_disable_all
  <2>3. contexts' \in Seq(BOOLEAN)
    BY <2>1, <2>2, Saved
  <2>4. mie' = FALSE
    BY <1>6 DEF Disabling, R_Disable, alt_irq_disable_all
  <2>5. ops' \in Nat /\ TableType' /\ TrapType'
    BY <1>6 DEF vars, hart, tables, main, trapvars, Disabling, R_Disable, Call, IInv, TypeOK,
       HartType, TableType, MainType, TrapType
  <2>6. irq' \in Lines /\ isr' \in Handler /\ pc' \in MainLabels
    BY <1>6 DEF Disabling, R_Disable, IInv, TypeOK, MainType, Handler, MainLabels, Goto
  <2>7. UNCHANGED <<mode, mpie, enable, pending>>
    BY <1>6 DEF Disabling, R_Disable
  <2> QED BY <2>3, <2>4, <2>5, <2>6, <2>7 DEF IInv, TypeOK, HartType, MainType
<1>7. CASE R_Handler
  BY <1>7
  DEF vars, hart, tables, main, trapvars, R_Handler, IInv, TypeOK, HartType, TableType,
      MainType, TrapType, Handler, At, Goto, Call, MainLabels
<1>8. CASE R_Context
  BY <1>8
  DEF vars, hart, tables, main, trapvars, R_Context, IInv, TypeOK, HartType, TableType,
      MainType, TrapType, Handler, At, Goto, Call, MainLabels
<1>9. CASE R_Enable
  BY <1>9, Numerals
  DEF vars, hart, tables, main, trapvars, R_Enable, IInv, TypeOK, HartType, TableType,
      MainType, TrapType, Handler, At, Goto, Call, alt_ic_irq_enable, alt_ic_irq_disable,
      MainLabels
<1>10. CASE R_Restore
  <2>1. contexts \in Seq(BOOLEAN) /\ contexts # <<>>
    BY <1>10 DEF R_Restore, At, IInv, Placed, TypeOK, MainType
  <2>2. contexts' \in Seq(BOOLEAN) /\ Last(contexts) \in BOOLEAN
    BY <1>10, <2>1, Restored DEF R_Restore
  <2> QED
    BY <1>10, <2>2, Numerals
    DEF vars, hart, tables, main, trapvars, R_Restore, IInv, TypeOK, HartType, TableType,
        MainType, TrapType, Handler, MainLabels, Goto, alt_irq_enable_all
<1>11. CASE RegisterTimer
  BY <1>11
  DEF vars, hart, tables, main, trapvars, RegisterTimer, IInv, TypeOK, HartType, TableType,
      MainType, TrapType, Handler, At, Goto, Call, Bits
<1>12. CASE RegisterSoftware
  BY <1>12
  DEF vars, hart, tables, main, trapvars, RegisterSoftware, IInv, TypeOK, HartType,
      TableType, MainType, TrapType, Handler, At, Goto, Call, Bits
<1>13. CASE TriggerSoftware
  BY <1>13
  DEF vars, hart, tables, main, trapvars, TriggerSoftware, IInv, TypeOK, HartType,
      TableType, MainType, TrapType, Handler, At, Goto, Call, Bits
<1>14. CASE RegisterException
  BY <1>14
  DEF vars, hart, tables, main, trapvars, RegisterException, IInv, TypeOK, HartType,
      TableType, MainType, TrapType, Handler, At, Goto, Call
<1>15. CASE T_Interrupt
  <2>1. PICK b \in pending \cap enable : Enter([interrupt |-> TRUE, code |-> b])
    BY <1>15 DEF T_Interrupt
  <2>2. b \in Nat
    BY <2>1, Numerals DEF IInv, TypeOK, HartType
  <2>3. cause' \in [interrupt : BOOLEAN, code : Nat] /\ trap' \in TrapLabels
    BY <2>1, <2>2 DEF Enter, TrapLabels
  <2> QED
    BY <1>15, <2>1, <2>3 DEF T_Interrupt, Enter, hart, tables, main, trapvars, IInv, TypeOK,
       HartType, TableType, MainType, TrapType
<1>16. CASE T_Exception
  <2>1. PICK code \in Nat : Enter([interrupt |-> FALSE, code |-> code])
    BY <1>16 DEF T_Exception, ILLEGAL_INSTRUCTION, NIOSV_ECC_EXCEPTION
  <2>2. cause' \in [interrupt : BOOLEAN, code : Nat] /\ trap' \in TrapLabels
    BY <2>1 DEF Enter, TrapLabels
  <2>3. ops' \in Nat
    BY <1>16 DEF T_Exception, Call, IInv, TypeOK, MainType
  <2> QED
    BY <2>1, <2>2, <2>3 DEF Enter, tables, IInv, TypeOK, HartType, TableType, MainType,
       TrapType
<1>17. CASE T_Handle
  <2>1. active' \subseteq Lines
    <3>1. CASE cause.interrupt /\ cause.code >= 16 /\ mode = "vic"
      <4>1. cause.code \in Bits
        BY <1>17, <3>1 DEF T_Handle, IInv, Dispatched, TypeOK, HartType
      <4>2. cause.code - 16 \in Lines
        BY <3>1, <4>1, Numerals
      <4> QED BY <1>17, <3>1, <4>2 DEF T_Handle, Wrapper
    <3>2. CASE ~(cause.interrupt /\ cause.code >= 16 /\ mode = "vic")
      BY <1>17, <3>2 DEF T_Handle, Wrapper
    <3> QED BY <3>1, <3>2
  <2>2. trap' \in TrapLabels
    <3>1. \A code : ExceptionDestination(code) \in TrapLabels
      BY DEF ExceptionDestination, TrapLabels
    <3>2. TimerDestination \in TrapLabels /\ SoftwareDestination \in TrapLabels
      BY DEF TimerDestination, SoftwareDestination, TrapLabels
    <3>3. \A i : PlatformDestination(i) \in TrapLabels
      BY DEF PlatformDestination, TrapLabels
    <3> QED BY <1>17, <3>1, <3>2, <3>3 DEF T_Handle
  <2> QED
    BY <1>17, <2>1, <2>2 DEF T_Handle, hart, tables, main, IInv, TypeOK, HartType, TableType,
       MainType, TrapType
<1>18. CASE T_FirstPending
  BY <1>18
  DEF vars, hart, tables, main, trapvars, T_FirstPending, IInv, TypeOK, HartType, TableType,
      MainType, TrapType, Handler, At, Goto, Call, alt_irq_pending, TrapLabels
<1>19. CASE T_NextPending
  BY <1>19
  DEF vars, hart, tables, main, trapvars, T_NextPending, IInv, TypeOK, HartType, TableType,
      MainType, TrapType, Handler, At, Goto, Call, alt_irq_pending, TrapLabels
<1>20. CASE T_Call
  BY <1>20, Numerals
  DEF vars, hart, tables, main, trapvars, T_Call, IInv, TypeOK, HartType, TableType,
      MainType, TrapType, Handler, At, Goto, Call, Lowest, TrapLabels
<1>21. CASE T_Isr
  BY <1>21
  DEF vars, hart, tables, main, trapvars, T_Isr, IInv, TypeOK, HartType, TableType,
      MainType, TrapType, Handler, At, Goto, Call, alt_irq_disable_all, TrapLabels
<1>22. CASE T_Serve
  BY <1>22
  DEF vars, hart, tables, main, trapvars, T_Serve, IInv, TypeOK, HartType, TableType,
      MainType, TrapType, Handler, At, Goto, Call, alt_ic_irq_disable, TrapLabels
<1>23. CASE T_Leave
  BY <1>23
  DEF vars, hart, tables, main, trapvars, T_Leave, IInv, TypeOK, HartType, TableType,
      MainType, TrapType, Handler, At, Goto, Call, alt_irq_enable_all, TrapLabels
<1>24. CASE T_Mret
  BY <1>24
  DEF vars, hart, tables, main, trapvars, T_Mret, IInv, TypeOK, HartType, TableType,
      MainType, TrapType, Handler, At, Goto, Call, NoCause, TrapLabels
<1>25. CASE D_Request
  BY <1>25
  DEF vars, hart, tables, main, trapvars, D_Request, IInv, TypeOK, HartType, TableType,
      MainType, TrapType, Handler, At, Goto, Call
<1>26. CASE UNCHANGED vars
  BY <1>26
  DEF vars, hart, tables, main, trapvars, IInv, TypeOK, HartType, TableType, MainType,
      TrapType, Handler, At, Goto, Call
<1> QED BY Steps, <1>1, <1>2, <1>3, <1>4, <1>5, <1>6, <1>7, <1>8, <1>9, <1>10, <1>11,
           <1>12, <1>13, <1>14, <1>15, <1>16, <1>17, <1>18, <1>19, <1>20, <1>21, <1>22,
           <1>23, <1>24, <1>25, <1>26

\* Interrupts stay off in critical sections and in traps.
LEMMA StepMasked ==
  ASSUME IInv, TypeOK', [Next]_vars
  PROVE  Masked'
<1>1. CASE AltIrqInit
  BY <1>1
  DEF vars, hart, tables, main, trapvars, AltIrqInit, IInv, Masked, Placed, TypeOK,
      HartType, MainType, TrapType, At, Goto, Call
<1>2. CASE CpuEnable
  BY <1>2
  DEF vars, hart, tables, main, trapvars, CpuEnable, IInv, Masked, Placed, TypeOK, HartType,
      MainType, TrapType, At, Goto, Call
<1>3. CASE DisableAll
  BY <1>3, Saved
  DEF vars, hart, tables, main, trapvars, DisableAll, IInv, Masked, Placed, TypeOK,
      HartType, MainType, TrapType, At, Goto, Call, alt_irq_disable_all
<1>4. CASE EnableAll
  <2>1. contexts \in Seq(BOOLEAN) /\ contexts # <<>> /\ trap = "none" /\ trap' = "none"
    BY <1>4 DEF EnableAll, At, trapvars, IInv, Placed, TypeOK, MainType
  <2>2. /\ Len(contexts) \in Nat \ {0} /\ Len(contexts') = Len(contexts) - 1
        /\ Last(contexts) = contexts[Len(contexts)]
        /\ \A k \in 1 .. Len(contexts) - 1 : contexts'[k] = contexts[k]
        /\ contexts' # <<>> => Len(contexts) >= 2
    BY <1>4, <2>1, Restored DEF EnableAll
  <2>3. contexts' # <<>> => Last(contexts) = FALSE /\ mie = FALSE
    BY <2>1, <2>2 DEF IInv, Masked, TypeOK, HartType
  <2>4. contexts' # <<>> => ~mie'
    BY <1>4, <2>3 DEF EnableAll, alt_irq_enable_all
  <2>5. \A k \in 2 .. Len(contexts') : contexts'[k] = FALSE
    BY <2>2 DEF IInv, Masked
  <2> QED
    BY <1>4, <2>1, <2>4, <2>5
    DEF EnableAll, At, Goto, IInv, Masked, Placed
<1>5. CASE SwitchLine
  BY <1>5
  DEF vars, hart, tables, main, trapvars, SwitchLine, IInv, Masked, Placed, TypeOK,
      HartType, MainType, TrapType, At, Goto, Call
<1>6. CASE Disabling
  BY <1>6, Saved
  DEF vars, hart, tables, main, trapvars, Disabling, IInv, Masked, Placed, TypeOK, HartType,
      MainType, TrapType, At, Goto, Call, R_Disable, alt_irq_disable_all
<1>7. CASE R_Handler
  BY <1>7
  DEF vars, hart, tables, main, trapvars, R_Handler, IInv, Masked, Placed, TypeOK, HartType,
      MainType, TrapType, At, Goto, Call
<1>8. CASE R_Context
  BY <1>8
  DEF vars, hart, tables, main, trapvars, R_Context, IInv, Masked, Placed, TypeOK, HartType,
      MainType, TrapType, At, Goto, Call
<1>9. CASE R_Enable
  BY <1>9
  DEF vars, hart, tables, main, trapvars, R_Enable, IInv, Masked, Placed, TypeOK, HartType,
      MainType, TrapType, At, Goto, Call
<1>10. CASE R_Restore
  <2>1. contexts \in Seq(BOOLEAN) /\ contexts # <<>> /\ trap = "none" /\ trap' = "none"
    BY <1>10 DEF R_Restore, At, trapvars, IInv, Placed, TypeOK, MainType
  <2>2. /\ Len(contexts) \in Nat \ {0} /\ Len(contexts') = Len(contexts) - 1
        /\ Last(contexts) = contexts[Len(contexts)]
        /\ \A k \in 1 .. Len(contexts) - 1 : contexts'[k] = contexts[k]
        /\ contexts' # <<>> => Len(contexts) >= 2
    BY <1>10, <2>1, Restored DEF R_Restore
  <2>3. contexts' # <<>> => Last(contexts) = FALSE /\ mie = FALSE
    BY <2>1, <2>2 DEF IInv, Masked, TypeOK, HartType
  <2>4. contexts' # <<>> => ~mie'
    BY <1>10, <2>3 DEF R_Restore, alt_irq_enable_all
  <2>5. \A k \in 2 .. Len(contexts') : contexts'[k] = FALSE
    BY <2>2 DEF IInv, Masked
  <2> QED
    BY <1>10, <2>1, <2>4, <2>5
    DEF R_Restore, At, Goto, IInv, Masked, Placed
<1>11. CASE RegisterTimer
  BY <1>11
  DEF vars, hart, tables, main, trapvars, RegisterTimer, IInv, Masked, Placed, TypeOK,
      HartType, MainType, TrapType, At, Goto, Call
<1>12. CASE RegisterSoftware
  BY <1>12
  DEF vars, hart, tables, main, trapvars, RegisterSoftware, IInv, Masked, Placed, TypeOK,
      HartType, MainType, TrapType, At, Goto, Call
<1>13. CASE TriggerSoftware
  BY <1>13
  DEF vars, hart, tables, main, trapvars, TriggerSoftware, IInv, Masked, Placed, TypeOK,
      HartType, MainType, TrapType, At, Goto, Call
<1>14. CASE RegisterException
  BY <1>14
  DEF vars, hart, tables, main, trapvars, RegisterException, IInv, Masked, Placed, TypeOK,
      HartType, MainType, TrapType, At, Goto, Call
<1>15. CASE T_Interrupt
  BY <1>15
  DEF vars, hart, tables, main, trapvars, T_Interrupt, IInv, Masked, Placed, TypeOK,
      HartType, MainType, TrapType, At, Goto, Call, Enter
<1>16. CASE T_Exception
  BY <1>16
  DEF vars, hart, tables, main, trapvars, T_Exception, IInv, Masked, Placed, TypeOK,
      HartType, MainType, TrapType, At, Goto, Call, Enter
<1>17. CASE T_Handle
  BY <1>17
  DEF vars, hart, tables, main, trapvars, T_Handle, IInv, Masked, Placed, TypeOK, HartType,
      MainType, TrapType, At, Goto, Call, ExceptionDestination, TimerDestination,
      SoftwareDestination, PlatformDestination
<1>18. CASE T_FirstPending
  BY <1>18
  DEF vars, hart, tables, main, trapvars, T_FirstPending, IInv, Masked, Placed, TypeOK,
      HartType, MainType, TrapType, At, Goto, Call
<1>19. CASE T_NextPending
  BY <1>19
  DEF vars, hart, tables, main, trapvars, T_NextPending, IInv, Masked, Placed, TypeOK,
      HartType, MainType, TrapType, At, Goto, Call
<1>20. CASE T_Call
  BY <1>20
  DEF vars, hart, tables, main, trapvars, T_Call, IInv, Masked, Placed, TypeOK, HartType,
      MainType, TrapType, At, Goto, Call
<1>21. CASE T_Isr
  BY <1>21
  DEF vars, hart, tables, main, trapvars, T_Isr, IInv, Masked, Placed, TypeOK, HartType,
      MainType, TrapType, At, Goto, Call, alt_irq_disable_all
<1>22. CASE T_Serve
  BY <1>22
  DEF vars, hart, tables, main, trapvars, T_Serve, IInv, Masked, Placed, TypeOK, HartType,
      MainType, TrapType, At, Goto, Call
<1>23. CASE T_Leave
  BY <1>23
  DEF vars, hart, tables, main, trapvars, T_Leave, IInv, Masked, Placed, TypeOK, HartType,
      MainType, TrapType, At, Goto, Call, alt_irq_enable_all
<1>24. CASE T_Mret
  BY <1>24
  DEF vars, hart, tables, main, trapvars, T_Mret, IInv, Masked, Placed, TypeOK, HartType,
      MainType, TrapType, At, Goto, Call
<1>25. CASE D_Request
  BY <1>25
  DEF vars, hart, tables, main, trapvars, D_Request, IInv, Masked, Placed, TypeOK, HartType,
      MainType, TrapType, At, Goto, Call
<1>26. CASE UNCHANGED vars
  BY <1>26
  DEF vars, hart, tables, main, trapvars, IInv, Masked, Placed, TypeOK, HartType, MainType,
      TrapType, At, Goto, Call
<1> QED BY Steps, <1>1, <1>2, <1>3, <1>4, <1>5, <1>6, <1>7, <1>8, <1>9, <1>10, <1>11,
           <1>12, <1>13, <1>14, <1>15, <1>16, <1>17, <1>18, <1>19, <1>20, <1>21, <1>22,
           <1>23, <1>24, <1>25, <1>26

\* Traps are taken between the calls of main only.
LEMMA StepPlaced ==
  ASSUME IInv, TypeOK', [Next]_vars
  PROVE  Placed'
<1>1. CASE AltIrqInit
  BY <1>1
  DEF vars, hart, tables, main, trapvars, AltIrqInit, IInv, Masked, Placed, TypeOK,
      HartType, MainType, TrapType, At, Goto, Call, Interruptible
<1>2. CASE CpuEnable
  BY <1>2
  DEF vars, hart, tables, main, trapvars, CpuEnable, IInv, Masked, Placed, TypeOK, HartType,
      MainType, TrapType, At, Goto, Call, Interruptible
<1>3. CASE DisableAll
  BY <1>3, Saved
  DEF vars, hart, tables, main, trapvars, DisableAll, IInv, Masked, Placed, TypeOK,
      HartType, MainType, TrapType, At, Goto, Call, Interruptible
<1>4. CASE EnableAll
  BY <1>4, Restored
  DEF vars, hart, tables, main, trapvars, EnableAll, IInv, Masked, Placed, TypeOK, HartType,
      MainType, TrapType, At, Goto, Call, Interruptible
<1>5. CASE SwitchLine
  BY <1>5
  DEF vars, hart, tables, main, trapvars, SwitchLine, IInv, Masked, Placed, TypeOK,
      HartType, MainType, TrapType, At, Goto, Call, Interruptible, alt_ic_irq_enable,
      alt_ic_irq_disable
<1>6. CASE Disabling
  BY <1>6, Saved
  DEF vars, hart, tables, main, trapvars, Disabling, IInv, Masked, Placed, TypeOK, HartType,
      MainType, TrapType, At, Goto, Call, Interruptible, R_Disable
<1>7. CASE R_Handler
  BY <1>7
  DEF vars, hart, tables, main, trapvars, R_Handler, IInv, Masked, Placed, TypeOK, HartType,
      MainType, TrapType, At, Goto, Call, Interruptible
<1>8. CASE R_Context
  BY <1>8
  DEF vars, hart, tables, main, trapvars, R_Context, IInv, Masked, Placed, TypeOK, HartType,
      MainType, TrapType, At, Goto, Call, Interruptible
<1>9. CASE R_Enable
  BY <1>9
  DEF vars, hart, tables, main, trapvars, R_Enable, IInv, Masked, Placed, TypeOK, HartType,
      MainType, TrapType, At, Goto, Call, Interruptible, alt_ic_irq_enable,
      alt_ic_irq_disable
<1>10. CASE R_Restore
  BY <1>10, Restored
  DEF vars, hart, tables, main, trapvars, R_Restore, IInv, Masked, Placed, TypeOK, HartType,
      MainType, TrapType, At, Goto, Call, Interruptible
<1>11. CASE RegisterTimer
  BY <1>11
  DEF vars, hart, tables, main, trapvars, RegisterTimer, IInv, Masked, Placed, TypeOK,
      HartType, MainType, TrapType, At, Goto, Call, Interruptible
<1>12. CASE RegisterSoftware
  BY <1>12
  DEF vars, hart, tables, main, trapvars, RegisterSoftware, IInv, Masked, Placed, TypeOK,
      HartType, MainType, TrapType, At, Goto, Call, Interruptible
<1>13. CASE TriggerSoftware
  BY <1>13
  DEF vars, hart, tables, main, trapvars, TriggerSoftware, IInv, Masked, Placed, TypeOK,
      HartType, MainType, TrapType, At, Goto, Call, Interruptible
<1>14. CASE RegisterException
  BY <1>14
  DEF vars, hart, tables, main, trapvars, RegisterException, IInv, Masked, Placed, TypeOK,
      HartType, MainType, TrapType, At, Goto, Call, Interruptible
<1>15. CASE T_Interrupt
  BY <1>15
  DEF vars, hart, tables, main, trapvars, T_Interrupt, IInv, Masked, Placed, TypeOK,
      HartType, MainType, TrapType, At, Goto, Call, Interruptible, Enter, MainLabels
<1>16. CASE T_Exception
  BY <1>16
  DEF vars, hart, tables, main, trapvars, T_Exception, IInv, Masked, Placed, TypeOK,
      HartType, MainType, TrapType, At, Goto, Call, Interruptible, Enter
<1>17. CASE T_Handle
  BY <1>17
  DEF vars, hart, tables, main, trapvars, T_Handle, IInv, Masked, Placed, TypeOK, HartType,
      MainType, TrapType, At, Goto, Call, Interruptible
<1>18. CASE T_FirstPending
  BY <1>18
  DEF vars, hart, tables, main, trapvars, T_FirstPending, IInv, Masked, Placed, TypeOK,
      HartType, MainType, TrapType, At, Goto, Call, Interruptible
<1>19. CASE T_NextPending
  BY <1>19
  DEF vars, hart, tables, main, trapvars, T_NextPending, IInv, Masked, Placed, TypeOK,
      HartType, MainType, TrapType, At, Goto, Call, Interruptible
<1>20. CASE T_Call
  BY <1>20
  DEF vars, hart, tables, main, trapvars, T_Call, IInv, Masked, Placed, TypeOK, HartType,
      MainType, TrapType, At, Goto, Call, Interruptible
<1>21. CASE T_Isr
  BY <1>21
  DEF vars, hart, tables, main, trapvars, T_Isr, IInv, Masked, Placed, TypeOK, HartType,
      MainType, TrapType, At, Goto, Call, Interruptible
<1>22. CASE T_Serve
  BY <1>22
  DEF vars, hart, tables, main, trapvars, T_Serve, IInv, Masked, Placed, TypeOK, HartType,
      MainType, TrapType, At, Goto, Call, Interruptible, alt_ic_irq_disable
<1>23. CASE T_Leave
  BY <1>23
  DEF vars, hart, tables, main, trapvars, T_Leave, IInv, Masked, Placed, TypeOK, HartType,
      MainType, TrapType, At, Goto, Call, Interruptible
<1>24. CASE T_Mret
  BY <1>24
  DEF vars, hart, tables, main, trapvars, T_Mret, IInv, Masked, Placed, TypeOK, HartType,
      MainType, TrapType, At, Goto, Call, Interruptible
<1>25. CASE D_Request
  BY <1>25
  DEF vars, hart, tables, main, trapvars, D_Request, IInv, Masked, Placed, TypeOK, HartType,
      MainType, TrapType, At, Goto, Call, Interruptible
<1>26. CASE UNCHANGED vars
  BY <1>26
  DEF vars, hart, tables, main, trapvars, IInv, Masked, Placed, TypeOK, HartType, MainType,
      TrapType, At, Goto, Call, Interruptible
<1> QED BY Steps, <1>1, <1>2, <1>3, <1>4, <1>5, <1>6, <1>7, <1>8, <1>9, <1>10, <1>11,
           <1>12, <1>13, <1>14, <1>15, <1>16, <1>17, <1>18, <1>19, <1>20, <1>21, <1>22,
           <1>23, <1>24, <1>25, <1>26

\* An enabled line has a handler, with its context.
LEMMA StepEntered ==
  ASSUME IInv, TypeOK', [Next]_vars
  PROVE  Entered'
<1>1. CASE AltIrqInit
  BY <1>1
  DEF vars, hart, tables, main, trapvars, AltIrqInit, IInv, Placed, Entered, TypeOK,
      HartType, TableType, MainType, TrapType, Dispatched, At, Goto, Call
<1>2. CASE CpuEnable
  BY <1>2
  DEF vars, hart, tables, main, trapvars, CpuEnable, IInv, Placed, Entered, TypeOK,
      HartType, TableType, MainType, TrapType, Dispatched, At, Goto, Call
<1>3. CASE DisableAll
  BY <1>3
  DEF vars, hart, tables, main, trapvars, DisableAll, IInv, Placed, Entered, TypeOK,
      HartType, TableType, MainType, TrapType, Dispatched, At, Goto, Call
<1>4. CASE EnableAll
  BY <1>4
  DEF vars, hart, tables, main, trapvars, EnableAll, IInv, Placed, Entered, TypeOK,
      HartType, TableType, MainType, TrapType, Dispatched, At, Goto, Call
<1>5. CASE SwitchLine
  BY <1>5, Numerals
  DEF vars, hart, tables, main, trapvars, SwitchLine, IInv, Placed, Entered, TypeOK,
      HartType, TableType, MainType, TrapType, Dispatched, At, Goto, Call,
      alt_ic_irq_enable, alt_ic_irq_disable
<1>6. CASE Disabling
  BY <1>6
  DEF vars, hart, tables, main, trapvars, Disabling, IInv, Placed, Entered, TypeOK,
      HartType, TableType, MainType, TrapType, Dispatched, At, Goto, Call, R_Disable
<1>7. CASE R_Handler
  BY <1>7
  DEF vars, hart, tables, main, trapvars, R_Handler, IInv, Placed, Entered, TypeOK,
      HartType, TableType, MainType, TrapType, Dispatched, At, Goto, Call
<1>8. CASE R_Context
  BY <1>8
  DEF vars, hart, tables, main, trapvars, R_Context, IInv, Placed, Entered, TypeOK,
      HartType, TableType, MainType, TrapType, Dispatched, At, Goto, Call
<1>9. CASE R_Enable
  BY <1>9, Numerals
  DEF vars, hart, tables, main, trapvars, R_Enable, IInv, Placed, Entered, TypeOK, HartType,
      TableType, MainType, TrapType, Dispatched, At, Goto, Call, alt_ic_irq_enable,
      alt_ic_irq_disable
<1>10. CASE R_Restore
  BY <1>10
  DEF vars, hart, tables, main, trapvars, R_Restore, IInv, Placed, Entered, TypeOK,
      HartType, TableType, MainType, TrapType, Dispatched, At, Goto, Call
<1>11. CASE RegisterTimer
  BY <1>11, Numerals
  DEF vars, hart, tables, main, trapvars, RegisterTimer, IInv, Placed, Entered, TypeOK,
      HartType, TableType, MainType, TrapType, Dispatched, At, Goto, Call
<1>12. CASE RegisterSoftware
  BY <1>12, Numerals
  DEF vars, hart, tables, main, trapvars, RegisterSoftware, IInv, Placed, Entered, TypeOK,
      HartType, TableType, MainType, TrapType, Dispatched, At, Goto, Call
<1>13. CASE TriggerSoftware
  BY <1>13
  DEF vars, hart, tables, main, trapvars, TriggerSoftware, IInv, Placed, Entered, TypeOK,
      HartType, TableType, MainType, TrapType, Dispatched, At, Goto, Call
<1>14. CASE RegisterException
  BY <1>14
  DEF vars, hart, tables, main, trapvars, RegisterException, IInv, Placed, Entered, TypeOK,
      HartType, TableType, MainType, TrapType, Dispatched, At, Goto, Call
<1>15. CASE T_Interrupt
  BY <1>15
  DEF vars, hart, tables, main, trapvars, T_Interrupt, IInv, Placed, Entered, TypeOK,
      HartType, TableType, MainType, TrapType, Dispatched, At, Goto, Call, Enter
<1>16. CASE T_Exception
  BY <1>16
  DEF vars, hart, tables, main, trapvars, T_Exception, IInv, Placed, Entered, TypeOK,
      HartType, TableType, MainType, TrapType, Dispatched, At, Goto, Call, Enter
<1>17. CASE T_Handle
  BY <1>17
  DEF vars, hart, tables, main, trapvars, T_Handle, IInv, Placed, Entered, TypeOK, HartType,
      TableType, MainType, TrapType, Dispatched, At, Goto, Call
<1>18. CASE T_FirstPending
  BY <1>18
  DEF vars, hart, tables, main, trapvars, T_FirstPending, IInv, Placed, Entered, TypeOK,
      HartType, TableType, MainType, TrapType, Dispatched, At, Goto, Call
<1>19. CASE T_NextPending
  BY <1>19
  DEF vars, hart, tables, main, trapvars, T_NextPending, IInv, Placed, Entered, TypeOK,
      HartType, TableType, MainType, TrapType, Dispatched, At, Goto, Call
<1>20. CASE T_Call
  BY <1>20
  DEF vars, hart, tables, main, trapvars, T_Call, IInv, Placed, Entered, TypeOK, HartType,
      TableType, MainType, TrapType, Dispatched, At, Goto, Call
<1>21. CASE T_Isr
  BY <1>21
  DEF vars, hart, tables, main, trapvars, T_Isr, IInv, Placed, Entered, TypeOK, HartType,
      TableType, MainType, TrapType, Dispatched, At, Goto, Call
<1>22. CASE T_Serve
  <2>1. pc = "idle" /\ pc' = "idle" /\ irq' = irq
    BY <1>22 DEF T_Serve, IInv, Placed, main
  <2>2. CASE UNCHANGED <<alt_irq, enable>>
    BY <2>1, <2>2 DEF IInv, Entered
  <2>3. CASE /\ cause.code >= 16
             /\ alt_irq' = [alt_irq EXCEPT ![served.line] = [handler |-> NULL, context |-> NULL]]
             /\ alt_ic_irq_disable(served.line)
    <3>1. served.line \in Lines
      BY <1>22, <2>3 DEF T_Serve, IInv, Dispatched
    <3>2. alt_irq'[served.line] = [handler |-> NULL, context |-> NULL]
          /\ \A i \in Lines \ {served.line} : alt_irq'[i] = alt_irq[i]
      BY <2>3, <3>1 DEF IInv, TypeOK, TableType
    <3>3. Bit(served.line) \notin enable' /\ enable' \subseteq enable
      BY <2>3 DEF alt_ic_irq_disable
    <3> QED BY <2>1, <3>2, <3>3 DEF IInv, Entered
  <2> QED BY <1>22, <2>2, <2>3 DEF T_Serve
<1>23. CASE T_Leave
  BY <1>23
  DEF vars, hart, tables, main, trapvars, T_Leave, IInv, Placed, Entered, TypeOK, HartType,
      TableType, MainType, TrapType, Dispatched, At, Goto, Call
<1>24. CASE T_Mret
  BY <1>24
  DEF vars, hart, tables, main, trapvars, T_Mret, IInv, Placed, Entered, TypeOK, HartType,
      TableType, MainType, TrapType, Dispatched, At, Goto, Call
<1>25. CASE D_Request
  BY <1>25
  DEF vars, hart, tables, main, trapvars, D_Request, IInv, Placed, Entered, TypeOK,
      HartType, TableType, MainType, TrapType, Dispatched, At, Goto, Call
<1>26. CASE UNCHANGED vars
  BY <1>26
  DEF vars, hart, tables, main, trapvars, IInv, Placed, Entered, TypeOK, HartType,
      TableType, MainType, TrapType, Dispatched, At, Goto, Call
<1> QED BY Steps, <1>1, <1>2, <1>3, <1>4, <1>5, <1>6, <1>7, <1>8, <1>9, <1>10, <1>11,
           <1>12, <1>13, <1>14, <1>15, <1>16, <1>17, <1>18, <1>19, <1>20, <1>21, <1>22,
           <1>23, <1>24, <1>25, <1>26

\* What the dispatcher is about to serve is enabled.
LEMMA StepDispatched ==
  ASSUME IInv, TypeOK', [Next]_vars
  PROVE  Dispatched'
<1>1. CASE AltIrqInit
  BY <1>1
  DEF vars, hart, tables, main, trapvars, AltIrqInit, IInv, Placed, Dispatched, TypeOK,
      HartType, MainType, TrapType, At, Goto, Call
<1>2. CASE CpuEnable
  BY <1>2
  DEF vars, hart, tables, main, trapvars, CpuEnable, IInv, Placed, Dispatched, TypeOK,
      HartType, MainType, TrapType, At, Goto, Call
<1>3. CASE DisableAll
  BY <1>3
  DEF vars, hart, tables, main, trapvars, DisableAll, IInv, Placed, Dispatched, TypeOK,
      HartType, MainType, TrapType, At, Goto, Call
<1>4. CASE EnableAll
  BY <1>4
  DEF vars, hart, tables, main, trapvars, EnableAll, IInv, Placed, Dispatched, TypeOK,
      HartType, MainType, TrapType, At, Goto, Call
<1>5. CASE SwitchLine
  BY <1>5
  DEF vars, hart, tables, main, trapvars, SwitchLine, IInv, Placed, Dispatched, TypeOK,
      HartType, MainType, TrapType, At, Goto, Call, alt_ic_irq_enable, alt_ic_irq_disable
<1>6. CASE Disabling
  BY <1>6
  DEF vars, hart, tables, main, trapvars, Disabling, IInv, Placed, Dispatched, TypeOK,
      HartType, MainType, TrapType, At, Goto, Call, R_Disable
<1>7. CASE R_Handler
  BY <1>7
  DEF vars, hart, tables, main, trapvars, R_Handler, IInv, Placed, Dispatched, TypeOK,
      HartType, MainType, TrapType, At, Goto, Call
<1>8. CASE R_Context
  BY <1>8
  DEF vars, hart, tables, main, trapvars, R_Context, IInv, Placed, Dispatched, TypeOK,
      HartType, MainType, TrapType, At, Goto, Call
<1>9. CASE R_Enable
  BY <1>9
  DEF vars, hart, tables, main, trapvars, R_Enable, IInv, Placed, Dispatched, TypeOK,
      HartType, MainType, TrapType, At, Goto, Call, alt_ic_irq_enable, alt_ic_irq_disable
<1>10. CASE R_Restore
  BY <1>10
  DEF vars, hart, tables, main, trapvars, R_Restore, IInv, Placed, Dispatched, TypeOK,
      HartType, MainType, TrapType, At, Goto, Call
<1>11. CASE RegisterTimer
  BY <1>11
  DEF vars, hart, tables, main, trapvars, RegisterTimer, IInv, Placed, Dispatched, TypeOK,
      HartType, MainType, TrapType, At, Goto, Call
<1>12. CASE RegisterSoftware
  BY <1>12
  DEF vars, hart, tables, main, trapvars, RegisterSoftware, IInv, Placed, Dispatched,
      TypeOK, HartType, MainType, TrapType, At, Goto, Call
<1>13. CASE TriggerSoftware
  BY <1>13
  DEF vars, hart, tables, main, trapvars, TriggerSoftware, IInv, Placed, Dispatched, TypeOK,
      HartType, MainType, TrapType, At, Goto, Call
<1>14. CASE RegisterException
  BY <1>14
  DEF vars, hart, tables, main, trapvars, RegisterException, IInv, Placed, Dispatched,
      TypeOK, HartType, MainType, TrapType, At, Goto, Call
<1>15. CASE T_Interrupt
  BY <1>15
  DEF vars, hart, tables, main, trapvars, T_Interrupt, IInv, Placed, Dispatched, TypeOK,
      HartType, MainType, TrapType, At, Goto, Call, Enter
<1>16. CASE T_Exception
  BY <1>16
  DEF vars, hart, tables, main, trapvars, T_Exception, IInv, Placed, Dispatched, TypeOK,
      HartType, MainType, TrapType, At, Goto, Call, Enter
<1>17. CASE T_Handle
  <2>1. trap' # "handle_trap" /\ (trap' \in {"isr", "serve", "leave"} => cause.code < 16)
    BY <1>17, Numerals DEF T_Handle, ExceptionDestination, TimerDestination,
       SoftwareDestination, PlatformDestination
  <2>2. ASSUME trap' = "call" PROVE \A i \in active' : Bit(i) \in enable'
    <3>1. cause.interrupt /\ mode = "vic"
      BY <1>17, <2>2 DEF T_Handle, ExceptionDestination, TimerDestination,
         SoftwareDestination, PlatformDestination
    <3>2. cause.code \in enable /\ cause.code \in Bits
      BY <1>17, <3>1 DEF T_Handle, IInv, Dispatched, TypeOK, HartType
    <3> QED BY <1>17, <3>2, Numerals DEF T_Handle, Wrapper, hart
  <2>3. cause' = cause /\ cause.code \in Nat
    BY <1>17 DEF T_Handle, IInv, TypeOK, TrapType
  <2> QED BY <2>1, <2>2, <2>3 DEF Dispatched
<1>18. CASE T_FirstPending
  BY <1>18
  DEF vars, hart, tables, main, trapvars, T_FirstPending, IInv, Placed, Dispatched, TypeOK,
      HartType, MainType, TrapType, At, Goto, Call, alt_irq_pending
<1>19. CASE T_NextPending
  BY <1>19
  DEF vars, hart, tables, main, trapvars, T_NextPending, IInv, Placed, Dispatched, TypeOK,
      HartType, MainType, TrapType, At, Goto, Call, alt_irq_pending
<1>20. CASE T_Call
  BY <1>20
  DEF vars, hart, tables, main, trapvars, T_Call, IInv, Placed, Dispatched, TypeOK,
      HartType, MainType, TrapType, At, Goto, Call, Lowest
<1>21. CASE T_Isr
  BY <1>21
  DEF vars, hart, tables, main, trapvars, T_Isr, IInv, Placed, Dispatched, TypeOK, HartType,
      MainType, TrapType, At, Goto, Call
<1>22. CASE T_Serve
  BY <1>22, Numerals
  DEF vars, hart, tables, main, trapvars, T_Serve, IInv, Placed, Dispatched, TypeOK,
      HartType, MainType, TrapType, At, Goto, Call, alt_ic_irq_disable
<1>23. CASE T_Leave
  BY <1>23
  DEF vars, hart, tables, main, trapvars, T_Leave, IInv, Placed, Dispatched, TypeOK,
      HartType, MainType, TrapType, At, Goto, Call
<1>24. CASE T_Mret
  BY <1>24
  DEF vars, hart, tables, main, trapvars, T_Mret, IInv, Placed, Dispatched, TypeOK,
      HartType, MainType, TrapType, At, Goto, Call
<1>25. CASE D_Request
  BY <1>25
  DEF vars, hart, tables, main, trapvars, D_Request, IInv, Placed, Dispatched, TypeOK,
      HartType, MainType, TrapType, At, Goto, Call
<1>26. CASE UNCHANGED vars
  BY <1>26
  DEF vars, hart, tables, main, trapvars, IInv, Placed, Dispatched, TypeOK, HartType,
      MainType, TrapType, At, Goto, Call
<1> QED BY Steps, <1>1, <1>2, <1>3, <1>4, <1>5, <1>6, <1>7, <1>8, <1>9, <1>10, <1>11,
           <1>12, <1>13, <1>14, <1>15, <1>16, <1>17, <1>18, <1>19, <1>20, <1>21, <1>22,
           <1>23, <1>24, <1>25, <1>26

LEMMA InitIInv == Init => IInv
<1> SUFFICES ASSUME Init PROVE IInv
  OBVIOUS
<1>1. contexts \in Seq(BOOLEAN) /\ Len(contexts) = 0
  BY EmptySeq DEF Init
<1>2. HartType /\ TableType
  BY DEF Init, HartType, TableType, Handler
<1>3. MainType /\ TrapType
  BY <1>1, Numerals DEF Init, MainType, TrapType, Handler, MainLabels, TrapLabels, NoCause
<1>4. Masked /\ Placed
  BY <1>1 DEF Init, Masked, Placed
<1>5. Entered /\ Dispatched
  BY DEF Init, Entered, Dispatched
<1> QED BY <1>2, <1>3, <1>4, <1>5 DEF IInv, TypeOK

LEMMA Invariance == Spec => []IInv
<1>1. IInv /\ [Next]_vars => IInv'
  BY StepTypeOK, StepMasked, StepPlaced, StepEntered, StepDispatched DEF IInv
<1> QED BY InitIInv, <1>1, PTL DEF Spec

\* Every variable keeps its type, in whatever order the program, the handlers and
\* the devices take their steps.
THEOREM TypeCorrect == Spec => []TypeOK
<1>1. IInv => TypeOK
  BY DEF IInv
<1> QED BY <1>1, Invariance, PTL

\* No interrupt can be taken while a context of alt_irq_disable_all() is held or
\* a trap is under way, to any depth of nesting (sys/alt_irq.h, machine_trap.S).
THEOREM CriticalSectionsHold == Spec => []CriticalSections
<1>1. IInv => CriticalSections
  BY DEF IInv, Masked, CriticalSections
<1> QED BY <1>1, Invariance, PTL

-----------------------------------------------------------------------------
(***************************************************************************)
(* The five steps of alt_ic_isr_register() and the dispatcher implement    *)
(* the interrupt API.                                                      *)
(***************************************************************************)

LEMMA InitApi == Init => Api!Init
<1> SUFFICES ASSUME Init PROVE Api!Init
  OBVIOUS
<1>1. Registered = [i \in Lines |-> NULL]
  BY DEF Init, Registered
<1>2. On = {}
  BY DEF Init, On
<1> QED BY <1>1, <1>2 DEF Init, Api!Init, NoCall

\* Every step is a registration, a switch, a call of a handler, or nothing to the
\* callers of the API.
LEMMA StepApi ==
  ASSUME IInv, IInv', [Next]_vars
  PROVE  [Api!Next]_(Api!registry)
<1> DEFINE enabled == {i \in Lines : Bit(i) \in enable}
<1>r. /\ Registered = [i \in Lines |-> alt_irq[i].handler]
      /\ Registered' = [i \in Lines |-> alt_irq'[i].handler]
  BY DEF IInv, Entered, Registered, TypeOK, TableType
<1>o. /\ pc \notin {"r_context", "r_enable"} => On = enabled
      /\ pc' \notin {"r_context", "r_enable"} => On' = enabled'
      /\ pc \in {"r_context", "r_enable"} =>
            On = IF isr # NULL THEN enabled \cup {irq} ELSE enabled \ {irq}
      /\ pc' \in {"r_context", "r_enable"} =>
            On' = IF isr' # NULL THEN enabled' \cup {irq'} ELSE enabled' \ {irq'}
  BY DEF On
<1>q. ASSUME UNCHANGED <<Registered, On, served>>
      PROVE  [Api!Next]_(Api!registry)
  BY <1>q DEF Api!registry
<1> HIDE DEF enabled
<1>1. CASE AltIrqInit
  <2>1. enable = {} /\ enable' = {} /\ UNCHANGED <<alt_irq, served>> /\ pc = "alt_irq_init"
        /\ pc' = "cpu_enable"
    BY <1>1 DEF AltIrqInit, At, Goto, IInv, Placed, tables, trapvars
  <2> QED BY <2>1, <1>r, <1>o, <1>q DEF enabled
<1>2. CASE CpuEnable
  BY <1>2, <1>r, <1>o, <1>q
  DEF enabled, hart, tables, main, trapvars, CpuEnable, At, Goto, Call, IInv, Placed
<1>3. CASE DisableAll
  BY <1>3, <1>r, <1>o, <1>q
  DEF enabled, hart, tables, main, trapvars, DisableAll, At, Goto, Call, IInv, Placed
<1>4. CASE EnableAll
  BY <1>4, <1>r, <1>o, <1>q
  DEF enabled, hart, tables, main, trapvars, EnableAll, At, Goto, Call, IInv, Placed
<1>5. CASE SwitchLine
  <2>1. PICK i \in Lines : /\ alt_irq[i].handler # NULL
                           /\ alt_ic_irq_enable(i) \/ alt_ic_irq_disable(i)
    BY <1>5 DEF SwitchLine
  <2>2. pc = "idle" /\ pc' = "idle" /\ UNCHANGED <<alt_irq, served>>
    BY <1>5 DEF SwitchLine, Call, At, tables, trapvars
  <2>3. enabled' \in {enabled \cup {i}, enabled \ {i}}
    BY <2>1, Numerals DEF enabled, alt_ic_irq_enable, alt_ic_irq_disable
  <2>4. Api!Switch(i)
    BY <2>1, <2>2, <2>3, <1>r, <1>o DEF Api!Switch
  <2> QED BY <2>4 DEF Api!Next
<1>6. CASE Disabling
  BY <1>6, <1>r, <1>o, <1>q
  DEF enabled, hart, tables, main, trapvars, Disabling, At, Goto, Call, IInv, Placed,
      R_Disable
<1>7. CASE R_Handler
  <2>1. pc = "r_handler" /\ pc' = "r_context" /\ irq \in Lines /\ isr \in Isrs \cup {NULL}
        /\ UNCHANGED <<irq, isr, enable, served>>
        /\ alt_irq' = [alt_irq EXCEPT ![irq].handler = isr]
    BY <1>7 DEF R_Handler, At, Goto, hart, trapvars, IInv, TypeOK, MainType, Handler
  <2>2. enabled' = enabled
    BY <2>1 DEF enabled
  <2>3. Registered' = [Registered EXCEPT ![irq] = isr]
    BY <2>1, <1>r DEF IInv, TypeOK, TableType
  <2>4. On' = IF isr = NULL THEN On \ {irq} ELSE On \cup {irq}
    BY <2>1, <2>2, <1>o
  <2>5. Api!Register(irq, isr)
    BY <2>1, <2>3, <2>4 DEF Api!Register
  <2> QED BY <2>1, <2>5 DEF Api!Next
<1>8. CASE R_Context
  <2>1. pc = "r_context" /\ pc' = "r_enable" /\ irq \in Lines
        /\ UNCHANGED <<irq, isr, enable, served>>
        /\ alt_irq' = [alt_irq EXCEPT ![irq].context = isr]
    BY <1>8 DEF R_Context, At, Goto, hart, trapvars, IInv, TypeOK, MainType
  <2>2. enabled' = enabled
    BY <2>1 DEF enabled
  <2>3. \A i \in Lines : alt_irq'[i].handler = alt_irq[i].handler
    BY <2>1 DEF IInv, TypeOK, TableType
  <2> QED BY <2>1, <2>2, <2>3, <1>r, <1>o, <1>q
<1>9. CASE R_Enable
  <2>1. pc = "r_enable" /\ pc' = "r_restore" /\ irq \in Lines /\ UNCHANGED <<alt_irq, served>>
        /\ IF isr # NULL THEN alt_ic_irq_enable(irq) ELSE alt_ic_irq_disable(irq)
    BY <1>9 DEF R_Enable, At, Goto, tables, trapvars, IInv, TypeOK, MainType
  <2>2. enabled' = IF isr # NULL THEN enabled \cup {irq} ELSE enabled \ {irq}
    BY <2>1, Numerals DEF enabled, alt_ic_irq_enable, alt_ic_irq_disable
  <2> QED BY <2>1, <2>2, <1>r, <1>o, <1>q
<1>10. CASE R_Restore
  BY <1>10, <1>r, <1>o, <1>q
  DEF enabled, hart, tables, main, trapvars, R_Restore, At, Goto, Call, IInv, Placed
<1>11. CASE RegisterTimer
  <2>1. pc = "idle" /\ pc' = "idle" /\ UNCHANGED <<alt_irq, served>>
        /\ enable' = enable \cup {NIOSV_TIMER_IRQ}
    BY <1>11 DEF RegisterTimer, Call, At, trapvars
  <2>2. enabled' = enabled
    BY <2>1, Numerals DEF enabled
  <2> QED BY <2>1, <2>2, <1>r, <1>o, <1>q
<1>12. CASE RegisterSoftware
  <2>1. pc = "idle" /\ pc' = "idle" /\ UNCHANGED <<alt_irq, served>>
        /\ enable' = enable \cup {NIOSV_SOFTWARE_IRQ}
    BY <1>12 DEF RegisterSoftware, Call, At, trapvars
  <2>2. enabled' = enabled
    BY <2>1, Numerals DEF enabled
  <2> QED BY <2>1, <2>2, <1>r, <1>o, <1>q
<1>13. CASE TriggerSoftware
  BY <1>13, <1>r, <1>o, <1>q
  DEF enabled, hart, tables, main, trapvars, TriggerSoftware, At, Goto, Call, IInv, Placed
<1>14. CASE RegisterException
  BY <1>14, <1>r, <1>o, <1>q
  DEF enabled, hart, tables, main, trapvars, RegisterException, At, Goto, Call, IInv, Placed
<1>15. CASE T_Interrupt
  BY <1>15, <1>r, <1>o, <1>q
  DEF enabled, hart, tables, main, trapvars, T_Interrupt, At, Goto, Call, IInv, Placed,
      Enter
<1>16. CASE T_Exception
  BY <1>16, <1>r, <1>o, <1>q
  DEF enabled, hart, tables, main, trapvars, T_Exception, At, Goto, Call, IInv, Placed,
      Enter
<1>17. CASE T_Handle
  BY <1>17, <1>r, <1>o, <1>q
  DEF enabled, hart, tables, main, trapvars, T_Handle, At, Goto, Call, IInv, Placed
<1>18. CASE T_FirstPending
  BY <1>18, <1>r, <1>o, <1>q
  DEF enabled, hart, tables, main, trapvars, T_FirstPending, At, Goto, Call, IInv, Placed
<1>19. CASE T_NextPending
  BY <1>19, <1>r, <1>o, <1>q
  DEF enabled, hart, tables, main, trapvars, T_NextPending, At, Goto, Call, IInv, Placed
<1>20. CASE T_Call
  <2>1. PICK i \in Lowest(active) :
            served' = [line |-> i, isr |-> alt_irq[i].handler, context |-> alt_irq[i].context]
    BY <1>20 DEF T_Call
  <2>2. pc = "idle" /\ pc' = "idle" /\ UNCHANGED <<alt_irq, enable>> /\ trap = "call"
    BY <1>20 DEF T_Call, IInv, Placed, hart, tables, main
  <2>3. i \in Lines /\ Bit(i) \in enable
    BY <2>1, <2>2 DEF Lowest, IInv, Dispatched, TypeOK, TrapType
  <2>4. alt_irq[i].handler # NULL /\ alt_irq[i].context = alt_irq[i].handler
    BY <2>2, <2>3 DEF IInv, Entered
  <2>5. i \in enabled /\ enabled' = enabled
    BY <2>2, <2>3 DEF enabled
  <2>6. Registered[i] = alt_irq[i].handler /\ Registered' = Registered
    BY <2>2, <2>3, <1>r
  <2>7. Api!Serve(i)
    BY <2>1, <2>2, <2>4, <2>5, <2>6, <1>o DEF Api!Serve
  <2> QED BY <2>3, <2>7 DEF Api!Next
<1>21. CASE T_Isr
  BY <1>21, <1>r, <1>o, <1>q
  DEF enabled, hart, tables, main, trapvars, T_Isr, At, Goto, Call, IInv, Placed
<1>22. CASE T_Serve
  <2>1. pc = "idle" /\ pc' = "idle" /\ UNCHANGED served
    BY <1>22 DEF T_Serve, IInv, Placed, main
  <2>2. CASE UNCHANGED <<alt_irq, enable>>
    BY <2>1, <2>2, <1>r, <1>o, <1>q DEF enabled
  <2>3. CASE /\ cause.code >= 16
             /\ alt_irq' = [alt_irq EXCEPT ![served.line] = [handler |-> NULL, context |-> NULL]]
             /\ alt_ic_irq_disable(served.line)
    <3>1. served.line \in Lines
      BY <1>22, <2>3 DEF T_Serve, IInv, Dispatched
    <3>2. Registered' = [Registered EXCEPT ![served.line] = NULL]
      BY <2>3, <3>1, <1>r DEF IInv, TypeOK, TableType
    <3>3. enabled' = enabled \ {served.line}
      BY <2>3, <3>1, Numerals DEF enabled, alt_ic_irq_disable
    <3>4. Api!Register(served.line, NULL)
      BY <2>1, <3>2, <3>3, <1>o DEF Api!Register
    <3> QED BY <3>1, <3>4 DEF Api!Next
  <2> QED BY <1>22, <2>2, <2>3 DEF T_Serve
<1>23. CASE T_Leave
  BY <1>23, <1>r, <1>o, <1>q
  DEF enabled, hart, tables, main, trapvars, T_Leave, At, Goto, Call, IInv, Placed
<1>24. CASE T_Mret
  BY <1>24, <1>r, <1>o, <1>q
  DEF enabled, hart, tables, main, trapvars, T_Mret, At, Goto, Call, IInv, Placed
<1>25. CASE D_Request
  BY <1>25, <1>r, <1>o, <1>q
  DEF enabled, hart, tables, main, trapvars, D_Request, At, Goto, Call, IInv, Placed
<1>26. CASE UNCHANGED vars
  BY <1>26, <1>r, <1>o, <1>q DEF enabled, vars, hart, tables, main, trapvars
<1> QED BY Steps, <1>1, <1>2, <1>3, <1>4, <1>5, <1>6, <1>7, <1>8, <1>9, <1>10, <1>11,
           <1>12, <1>13, <1>14, <1>15, <1>16, <1>17, <1>18, <1>19, <1>20, <1>21, <1>22,
           <1>23, <1>24, <1>25, <1>26

\* Registration, of five steps and from a handler too, is atomic to the
\* interrupts, and the dispatcher of either mode calls only a handler that is
\* registered, with the context it was registered with (alt_iic_isr_register.c,
\* alt_irq_handler.c, alt_vic_isr_wrapper.c).
THEOREM ImplementsApi == Spec => RegistryRefined
<1>1. Init => Api!Init
  BY InitApi
<1>2. IInv /\ IInv' /\ [Next]_vars => [Api!Next]_(Api!registry)
  BY StepApi
<1> QED BY <1>1, <1>2, Invariance, PTL DEF Spec, RegistryRefined, Api!Spec

-----------------------------------------------------------------------------
(***************************************************************************)
(* System calls.                                                           *)
(***************************************************************************)
FileNumbers == 0 .. 3
AllModes == Calls!OpenModes \cup Calls!ALT_FCNTL_FLAGS_MASK \cup Calls!ALT_FD_FLAGS_MASK
TableEntries == [dev : {"null", "lw", "jtag"}, flags : SUBSET AllModes]

\* fcntl() touches neither of the modes a descriptor was opened with.
ModesKept == /\ fds \in [FileNumbers -> TableEntries]
             /\ \A f \in FileNumbers : fds[f].flags \cap Calls!OpenModes = Calls!OpenedWith(f) \cap Calls!OpenModes

CallsInv == ModesKept /\ Calls!AccessKept /\ Calls!SettingsAgree

\* The calls, by what they can change.
CallLooks ==
    \/ \E op \in {"write", "read", "fstat", "isatty", "lseek", "fcntl", "ioctl"} : Calls!BadFd(op)
    \/ \E f \in Descriptors : \/ Calls!fstat(f) \/ Calls!isatty(f) \/ Calls!lseek(f)
                               \/ Calls!F_GETFL(f) \/ Calls!F_Other(f)
    \/ \E file \in -1 .. 3 : \/ Calls!DirectFstat(file) \/ Calls!DirectIsatty(file)
                             \/ Calls!DirectSeek(file)
CallDirects ==
    \/ \E file \in -1 .. 3 : \E op \in {"write", "read"} : Calls!DirectTransfer(op, file, 1)
    \/ Calls!alt_getchar \/ Calls!alt_putchar \/ Calls!alt_putstr
CallBuffers == Calls!alt_putcharbuf \/ Calls!Flush

LEMMA CallSteps ==
  ASSUME Calls!Next
  PROVE  \/ CallLooks \/ CallDirects \/ CallBuffers
         \/ \E f \in Descriptors, n \in 1 .. 2 : Calls!write(f, n) \/ Calls!read(f, n)
         \/ \E f \in Descriptors, flags \in Calls!Arguments : Calls!F_SETFL(f, flags)
         \/ \E f \in Descriptors, req \in Calls!Requests : \E term \in Calls!PointsAt(req) : Calls!ioctl(f, req, term)
         \/ \E file \in -1 .. 3, req \in Calls!Requests : \E term \in Calls!PointsAt(req) :
               Calls!DirectIoctl(file, req, term)
BY DEF Calls!Next, CallLooks, CallDirects, CallBuffers

LEMMA ModesAre == Calls!OpenModes = {"O_WRONLY", "O_RDWR"} /\ Calls!ALT_FCNTL_FLAGS_MASK = {"O_APPEND", "O_NONBLOCK"}
                  /\ Calls!ALT_FD_FLAGS_MASK = {"ALT_FD_EXCL", "ALT_FD_DEV"}
BY DEF Calls!OpenModes, Calls!ALT_FCNTL_FLAGS_MASK, Calls!ALT_FD_FLAGS_MASK

-----------------------------------------------------------------------------
\* The settings.  A request, granted or refused, leaves the divisor of the speed
\* that is recorded.
LEMMA SetsAgree ==
  ASSUME Calls!SettingsAgree, NEW term, Calls!intel_lw_uart_tiocmset(term)
  PROVE  Calls!SettingsAgree'
<1> DEFINE tried == IF config.fixed_baud THEN termios ELSE Calls!Speed(term.ispeed)
<1>1. termios = [ispeed |-> termios.ispeed, ospeed |-> termios.ispeed, cflag |-> "built"]
  BY DEF Calls!SettingsAgree
<1>2. \A s : Calls!Speed(s) = [ispeed |-> s, ospeed |-> s, cflag |-> "built"]
  <2> SUFFICES ASSUME NEW s PROVE Calls!Speed(s) = [ispeed |-> s, ospeed |-> s, cflag |-> "built"]
    OBVIOUS
  <2>1. DOMAIN termios = {"ispeed", "ospeed", "cflag"} /\ termios.cflag = "built"
    BY <1>1
  <2>2. Calls!Speed(s) = [f \in DOMAIN termios |-> IF f = "ospeed" THEN s
                                             ELSE IF f = "ispeed" THEN s ELSE termios[f]]
    BY <2>1 DEF Calls!Speed
  <2>3. Calls!Speed(s) = [f \in {"ispeed", "ospeed", "cflag"} |-> IF f = "cflag" THEN "built" ELSE s]
    BY <2>1, <2>2
  <2> QED BY <2>3
<1>3. Calls!Speed(termios.ispeed) = termios
  BY <1>1, <1>2
<1>4. CASE term # tried
  BY <1>3, <1>4 DEF Calls!intel_lw_uart_tiocmset, Calls!SettingsAgree
<1>5. CASE term = tried /\ term.ispeed = termios.ispeed
  <2>1. tried = termios
    BY <1>3, <1>5
  <2> QED BY <1>5, <2>1 DEF Calls!intel_lw_uart_tiocmset, Calls!SettingsAgree
<1>6. CASE term = tried /\ term.ispeed # termios.ispeed
  <2>1. tried = Calls!Speed(term.ispeed)
    BY <1>6
  <2>2. CASE Freq \div 4 < term.ispeed
    BY <1>3, <1>6, <2>2 DEF Calls!intel_lw_uart_tiocmset, Calls!SettingsAgree
  <2>3. CASE ~(Freq \div 4 < term.ispeed)
    <3>1. termios' = Calls!Speed(term.ispeed) /\ divisor' = Freq \div term.ispeed - 1
      BY <1>6, <2>1, <2>3 DEF Calls!intel_lw_uart_tiocmset
    <3>2. termios'.ispeed = term.ispeed
      BY <3>1, <1>2
    <3> QED BY <3>1, <3>2, <1>2 DEF Calls!SettingsAgree
  <2> QED BY <2>2, <2>3
<1> QED BY <1>4, <1>5, <1>6

LEMMA RequestsAgree ==
  ASSUME Calls!SettingsAgree, NEW req, NEW term, Calls!intel_lw_uart_ioctl(req, term)
  PROVE  Calls!SettingsAgree'
<1>1. UNCHANGED Calls!settings \/ Calls!intel_lw_uart_tiocmset(term)
  BY DEF Calls!intel_lw_uart_ioctl
<1>2. CASE UNCHANGED Calls!settings
  BY <1>2 DEF Calls!settings, Calls!SettingsAgree
<1> QED BY <1>1, <1>2, SetsAgree

LEMMA StepSettings ==
  ASSUME Calls!SettingsAgree, [Calls!Next]_(Calls!vars)
  PROVE  Calls!SettingsAgree'
<1>u. ASSUME UNCHANGED Calls!settings PROVE Calls!SettingsAgree'
  BY <1>u DEF Calls!settings, Calls!SettingsAgree
<1>1. CASE CallLooks
  BY <1>1, <1>u DEF CallLooks, Calls!BadFd, Calls!fstat, Calls!isatty, Calls!lseek, Calls!F_GETFL, Calls!F_Other, Calls!DirectFstat,
     Calls!DirectIsatty, Calls!DirectSeek, Calls!settings
<1>2. CASE CallDirects
  BY <1>2, <1>u DEF CallDirects, Calls!DirectTransfer, Calls!alt_getchar, Calls!alt_putchar, Calls!alt_putstr, Calls!DirectPut,
     Calls!settings
<1>3. CASE CallBuffers
  BY <1>3, <1>u DEF CallBuffers, Calls!alt_putcharbuf, Calls!Flush, Calls!settings
<1>4. CASE \E f \in Descriptors, n \in 1 .. 2 : Calls!write(f, n) \/ Calls!read(f, n)
  BY <1>4, <1>u DEF Calls!write, Calls!read, Calls!Transfer, Calls!settings
<1>5. CASE \E f \in Descriptors, flags \in Calls!Arguments : Calls!F_SETFL(f, flags)
  BY <1>5, <1>u DEF Calls!F_SETFL, Calls!settings
<1>6. ASSUME NEW f \in Descriptors, NEW req \in Calls!Requests, NEW term \in Calls!PointsAt(req),
             Calls!ioctl(f, req, term)
      PROVE  Calls!SettingsAgree'
  <2>1. \/ UNCHANGED Calls!settings
        \/ Calls!intel_lw_uart_ioctl(req, term)
        \/ Calls!altera_avalon_jtag_uart_ioctl(req)
    BY <1>6 DEF Calls!ioctl
  <2> QED BY <2>1, <1>u, RequestsAgree DEF Calls!altera_avalon_jtag_uart_ioctl
<1>7. ASSUME NEW file \in -1 .. 3, NEW req \in Calls!Requests, NEW term \in Calls!PointsAt(req),
             Calls!DirectIoctl(file, req, term)
      PROVE  Calls!SettingsAgree'
  <2>1. UNCHANGED Calls!settings \/ Calls!intel_lw_uart_ioctl(req, term)
    BY <1>7 DEF Calls!DirectIoctl
  <2> QED BY <2>1, <1>u, RequestsAgree
<1>8. CASE UNCHANGED Calls!vars
  BY <1>8, <1>u DEF Calls!vars, Calls!settings
<1> QED BY CallSteps, <1>1, <1>2, <1>3, <1>4, <1>5, <1>6, <1>7, <1>8

-----------------------------------------------------------------------------
\* The modes.
LEMMA StepModes ==
  ASSUME Calls!CallsAssumption, ModesKept, Calls!AccessKept, [Calls!Next]_(Calls!vars)
  PROVE  ModesKept' /\ Calls!AccessKept'
<1>d. Descriptors \subseteq FileNumbers
  BY DEF Calls!CallsAssumption, FileNumbers
<1>u. ASSUME UNCHANGED <<config, fds>> PROVE ModesKept'
  BY <1>u DEF ModesKept, Calls!OpenedWith
<1>n. ASSUME config' = config, last' = last \/ last'.moved = "none" \/ ~Calls!Build("fd")
      PROVE  Calls!AccessKept'
  BY <1>n DEF Calls!AccessKept, Calls!OpenedWith, Calls!Build
<1>1. CASE CallLooks
  BY <1>1, <1>u, <1>n
  DEF CallLooks, Calls!BadFd, Calls!fstat, Calls!isatty, Calls!lseek, Calls!F_GETFL, Calls!F_Other, Calls!DirectFstat, Calls!DirectIsatty,
      Calls!DirectSeek, Calls!Make, Calls!Keep
<1>2. CASE CallDirects
  BY <1>2, <1>u, <1>n
  DEF CallDirects, Calls!DirectTransfer, Calls!alt_getchar, Calls!alt_putchar, Calls!alt_putstr, Calls!DirectPut, Calls!Keep, Calls!Build
<1>3. CASE CallBuffers
  BY <1>3, <1>u, <1>n DEF CallBuffers, Calls!alt_putcharbuf, Calls!Flush
<1>4. ASSUME NEW f \in Descriptors, NEW op \in {"write", "read"}, NEW n, Calls!Transfer(op, f, n)
      PROVE  ModesKept' /\ Calls!AccessKept'
  <2>1. ModesKept'
    BY <1>4, <1>u DEF Calls!Transfer, Calls!Keep
  <2>2. config' = config
    BY <1>4 DEF Calls!Transfer, Calls!Keep
  <2>3. CASE last'.moved = "none"
    BY <2>1, <2>2, <2>3, <1>n
  <2>4. CASE last'.moved # "none"
    <3>1. /\ last' = [op |-> op, file |-> f, moved |-> op]
          /\ op = "write" => Calls!MayWrite(f)
          /\ op = "read" => Calls!MayRead(f)
      BY <1>4, <2>4 DEF Calls!Transfer, Calls!Make
    <3>2. fds[f].flags \cap Calls!OpenModes = Calls!OpenedWith(f) \cap Calls!OpenModes
      BY <1>d DEF ModesKept
    <3>3. op = "write" => Calls!OpenedWith(f) \cap Calls!OpenModes # {}
      BY <3>1, <3>2 DEF Calls!MayWrite
    <3>4. op = "read" => "O_WRONLY" \notin Calls!OpenedWith(f)
      BY <3>1, <3>2 DEF Calls!MayRead, Calls!OpenModes
    <3>5. Calls!OpenedWith(f)' = Calls!OpenedWith(f)
      BY <2>2 DEF Calls!OpenedWith
    <3> QED BY <2>1, <3>1, <3>3, <3>4, <3>5 DEF Calls!AccessKept
  <2> QED BY <2>3, <2>4
<1>5. ASSUME NEW f \in Descriptors, NEW flags \in Calls!Arguments, Calls!F_SETFL(f, flags)
      PROVE  ModesKept' /\ Calls!AccessKept'
  <2>1. config' = config /\ last'.moved = "none"
    BY <1>5 DEF Calls!F_SETFL, Calls!Keep, Calls!Make
  <2> DEFINE new == (fds[f].flags \ Calls!ALT_FCNTL_FLAGS_MASK) \cup (flags \cap Calls!ALT_FCNTL_FLAGS_MASK)
  <2>2. fds' = [fds EXCEPT ![f].flags = new] /\ f \in FileNumbers
    BY <1>5, <1>d DEF Calls!F_SETFL
  <2>3. new \subseteq AllModes /\ new \cap Calls!OpenModes = fds[f].flags \cap Calls!OpenModes
    BY <2>2, ModesAre DEF ModesKept, TableEntries, AllModes
  <2> HIDE DEF new
  <2>4. fds' \in [FileNumbers -> TableEntries]
    BY <2>2, <2>3 DEF ModesKept, TableEntries
  <2>5. \A g \in FileNumbers : fds'[g].flags \cap Calls!OpenModes = fds[g].flags \cap Calls!OpenModes
    BY <2>2, <2>3 DEF ModesKept, TableEntries
  <2>6. \A g : Calls!OpenedWith(g)' = Calls!OpenedWith(g)
    BY <2>1 DEF Calls!OpenedWith
  <2>7. ModesKept'
    BY <2>4, <2>5, <2>6 DEF ModesKept
  <2> QED BY <2>1, <2>7, <1>n
<1>6. CASE \E f \in Descriptors, req \in Calls!Requests : \E term \in Calls!PointsAt(req) : Calls!ioctl(f, req, term)
  BY <1>6, <1>u, <1>n DEF Calls!ioctl, Calls!Make, Calls!Keep
<1>7. CASE \E file \in -1 .. 3, req \in Calls!Requests : \E term \in Calls!PointsAt(req) :
              Calls!DirectIoctl(file, req, term)
  BY <1>7, <1>u, <1>n DEF Calls!DirectIoctl, Calls!Make, Calls!Keep
<1>8. CASE UNCHANGED Calls!vars
  BY <1>8, <1>u, <1>n DEF Calls!vars
<1>9. CASE \E f \in Descriptors, n \in 1 .. 2 : Calls!write(f, n) \/ Calls!read(f, n)
  BY <1>9, <1>4 DEF Calls!write, Calls!read
<1> QED BY CallSteps, <1>1, <1>2, <1>3, <1>5, <1>6, <1>7, <1>8, <1>9

LEMMA CallsInvInit == Calls!Init => CallsInv
<1> SUFFICES ASSUME Calls!Init PROVE CallsInv
  OBVIOUS
<1>1. \A f \in FileNumbers : Calls!OpenedWith(f) \subseteq Calls!OpenModes
  BY DEF Calls!OpenedWith, Calls!OpenModes
<1>2. ModesKept
  BY <1>1 DEF Calls!Init, ModesKept, FileNumbers, TableEntries, AllModes, Calls!OpenModes, Calls!ALT_FD_FLAGS_MASK
<1>3. Calls!AccessKept /\ Calls!SettingsAgree
  BY DEF Calls!Init, Calls!NoCall, Calls!AccessKept, Calls!SettingsAgree
<1> QED BY <1>2, <1>3 DEF CallsInv

LEMMA CallsMove ==
  ASSUME Runs("calls"), [HalNext]_halvars
  PROVE  [Calls!Next]_(Calls!vars)
<1>1. CASE UNCHANGED halvars
  BY <1>1 DEF halvars, callvars, Calls!vars
<1>2. CASE HalNext
  BY <1>2 DEF HalNext, Runs
<1> QED BY <1>1, <1>2

LEMMA ServiceStays == [HalNext]_halvars => service' = service
BY DEF HalNext, halvars

LEMMA CallsSafe == HalSpec => [](Runs("calls") => CallsInv)
<1>1. HalInit => (Runs("calls") => CallsInv)
  BY CallsInvInit DEF HalInit
<1>2. (Runs("calls") => CallsInv) /\ [HalNext]_halvars => (Runs("calls") => CallsInv)'
  <2> SUFFICES ASSUME Runs("calls") => CallsInv, [HalNext]_halvars, Runs("calls")'
               PROVE  CallsInv'
    OBVIOUS
  <2>1. Runs("calls") /\ CallsInv
    BY ServiceStays DEF Runs
  <2>2. [Calls!Next]_(Calls!vars)
    BY <2>1, CallsMove
  <2> QED BY <2>1, <2>2, StepModes, StepSettings, ServicesAssumption DEF CallsInv
<1> QED BY <1>1, <1>2, PTL DEF HalSpec

\* Characters move only through descriptors opened for it, whatever fcntl() was
\* asked for (alt_fcntl.c, alt_read.c, alt_write.c).
THEOREM AccessIsKept == HalSpec => []AccessKept
<1>1. (Runs("calls") => CallsInv) => AccessKept
  BY DEF CallsInv, AccessKept
<1> QED BY <1>1, CallsSafe, PTL

\* The divisor of the LW UART is the one of the recorded speed, after any sequence
\* of requests (intel_lw_uart_ioctl.c).
THEOREM SettingsAlwaysAgree == HalSpec => []SettingsAgree
<1>1. (Runs("calls") => CallsInv) => SettingsAgree
  BY DEF CallsInv, SettingsAgree
<1> QED BY <1>1, CallsSafe, PTL

-----------------------------------------------------------------------------
(***************************************************************************)
(* Start-up and exit.                                                      *)
(***************************************************************************)
Early == {"_start", "alt_load", "alt_irq_init"}
SysInit == {"jtag", "lw_state", "rx_buf", "rx_mask", "timer"}
InMain == {"main", "exit", "spin"}

\* Interrupts are off until every section is in place and mie is empty; after that
\* a line is enabled together with its handler.
SectionsInv ==
    /\ boot_pc \in Early \cup SysInit \cup {"_do_ctors"} \cup InMain
    /\ again \in BOOLEAN /\ boot_pc \in Early => ~again
    /\ program.flash \in BOOLEAN
    /\ ~program.flash => Start!Sections \ {"bss"} \subseteq placed
    /\ boot_pc # "_start" => "bss" \in placed
    /\ boot_pc \notin {"_start", "alt_load"} => placed = Start!Sections
    /\ placed \subseteq Start!Sections
    /\ MIE => boot_pc \notin Early /\ mie_csr \subseteq handlers

\* A mask other than the one of bss comes after the pointer, and for good, so the
\* indices are those of one ring.
BytesInv ==
    /\ rx_mask \in {0, READ_DEPTH - 1} /\ {rx_start, rx_end} \subseteq 0 .. rx_mask
    /\ {rxfifo, taken, arrived} \subseteq Nat
    /\ rx_mask # 0 \/ boot_pc = "rx_mask" => rx_buf # "NULL"
    /\ arrived = rxfifo + Start!Held + taken

\* Nothing is printed before the second half of start-up, and a byte that is queued has its
\* interrupt, except where the driver turned it off and nothing was printed or sent since.
PrintsInv ==
    /\ {uart_tx, printed, transmitted} \subseteq Nat
    /\ printed = transmitted + uart_tx
    /\ ~again /\ boot_pc \in Early \cup SysInit => uart_tx = 0
    /\ uart_tx > 0 /\ "TRDY" \notin ctrl =>
          \/ again /\ mark = <<"init", printed, transmitted>>
          \/ program.fc /\ mark = <<"cts", printed, transmitted>>

\* What is destructed mirrors what was constructed.
ObjectsInv ==
    LET n == Len(constructed)
    IN /\ constructed \in Seq(Nat) /\ \A i \in 1 .. n : constructed[i] = i
       /\ n <= Constructors /\ (again \/ boot_pc \in InMain => n = Constructors)
       /\ destructed \in Seq(Nat) /\ Len(destructed) <= n
       /\ \A i \in 1 .. Len(destructed) : destructed[i] = n + 1 - i
       /\ boot_pc \notin {"exit", "spin"} => destructed = <<>>
       /\ destructed # <<>> => program.clean
       /\ boot_pc = "spin" /\ destructed # <<>> => Len(destructed) = n

BootInv == SectionsInv /\ BytesInv /\ PrintsInv /\ ObjectsInv

\* The indices of the UART's buffer are those of a ring of rx_mask + 1 slots.
LEMMA HeldIsUsed ==
  ASSUME BytesInv, READ_DEPTH \in Nat \ {0, 1}
  PROVE  /\ rx_mask \in Nat /\ rx_mask + 1 \in Nat \ {0}
         /\ rx_start \in Indices(rx_mask + 1) /\ rx_end \in Indices(rx_mask + 1)
         /\ Start!Held = Used(rx_start, rx_end, rx_mask + 1)
         /\ Start!Room = rx_mask - Start!Held
         /\ Start!Held \in 0 .. rx_mask
<1>1. rx_mask \in Nat /\ rx_start \in 0 .. rx_mask /\ rx_end \in 0 .. rx_mask
  BY DEF BytesInv
<1>2. Start!Held = Used(rx_start, rx_end, rx_mask + 1)
  BY <1>1, RingModulo DEF Start!Held, Indices
<1>3. Start!Room = rx_mask - Start!Held
  <2>1. (rx_start - rx_end - 1) % (rx_mask + 1)
           = rx_mask + 1 - 1 - Used(rx_start, rx_end, rx_mask + 1)
    BY <1>1, RingModulo DEF Indices
  <2>2. Used(rx_start, rx_end, rx_mask + 1) \in 0 .. rx_mask + 1 - 1
    BY <1>1, UsedRange DEF Indices
  <2> QED BY <1>1, <1>2, <2>1, <2>2 DEF Start!Room
<1>4. Start!Held \in 0 .. rx_mask
  BY <1>1, <1>2, UsedRange DEF Indices
<1> QED BY <1>1, <1>2, <1>3, <1>4 DEF Indices

\* What a driver can set its mask to.
LEMMA MaskKeepsBytes ==
  ASSUME BytesInv, READ_DEPTH \in Nat \ {0, 1}, Start!SetRxMask
  PROVE  BytesInv'
<1>1. rx_mask' = READ_DEPTH - 1 /\ UNCHANGED <<rx_buf, rx_start, rx_end, rxfifo, taken, arrived>>
      /\ rx_buf # "NULL" /\ boot_pc' = "timer"
  BY DEF Start!SetRxMask, Start!Goes, BytesInv
<1>2. Start!Held' = Start!Held
  <2>1. CASE rx_mask = 0
    <3>1. rx_start = 0 /\ rx_end = 0
      BY <2>1 DEF BytesInv
    <3>2. 0 % 1 = 0 /\ 0 % READ_DEPTH = 0
      OBVIOUS
    <3> QED BY <1>1, <2>1, <3>1, <3>2 DEF Start!Held
  <2>2. CASE rx_mask = READ_DEPTH - 1
    BY <1>1, <2>2 DEF Start!Held
  <2> QED BY <2>1, <2>2 DEF BytesInv
<1> QED BY <1>1, <1>2 DEF BytesInv

\* The handler moves bytes from the UART into the ring, and makes no room.
LEMMA TrapKeepsBytes ==
  ASSUME BytesInv, READ_DEPTH \in Nat \ {0, 1}, Start!LwTrap
  PROVE  BytesInv'
<1> DEFINE n == IF rxfifo < Start!Room THEN rxfifo ELSE Start!Room
           d == rx_mask + 1
<1>1. /\ rx_end' = (rx_end + n) % d /\ rxfifo' = rxfifo - n
      /\ UNCHANGED <<boot_pc, rx_buf, rx_mask, rx_start, taken, arrived>>
  BY DEF Start!LwTrap, Start!intel_lw_uart_irq, Start!buffers
<1>2. rx_mask \in Nat /\ d \in Nat \ {0} /\ rx_start \in Indices(d) /\ rx_end \in Indices(d)
      /\ Start!Held = Used(rx_start, rx_end, d) /\ Start!Room = d - 1 - Start!Held
      /\ Start!Held \in 0 .. rx_mask
  BY HeldIsUsed
<1>3. rxfifo \in Nat /\ n \in Nat /\ n <= d - 1 - Used(rx_start, rx_end, d) /\ n <= rxfifo
  <2>1. rxfifo \in Nat
    BY DEF BytesInv
  <2>2. Start!Room \in Nat
    BY <1>2
  <2>3. n \in Nat /\ n <= Start!Room /\ n <= rxfifo
    BY <2>1, <2>2
  <2> QED BY <1>2, <2>1, <2>2, <2>3
<1>n. n \in 0 .. d
  BY <1>2, <1>3
<1> HIDE DEF n
<1>4. /\ Used(rx_start, Slot(rx_end, n, d), d) = Used(rx_start, rx_end, d) + n
      /\ Slot(rx_end, n, d) \in Indices(d)
  BY <1>2, <1>3, PublishBlock
<1>5. rx_end' = Slot(rx_end, n, d)
  BY <1>1, <1>2, <1>3, <1>n, RingModulo
<1>6. Start!Held' = Used(rx_start, rx_end', d)
  BY <1>1, <1>2, <1>4, <1>5, RingModulo DEF Start!Held
<1>7. Start!Held' = Start!Held + n /\ rx_end' \in 0 .. rx_mask
  BY <1>2, <1>4, <1>5, <1>6 DEF Indices
<1>8. arrived' = rxfifo' + Start!Held' + taken'
  BY <1>1, <1>2, <1>3, <1>7 DEF BytesInv
<1> QED BY <1>1, <1>3, <1>7, <1>8 DEF BytesInv

LEMMA ReadKeepsBytes ==
  ASSUME BytesInv, READ_DEPTH \in Nat \ {0, 1}, Start!Read
  PROVE  BytesInv'
<1>1. /\ taken' = taken + Start!Held /\ rx_start' = rx_end
      /\ UNCHANGED <<boot_pc, rx_buf, rx_mask, rx_end, rxfifo, arrived>>
  BY DEF Start!Read, Start!Held, Start!buffers
<1>2. rx_mask \in Nat /\ rx_end \in 0 .. rx_mask /\ Start!Held \in 0 .. rx_mask
  BY HeldIsUsed DEF BytesInv
<1>3. Start!Held' = 0
  BY <1>1, <1>2 DEF Start!Held
<1> QED BY <1>1, <1>2, <1>3 DEF BytesInv

LEMMA BytesStep ==
  ASSUME BootInv, READ_DEPTH \in Nat \ {0, 1}, [Start!Next]_(Start!vars)
  PROVE  BytesInv'
<1>u. ASSUME UNCHANGED <<rx_buf, rx_mask, rx_start, rx_end, rxfifo, taken, arrived>>,
             boot_pc' = "rx_mask" => boot_pc = "rx_mask"
      PROVE  BytesInv'
  BY <1>u DEF BootInv, BytesInv, Start!Held
<1>1. CASE Start!_start \/ Start!alt_load \/ Start!alt_irq_init \/ Start!JtagInit
           \/ Start!INTEL_LW_UART_STATE_INIT \/ Start!INTEL_NIOSV_M_INIT
  BY <1>1, <1>u DEF Start!_start, Start!alt_load, Start!alt_irq_init, Start!JtagInit,
     Start!INTEL_LW_UART_STATE_INIT, Start!INTEL_NIOSV_M_INIT, Start!Goes, Start!uart, Start!buffers
<1>2. CASE Start!SetRxBuf
  BY <1>2 DEF Start!SetRxBuf, Start!Goes, BootInv, BytesInv, Start!Held
<1>3. CASE Start!_do_ctors \/ Start!CallMain \/ Start!alt_sys_init \/ Start!PrintByte
           \/ Start!ReturnFromMain \/ Start!exit \/ Start!_do_dtors \/ Start!_exit
  BY <1>3, <1>u DEF Start!_do_ctors, Start!CallMain, Start!alt_sys_init, Start!PrintByte,
     Start!ReturnFromMain, Start!exit, Start!_do_dtors, Start!_exit, Start!Goes, Start!uart,
     Start!buffers
<1>4. CASE Start!ALT_KILL
  BY <1>4, <1>u DEF Start!ALT_KILL, Start!uart, Start!buffers
<1>5. CASE Start!Receive
  <2>1. Start!Held \in Nat
    BY HeldIsUsed DEF BootInv
  <2>2. Start!Held' = Start!Held
    BY <1>5 DEF Start!Receive, Start!buffers, Start!Held
  <2> QED BY <1>5, <2>1, <2>2 DEF Start!Receive, Start!buffers, BootInv, BytesInv
<1>6. CASE UNCHANGED Start!vars
  BY <1>6, <1>u DEF Start!vars
<1> QED BY <1>1, <1>2, <1>3, <1>4, <1>5, <1>6, MaskKeepsBytes, TrapKeepsBytes, ReadKeepsBytes
        DEF Start!Next, BootInv

LEMMA SectionsStep ==
  ASSUME BootInv, [Start!Next]_(Start!vars)
  PROVE  SectionsInv'
<1> USE DEF BootInv, SectionsInv
<1>s. Start!Sections = {"bss", "rwdata", "exceptions", "rodata"}
  BY DEF Start!Sections
<1>u. ASSUME UNCHANGED <<program, again, placed, mie_csr, MIE, handlers>>,
             boot_pc' \notin Early, boot_pc \notin Early, boot_pc' = boot_pc
                \/ boot_pc' \in SysInit \cup {"_do_ctors"} \cup InMain
      PROVE  SectionsInv'
  BY <1>u DEF Early
<1>1. CASE Start!_start
  BY <1>1, <1>s DEF Start!_start, Start!Goes, Early, SysInit, InMain
<1>2. CASE Start!alt_load
  BY <1>2, <1>s DEF Start!alt_load, Start!alt_load_section, Start!Goes, Early, SysInit, InMain
<1>3. CASE Start!alt_irq_init
  BY <1>3 DEF Start!alt_irq_init, Start!Goes, Early, SysInit, InMain
<1>4. CASE Start!JtagInit \/ Start!INTEL_LW_UART_STATE_INIT \/ Start!INTEL_NIOSV_M_INIT
  BY <1>4 DEF Start!JtagInit, Start!INTEL_LW_UART_STATE_INIT, Start!INTEL_NIOSV_M_INIT,
     Start!alt_ic_isr_register, Start!Goes, Early, SysInit, InMain
<1>5. CASE Start!SetRxBuf \/ Start!SetRxMask
  BY <1>5, <1>u DEF Start!SetRxBuf, Start!SetRxMask, Start!Goes, Start!cpu, Early, SysInit, InMain
<1>6. CASE Start!_do_ctors \/ Start!CallMain \/ Start!ReturnFromMain \/ Start!exit
           \/ Start!_do_dtors \/ Start!_exit
  BY <1>6, <1>u DEF Start!_do_ctors, Start!CallMain, Start!ReturnFromMain, Start!exit,
     Start!_do_dtors, Start!_exit, Start!Goes, Start!cpu, Early, SysInit, InMain
<1>7. CASE Start!alt_sys_init
  BY <1>7 DEF Start!alt_sys_init, Start!Goes, Start!cpu, Early, SysInit, InMain
<1>8. CASE Start!PrintByte \/ Start!Read \/ Start!ALT_KILL
  BY <1>8, <1>u DEF Start!PrintByte, Start!Read, Start!ALT_KILL, Start!cpu, Early, SysInit, InMain
<1>k. ASSUME UNCHANGED <<program, boot_pc, again, placed, mie_csr, MIE, handlers>>
      PROVE  SectionsInv'
  BY <1>k
<1>9. CASE Start!LwTrap
  <2>1. UNCHANGED <<program, boot_pc, again, Start!cpu>>
    BY <1>9 DEF Start!LwTrap, Start!intel_lw_uart_irq
  <2> QED BY <2>1, <1>k DEF Start!cpu
<1>10. CASE Start!Receive
  BY <1>10, <1>k DEF Start!Receive, Start!cpu
<1>11. CASE UNCHANGED Start!vars
  BY <1>11, <1>k DEF Start!vars
<1> QED BY <1>1, <1>2, <1>3, <1>4, <1>5, <1>6, <1>7, <1>8, <1>9, <1>10, <1>11 DEF Start!Next

LEMMA PrintsStep ==
  ASSUME BootInv, [Start!Next]_(Start!vars)
  PROVE  PrintsInv'
<1> USE DEF BootInv, PrintsInv
<1>u. ASSUME UNCHANGED <<program, again, uart_tx, printed, transmitted, mark, ctrl>>,
             ~again /\ boot_pc' \in Early \cup SysInit => boot_pc \in Early \cup SysInit
      PROVE  PrintsInv'
  BY <1>u
<1>1. CASE Start!_start \/ Start!alt_load \/ Start!alt_irq_init \/ Start!JtagInit \/ Start!SetRxBuf
           \/ Start!SetRxMask \/ Start!INTEL_NIOSV_M_INIT
  BY <1>1, <1>u DEF Start!_start, Start!alt_load, Start!alt_irq_init, Start!JtagInit,
     Start!SetRxBuf, Start!SetRxMask, Start!INTEL_NIOSV_M_INIT, Start!Goes, Start!uart, Early, SysInit
<1>2. CASE Start!INTEL_LW_UART_STATE_INIT
  BY <1>2 DEF Start!INTEL_LW_UART_STATE_INIT, Start!Goes, Early, SysInit
<1>3. CASE Start!_do_ctors \/ Start!CallMain \/ Start!ReturnFromMain \/ Start!exit
           \/ Start!_do_dtors \/ Start!_exit
  BY <1>3, <1>u DEF Start!_do_ctors, Start!CallMain, Start!ReturnFromMain, Start!exit,
     Start!_do_dtors, Start!_exit, Start!Goes, Start!uart, Early, SysInit
<1>4. CASE Start!alt_sys_init
  BY <1>4 DEF Start!alt_sys_init, Start!Goes, Start!uart
<1>5. CASE Start!PrintByte
  BY <1>5 DEF Start!PrintByte, Early, SysInit
<1>6. CASE Start!Read
  BY <1>6 DEF Start!Read
<1>7. CASE Start!ALT_KILL
  BY <1>7, <1>u DEF Start!ALT_KILL, Start!uart, Early, SysInit
<1>8. CASE Start!Receive
  BY <1>8, <1>u DEF Start!Receive
<1>9. CASE Start!LwTrap
  <2>1. UNCHANGED <<program, boot_pc, again, printed>>
    BY <1>9 DEF Start!LwTrap, Start!intel_lw_uart_irq
  <2>2. PICK k \in 0 .. uart_tx, how \in {"none", "empty", "full", "cts"} :
           /\ uart_tx' = uart_tx - k /\ transmitted' = transmitted + k
           /\ mark' = IF how = "cts" THEN <<"cts", printed, transmitted + k>> ELSE mark
           /\ how = "none" => k = 0 /\ ("TRDY" \in ctrl => "TRDY" \in ctrl')
           /\ how = "empty" => k = uart_tx
           /\ how = "full" => ("TRDY" \in ctrl \/ k > 0 => "TRDY" \in ctrl')
           /\ how = "cts" => program.fc
    <3> DEFINE n == IF rxfifo < Start!Room THEN rxfifo ELSE Start!Room
               c == ctrl \ (IF n < rxfifo THEN {"RRDY"} ELSE {})
    <3>0. "TRDY" \in c <=> "TRDY" \in ctrl
      OBVIOUS
    <3>1. PICK seen, k, how, risen :
             /\ Start!intel_lw_uart_irq(seen, k, how, risen)
             /\ k \in 0 .. uart_tx
             /\ IF seen = {} THEN k = 0 /\ how = "none" ELSE how \in Start!Ends(k)
      <4>1. 0 \in 0 .. uart_tx
        OBVIOUS
      <4> QED BY ONLY <1>9, <4>1, Zenon DEF Start!LwTrap
    <3>2. /\ uart_tx' = uart_tx - k /\ transmitted' = transmitted + k
          /\ mark' = IF how = "cts" THEN <<"cts", printed, transmitted + k>> ELSE mark
          /\ ctrl' = Start!intel_lw_uart_dctsirq(
                       IF seen = {} THEN c ELSE Start!intel_lw_uart_txirq(c, k, how), risen)
      BY <3>1 DEF Start!intel_lw_uart_irq
    <3> HIDE DEF c
    <3>3. /\ how \in {"none", "empty", "full", "cts"}
          /\ how = "none" <=> seen = {}
          /\ seen = {} => k = 0
          /\ how = "empty" => k = uart_tx
          /\ how = "cts" => program.fc
      BY <3>1 DEF Start!Ends
    <3>4. /\ how = "none" => ("TRDY" \in ctrl => "TRDY" \in ctrl')
          /\ how = "full" => ("TRDY" \in ctrl \/ k > 0 => "TRDY" \in ctrl')
      BY <3>0, <3>2, <3>3 DEF Start!intel_lw_uart_dctsirq, Start!intel_lw_uart_txirq
    <3> QED BY <3>1, <3>2, <3>3, <3>4
  <2>3. {uart_tx', printed', transmitted'} \subseteq Nat /\ printed' = transmitted' + uart_tx'
    BY <2>1, <2>2
  <2>4. ASSUME uart_tx' > 0, "TRDY" \notin ctrl'
        PROVE  \/ again /\ mark' = <<"init", printed, transmitted'>>
               \/ program.fc /\ mark' = <<"cts", printed, transmitted'>>
    <3>1. CASE how = "cts"
      BY <2>2, <3>1
    <3>2. CASE how \in {"none", "full"}
      <4>1. k = 0 /\ "TRDY" \notin ctrl /\ mark' = mark /\ transmitted' = transmitted
        BY <2>2, <2>4, <3>2
      <4>2. uart_tx > 0
        BY <2>2, <2>4, <4>1
      <4> QED BY <4>1, <4>2
    <3>3. how # "empty"
      BY <2>2, <2>4
    <3> QED BY <2>2, <3>1, <3>2, <3>3
  <2>5. ~again /\ boot_pc \in Early \cup SysInit => uart_tx' = 0
    BY <2>2
  <2> QED BY <2>1, <2>3, <2>4, <2>5
<1>10. CASE UNCHANGED Start!vars
  BY <1>10, <1>u DEF Start!vars
<1> QED BY <1>1, <1>2, <1>3, <1>4, <1>5, <1>6, <1>7, <1>8, <1>9, <1>10 DEF Start!Next

LEMMA ObjectsStep ==
  ASSUME BootInv, Constructors \in Nat, [Start!Next]_(Start!vars)
  PROVE  ObjectsInv'
<1> USE DEF BootInv, ObjectsInv
<1>u. ASSUME UNCHANGED <<program, constructed, destructed, again>>, boot_pc' \in InMain => boot_pc \in InMain,
             boot_pc' \notin {"exit", "spin"} => boot_pc \notin {"exit", "spin"},
             boot_pc' = "spin" => boot_pc \notin {"exit"}
      PROVE  ObjectsInv'
  BY <1>u DEF InMain
<1>1. CASE Start!_start \/ Start!alt_load \/ Start!alt_irq_init \/ Start!JtagInit
           \/ Start!INTEL_LW_UART_STATE_INIT \/ Start!SetRxBuf \/ Start!SetRxMask
  BY <1>1, <1>u DEF Start!_start, Start!alt_load, Start!alt_irq_init, Start!JtagInit,
     Start!INTEL_LW_UART_STATE_INIT, Start!SetRxBuf, Start!SetRxMask, Start!Goes, Start!objects,
     InMain
<1>2. CASE Start!INTEL_NIOSV_M_INIT
  BY <1>2 DEF Start!INTEL_NIOSV_M_INIT, Start!Goes, Start!objects, InMain
<1>3. CASE Start!_do_ctors
  <2> DEFINE n == Len(constructed)
  <2>1. /\ boot_pc = "_do_ctors" /\ boot_pc' = "_do_ctors" /\ again' = again
        /\ n < Constructors /\ constructed' = Append(constructed, n + 1)
        /\ destructed' = destructed
    BY <1>3 DEF Start!_do_ctors, Start!Goes
  <2>2. n \in Nat /\ n + 1 \in Nat /\ constructed \in Seq(Nat)
    OBVIOUS
  <2>3. /\ constructed' \in Seq(Nat) /\ Len(constructed') = n + 1
        /\ \A i \in 1 .. n + 1 : constructed'[i] = i
    BY <2>1, <2>2, AppendProperties
  <2>4. destructed = <<>> /\ Len(destructed) = 0 /\ ~again
    BY <2>1, <2>2 DEF InMain
  <2> QED BY <2>1, <2>2, <2>3, <2>4 DEF InMain
<1>4. CASE Start!CallMain
  BY <1>4 DEF Start!CallMain, Start!Goes, Start!objects, InMain
<1>5. CASE Start!alt_sys_init
  BY <1>5 DEF Start!alt_sys_init, Start!Goes, Start!objects, InMain
<1>6. CASE Start!PrintByte \/ Start!Read \/ Start!Receive \/ Start!LwTrap \/ UNCHANGED Start!vars
  BY <1>6, <1>u DEF Start!PrintByte, Start!Read, Start!Receive, Start!LwTrap, Start!intel_lw_uart_irq, Start!objects, Start!vars
<1>7. CASE Start!ReturnFromMain \/ Start!exit
  BY <1>7 DEF Start!ReturnFromMain, Start!exit, Start!Goes, Start!objects, InMain
<1>8. CASE Start!_do_dtors
  <2> DEFINE n == Len(constructed)
             m == Len(destructed)
  <2>1. /\ boot_pc = "exit" /\ boot_pc' = "exit" /\ again' = again /\ m < n
        /\ constructed' = constructed /\ destructed' = Append(destructed, constructed[n - m])
    BY <1>8 DEF Start!_do_dtors, Start!Goes
  <2>2. n \in Nat /\ m \in Nat /\ n - m \in 1 .. n /\ constructed[n - m] = n - m
    BY <2>1
  <2>3. /\ destructed' \in Seq(Nat) /\ Len(destructed') = m + 1
        /\ \A i \in 1 .. m : destructed'[i] = destructed[i]
        /\ destructed'[m + 1] = n + 1 - (m + 1)
    BY <2>1, <2>2, AppendProperties
  <2>4. \A i \in 1 .. m + 1 : destructed'[i] = n + 1 - i
    <3>1. \A i \in 1 .. m : destructed'[i] = n + 1 - i
      BY <2>3
    <3>2. \A i \in 1 .. m + 1 : i \in 1 .. m \/ i = m + 1
      BY <2>2
    <3> QED BY <3>1, <3>2, <2>3
  <2>5. Len(destructed') <= Len(constructed') /\ \A i \in 1 .. Len(destructed') : destructed'[i] = n + 1 - i
    BY <2>1, <2>2, <2>3, <2>4
  <2>6. program.clean /\ program' = program
    BY <1>8 DEF Start!_do_dtors, Start!Goes
  <2> QED BY <2>1, <2>3, <2>5, <2>6 DEF InMain
<1>9. CASE Start!_exit
  <2>1. /\ boot_pc = "exit" /\ boot_pc' = "spin" /\ UNCHANGED <<again, constructed, destructed, program>>
        /\ program.clean => Len(destructed) = Len(constructed)
    BY <1>9 DEF Start!_exit, Start!Goes, Start!objects
  <2> QED BY <2>1 DEF InMain
<1>10. CASE Start!ALT_KILL
  BY <1>10 DEF Start!ALT_KILL, Start!objects, InMain
<1> QED BY <1>1, <1>2, <1>3, <1>4, <1>5, <1>6, <1>7, <1>8, <1>9, <1>10 DEF Start!Next

LEMMA BootInvInit ==
  ASSUME Start!Init, Start!StartupAssumption
  PROVE  BootInv
<1> USE DEF Start!Init, Start!StartupAssumption
<1>1. SectionsInv
  BY DEF SectionsInv, Early, Start!Sections
<1>2. Start!Held = 0
  <2>1. rx_mask = 0 /\ rx_start = 0 /\ rx_end = 0
    OBVIOUS
  <2> QED BY <2>1 DEF Start!Held
<1>3. BytesInv
  BY <1>2 DEF BytesInv
<1>4. PrintsInv
  BY DEF PrintsInv
<1>5. ObjectsInv
  BY DEF ObjectsInv, InMain
<1> QED BY <1>1, <1>3, <1>4, <1>5 DEF BootInv

LEMMA StartMoves ==
  ASSUME Runs("startup"), [HalNext]_halvars
  PROVE  [Start!Next]_(Start!vars)
<1>1. CASE UNCHANGED halvars
  BY <1>1 DEF halvars, bootvars, Start!vars
<1>2. CASE HalNext
  BY <1>2 DEF HalNext, Runs
<1> QED BY <1>1, <1>2

LEMMA BootSafe == HalSpec => [](Runs("startup") => BootInv)
<1>1. HalInit => (Runs("startup") => BootInv)
  BY BootInvInit, ServicesAssumption DEF HalInit
<1>2. (Runs("startup") => BootInv) /\ [HalNext]_halvars => (Runs("startup") => BootInv)'
  <2> SUFFICES ASSUME Runs("startup") => BootInv, [HalNext]_halvars, Runs("startup")'
               PROVE  BootInv'
    OBVIOUS
  <2>1. Runs("startup") /\ BootInv
    BY ServiceStays DEF Runs
  <2>2. [Start!Next]_(Start!vars)
    BY <2>1, StartMoves
  <2>3. READ_DEPTH \in Nat \ {0, 1} /\ Constructors \in Nat
    BY ServicesAssumption DEF Start!StartupAssumption
  <2>4. BytesInv' /\ SectionsInv'
    BY <2>1, <2>2, <2>3, BytesStep, SectionsStep
  <2>5. PrintsInv' /\ ObjectsInv'
    BY <2>1, <2>2, <2>3, PrintsStep, ObjectsStep
  <2> QED BY <2>4, <2>5 DEF BootInv
<1> QED BY <1>1, <1>2, PTL DEF HalSpec

\* Interrupts that come during start-up find a handler, every section in place and, if
\* there is room for a byte, a buffer; and no byte is lost (alt_main.c, alt_load.c,
\* intel_lw_uart_init.c).
THEOREM EarlyInterruptsAreSafe == HalSpec => []EarlyInterruptsSafe
<1>1. (Runs("startup") => BootInv) => EarlyInterruptsSafe
  <2> SUFFICES ASSUME Runs("startup") => BootInv, Runs("startup") PROVE Start!EarlyInterruptsSafe
    BY DEF EarlyInterruptsSafe
  <2>1. READ_DEPTH \in Nat \ {0, 1}
    BY ServicesAssumption DEF Start!StartupAssumption
  <2>2. MIE => placed = Start!Sections /\ mie_csr \subseteq handlers
    BY DEF BootInv, SectionsInv, Early
  <2>3. Start!Room > 0 => rx_buf # "NULL"
    <3>1. Start!Held \in Nat /\ Start!Room = rx_mask - Start!Held /\ rx_mask \in Nat
      BY <2>1, HeldIsUsed DEF BootInv
    <3>2. Start!Room > 0 => rx_mask # 0
      BY <3>1
    <3> QED BY <3>2 DEF BootInv, BytesInv
  <2>4. arrived = rxfifo + Start!Held + taken
    BY DEF BootInv, BytesInv
  <2> QED BY <2>2, <2>3, <2>4 DEF Start!EarlyInterruptsSafe
<1> QED BY <1>1, BootSafe, PTL

\* What was printed is sent, or the transmitter's interrupt is on: it is off with bytes queued
\* only under flow control since CTS was found low, or since main() initialised the drivers
\* again, and as long as nothing was printed or sent since; and destructors undo the
\* constructors in the reverse order, all or none (intel_lw_uart_init.c, alt_sys_init.c,
\* alt_do_dtors.c).
THEOREM NothingIsStranded == HalSpec => []NothingStranded
<1>1. (Runs("startup") => BootInv) => NothingStranded
  <2> SUFFICES ASSUME Runs("startup") => BootInv, Runs("startup") PROVE Start!NothingStranded
    BY DEF NothingStranded
  <2>1. /\ printed = transmitted + uart_tx
        /\ uart_tx > 0 /\ "TRDY" \notin ctrl =>
              \/ again /\ mark = <<"init", printed, transmitted>>
              \/ program.fc /\ mark = <<"cts", printed, transmitted>>
    BY DEF BootInv, PrintsInv
  <2>2. ASSUME boot_pc = "spin", destructed # <<>>, NEW i \in 1 .. Constructors
        PROVE  destructed[i] = constructed[Constructors + 1 - i]
    <3>1. /\ Len(constructed) = Constructors /\ Len(destructed) = Constructors
          /\ destructed[i] = Constructors + 1 - i
      BY <2>2 DEF BootInv, ObjectsInv, InMain
    <3>2. Constructors + 1 - i \in 1 .. Constructors
      BY ServicesAssumption DEF Start!StartupAssumption
    <3> QED BY <3>1, <3>2 DEF BootInv, ObjectsInv
  <2> QED BY <2>1, <2>2 DEF Start!NothingStranded
<1> QED BY <1>1, BootSafe, PTL

-----------------------------------------------------------------------------
(***************************************************************************)
(* Time of day.                                                            *)
(***************************************************************************)
TimeTypes ==
    /\ {nticks, began, setTo, setAt, time} \subseteq Nat
    /\ tick_rate \in {0} \cup 1 .. ALT_US
    /\ reset_sec \in Int /\ reset_usec \in Int
    /\ calling \in {"none", "settimeofday", "gettimeofday", "times"}

\* What a call has loaded are words of counts the clock had since it began to load.
LoadsInv ==
    /\ began <= nticks
    /\ calling # "none" =>
          /\ nticks - began < Word
          /\ low # Time!None => \E n \in began .. nticks : low = n % Word
          /\ high # Time!None => \E n \in began .. nticks : high = n \div Word

\* The offset kept is the time set less the count at the time, in seconds and microseconds.
OffsetInv ==
    /\ tick_rate # 0 =>
          /\ reset_sec = (setTo \div ALT_US) - (setAt \div tick_rate)
          /\ reset_usec = (setTo % ALT_US) - ((setAt * (ALT_US \div tick_rate)) % ALT_US)
    /\ tick_rate = 0 => reset_sec = 0 /\ reset_usec = 0 /\ setTo = 0 /\ setAt = 0

\* An answer stays right when ticks come after it.
ToldInv ==
    told # Time!NoAnswer => calling = "none" /\ tick_rate # 0 /\ Time!TimeOfDayRight

TimeInv == TimeTypes /\ LoadsInv /\ OffsetInv /\ ToldInv

\* The count a call works with, once both words are loaded: they are those of two counts had
\* in less than a word's worth of ticks.
LEMMA CountLoaded ==
  ASSUME TimeInv, Time!TimeAssumption, calling # "none", low # Time!None, high # Time!None
  PROVE  /\ Time!Loaded \in Nat
         /\ \E n \in began .. nticks :
               /\ Time!Loaded % Word = n % Word
               /\ \/ Time!Loaded = n
                  \/ /\ began \div Word # nticks \div Word
                     /\ n = Time!Loaded - Word \/ n = Time!Loaded + Word
<1>1. Word \in Nat \ {0} /\ began \in Nat /\ nticks \in Nat
  BY DEF TimeInv, TimeTypes, Time!TimeAssumption
<1>2. began <= nticks /\ nticks - began < Word
  BY DEF TimeInv, LoadsInv
<1>3. PICK l \in began .. nticks : low = l % Word
  BY DEF TimeInv, LoadsInv
<1>4. PICK h \in began .. nticks : high = h \div Word
  BY DEF TimeInv, LoadsInv
<1>5. h \in Nat /\ l \in Nat /\ began <= h /\ h <= nticks /\ began <= l /\ l <= nticks
  BY <1>1
<1>6. PICK p \in Nat, x \in 0 .. Word - 1 : h \div Word = p /\ h % Word = x /\ h = (p * Word) + x
  BY <1>1, <1>5, DivMod
<1>7. PICK q \in Nat, y \in 0 .. Word - 1 : l \div Word = q /\ l % Word = y /\ l = (q * Word) + y
  BY <1>1, <1>5, DivMod
<1>8. PICK c \in Nat, z \in 0 .. Word - 1 : began \div Word = c /\ began = (c * Word) + z
  BY <1>1, DivMod
<1>9. PICK d \in Nat, u \in 0 .. Word - 1 : nticks \div Word = d /\ nticks = (d * Word) + u
  BY <1>1, DivMod
<1>10. c <= p /\ p <= d /\ c <= q /\ q <= d
  <2>1. began \div Word <= h \div Word /\ h \div Word <= nticks \div Word
    BY <1>1, <1>2, <1>5, DivMonotone
  <2>2. began \div Word <= l \div Word /\ l \div Word <= nticks \div Word
    BY <1>1, <1>2, <1>5, DivMonotone
  <2> QED BY <2>1, <2>2, <1>6, <1>7, <1>8, <1>9
<1>11. d <= c + 1
  <2> SUFFICES ASSUME c + 1 < d PROVE FALSE
    OBVIOUS
  <2>1. ((c + 1) * Word) + Word <= d * Word
    BY <1>1, Monotone
  <2>2. PICK cw \in Nat, dw \in Nat : cw = c * Word /\ dw = d * Word /\ (c + 1) * Word = cw + Word
    BY <1>1
  <2> QED BY <1>8, <1>9, <2>1, <2>2, <1>1, <1>2
<1>12. PICK pw \in Nat, qw \in Nat : pw = p * Word /\ qw = q * Word
  BY <1>1
<1>13. ((h \div Word) * Word) + (l % Word) = pw + y /\ l = qw + y
  BY <1>6, <1>7, <1>12
<1>14. ((p * Word) + y) % Word = y
  BY <1>1, ModuloOf
<1>15. p = q \/ p = q + 1 \/ q = p + 1
  BY <1>10, <1>11
<1>16. (q + 1) * Word = (q * Word) + Word /\ (p + 1) * Word = (p * Word) + Word
  BY <1>1
<1>17. /\ p = q => pw = qw
       /\ p = q + 1 => pw = qw + Word
       /\ q = p + 1 => qw = pw + Word
  BY <1>1, <1>12, <1>16
<1>18. p # q => c # d
  BY <1>10
<1>19. began \div Word # nticks \div Word <=> c # d
  BY <1>8, <1>9
<1> DEFINE v == ((h \div Word) * Word) + (l % Word)
<1>20. v = pw + y
  BY <1>1, <1>13
<1> HIDE DEF v
<1>21. v \in Nat
  BY <1>1, <1>20
<1>22. v % Word = l % Word
  BY <1>7, <1>12, <1>14, <1>20
<1>23. v = l \/ (began \div Word # nticks \div Word /\ (v = l - Word \/ v = l + Word))
  <2>1. CASE p = q
    BY <2>1, <1>1, <1>13, <1>17, <1>20
  <2>2. CASE p = q + 1
    <3>1. v = l + Word
      BY <2>2, <1>1, <1>13, <1>17, <1>20
    <3>2. p # q
      BY <2>2
    <3> QED BY <3>1, <3>2, <1>18, <1>19
  <2>3. CASE q = p + 1
    <3>1. v = l - Word
      BY <2>3, <1>1, <1>13, <1>17, <1>20
    <3>2. p # q
      BY <2>3
    <3> QED BY <3>1, <3>2, <1>18, <1>19
  <2> QED BY <1>15, <2>1, <2>2, <2>3
<1>24. Time!Loaded = v
  BY <1>3, <1>4 DEF Time!Loaded, v
<1>25. l = v - Word \/ l = v + Word <=> v = l - Word \/ v = l + Word
  BY <1>1, <1>5, <1>21
<1> QED BY <1>21, <1>22, <1>23, <1>24, <1>25

\* What is said of an answer: of its count, of a times(), and of a gettimeofday().
CountRight ==
    \/ \E m \in began .. nticks : told.ticks = m
    \/ /\ began \div Word # nticks \div Word
       /\ \/ \E m \in began .. nticks : told.ticks - Word = m
          \/ \E m \in began .. nticks : told.ticks + Word = m
TimesRight == told.call = "times" => \E m \in began .. nticks : told.time = m % Word
Off(t, n) == (t * tick_rate) - ((setTo * tick_rate) + ((n - setAt) * ALT_US))
Expected(n) == (setTo * tick_rate) + ((n - setAt) * ALT_US)
ReportOk ==
    told.call = "gettimeofday" =>
       IF Expected(told.ticks) < 0 THEN told.time * tick_rate < (2 * ALT_US) * tick_rate
       ELSE /\ ALT_US % tick_rate = 0 => Off(told.time, told.ticks) = 0
            /\ -((2 * ALT_US) * tick_rate) < Off(told.time, told.ticks)
            /\ Off(told.time, told.ticks) < (2 * ALT_US) * tick_rate

LEMMA AnswerParts ==
  Time!TimeOfDayRight <=> (told # Time!NoAnswer => CountRight /\ TimesRight /\ ReportOk)
BY Zenon DEF Time!TimeOfDayRight, CountRight, TimesRight, ReportOk, Off, Expected

\* The same of the next state.
LEMMA AnswerPartsLater ==
  Time!TimeOfDayRight' <=> (told' # Time!NoAnswer => CountRight' /\ TimesRight' /\ ReportOk')
BY Zenon DEF Time!TimeOfDayRight, CountRight, TimesRight, ReportOk, Off, Expected

\* An answer is right from the return on, however far the clock has got since.
LEMMA AnswerStays ==
  ASSUME TimeInv, Time!TimeAssumption, told # Time!NoAnswer,
         UNCHANGED <<told, began, tick_rate, setTo, setAt>>, nticks' \in Nat, nticks <= nticks'
  PROVE  Time!TimeOfDayRight'
<1>1. /\ Word \in Nat \ {0} /\ began \in Nat /\ nticks \in Nat /\ began <= nticks
  BY DEF TimeInv, TimeTypes, LoadsInv, Time!TimeAssumption
<1>2. \A n \in began .. nticks : n \in began' .. nticks'
  BY <1>1
<1>3. began \div Word # nticks \div Word => began' \div Word # nticks' \div Word
  <2>1. began \div Word <= nticks \div Word /\ nticks \div Word <= nticks' \div Word
    BY <1>1, DivMonotone
  <2>2. began \div Word \in Nat /\ nticks \div Word \in Nat /\ nticks' \div Word \in Nat
    BY <1>1, DivMod
  <2> QED BY <2>1, <2>2
<1>4. CountRight /\ TimesRight /\ ReportOk
  <2>1. Time!TimeOfDayRight /\ tick_rate \in Nat
    BY DEF TimeInv, ToldInv, TimeTypes, Time!TimeAssumption
  <2> QED BY <2>1, AnswerParts
<1>5. CountRight'
  BY <1>2, <1>3, <1>4 DEF CountRight
<1>6. TimesRight'
  BY <1>2, <1>4 DEF TimesRight
<1>7. ReportOk'
  BY <1>4, Zenon DEF ReportOk, Off, Expected
<1> QED BY <1>5, <1>6, <1>7, AnswerPartsLater

LEMMA TimeInvInit ==
  ASSUME Time!Init, Time!TimeAssumption
  PROVE  TimeInv
<1> USE DEF Time!Init
<1>1. TimeTypes /\ LoadsInv /\ OffsetInv
  BY DEF TimeTypes, LoadsInv, OffsetInv
<1>2. ToldInv
  BY DEF ToldInv
<1> QED BY <1>1, <1>2 DEF TimeInv

\* A step that leaves the answer and what it is about alone, but for the count.
LEMMA QuietStep ==
  ASSUME TimeInv, Time!TimeAssumption, nticks' \in Nat, nticks <= nticks',
         UNCHANGED <<told, began, tick_rate, setTo, setAt, calling>>
  PROVE  ToldInv'
<1>1. CASE told = Time!NoAnswer
  BY <1>1 DEF ToldInv, Time!NoAnswer, Time!Answer
<1>2. CASE told # Time!NoAnswer
  <2>1. calling = "none" /\ tick_rate # 0
    BY <1>2 DEF TimeInv, ToldInv
  <2>2. Time!TimeOfDayRight'
    BY <1>2, AnswerStays
  <2> QED BY <2>1, <2>2 DEF ToldInv
<1> QED BY <1>1, <1>2

LEMMA ClockStep ==
  ASSUME TimeInv, Time!TimeAssumption,
         Time!alt_sysclk_init \/ Time!Tick \/ UNCHANGED Time!vars
  PROVE  TimeInv'
<1> USE DEF TimeInv
<1>1. CASE Time!alt_sysclk_init
  <2>1. /\ tick_rate' \in {0} \cup 1 .. ALT_US
        /\ tick_rate # 0 => tick_rate' = tick_rate
        /\ UNCHANGED <<nticks, reset_sec, reset_usec, calling, time, low, high, told, began,
                       setTo, setAt>>
    BY <1>1 DEF Time!alt_sysclk_init, Time!TimeAssumption, Time!reset, Time!set, TimeTypes
  <2>2. TimeTypes' /\ LoadsInv'
    BY <2>1 DEF TimeTypes, LoadsInv, Time!None
  <2>3. OffsetInv'
    <3>1. CASE tick_rate # 0
      BY <2>1, <3>1 DEF OffsetInv
    <3>2. CASE tick_rate = 0
      <4>1. reset_sec' = 0 /\ reset_usec' = 0 /\ setTo' = 0 /\ setAt' = 0
        BY <2>1, <3>2 DEF OffsetInv
      <4>2. ASSUME tick_rate' # 0
            PROVE  /\ 0 \div ALT_US = 0 /\ 0 \div tick_rate' = 0 /\ 0 % ALT_US = 0
                   /\ (0 * (ALT_US \div tick_rate')) % ALT_US = 0
        <5>1. tick_rate' \in Nat \ {0} /\ ALT_US \in Nat \ {0}
          BY <2>1, <4>2 DEF Time!TimeAssumption
        <5>2. ALT_US \div tick_rate' \in Nat
          BY <5>1, DivMod
        <5>3. 0 * (ALT_US \div tick_rate') = 0
          BY <5>2
        <5>4. \A d \in Nat \ {0} : 0 \div d = 0 /\ 0 % d = 0
          OBVIOUS
        <5> QED BY <5>1, <5>3, <5>4, Zenon
      <4>3. ASSUME tick_rate' # 0
            PROVE  /\ reset_sec' = (setTo' \div ALT_US) - (setAt' \div tick_rate')
                   /\ reset_usec' = (setTo' % ALT_US)
                                       - ((setAt' * (ALT_US \div tick_rate')) % ALT_US)
        <5>1. setTo' \div ALT_US = 0 /\ setAt' \div tick_rate' = 0
          BY <4>1, <4>2, <4>3, Zenon
        <5>2. setTo' % ALT_US = 0 /\ (setAt' * (ALT_US \div tick_rate')) % ALT_US = 0
          BY <4>1, <4>2, <4>3, Zenon
        <5> QED BY <4>1, <5>1, <5>2
      <4> QED BY <4>1, <4>3, Zenon DEF OffsetInv
    <3> QED BY <3>1, <3>2
  <2>4. ToldInv'
    <3>1. CASE tick_rate # 0
      BY <2>1, <3>1, QuietStep DEF TimeTypes
    <3>2. CASE tick_rate = 0
      BY <2>1, <3>2 DEF ToldInv, Time!NoAnswer, Time!Answer
    <3> QED BY <3>1, <3>2
  <2> QED BY <2>2, <2>3, <2>4
<1>2. CASE Time!Tick
  <2>1. /\ nticks' = nticks + 1
        /\ calling # "none" => nticks' - began < Word
        /\ UNCHANGED <<tick_rate, reset_sec, reset_usec, calling, time, low, high, told, began,
                       setTo, setAt>>
    BY <1>2 DEF Time!Tick, Time!reset, Time!set, TimeTypes
  <2>2. TimeTypes'
    <3>1. nticks' \in Nat
      BY <2>1 DEF TimeTypes
    <3> QED BY <2>1, <3>1, Zenon DEF TimeTypes
  <2>3. LoadsInv'
    <3>1. \A n \in began .. nticks : n \in began' .. nticks'
      BY <2>1 DEF TimeTypes
    <3>2. began' <= nticks'
      BY <2>1 DEF TimeTypes, LoadsInv
    <3> QED BY <2>1, <3>1, <3>2 DEF LoadsInv, Time!None
  <2>4. OffsetInv'
    BY <2>1 DEF OffsetInv
  <2>5. ToldInv'
    BY <2>1, QuietStep DEF TimeTypes
  <2> QED BY <2>2, <2>3, <2>4, <2>5
<1>3. CASE UNCHANGED Time!vars
  <2>1. UNCHANGED <<nticks, tick_rate, reset_sec, reset_usec, calling, time, low, high, told,
                    began, setTo, setAt>>
    BY <1>3 DEF Time!vars
  <2>2. TimeTypes' /\ OffsetInv' /\ LoadsInv'
    BY <2>1 DEF TimeTypes, OffsetInv, LoadsInv, Time!None
  <2>3. ToldInv'
    BY <2>1, QuietStep DEF TimeTypes
  <2> QED BY <2>2, <2>3
<1> QED BY <1>1, <1>2, <1>3

LEMMA LoadStep ==
  ASSUME TimeInv, Time!TimeAssumption, Time!Call \/ Time!LoadLow \/ Time!LoadHigh \/ Time!NoClock
  PROVE  TimeInv'
<1> USE DEF TimeInv
<1>0. Word \in Nat \ {0}
  BY DEF Time!TimeAssumption
<1>1. CASE Time!Call
  <2>1. /\ calling' \in {"settimeofday", "gettimeofday", "times"} /\ time' \in Nat
        /\ low' = Time!None /\ high' = Time!None /\ began' = nticks /\ told' = Time!NoAnswer
        /\ UNCHANGED <<nticks, tick_rate, reset_sec, reset_usec, setTo, setAt>>
    BY <1>1 DEF Time!Call, Time!clock, Time!reset, Time!set, Time!TimeAssumption
  <2>2. TimeTypes' /\ OffsetInv'
    BY <2>1 DEF TimeTypes, OffsetInv
  <2>3. LoadsInv'
    BY <1>0, <2>1 DEF TimeTypes, LoadsInv, Time!None
  <2>4. ToldInv'
    BY <2>1 DEF ToldInv, Time!NoAnswer, Time!Answer
  <2> QED BY <2>2, <2>3, <2>4
<1>2. CASE Time!LoadLow
  <2>1. /\ calling # "none" /\ low' = nticks % Word
        /\ began' = IF high = Time!None THEN nticks ELSE began
        /\ UNCHANGED <<nticks, tick_rate, reset_sec, reset_usec, calling, time, high, told,
                       setTo, setAt>>
    BY <1>2 DEF Time!LoadLow, Time!clock, Time!reset, Time!set
  <2>2. told = Time!NoAnswer
    BY <2>1 DEF ToldInv
  <2>3. TimeTypes' /\ OffsetInv'
    BY <2>1 DEF TimeTypes, OffsetInv
  <2>4. began' \in Nat /\ began' <= nticks' /\ nticks' - began' < Word /\ nticks' \in began' .. nticks'
    BY <1>0, <2>1 DEF TimeTypes, LoadsInv
  <2>5. high' # Time!None => \E n \in began' .. nticks' : high' = n \div Word
    BY <2>1 DEF LoadsInv
  <2>6. \E n \in began' .. nticks' : low' = n % Word
    BY <2>1, <2>4
  <2>7. LoadsInv'
    BY <2>4, <2>5, <2>6 DEF LoadsInv, Time!None
  <2>8. ToldInv'
    BY <2>1, <2>2 DEF ToldInv, Time!NoAnswer, Time!Answer
  <2> QED BY <2>3, <2>7, <2>8
<1>3. CASE Time!LoadHigh
  <2>1. /\ calling # "none" /\ high' = nticks \div Word
        /\ began' = IF low = Time!None THEN nticks ELSE began
        /\ UNCHANGED <<nticks, tick_rate, reset_sec, reset_usec, calling, time, low, told,
                       setTo, setAt>>
    BY <1>3 DEF Time!LoadHigh, Time!clock, Time!reset, Time!set
  <2>2. told = Time!NoAnswer
    BY <2>1 DEF ToldInv
  <2>3. TimeTypes' /\ OffsetInv'
    BY <2>1 DEF TimeTypes, OffsetInv
  <2>4. began' \in Nat /\ began' <= nticks' /\ nticks' - began' < Word /\ nticks' \in began' .. nticks'
    BY <1>0, <2>1 DEF TimeTypes, LoadsInv
  <2>5. low' # Time!None => \E n \in began' .. nticks' : low' = n % Word
    BY <2>1 DEF LoadsInv
  <2>6. \E n \in began' .. nticks' : high' = n \div Word
    BY <2>1, <2>4
  <2>7. LoadsInv'
    BY <2>4, <2>5, <2>6 DEF LoadsInv, Time!None
  <2>8. ToldInv'
    BY <2>1, <2>2 DEF ToldInv, Time!NoAnswer, Time!Answer
  <2> QED BY <2>3, <2>7, <2>8
<1>4. CASE Time!NoClock
  <2>1. /\ calling' = "none" /\ told' = Time!NoAnswer
        /\ UNCHANGED <<nticks, tick_rate, reset_sec, reset_usec, time, began, setTo, setAt>>
    BY <1>4 DEF Time!NoClock, Time!clock, Time!reset, Time!set
  <2>2. TimeTypes' /\ OffsetInv' /\ LoadsInv'
    BY <2>1 DEF TimeTypes, OffsetInv, LoadsInv
  <2>3. ToldInv'
    BY <2>1 DEF ToldInv, Time!NoAnswer, Time!Answer
  <2> QED BY <2>2, <2>3
<1> QED BY <1>1, <1>2, <1>3, <1>4

LEMMA ReturnStep ==
  ASSUME TimeInv, Time!TimeAssumption, Time!settimeofday \/ Time!gettimeofday \/ Time!times
  PROVE  TimeInv'
<1> USE DEF TimeInv
<1>0. ALT_US \in Nat \ {0} /\ Word \in Nat \ {0}
  BY DEF Time!TimeAssumption
<1>1. /\ tick_rate # 0 /\ calling # "none" /\ low # Time!None /\ high # Time!None
      /\ calling' = "none" /\ UNCHANGED <<nticks, tick_rate, time, began>>
      /\ told'.call = calling /\ told'.ticks = Time!Loaded
  BY DEF Time!settimeofday, Time!gettimeofday, Time!times, Time!Ready, Time!Return, Time!clock,
     Time!Answer
<1>2. tick_rate \in 1 .. ALT_US /\ tick_rate \in Nat \ {0}
  BY <1>1 DEF TimeTypes
<1>3. /\ Time!Loaded \in Nat
      /\ \E n \in began .. nticks :
            /\ Time!Loaded % Word = n % Word
            /\ \/ Time!Loaded = n
               \/ /\ began \div Word # nticks \div Word
                  /\ n = Time!Loaded - Word \/ n = Time!Loaded + Word
  BY <1>1, CountLoaded
<1>4. CountRight'
  BY <1>1, <1>3 DEF CountRight
<1>5. LoadsInv'
  BY <1>1 DEF LoadsInv
<1>6. CASE Time!settimeofday
  <2>1. /\ reset_sec' = (time \div ALT_US) - (Time!Loaded \div tick_rate)
        /\ reset_usec' = (time % ALT_US) - ((Time!Loaded * (ALT_US \div tick_rate)) % ALT_US)
        /\ setTo' = time /\ setAt' = Time!Loaded /\ told'.call = "settimeofday"
    BY <1>6 DEF Time!settimeofday, Time!Ready, Time!Return, Time!Answer, Time!Sec, Time!Usec
  <2>2. OffsetInv'
    BY <1>1, <2>1 DEF OffsetInv
  <2>3. TimeTypes'
    <3>1. time \div ALT_US \in Nat /\ time % ALT_US \in Nat
      BY <1>0, DivMod DEF TimeTypes
    <3>2. Time!Loaded \div tick_rate \in Nat /\ ALT_US \div tick_rate \in Nat
      BY <1>0, <1>2, <1>3, DivMod
    <3>3. Time!Loaded * (ALT_US \div tick_rate) \in Nat
      BY <1>3, <3>2
    <3>4. (Time!Loaded * (ALT_US \div tick_rate)) % ALT_US \in Nat
      BY <1>0, <3>3, DivMod
    <3>5. reset_sec' \in Int /\ reset_usec' \in Int
      BY <2>1, <3>1, <3>2, <3>4
    <3> QED BY <1>1, <1>3, <2>1, <3>5 DEF TimeTypes
  <2>4. TimesRight' /\ ReportOk'
    BY <2>1 DEF TimesRight, ReportOk
  <2>5. ToldInv'
    BY <1>1, <1>4, <2>4, AnswerPartsLater DEF ToldInv
  <2> QED BY <1>5, <2>2, <2>3, <2>5
<1>7. ASSUME UNCHANGED <<reset_sec, reset_usec, setTo, setAt>>, TimesRight', ReportOk'
      PROVE  TimeInv'
  <2>1. TimeTypes' /\ OffsetInv'
    BY <1>1, <1>7 DEF TimeTypes, OffsetInv
  <2>2. ToldInv'
    BY <1>1, <1>4, <1>7, AnswerPartsLater DEF ToldInv
  <2> QED BY <1>5, <2>1, <2>2
<1>8. CASE Time!times
  <2>1. /\ UNCHANGED <<reset_sec, reset_usec, setTo, setAt>>
        /\ told'.call = "times" /\ told'.time = Time!Loaded % Word
    BY <1>8 DEF Time!times, Time!Ready, Time!Return, Time!Answer, Time!reset, Time!set
  <2>2. TimesRight' /\ ReportOk'
    BY <1>1, <1>3, <2>1 DEF TimesRight, ReportOk
  <2> QED BY <1>7, <2>1, <2>2
<1>9. CASE Time!gettimeofday
  <2> DEFINE n == Time!Loaded
             q == ALT_US \div tick_rate
             sec == ((setTo \div ALT_US) - (setAt \div tick_rate)) + (n \div tick_rate)
             usec == ((setTo % ALT_US) - ((setAt * q) % ALT_US)) + ((n * q) % ALT_US)
  <2>1. /\ UNCHANGED <<reset_sec, reset_usec, setTo, setAt>> /\ told'.call = "gettimeofday"
        /\ told'.time = Time!Normalised(reset_sec + Time!Sec(n), reset_usec + Time!Usec(n))
    BY <1>9 DEF Time!gettimeofday, Time!Ready, Time!Return, Time!Answer, Time!reset, Time!set
  <2>2. reset_sec + Time!Sec(n) = sec /\ reset_usec + Time!Usec(n) = usec
    BY <1>1 DEF Time!Sec, Time!Usec, OffsetInv
  <2>3. told'.time = IF usec < 0 /\ sec <= 0 THEN 0 ELSE (sec * ALT_US) + usec
    BY <2>1, <2>2, Zenon DEF Time!Normalised
  <2>4. ReportOk'
    <3>1. setTo \in Nat /\ setAt \in Nat /\ n \in Nat
      BY <1>3 DEF TimeTypes
    <3>2. LET t == IF usec < 0 /\ sec <= 0 THEN 0 ELSE (sec * ALT_US) + usec
              expected == (setTo * tick_rate) + ((n - setAt) * ALT_US)
              error == (t * tick_rate) - expected
          IN IF expected < 0 THEN t * tick_rate < (2 * ALT_US) * tick_rate
             ELSE /\ ALT_US % tick_rate = 0 => error = 0
                  /\ -((2 * ALT_US) * tick_rate) < error /\ error < (2 * ALT_US) * tick_rate
      <4> HIDE DEF n
      <4> QED BY <1>0, <1>2, <3>1, ReportRight
    <3> HIDE DEF n, sec, usec
    <3>3. told'.ticks = n /\ tick_rate' = tick_rate /\ setTo' = setTo /\ setAt' = setAt
      BY <1>1, <2>1 DEF n
    <3> QED BY <2>3, <3>2, <3>3, Zenon DEF ReportOk, Off, Expected
  <2>5. TimesRight'
    BY <2>1 DEF TimesRight
  <2> QED BY <1>7, <2>1, <2>4, <2>5
<1> QED BY <1>6, <1>8, <1>9

LEMMA TimeMoves ==
  ASSUME Runs("time"), [HalNext]_halvars
  PROVE  [Time!Next]_(Time!vars)
<1>1. CASE UNCHANGED halvars
  BY <1>1 DEF halvars, timevars, Time!vars
<1>2. CASE HalNext
  BY <1>2 DEF HalNext, Runs
<1> QED BY <1>1, <1>2

LEMMA TimeSafe == HalSpec => [](Runs("time") => TimeInv)
<1>1. HalInit => (Runs("time") => TimeInv)
  BY TimeInvInit, ServicesAssumption DEF HalInit
<1>2. (Runs("time") => TimeInv) /\ [HalNext]_halvars => (Runs("time") => TimeInv)'
  <2> SUFFICES ASSUME Runs("time") => TimeInv, [HalNext]_halvars, Runs("time")'
               PROVE  TimeInv'
    OBVIOUS
  <2>1. Runs("time") /\ TimeInv
    BY ServiceStays DEF Runs
  <2>2. [Time!Next]_(Time!vars)
    BY <2>1, TimeMoves
  <2>3. Time!TimeAssumption
    BY ServicesAssumption
  <2> QED BY <2>1, <2>2, <2>3, ClockStep, LoadStep, ReturnStep DEF Time!Next
<1> QED BY <1>1, <1>2, PTL DEF HalSpec

\* Whatever ticks come between the loads of the two words of the count, the clock calls
\* work with a count the clock had meanwhile, but for a high word when the low one rolled
\* over; from it, gettimeofday() tells the time set and the ticks since to less than two
\* seconds, and exactly at a rate that divides one (alt_settod.c, alt_gettod.c, alt_times.c).
THEOREM TimesAreRight == HalSpec => []TimeOfDayRight
<1>1. (Runs("time") => TimeInv) => TimeOfDayRight
  <2> SUFFICES ASSUME Runs("time") => TimeInv, Runs("time") PROVE Time!TimeOfDayRight
    BY DEF TimeOfDayRight
  <2>1. told # Time!NoAnswer => Time!TimeOfDayRight
    BY DEF TimeInv, ToldInv
  <2> QED BY <2>1, AnswerParts
<1> QED BY <1>1, TimeSafe, PTL

-----------------------------------------------------------------------------
(***************************************************************************)
(* The log.                                                                *)
(***************************************************************************)
Written == UNION {{text[i] : i \in 1 .. Len(text)} : text \in Texts}
Shown == (Written \cup {"boot", "start", "beat", "alarm", "irq", "echo", "data", "D", "\n"}) \ {Log!CtrlD}

LogTypes ==
    /\ todo \in [Log!Threads -> Seq(Shown)] /\ polled \in [Log!Threads -> BOOLEAN]
    /\ fifo \in Seq(Shown) /\ log_tx \in Seq(Shown) /\ host \subseteq Shown
    /\ lost = [t \in Log!Threads |-> lost[t]] /\ ahead \in Nat

\* A thread that has seen room has a character to store.  The room the handler has seen is
\* still there; that main has seen may be gone by as much as handlers have stored since.
RoomInv ==
    /\ Len(fifo) <= Space /\ lost["isr"] = 0
    /\ \A t \in Log!Threads : polled[t] => todo[t] # <<>>
    /\ polled["isr"] => running # "none" /\ Len(fifo) < Space
    /\ polled["main"] => Len(fifo) < Space + ahead

\* Each character main has lost is the work of a run of a handler of its own, and one that
\* runs, or has stored since main's poll, has cost nothing yet.
Run == IF ahead > 0 \/ running # "none" THEN 1 ELSE 0
LossInv == /\ {ticks, interrupts, lost["main"]} \subseteq Nat
           /\ lost["main"] + Run <= ticks + interrupts

\* The alarm has come down since it was started, and goes up again by a period with each
\* report.
ReportInv ==
    /\ {ticks, report_started, reports} \subseteq Nat /\ report_started <= ticks
    /\ IF phase = "again" /\ Log!alt_log_jtag_uart_alarm_on_flag
       THEN /\ log_alarm \in 1 .. JTAG_UART_TICKS + 1 /\ (ticks > report_started => log_alarm <= JTAG_UART_TICKS)
            /\ (ticks - report_started) + log_alarm = ((reports + 1) * JTAG_UART_TICKS) + 1
       ELSE log_alarm = Log!Off /\ reports = 0

LogInv == LogTypes /\ RoomInv /\ LossInv /\ ReportInv

LogFacts == Space \in Nat \ {0} /\ JTAG_UART_TICKS \in Nat \ {0} /\ INTERVAL \in Nat
            /\ ECHO_LEN \in Nat \ {0} /\ Texts \subseteq Seq(STRING)

LEMMA LogFactsHold == LogFacts
BY ServicesAssumption DEF Log!LogAssumption, LogFacts

LEMMA MessageShown ==
  ASSUME NEW kind \in Shown
  PROVE  Log!Message(kind) \in Seq(Shown) /\ Log!Message(kind) # <<>>
<1>1. "\n" \in Shown
  BY DEF Shown, Log!CtrlD
<1> QED BY <1>1 DEF Log!Message

LEMMA EchoShown ==
  ASSUME NEW text \in Texts
  PROVE  Log!Echo(text) \in Seq(Shown) /\ [i \in 1 .. Len(text) |-> "data"] \in Seq(Shown)
<1> DEFINE length == IF ECHO_LEN > Len(text) THEN Len(text) ELSE ECHO_LEN
           body == [i \in 1 .. length - 1 |-> Log!Escaped(text[i])]
<1>1. text \in Seq(STRING) /\ Len(text) \in Nat /\ length \in Nat /\ length <= Len(text)
  BY LogFactsHold DEF LogFacts
<1>2. "\n" \in Shown /\ "echo" \in Shown /\ "D" \in Shown /\ "data" \in Shown
  BY DEF Shown, Log!CtrlD
<1>3. \A i \in 1 .. length - 1 : Log!Escaped(text[i]) \in Shown
  <2> SUFFICES ASSUME NEW i \in 1 .. length - 1 PROVE Log!Escaped(text[i]) \in Shown
    OBVIOUS
  <2>1. i \in 1 .. Len(text)
    BY <1>1
  <2>2. text[i] \in Written
    BY <1>1, <2>1 DEF Written
  <2> QED BY <1>2, <2>2 DEF Log!Escaped, Shown
<1>4. CASE length < 2
  <2>1. Log!Echo(text) = <<>>
    BY <1>4 DEF Log!Echo
  <2> QED BY <1>1, <1>2, <2>1
<1>5. CASE ~(length < 2)
  <2>1. Log!Echo(text) = (<<"echo">> \o body) \o <<"\n">>
    BY <1>5 DEF Log!Echo
  <2> HIDE DEF length
  <2>2. length - 1 \in Nat
    BY <1>1, <1>5
  <2>3. body \in Seq(Shown)
    BY <1>3, <2>2
  <2> HIDE DEF body
  <2>4. <<"echo">> \in Seq(Shown) /\ <<"\n">> \in Seq(Shown)
    BY <1>2
  <2> QED BY <1>1, <1>2, <2>1, <2>3, <2>4
<1> QED BY <1>4, <1>5

\* At its end the handler of the UART has moved what there is room for.
LEMMA ReturnMoves ==
  ASSUME LogTypes, RoomInv, Log!Return
  PROVE  \E n \in 0 .. Len(log_tx) : /\ Len(fifo) + n <= Space /\ Log!Overtakes(n)
                                 /\ fifo' = fifo \o SubSeq(log_tx, 1, n) /\ log_tx' = SubSeq(log_tx, n + 1, Len(log_tx))
<1> DEFINE n == IF running = "jtag" /\ Len(log_tx) > Space - Len(fifo) THEN Space - Len(fifo)
                ELSE IF running = "jtag" THEN Len(log_tx) ELSE 0
<1>1. n \in 0 .. Len(log_tx) /\ Len(fifo) + n <= Space
  BY LogFactsHold DEF LogFacts, LogTypes, RoomInv
<1>2. Log!Overtakes(n) /\ fifo' = fifo \o SubSeq(log_tx, 1, n) /\ log_tx' = SubSeq(log_tx, n + 1, Len(log_tx))
  BY DEF Log!Return
<1> HIDE DEF n
<1> QED BY <1>1, <1>2

LEMMA PrintsKeep ==
  ASSUME LogTypes, NEW t \in Log!Threads, NEW text \in Seq(Shown), Log!Prints(t, text),
         polled' = polled, Log!port' = Log!port, log_tx' \in Seq(Shown)
  PROVE  LogTypes'
<1>1. fifo' = fifo /\ host' = host /\ lost' = lost /\ ahead' = ahead
  BY DEF Log!port
<1>2. todo' \in [Log!Threads -> Seq(Shown)]
  BY DEF LogTypes, Log!Prints
<1> QED BY <1>1, <1>2 DEF LogTypes

LEMMA LogTypesKept ==
  ASSUME LogTypes, RoomInv, Log!Next
  PROVE  LogTypes'
<1> USE LogFactsHold DEF LogFacts
<1>0. Log!Thread \in Log!Threads /\ \A t \in Log!Threads : todo[t] \in Seq(Shown)
  BY DEF LogTypes, Log!Thread, Log!Threads
<1>10. "main" \in Log!Threads /\ "isr" \in Log!Threads /\ log_tx \in Seq(Shown)
  BY DEF LogTypes, Log!Threads
<1>1. CASE Log!alt_log_txchar_Poll
  BY <1>0, <1>1 DEF LogTypes, Log!alt_log_txchar_Poll, Log!port
<1>2. CASE Log!alt_log_txchar_Store
  <2>1. Tail(todo[Log!Thread]) \in Seq(Shown) /\ Head(todo[Log!Thread]) \in Shown
    BY <1>0, <1>2 DEF Log!alt_log_txchar_Store, Log!Ready
  <2>2. fifo' \in Seq(Shown)
    <3>1. fifo \in Seq(Shown) /\ Append(fifo, Head(todo[Log!Thread])) \in Seq(Shown)
      BY <2>1 DEF LogTypes
    <3> QED BY <1>2, <3>1 DEF Log!alt_log_txchar_Store
  <2>3. lost' = [t \in Log!Threads |-> lost'[t]]
    <3>1. lost = [t \in Log!Threads |-> lost[t]]
      BY DEF LogTypes
    <3>2. CASE lost' = lost
      BY <3>1, <3>2
    <3>3. CASE lost' = [lost EXCEPT ![Log!Thread] = @ + 1]
      BY <3>1, <3>3
    <3> QED BY <1>2, <3>2, <3>3 DEF Log!alt_log_txchar_Store
  <2>4. ahead' \in Nat
    BY <1>2 DEF LogTypes, Log!alt_log_txchar_Store, Log!Overtakes
  <2> QED BY <1>0, <1>2, <2>1, <2>2, <2>3, <2>4 DEF LogTypes, Log!alt_log_txchar_Store
<1>3. CASE Log!HostReads
  BY <1>3 DEF LogTypes, Log!HostReads
<1>4. CASE Log!ALT_LOG_PRINT_BOOT
  <2>1. Log!Message("boot") \in Seq(Shown)
    BY MessageShown DEF Shown, Log!CtrlD
  <2>2. PICK text \in Seq(Shown) : Log!Prints("main", text)
    <3> DEFINE text == IF Log!alt_log_boot_on_flag THEN Log!Message("boot") ELSE <<>>
    <3>1. text \in Seq(Shown)
      BY <2>1
    <3>2. Log!Prints("main", text)
      BY <1>4 DEF Log!ALT_LOG_PRINT_BOOT
    <3> HIDE DEF text
    <3> QED BY <3>1, <3>2
  <2> QED BY <1>4, <2>2, <1>10, PrintsKeep DEF Log!ALT_LOG_PRINT_BOOT
<1>5. CASE Log!ALT_LOG_JTAG_UART_ALARM_REGISTER
  <2>1. Log!Message("start") \in Seq(Shown)
    BY MessageShown DEF Shown, Log!CtrlD
  <2>2. PICK text \in Seq(Shown) : Log!Prints("main", text)
    <3> DEFINE text == IF Log!alt_log_jtag_uart_startup_info_on_flag THEN Log!Message("start") ELSE <<>>
    <3>1. text \in Seq(Shown)
      BY <2>1
    <3>2. Log!Prints("main", text)
      BY <1>5 DEF Log!ALT_LOG_JTAG_UART_ALARM_REGISTER
    <3> HIDE DEF text
    <3> QED BY <3>1, <3>2
  <2> QED BY <1>5, <2>2, <1>10, PrintsKeep DEF Log!ALT_LOG_JTAG_UART_ALARM_REGISTER
<1>6. CASE Log!alt_log_write
  <2>1. PICK text \in Texts : /\ Log!Prints("main", IF Log!alt_log_write_on_flag THEN Log!Echo(text) ELSE <<>>)
                              /\ log_tx' = log_tx \o [i \in 1 .. Len(text) |-> "data"]
    BY <1>6 DEF Log!alt_log_write
  <2>2. Log!Echo(text) \in Seq(Shown) /\ [i \in 1 .. Len(text) |-> "data"] \in Seq(Shown)
    BY EchoShown
  <2>3. log_tx' \in Seq(Shown)
    BY <2>1, <2>2 DEF LogTypes
  <2>4. PICK echo \in Seq(Shown) : Log!Prints("main", echo)
    <3> DEFINE echo == IF Log!alt_log_write_on_flag THEN Log!Echo(text) ELSE <<>>
    <3>1. echo \in Seq(Shown)
      BY <2>2
    <3>2. Log!Prints("main", echo)
      BY <2>1
    <3> HIDE DEF echo
    <3> QED BY <3>1, <3>2
  <2> QED BY <1>6, <2>3, <2>4, <1>10, PrintsKeep DEF Log!alt_log_write
<1>7. CASE Log!Tick
  <2>1. Log!Message("beat") \in Seq(Shown) /\ Log!Message("alarm") \in Seq(Shown)
    BY MessageShown DEF Shown, Log!CtrlD
  <2>2. PICK text \in Seq(Shown) : Log!Prints("isr", text)
    <3> DEFINE beat == IF Log!alt_log_sys_clk_on_flag /\ alt_log_sys_clk_count + 1 > INTERVAL
                       THEN Log!Message("beat") ELSE <<>>
               report1 == IF log_alarm = 1 THEN Log!Message("alarm") ELSE <<>>
    <3>1. beat \in Seq(Shown) /\ report1 \in Seq(Shown)
      BY <2>1
    <3>2. Log!Prints("isr", beat \o report1)
      BY <1>7 DEF Log!Tick
    <3> HIDE DEF beat, report1
    <3>3. beat \o report1 \in Seq(Shown)
      BY <3>1
    <3> QED BY <3>2, <3>3
  <2> QED BY <1>7, <2>2, <1>10, PrintsKeep DEF Log!Tick
<1>8. CASE Log!JtagInterrupt
  <2>1. Log!Message("irq") \in Seq(Shown)
    BY MessageShown DEF Shown, Log!CtrlD
  <2>2. PICK text \in Seq(Shown) : Log!Prints("isr", text)
    <3> DEFINE text == IF Log!alt_log_jtag_uart_isr_on_flag THEN Log!Message("irq") ELSE <<>>
    <3>1. text \in Seq(Shown)
      BY <2>1
    <3>2. Log!Prints("isr", text)
      BY <1>8 DEF Log!JtagInterrupt
    <3> HIDE DEF text
    <3> QED BY <3>1, <3>2
  <2> QED BY <1>8, <2>2, <1>10, PrintsKeep DEF Log!JtagInterrupt
<1>9. CASE Log!Return
  <2>1. PICK n \in 0 .. Len(log_tx) : /\ Len(fifo) + n <= Space /\ Log!Overtakes(n)
                                  /\ fifo' = fifo \o SubSeq(log_tx, 1, n) /\ log_tx' = SubSeq(log_tx, n + 1, Len(log_tx))
    BY <1>9, ReturnMoves
  <2>2. fifo' \in Seq(Shown) /\ log_tx' \in Seq(Shown)
    <3>1. SubSeq(log_tx, 1, n) \in Seq(Shown) /\ SubSeq(log_tx, n + 1, Len(log_tx)) \in Seq(Shown)
      BY <1>10
    <3>2. fifo \in Seq(Shown)
      BY DEF LogTypes
    <3> QED BY <2>1, <3>1, <3>2, ConcatProperties
  <2>3. ahead' \in Nat
    BY <2>1 DEF LogTypes, Log!Overtakes
  <2> QED BY <1>9, <2>2, <2>3 DEF LogTypes, Log!Return
<1> QED BY <1>1, <1>2, <1>3, <1>4, <1>5, <1>6, <1>7, <1>8, <1>9 DEF Log!Next

LEMMA RoomKept ==
  ASSUME LogTypes, RoomInv, Log!Next
  PROVE  RoomInv'
<1> USE LogFactsHold DEF LogFacts
<1>0. /\ Log!Thread \in Log!Threads /\ Log!Threads = {"main", "isr"} /\ Len(fifo) \in Nat /\ ahead \in Nat
      /\ DOMAIN todo = Log!Threads /\ polled \in [Log!Threads -> BOOLEAN] /\ DOMAIN lost = Log!Threads
      /\ Log!Thread = "isr" <=> running # "none"
  BY DEF LogTypes, Log!Thread, Log!Threads
<1>1. CASE Log!alt_log_txchar_Poll
  BY <1>0, <1>1 DEF RoomInv, Log!alt_log_txchar_Poll, Log!port
<1>2. CASE Log!alt_log_txchar_Store
  <2>1. CASE Log!Thread = "isr"
    <3>1. Len(fifo) < Space /\ polled["isr"]
      BY <1>2, <2>1 DEF RoomInv, Log!alt_log_txchar_Store, Log!Ready
    <3>2. Len(fifo') = Len(fifo) + 1 /\ lost' = lost
      BY <1>2, <3>1 DEF LogTypes, Log!alt_log_txchar_Store
    <3>3. /\ ~polled'["isr"] /\ polled'["main"] = polled["main"] /\ todo'["main"] = todo["main"]
          /\ polled["main"] => ahead' = ahead + 1
          /\ running' = running
      BY <1>0, <1>2, <2>1 DEF Log!alt_log_txchar_Store, Log!Overtakes
    <3> QED BY <1>0, <3>1, <3>2, <3>3 DEF RoomInv
  <2>2. CASE Log!Thread = "main"
    <3>1. Len(fifo') <= Space
      BY <1>0, <1>2 DEF LogTypes, RoomInv, Log!alt_log_txchar_Store
    <3>2. /\ ~polled'["main"] /\ polled'["isr"] = polled["isr"] /\ lost'["isr"] = lost["isr"]
          /\ running' = running /\ todo'["isr"] = todo["isr"]
      BY <1>0, <1>2, <2>2 DEF Log!alt_log_txchar_Store
    <3>3. ~polled["isr"]
      BY <1>0, <2>2 DEF RoomInv
    <3> QED BY <1>0, <3>1, <3>2, <3>3 DEF RoomInv
  <2> QED BY <1>0, <2>1, <2>2
<1>3. CASE Log!HostReads
  <2>1. Len(fifo') = Len(fifo) - 1
    BY <1>3 DEF LogTypes, Log!HostReads
  <2> QED BY <1>0, <1>3, <2>1 DEF RoomInv, Log!HostReads
<1>4. CASE Log!ALT_LOG_PRINT_BOOT
  BY <1>0, <1>4 DEF RoomInv, Log!ALT_LOG_PRINT_BOOT, Log!Prints, Log!port, Log!Idle
<1>5. CASE Log!ALT_LOG_JTAG_UART_ALARM_REGISTER
  BY <1>0, <1>5 DEF RoomInv, Log!ALT_LOG_JTAG_UART_ALARM_REGISTER, Log!Prints, Log!port, Log!Idle
<1>6. CASE Log!alt_log_write
  <2>1. PICK text : Log!Prints("main", text)
    BY <1>6 DEF Log!alt_log_write
  <2> QED BY <1>0, <1>6, <2>1 DEF RoomInv, Log!alt_log_write, Log!Prints, Log!port, Log!Idle
<1>7. CASE Log!Tick
  <2>1. PICK text : Log!Prints("isr", text)
    BY <1>7 DEF Log!Tick
  <2>2. running = "none" /\ polled' = polled /\ UNCHANGED Log!port
    BY <1>7 DEF Log!Tick
  <2> QED BY <1>0, <2>1, <2>2 DEF RoomInv, Log!Prints, Log!port
<1>8. CASE Log!JtagInterrupt
  <2>1. PICK text : Log!Prints("isr", text)
    BY <1>8 DEF Log!JtagInterrupt
  <2> QED BY <1>0, <1>8, <2>1 DEF RoomInv, Log!JtagInterrupt, Log!Prints, Log!port
<1>9. CASE Log!Return
  <2>1. PICK n \in 0 .. Len(log_tx) : /\ Len(fifo) + n <= Space /\ Log!Overtakes(n)
                                  /\ fifo' = fifo \o SubSeq(log_tx, 1, n) /\ log_tx' = SubSeq(log_tx, n + 1, Len(log_tx))
    BY <1>9, ReturnMoves
  <2>2. Len(fifo') = Len(fifo) + n
    BY <2>1 DEF LogTypes
  <2>3. /\ ~polled["isr"] /\ polled' = polled /\ todo' = todo /\ lost' = lost
    BY <1>0, <1>9 DEF RoomInv, Log!Return
  <2>4. polled["main"] => ahead' = ahead + n
    BY <2>1 DEF Log!Overtakes
  <2> QED BY <1>0, <2>1, <2>2, <2>3, <2>4 DEF RoomInv
<1> QED BY <1>1, <1>2, <1>3, <1>4, <1>5, <1>6, <1>7, <1>8, <1>9 DEF Log!Next


LEMMA LossKept ==
  ASSUME LogTypes, RoomInv, LossInv, Log!Next
  PROVE  LossInv'
<1>0. /\ Log!Threads = {"main", "isr"} /\ ahead \in Nat /\ Len(fifo) \in Nat
      /\ DOMAIN lost = Log!Threads
      /\ Log!Thread \in Log!Threads /\ (Log!Thread = "isr" <=> running # "none")
      /\ Space \in Nat
  BY LogFactsHold DEF LogFacts, LogTypes, Log!Thread, Log!Threads
<1>1. /\ {ticks, interrupts, lost["main"]} \subseteq Nat /\ Run \in {0, 1} /\ Run' \in {0, 1}
      /\ lost["main"] + Run <= ticks + interrupts
  BY DEF LossInv, Run
<1>2. CASE Log!Tick \/ Log!JtagInterrupt
  <2>1. lost' = lost /\ running = "none" /\ ahead' = ahead
    BY <1>2 DEF Log!Tick, Log!JtagInterrupt, Log!port
  <2>2. \/ ticks' = ticks + 1 /\ interrupts' = interrupts
        \/ ticks' = ticks /\ interrupts' = interrupts + 1
    BY <1>2 DEF Log!Tick, Log!JtagInterrupt, Log!clock
  <2> QED BY <1>1, <2>1, <2>2 DEF LossInv
<1>3. CASE Log!alt_log_txchar_Store
  <2>1. UNCHANGED <<ticks, interrupts, running>>
    BY <1>3 DEF Log!alt_log_txchar_Store, Log!clock
  <2>2. CASE Log!Thread = "isr"
    <3>1. lost'["main"] = lost["main"] /\ Run = 1
      BY <1>0, <1>3, <2>2 DEF Log!alt_log_txchar_Store, Run
    <3> QED BY <1>1, <2>1, <3>1 DEF LossInv
  <2>3. CASE Log!Thread = "main" /\ lost' = lost
    <3>1. Run' = 0
      BY <1>0, <1>3, <2>1, <2>3 DEF Log!alt_log_txchar_Store, Run
    <3> QED BY <1>1, <2>1, <2>3, <3>1 DEF LossInv
  <2>4. CASE Log!Thread = "main" /\ lost' # lost
    <3>1. Run' = 0 /\ lost'["main"] = lost["main"] + 1
      BY <1>0, <1>3, <2>1, <2>4 DEF Log!alt_log_txchar_Store, Run
    <3>2. polled["main"] /\ ~(Len(fifo) < Space)
      BY <1>3, <2>4 DEF Log!alt_log_txchar_Store, Log!Ready
    <3>3. ahead > 0
      BY <1>0, <3>2 DEF RoomInv
    <3>4. Run = 1
      BY <3>3 DEF Run
    <3> QED BY <1>1, <2>1, <3>1, <3>4 DEF LossInv
  <2> QED BY <1>0, <2>2, <2>3, <2>4
<1>4. CASE Log!Return
  <2>1. UNCHANGED <<ticks, interrupts, lost>> /\ Run = 1
    BY <1>4 DEF Log!Return, Log!clock, Run
  <2> QED BY <1>1, <2>1 DEF LossInv
<1>5. CASE \/ Log!alt_log_txchar_Poll \/ Log!HostReads \/ Log!ALT_LOG_PRINT_BOOT
           \/ Log!ALT_LOG_JTAG_UART_ALARM_REGISTER \/ Log!alt_log_write
  <2>1. UNCHANGED <<ticks, interrupts, running, ahead, lost>>
    BY <1>5 DEF Log!alt_log_txchar_Poll, Log!HostReads, Log!ALT_LOG_PRINT_BOOT,
       Log!ALT_LOG_JTAG_UART_ALARM_REGISTER, Log!alt_log_write, Log!clock, Log!port
  <2> QED BY <2>1 DEF LossInv, Run
<1> QED BY <1>2, <1>3, <1>4, <1>5 DEF Log!Next

LEMMA ReportKept ==
  ASSUME ReportInv, Log!Next
  PROVE  ReportInv'
<1> USE LogFactsHold DEF LogFacts
<1>4. {ticks, report_started, reports} \subseteq Nat /\ report_started <= ticks
  BY DEF ReportInv
<1>1. CASE Log!Tick
  <2>0. /\ Log!alt_log_jtag_uart_alarm_on_flag' = Log!alt_log_jtag_uart_alarm_on_flag /\ phase' = phase
        /\ report_started' = report_started /\ ticks' = ticks + 1
    BY <1>1 DEF Log!Tick, Log!alt_log_jtag_uart_alarm_on_flag
  <2>4. phase = "again" /\ Log!alt_log_jtag_uart_alarm_on_flag =>
           /\ log_alarm \in 1 .. JTAG_UART_TICKS + 1
           /\ (ticks - report_started) + log_alarm = ((reports + 1) * JTAG_UART_TICKS) + 1
    BY DEF ReportInv
  <2>1. CASE ~(phase = "again" /\ Log!alt_log_jtag_uart_alarm_on_flag)
    BY <1>1, <2>0, <2>1 DEF ReportInv, Log!Tick, Log!Off
  <2>2. CASE phase = "again" /\ Log!alt_log_jtag_uart_alarm_on_flag /\ log_alarm = 1
    <3>1. log_alarm' = JTAG_UART_TICKS /\ reports' = reports + 1
      BY <1>1, <2>2 DEF Log!Tick, Log!altera_avalon_jtag_uart_report_log
    <3>2. PICK p \in Nat : /\ p = (reports + 1) * JTAG_UART_TICKS
                           /\ p + JTAG_UART_TICKS = ((reports + 1) + 1) * JTAG_UART_TICKS
      <4>1. reports + 1 \in Nat /\ JTAG_UART_TICKS \in Nat
        BY <1>4
      <4>2. \A k, j \in Nat : k * j \in Nat /\ (k + 1) * j = (k * j) + j
        OBVIOUS
      <4> QED BY <4>1, <4>2
    <3>3. (ticks' - report_started') + log_alarm' = ((reports' + 1) * JTAG_UART_TICKS) + 1
      <4>1. (ticks - report_started) + 1 = p + 1
        BY <2>2, <2>4, <3>2
      <4>2. ((ticks + 1) - report_started) + JTAG_UART_TICKS = (p + JTAG_UART_TICKS) + 1
        BY <1>4, <4>1
      <4> QED BY <2>0, <3>1, <3>2, <4>2
    <3>4. log_alarm' \in 1 .. JTAG_UART_TICKS + 1 /\ log_alarm' <= JTAG_UART_TICKS
      BY <3>1
    <3>5. {ticks', report_started', reports'} \subseteq Nat /\ report_started' <= ticks'
      BY <1>4, <2>0, <3>1
    <3> QED BY <2>0, <2>2, <3>3, <3>4, <3>5 DEF ReportInv
  <2>3. CASE phase = "again" /\ Log!alt_log_jtag_uart_alarm_on_flag /\ log_alarm # 1
    <3>1. log_alarm' = log_alarm - 1 /\ reports' = reports
      BY <1>1, <2>3 DEF ReportInv, Log!Tick, Log!Off
    <3>2. PICK p \in Nat : p = (reports + 1) * JTAG_UART_TICKS
      BY <1>4
    <3>3. (ticks' - report_started') + log_alarm' = ((reports' + 1) * JTAG_UART_TICKS) + 1
      <4>1. ((ticks + 1) - report_started) + (log_alarm - 1) = p + 1
        BY <1>4, <2>3, <2>4, <3>2
      <4> QED BY <2>0, <3>1, <3>2, <4>1
    <3>4. log_alarm' \in 1 .. JTAG_UART_TICKS + 1 /\ log_alarm' <= JTAG_UART_TICKS
      BY <2>3, <2>4, <3>1
    <3>5. {ticks', report_started', reports'} \subseteq Nat /\ report_started' <= ticks'
      BY <1>4, <2>0, <3>1
    <3> QED BY <2>0, <2>3, <3>3, <3>4, <3>5 DEF ReportInv
  <2> QED BY <2>1, <2>2, <2>3
<1>2. CASE Log!ALT_LOG_JTAG_UART_ALARM_REGISTER
  <2>0. /\ Log!alt_log_jtag_uart_alarm_on_flag' = Log!alt_log_jtag_uart_alarm_on_flag
        /\ ticks' = ticks /\ reports' = reports
    BY <1>2 DEF Log!ALT_LOG_JTAG_UART_ALARM_REGISTER, Log!alt_log_jtag_uart_alarm_on_flag, Log!report
  <2>1. CASE phase' = "run"
    BY <1>2, <2>0, <2>1 DEF ReportInv, Log!ALT_LOG_JTAG_UART_ALARM_REGISTER, Log!report
  <2>2. CASE phase' # "run"
    <3>1. /\ phase = "run" /\ phase' = "again" /\ report_started' = ticks
          /\ log_alarm' = IF Log!alt_log_jtag_uart_alarm_on_flag THEN JTAG_UART_TICKS + 1 ELSE Log!Off
      BY <1>2, <2>2 DEF Log!ALT_LOG_JTAG_UART_ALARM_REGISTER
    <3>2. reports = 0
      BY <3>1 DEF ReportInv
    <3> QED BY <2>0, <3>1, <3>2 DEF ReportInv
  <2> QED BY <2>1, <2>2
<1>3. CASE ~Log!Tick /\ ~Log!ALT_LOG_JTAG_UART_ALARM_REGISTER
  <2>1. UNCHANGED <<ALT_LOG_FLAGS, ticks, report_started, reports, log_alarm>>
    BY <1>3 DEF Log!Next, Log!alt_log_txchar_Poll, Log!alt_log_txchar_Store, Log!HostReads, Log!ALT_LOG_PRINT_BOOT,
       Log!alt_log_write, Log!JtagInterrupt, Log!Return, Log!clock, Log!report
  <2>2. phase' = phase \/ (phase = "boot" /\ phase' = "driver")
    BY <1>3 DEF Log!Next, Log!alt_log_txchar_Poll, Log!alt_log_txchar_Store, Log!HostReads, Log!ALT_LOG_PRINT_BOOT,
       Log!alt_log_write, Log!JtagInterrupt, Log!Return
  <2> QED BY <2>1, <2>2 DEF ReportInv, Log!alt_log_jtag_uart_alarm_on_flag
<1> QED BY <1>1, <1>2, <1>3

LEMMA LogInvInit == Log!Init => LogInv
<1> SUFFICES ASSUME Log!Init PROVE LogInv
  OBVIOUS
<1>1. LogTypes
  BY DEF Log!Init, LogTypes, Log!Threads
<1>2. RoomInv
  BY LogFactsHold DEF LogFacts, Log!Init, RoomInv, Log!Threads
<1>3. LossInv
  BY DEF Log!Init, LossInv, Run, Log!Threads
<1>4. ReportInv
  BY DEF Log!Init, ReportInv
<1> QED BY <1>1, <1>2, <1>3, <1>4 DEF LogInv

LEMMA LogInvKept == LogInv /\ [Log!Next]_(Log!vars) => LogInv'
<1>1. CASE UNCHANGED Log!vars
  <2>1. UNCHANGED <<ALT_LOG_FLAGS, phase, todo, polled, running>> /\ UNCHANGED <<fifo, host, log_tx, ahead, lost>>
        /\ UNCHANGED <<ticks, interrupts, log_alarm, reports, report_started>>
    BY <1>1 DEF Log!vars
  <2> QED BY <2>1 DEF LogInv, LogTypes, RoomInv, LossInv, Run, ReportInv,
             Log!alt_log_jtag_uart_alarm_on_flag
<1>2. CASE Log!Next
  BY <1>2, LogTypesKept, RoomKept, LossKept, ReportKept DEF LogInv
<1> QED BY <1>1, <1>2

\* The count of the reports is a quotient.
LEMMA LogInvSays == LogInv => Log!LogRight
<1> USE LogFactsHold DEF LogFacts
<1> SUFFICES ASSUME LogInv PROVE Log!LogRight
  OBVIOUS
<1>1. lost["isr"] = 0
  BY DEF LogInv, RoomInv
<1>2. Log!Ready /\ Len(fifo) = Space => Log!Thread = "main" /\ ahead > 0
  <2>1. Log!Thread = "main" \/ Log!Thread = "isr"
    BY DEF Log!Thread
  <2> QED BY <2>1 DEF LogInv, LogTypes, RoomInv, Log!Ready
<1>3. Log!CtrlD \notin host
  BY DEF LogInv, LogTypes, Shown
<1>4. lost["main"] <= ticks + interrupts
  <2>1. Run \in {0, 1}
    BY DEF Run
  <2> QED BY <2>1 DEF LogInv, LossInv
<1>5. reports = IF phase = "again" /\ Log!alt_log_jtag_uart_alarm_on_flag /\ ticks > report_started
                THEN (ticks - report_started - 1) \div JTAG_UART_TICKS ELSE 0
  <2>1. CASE phase = "again" /\ Log!alt_log_jtag_uart_alarm_on_flag
    <3>1. /\ reports \in Nat /\ {ticks, report_started} \subseteq Nat /\ report_started <= ticks
          /\ log_alarm \in 1 .. JTAG_UART_TICKS + 1 /\ (ticks > report_started => log_alarm <= JTAG_UART_TICKS)
          /\ (ticks - report_started) + log_alarm = ((reports + 1) * JTAG_UART_TICKS) + 1
      BY <2>1 DEF LogInv, ReportInv
    <3>2. (reports + 1) * JTAG_UART_TICKS = (reports * JTAG_UART_TICKS) + JTAG_UART_TICKS
          /\ reports * JTAG_UART_TICKS \in Nat
      BY <3>1
    <3>3. CASE ticks > report_started
      <4>1. JTAG_UART_TICKS - log_alarm \in 0 .. JTAG_UART_TICKS - 1
        BY <3>1, <3>3
      <4>2. ticks - report_started - 1 = (reports * JTAG_UART_TICKS) + (JTAG_UART_TICKS - log_alarm)
        BY <3>1, <3>2
      <4>3. ((reports * JTAG_UART_TICKS) + (JTAG_UART_TICKS - log_alarm)) \div JTAG_UART_TICKS = reports
        BY <3>1, <4>1, ModuloOf
      <4> QED BY <2>1, <3>3, <4>2, <4>3
    <3>4. CASE ~(ticks > report_started)
      <4>1. reports * JTAG_UART_TICKS <= 0
        BY <3>1, <3>2, <3>4
      <4>2. reports # 0 => reports * JTAG_UART_TICKS >= 1 * JTAG_UART_TICKS
        BY <3>1
      <4> QED BY <3>1, <3>4, <4>1, <4>2
    <3> QED BY <3>3, <3>4
  <2> QED BY <2>1 DEF LogInv, ReportInv
<1> QED BY <1>1, <1>2, <1>3, <1>4, <1>5 DEF Log!LogRight

LEMMA LogMoves ==
  ASSUME Runs("log"), [HalNext]_halvars
  PROVE  [Log!Next]_(Log!vars)
<1>1. CASE UNCHANGED halvars
  BY <1>1 DEF halvars, logvars, Log!vars
<1>2. CASE HalNext
  BY <1>2 DEF HalNext, Runs
<1> QED BY <1>1, <1>2

LEMMA LogSafe == HalSpec => [](Runs("log") => LogInv)
<1>1. HalInit => (Runs("log") => LogInv)
  BY LogInvInit DEF HalInit
<1>2. (Runs("log") => LogInv) /\ [HalNext]_halvars => (Runs("log") => LogInv)'
  <2> SUFFICES ASSUME Runs("log") => LogInv, [HalNext]_halvars, Runs("log")'
               PROVE  LogInv'
    OBVIOUS
  <2>1. Runs("log") /\ LogInv
    BY ServiceStays DEF Runs
  <2>2. [Log!Next]_(Log!vars)
    BY <2>1, LogMoves
  <2> QED BY <2>1, <2>2, LogInvKept
<1> QED BY <1>1, <1>2, PTL DEF HalSpec

\* A handler of the log stores only where there is room, main finds the FIFO full only if
\* a handler stored between its poll and its store, and loses at most a character to each
\* run of a handler; no Ctrl-D reaches the terminal, and reports come at their interval, from
\* the second initialisation on (alt_log_printf.c).
THEOREM LogIsRight == HalSpec => []LogRight
<1>1. (Runs("log") => LogInv) => LogRight
  BY LogInvSays DEF LogRight
<1> QED BY <1>1, LogSafe, PTL

-----------------------------------------------------------------------------
(***************************************************************************)
(* The small drivers.                                                      *)
(***************************************************************************)
Writing == {"write", "w_put", "w_loop"}
PollTypes ==
    /\ core \in {"lw", "jtag"}
    /\ at \in Writing \cup {"idle", "runaway", "read", "r_clear", "r_take", "r_loop", "r_end"}
    /\ len \in Nat /\ count \in Int /\ offered \in Nat /\ sent \in Seq(Nat)

\* Until a character is put out that is none, those put out are the characters given, and
\* the call has put out as many as it counts.  The JTAG UART's count does not get below 0.
SentInv ==
    /\ at \notin {"idle", "runaway"} => count <= len
    /\ (at \in Writing /\ count < 0) \/ at = "runaway" => Small!Overran
    /\ at = "w_loop" => core = "lw"
    /\ at = "w_put" /\ core = "jtag" => count > 0
    /\ ~Small!Overran => sent = [i \in 1 .. offered + (IF at \in Writing THEN len - count ELSE 0) |-> i]

\* How many of the characters that came in have left the core.
Read0 == Len(typed) - Len(rxdata)
LineInv ==
    /\ typed \in Seq([char : Nat, bad : BOOLEAN]) /\ rxdata \in Seq([char : Nat, bad : BOOLEAN])
    /\ Len(rxdata) <= Len(typed) /\ (core = "lw" => Len(rxdata) <= 1)
    /\ \A i \in 1 .. Len(typed) : typed[i].char = i
    /\ \A i \in 1 .. Len(rxdata) : rxdata[i] = typed[Read0 + i]

\* The LW UART's flags are about the character in it, until they are cleared, and what
\* read() has seen of the character it is about to take stays true.
FlagInv ==
    /\ flagged \in BOOLEAN /\ (flagged => core = "lw" /\ rxdata # <<>> /\ rxdata[1].bad)
    /\ at \in {"r_clear", "r_take"} => core = "lw" /\ ready \in {"yes", "no", "bad"}
    /\ (at = "r_clear" /\ ready # "no") \/ at = "r_take" => rxdata # <<>>
    /\ at \in {"r_clear", "r_take"} /\ ready = "bad" => rxdata[1].bad
    /\ at = "r_take" => ~flagged /\ ready # "no"

\* What has left the core was handed on in order, or was bad.
GotInv ==
    /\ got \in Seq(Nat)
    /\ \A j \in 1 .. Len(got) : got[j] \in 1 .. Read0
    /\ \A i, j \in 1 .. Len(got) : i < j => got[i] < got[j]
    /\ \A i \in 1 .. Read0 : typed[i].bad \/ \E j \in 1 .. Len(got) : got[j] = i

PollInv == PollTypes /\ SentInv /\ LineInv /\ FlagInv /\ GotInv

LEMMA PollFacts == Cores \subseteq {"lw", "jtag"} /\ Lengths \subseteq Nat
BY ServicesAssumption DEF Small!PolledAssumption

\* The steps, by what they do.
PollCalls == Small!Write \/ Small!Read
PollLooks == Small!W_Poll \/ Small!R_Status \/ Small!R_Clear \/ Small!R_Loop \/ Small!R_End \/ Small!H_Shift

LEMMA PollSteps ==
  ASSUME Small!Next
  PROVE  PollCalls \/ PollLooks \/ Small!W_Put \/ Small!W_Loop \/ Small!W_Done \/ Small!R_Take \/ Small!R_Data \/ Small!H_Type
BY DEF Small!Next, PollCalls, PollLooks

-----------------------------------------------------------------------------
LEMMA PollTypesKept ==
  ASSUME PollTypes, SentInv, Small!Next
  PROVE  PollTypes'
<1>1. CASE PollCalls
  <2>1. /\ UNCHANGED <<core, sent, offered>> /\ at' \in {"write", "read"} /\ len' \in Nat
        /\ count' = len'
    BY <1>1, PollFacts DEF PollCalls, Small!Write, Small!Read, Small!Enter
  <2>2. count' \in Int
    BY <2>1
  <2> QED BY <2>1, <2>2 DEF PollTypes, Writing
<1>2. CASE PollLooks
  <2>1. UNCHANGED <<core, sent, offered, len, count>>
    BY <1>2 DEF PollLooks, Small!W_Poll, Small!R_Status, Small!R_Clear, Small!R_Loop, Small!R_End, Small!H_Shift, Small!call
  <2>2. at' \in Writing \cup {"idle", "runaway", "read", "r_clear", "r_take", "r_loop", "r_end"}
    <3>1. CASE Small!H_Shift
      BY <3>1 DEF Small!H_Shift, PollTypes
    <3>2. CASE Small!W_Poll \/ Small!R_Status \/ Small!R_Clear \/ Small!R_Loop
      BY <3>2 DEF Small!W_Poll, Small!R_Status, Small!R_Clear, Small!R_Loop, Small!Return, Writing
    <3>3. CASE Small!R_End
      <4>1. count < len \/ (count = len /\ ~block) \/ (count = len /\ block)
        BY <3>3 DEF Small!R_End, PollTypes, SentInv
      <4> QED BY <3>3, <4>1 DEF Small!R_End, Small!Return
    <3> QED BY <1>2, <3>1, <3>2, <3>3 DEF PollLooks
  <2> QED BY <2>1, <2>2 DEF PollTypes
<1>3. CASE Small!W_Put
  <2>1. at' \in Writing /\ UNCHANGED <<core, len, offered>>
    BY <1>3 DEF Small!W_Put, Small!call, Writing
  <2>2. count' \in Int
    BY <1>3 DEF Small!W_Put, PollTypes
  <2>3. Small!NextChar \in Nat
    BY <1>3 DEF Small!NextChar, PollTypes, SentInv, Small!W_Put, Writing
  <2>4. sent' \in Seq(Nat)
    BY <1>3, <2>3 DEF Small!W_Put, PollTypes
  <2> QED BY <2>1, <2>2, <2>4 DEF PollTypes
<1>4. CASE Small!W_Loop
  BY <1>4 DEF Small!W_Loop, Small!Return, Small!call, Small!line, PollTypes, SentInv, Writing
<1>5. CASE Small!W_Done
  BY <1>5 DEF Small!W_Done, Small!Return, Small!call, Small!line, PollTypes, Writing
<1>6. CASE Small!R_Take
  BY <1>6 DEF Small!R_Take, Small!Return, Small!call, PollTypes, Writing
<1>7. CASE Small!R_Data
  BY <1>7 DEF Small!R_Data, Small!call, PollTypes, Writing
<1>8. CASE Small!H_Type
  BY <1>8 DEF Small!H_Type, Small!call, PollTypes
<1> QED BY <1>1, <1>2, <1>3, <1>4, <1>5, <1>6, <1>7, <1>8, PollSteps

LEMMA SentKept ==
  ASSUME PollTypes, SentInv, Small!Next
  PROVE  SentInv'
<1>1. CASE /\ UNCHANGED <<core, sent, offered>> /\ at \notin Writing \cup {"runaway"}
           /\ at' \notin Writing \cup {"runaway"} /\ (at' # "idle" => count' <= len')
  BY <1>1 DEF SentInv, Small!Overran, Writing
<1>2. CASE Small!Write
  <2>1. UNCHANGED <<core, sent, offered>> /\ at = "idle" /\ at' = "write" /\ count' = len' /\ len' \in Nat
    BY <1>2, PollFacts DEF Small!Write, Small!Enter
  <2>2. len' - count' = 0 /\ count' <= len' /\ ~(count' < 0) /\ offered + 0 = offered
    <3>1. \A n \in Nat : n - n = 0 /\ n <= n /\ ~(n < 0) /\ offered + 0 = offered
      BY DEF PollTypes
    <3> QED BY <2>1, <3>1
  <2> QED BY <2>1, <2>2 DEF SentInv, Small!Overran, Writing, PollTypes
<1>3. CASE Small!Read \/ Small!R_Status \/ Small!R_Clear \/ Small!R_Take \/ Small!R_Loop \/ Small!R_Data \/ Small!R_End
  <2>1. UNCHANGED <<core, sent, offered>>
    BY <1>3 DEF Small!Read, Small!Enter, Small!R_Status, Small!R_Clear, Small!R_Take, Small!R_Loop, Small!R_Data, Small!R_End
  <2>2. CASE Small!Read
    <3>1. at = "idle" /\ at' = "read" /\ count' = len' /\ len' \in Nat
      BY <2>2, PollFacts DEF Small!Read, Small!Enter
    <3>2. count' <= len'
      <4>1. \A n \in Nat : n <= n
        OBVIOUS
      <4> QED BY <3>1, <4>1
    <3> QED BY <1>1, <2>1, <3>1, <3>2 DEF Writing
  <2>3. CASE Small!R_Status \/ Small!R_Clear \/ Small!R_Take \/ Small!R_Loop
    <3>1. UNCHANGED <<len, count>> /\ at \in {"read", "r_clear", "r_take", "r_loop"}
          /\ at' \in {"idle", "read", "r_clear", "r_take", "r_loop"}
      BY <2>3 DEF Small!R_Status, Small!R_Clear, Small!R_Take, Small!R_Loop, Small!Return, Small!call
    <3> QED BY <1>1, <2>1, <3>1 DEF Writing, SentInv
  <2>4. CASE Small!R_Data
    <3>1. UNCHANGED len /\ at = "read" /\ at' \in {"read", "r_end"} /\ count' \in {count, count - 1}
      BY <2>4 DEF Small!R_Data, Small!call
    <3>2. count' <= len'
      <4>1. count <= len /\ count \in Int /\ len \in Nat
        BY <3>1 DEF SentInv, PollTypes
      <4> QED BY <3>1, <4>1
    <3> QED BY <1>1, <2>1, <3>1, <3>2 DEF Writing
  <2>5. CASE Small!R_End
    <3>1. count < len \/ (count = len /\ ~block) \/ (count = len /\ block)
      BY <2>5 DEF Small!R_End, PollTypes, SentInv
    <3>2. at \in {"read", "r_end"} /\ at' = "idle"
      BY <2>5, <3>1 DEF Small!R_End, Small!Return
    <3> QED BY <1>1, <2>1, <3>2 DEF Writing
  <2> QED BY <1>3, <2>2, <2>3, <2>4, <2>5
<1>4. CASE Small!H_Shift \/ Small!H_Type
  BY <1>4 DEF Small!H_Shift, Small!H_Type, Small!call, SentInv, Small!Overran
<1>5. CASE Small!W_Poll
  <2>1. /\ UNCHANGED <<core, sent, offered, len, count>> /\ at = "write" /\ at' = "w_put"
        /\ core = "jtag" => count > 0
    BY <1>5 DEF Small!W_Poll, Small!call
  <2> QED BY <2>1 DEF SentInv, Small!Overran, Writing
<1>6. CASE Small!W_Put
  <2>1. /\ at = "w_put" /\ at \in Writing /\ at' \in Writing /\ at' # "w_put" /\ at' # "runaway"
        /\ UNCHANGED <<core, len, offered>> /\ (at' = "w_loop" => core' = "lw")
        /\ count <= len /\ len \in Nat /\ count \in Int /\ offered \in Nat /\ core \in {"lw", "jtag"}
    BY <1>6 DEF Small!W_Put, Small!call, Writing, SentInv, PollTypes
  <2>2. CASE ready # "yes"
    <3>1. UNCHANGED <<sent, count>>
      BY <1>6, <2>2 DEF Small!W_Put
    <3> QED BY <2>1, <3>1 DEF SentInv, Small!Overran
  <2>3. CASE ready = "yes"
    <3>1. sent' = Append(sent, Small!NextChar) /\ count' = count - 1
      BY <1>6, <2>3 DEF Small!W_Put
    <3>2. Small!Overran => Small!Overran'
      BY <2>1, <3>1 DEF Small!Overran, PollTypes
    <3>3. CASE count > 0
      <4>1. /\ count' <= len' /\ ~(count' < 0)
        BY <2>1, <3>1, <3>3
      <4>2. ~Small!Overran => sent' = [i \in 1 .. offered' + (len' - count') |-> i]
        <5> SUFFICES ASSUME ~Small!Overran PROVE sent' = [i \in 1 .. offered' + (len' - count') |-> i]
          OBVIOUS
        <5>1. PICK n \in Nat : n = offered + (len - count)
          BY <2>1
        <5>2. sent = [i \in 1 .. n |-> i]
          BY <2>1, <5>1 DEF SentInv
        <5>3. Small!NextChar = n + 1 /\ offered' + (len' - count') = n + 1
          BY <2>1, <3>1, <3>3, <5>1 DEF Small!NextChar
        <5>4. Append(sent, n + 1) = [i \in 1 .. n + 1 |-> i]
          BY <5>2
        <5> QED BY <3>1, <5>3, <5>4
      <4> QED BY <2>1, <3>2, <4>1, <4>2 DEF SentInv
    <3>4. CASE ~(count > 0)
      <4>1. core' = "lw"
        BY <2>1, <3>4 DEF SentInv
      <4>2. Small!NextChar = 0
        BY <3>4 DEF Small!NextChar
      <4>3. sent'[Len(sent) + 1] = 0 /\ Len(sent) + 1 \in DOMAIN sent'
        BY <3>1, <4>2 DEF PollTypes
      <4>4. Small!Overran'
        BY <4>1, <4>3 DEF Small!Overran
      <4>5. count' <= len'
        BY <2>1, <3>1
      <4> QED BY <2>1, <4>4, <4>5 DEF SentInv
    <3> QED BY <3>3, <3>4
  <2> QED BY <2>2, <2>3
<1>7. CASE Small!W_Loop
  <2>1. at = "w_loop" /\ at \in Writing /\ UNCHANGED <<core, sent, len, count>>
    BY <1>7 DEF Small!W_Loop, Small!call, Writing
  <2>2. CASE block /\ count # 0
    <3>1. UNCHANGED offered /\ at' = (IF count < 0 THEN "runaway" ELSE "write")
      BY <1>7, <2>2 DEF Small!W_Loop
    <3> QED BY <2>1, <3>1 DEF SentInv, Small!Overran, Writing
  <2>3. CASE ~(block /\ count # 0)
    <3>1. offered' = offered + len - count /\ at' = "idle"
      BY <1>7, <2>3 DEF Small!W_Loop, Small!Return
    <3>2. offered' + 0 = offered + (len - count)
      BY <3>1 DEF PollTypes
    <3> QED BY <2>1, <3>1, <3>2 DEF SentInv, Small!Overran, Writing
  <2> QED BY <2>2, <2>3
<1>8. CASE Small!W_Done
  <2>1. /\ at = "write" /\ at \in Writing /\ at' = "idle" /\ UNCHANGED <<core, sent>>
        /\ count = 0 /\ offered' = offered + len
    BY <1>8 DEF Small!W_Done, Small!Return, Writing
  <2>2. offered' + 0 = offered + (len - count)
    BY <2>1 DEF PollTypes
  <2> QED BY <2>1, <2>2 DEF SentInv, Small!Overran, Writing
<1> QED BY <1>2, <1>3, <1>4, <1>5, <1>6, <1>7, <1>8 DEF Small!Next

-----------------------------------------------------------------------------
\* What read() does to the line, and the line to it.
LEMMA LineKept ==
  ASSUME LineInv, FlagInv, Small!Next
  PROVE  LineInv'
<1> DEFINE Chars == [char : Nat, bad : BOOLEAN]
<1>1. CASE UNCHANGED <<core, typed, rxdata>>
  BY <1>1 DEF LineInv, Read0
<1>2. CASE UNCHANGED <<core, typed>> /\ rxdata # <<>> /\ rxdata' = Tail(rxdata)
  <2>1. /\ Tail(rxdata) \in Seq(Chars) /\ Len(Tail(rxdata)) = Len(rxdata) - 1 /\ Len(rxdata) \in Nat \ {0}
        /\ \A i \in 1 .. Len(rxdata) - 1 : Tail(rxdata)[i] = rxdata[i + 1]
    BY <1>2 DEF LineInv
  <2>2. Read0' = Read0 + 1 /\ Read0 \in Nat
    BY <1>2, <2>1 DEF LineInv, Read0
  <2>3. \A i \in 1 .. Len(rxdata') : rxdata'[i] = typed'[Read0' + i]
    <3> SUFFICES ASSUME NEW i \in 1 .. Len(rxdata') PROVE rxdata'[i] = typed'[Read0' + i]
      OBVIOUS
    <3>1. i + 1 \in 1 .. Len(rxdata) /\ rxdata'[i] = rxdata[i + 1] /\ Read0' + i = Read0 + (i + 1)
      BY <1>2, <2>1, <2>2
    <3>2. rxdata[i + 1] = typed[Read0 + (i + 1)]
      BY <3>1 DEF LineInv
    <3> QED BY <1>2, <3>1, <3>2
  <2>4. Len(rxdata') <= Len(typed') /\ (core' = "lw" => Len(rxdata') <= 1)
    BY <1>2, <2>1 DEF LineInv
  <2> QED BY <1>2, <2>1, <2>3, <2>4 DEF LineInv
<1>3. CASE Small!H_Type
  <2>1. PICK b \in BOOLEAN : /\ typed' = Append(typed, [char |-> Len(typed) + 1, bad |-> b])
                             /\ rxdata' = Append(rxdata, [char |-> Len(typed) + 1, bad |-> b])
    BY <1>3 DEF Small!H_Type
  <2>2. core' = core /\ (core = "lw" => Len(rxdata) < 1)
    BY <1>3 DEF Small!H_Type, Small!Capacity
  <2>3. typed \in Seq(Chars) /\ rxdata \in Seq(Chars) /\ [char |-> Len(typed) + 1, bad |-> b] \in Chars
    BY DEF LineInv
  <2>4. /\ typed' \in Seq(Chars) /\ rxdata' \in Seq(Chars)
        /\ Len(typed') = Len(typed) + 1 /\ Len(rxdata') = Len(rxdata) + 1
    BY <2>1, <2>3
  <2>5. Read0' = Read0
    BY <2>3, <2>4 DEF Read0
  <2>6. \A i \in 1 .. Len(typed') : typed'[i].char = i
    <3>1. \A i \in 1 .. Len(typed) : typed'[i] = typed[i]
      BY <2>1, <2>3
    <3>2. typed'[Len(typed) + 1].char = Len(typed) + 1
      BY <2>1, <2>3
    <3>3. \A i \in 1 .. Len(typed') : i \in 1 .. Len(typed) \/ i = Len(typed) + 1
      BY <2>3, <2>4
    <3> QED BY <3>1, <3>2, <3>3 DEF LineInv
  <2>7. \A i \in 1 .. Len(rxdata') : rxdata'[i] = typed'[Read0' + i]
    <3> SUFFICES ASSUME NEW i \in 1 .. Len(rxdata') PROVE rxdata'[i] = typed'[Read0 + i]
      BY <2>5
    <3>1. CASE i <= Len(rxdata)
      <4>1. rxdata'[i] = rxdata[i] /\ Read0 + i \in 1 .. Len(typed)
        BY <2>1, <2>3, <2>4, <3>1 DEF LineInv, Read0
      <4>2. typed'[Read0 + i] = typed[Read0 + i]
        BY <2>1, <2>3, <4>1
      <4> QED BY <2>3, <3>1, <4>1, <4>2 DEF LineInv
    <3>2. CASE i = Len(rxdata) + 1
      <4>1. Read0 + i = Len(typed) + 1
        BY <2>3, <3>2 DEF Read0
      <4> QED BY <2>1, <2>3, <3>2, <4>1
    <3> QED BY <2>3, <2>4, <3>1, <3>2
  <2>8. Len(rxdata') <= Len(typed') /\ (core' = "lw" => Len(rxdata') <= 1)
    BY <2>2, <2>3, <2>4 DEF LineInv
  <2> QED BY <2>4, <2>6, <2>7, <2>8 DEF LineInv
<1>4. CASE ~Small!H_Type
  <2>1. UNCHANGED <<core, typed>>
    BY <1>4 DEF Small!Next, Small!Write, Small!Read, Small!Enter, Small!W_Poll, Small!W_Put, Small!W_Loop, Small!W_Done, Small!R_Status, Small!R_Clear, Small!R_Take,
       Small!R_Loop, Small!R_Data, Small!R_End, Small!H_Shift, Small!line
  <2>2. UNCHANGED rxdata \/ (rxdata # <<>> /\ rxdata' = Tail(rxdata))
    BY <1>4 DEF FlagInv, Small!R_Take, Small!Next, Small!Write, Small!Read, Small!Enter, Small!W_Poll, Small!W_Put, Small!W_Loop, Small!W_Done, Small!R_Status, Small!R_Clear,
       Small!R_Loop, Small!R_Data, Small!R_End, Small!H_Shift, Small!line
  <2> QED BY <1>1, <1>2, <2>1, <2>2
<1> QED BY <1>3, <1>4

LEMMA FlagKept ==
  ASSUME PollTypes, SentInv, LineInv, FlagInv, Small!Next
  PROVE  FlagInv'
<1>0. rxdata \in Seq([char : Nat, bad : BOOLEAN]) /\ (core = "lw" => Len(rxdata) <= 1)
  BY DEF LineInv
<1>1. CASE PollCalls \/ Small!W_Poll \/ Small!W_Put \/ Small!W_Loop \/ Small!W_Done \/ Small!R_Loop \/ Small!R_End
  <2>1. UNCHANGED <<core, flagged, rxdata>>
    BY <1>1 DEF PollCalls, Small!Write, Small!Read, Small!Enter, Small!W_Poll, Small!W_Put, Small!W_Loop, Small!W_Done, Small!R_Loop, Small!R_End, Small!line
  <2>2. at' \notin {"r_clear", "r_take"}
    <3>1. CASE Small!Write \/ Small!Read \/ Small!W_Poll \/ Small!W_Put
      BY <3>1 DEF Small!Write, Small!Read, Small!Enter, Small!W_Poll, Small!W_Put
    <3>2. CASE Small!W_Loop \/ Small!W_Done \/ Small!R_Loop
      BY <3>2 DEF Small!W_Loop, Small!W_Done, Small!R_Loop, Small!Return
    <3>3. CASE Small!R_End
      <4>1. count < len \/ (count = len /\ ~block) \/ (count = len /\ block)
        BY <3>3 DEF Small!R_End, PollTypes, SentInv
      <4> QED BY <3>3, <4>1 DEF Small!R_End, Small!Return
    <3> QED BY <1>1, <3>1, <3>2, <3>3 DEF PollCalls
  <2> QED BY <2>1, <2>2 DEF FlagInv
<1>2. CASE Small!R_Status
  BY <1>2 DEF Small!R_Status, FlagInv, Small!call, Small!line
<1>3. CASE Small!R_Clear
  BY <1>3 DEF Small!R_Clear, FlagInv, Small!call
<1>4. CASE Small!R_Take
  BY <1>4 DEF Small!R_Take, FlagInv, Small!Return, Small!call
<1>5. CASE Small!R_Data
  <2>1. UNCHANGED <<core, flagged>> /\ at' \notin {"r_clear", "r_take"} /\ core = "jtag"
    BY <1>5 DEF Small!R_Data, Small!call
  <2> QED BY <2>1 DEF FlagInv
<1>6. CASE Small!H_Shift
  BY <1>6 DEF Small!H_Shift, FlagInv, Small!call
<1>7. CASE Small!H_Type
  <2>1. PICK b \in BOOLEAN :
           /\ rxdata' = Append(rxdata, [char |-> Len(typed) + 1, bad |-> b])
           /\ flagged' = (flagged \/ b) /\ (core # "lw" => ~b)
    BY <1>7 DEF Small!H_Type
  <2>2. UNCHANGED <<core, at, ready>> /\ (core = "lw" => Len(rxdata) = 0)
    BY <1>0, <1>7 DEF Small!H_Type, Small!Capacity
  <2>3. core = "lw" => rxdata = <<>>
    BY <1>0, <2>2
  <2>4. rxdata' # <<>>
    BY <1>0, <2>1
  <2>5. core = "lw" => rxdata'[1].bad = b
    BY <2>1, <2>3
  <2>6. core = "lw" => ~flagged /\ at # "r_take" /\ (at = "r_clear" => ready = "no")
    BY <2>3 DEF FlagInv
  <2>7. core # "lw" => ~flagged /\ at \notin {"r_clear", "r_take"}
    BY DEF FlagInv
  <2>8. flagged' \in BOOLEAN
    BY <2>1 DEF FlagInv
  <2> QED BY <2>1, <2>2, <2>4, <2>5, <2>6, <2>7, <2>8 DEF FlagInv
<1> QED BY <1>1, <1>2, <1>3, <1>4, <1>5, <1>6, <1>7 DEF Small!Next, PollCalls

\* A character that is taken from the core.
LEMMA TakenKeeps ==
  ASSUME LineInv, GotInv, UNCHANGED typed, rxdata # <<>>, rxdata' = Tail(rxdata),
         \/ got' = Append(got, Head(rxdata).char)
         \/ got' = got /\ rxdata[1].bad
  PROVE  GotInv'
<1>1. /\ Len(Tail(rxdata)) = Len(rxdata) - 1 /\ Len(rxdata) \in Nat \ {0} /\ Head(rxdata) = rxdata[1]
      /\ Len(typed) \in Nat /\ Len(rxdata) <= Len(typed)
  BY DEF LineInv
<1>2. Read0 \in Nat /\ Read0' = Read0 + 1 /\ Read0 + 1 \in 1 .. Len(typed)
  BY <1>1 DEF Read0
<1>3. rxdata[1] = typed[Read0 + 1] /\ rxdata[1].char = Read0 + 1
  BY <1>1, <1>2 DEF LineInv
<1> HIDE DEF Read0
<1>4. \A i \in 1 .. Read0' : i \in 1 .. Read0 \/ i = Read0 + 1
  BY <1>2
<1>5. CASE got' = Append(got, Head(rxdata).char)
  <2>1. got \in Seq(Nat) /\ got' = Append(got, Read0 + 1) /\ Len(got') = Len(got) + 1 /\ got' \in Seq(Nat)
        /\ Len(got) \in Nat
    BY <1>1, <1>2, <1>3, <1>5 DEF GotInv
  <2>2. /\ \A j \in 1 .. Len(got) : got'[j] = got[j]
        /\ got'[Len(got) + 1] = Read0 + 1
        /\ \A j \in 1 .. Len(got') : j \in 1 .. Len(got) \/ j = Len(got) + 1
    BY <2>1
  <2>3. \A j \in 1 .. Len(got) : got[j] \in 1 .. Read0
    BY DEF GotInv
  <2>4. \A j \in 1 .. Len(got') : got'[j] \in 1 .. Read0'
    BY <1>2, <2>2, <2>3
  <2>5. \A i, j \in 1 .. Len(got') : i < j => got'[i] < got'[j]
    <3> SUFFICES ASSUME NEW i \in 1 .. Len(got'), NEW j \in 1 .. Len(got'), i < j
                 PROVE  got'[i] < got'[j]
      OBVIOUS
    <3>1. i \in 1 .. Len(got)
      BY <2>1
    <3>2. CASE j \in 1 .. Len(got)
      BY <2>2, <3>1, <3>2 DEF GotInv
    <3>3. CASE j = Len(got) + 1
      <4>1. got'[i] \in 1 .. Read0 /\ got'[j] = Read0 + 1
        BY <2>2, <2>3, <3>1, <3>3
      <4> QED BY <1>2, <4>1
    <3> QED BY <2>2, <3>2, <3>3
  <2>6. \A i \in 1 .. Read0' : typed'[i].bad \/ \E j \in 1 .. Len(got') : got'[j] = i
    <3> SUFFICES ASSUME NEW i \in 1 .. Read0' PROVE typed[i].bad \/ \E j \in 1 .. Len(got') : got'[j] = i
      OBVIOUS
    <3>1. CASE i \in 1 .. Read0
      <4>1. typed[i].bad \/ \E j \in 1 .. Len(got) : got[j] = i
        BY <3>1 DEF GotInv
      <4>2. \A j \in 1 .. Len(got) : j \in 1 .. Len(got')
        BY <2>1
      <4> QED BY <2>2, <4>1, <4>2
    <3>2. CASE i = Read0 + 1
      <4>1. Len(got) + 1 \in 1 .. Len(got')
        BY <2>1
      <4> QED BY <2>2, <3>2, <4>1
    <3> QED BY <1>4, <3>1, <3>2
  <2> QED BY <2>1, <2>4, <2>5, <2>6 DEF GotInv
<1>6. CASE got' = got /\ rxdata[1].bad
  <2>1. \A j \in 1 .. Len(got') : got'[j] \in 1 .. Read0'
    BY <1>2, <1>6 DEF GotInv
  <2>2. \A i \in 1 .. Read0' : typed'[i].bad \/ \E j \in 1 .. Len(got') : got'[j] = i
    BY <1>3, <1>4, <1>6 DEF GotInv
  <2> QED BY <1>6, <2>1, <2>2 DEF GotInv
<1> QED BY <1>5, <1>6

LEMMA GotKept ==
  ASSUME LineInv, FlagInv, GotInv, Small!Next
  PROVE  GotInv'
<1>1. CASE UNCHANGED <<typed, rxdata, got>>
  BY <1>1 DEF GotInv, Read0
<1>2. CASE Small!R_Take
  <2>1. UNCHANGED typed /\ rxdata # <<>> /\ rxdata' = Tail(rxdata)
    BY <1>2 DEF Small!R_Take, FlagInv
  <2>2. CASE ready = "yes"
    BY <1>2, <2>1, <2>2, TakenKeeps DEF Small!R_Take
  <2>3. CASE ready # "yes"
    <3>1. got' = got /\ rxdata[1].bad
      BY <1>2, <2>3 DEF Small!R_Take, FlagInv
    <3> QED BY <2>1, <3>1, TakenKeeps
  <2> QED BY <2>2, <2>3
<1>3. CASE Small!R_Data
  <2>1. CASE rxdata # <<>>
    BY <1>3, <2>1, TakenKeeps DEF Small!R_Data
  <2>2. CASE rxdata = <<>>
    BY <1>1, <1>3, <2>2 DEF Small!R_Data
  <2> QED BY <2>1, <2>2
<1>4. CASE Small!H_Type
  <2>1. PICK c \in [char : Nat, bad : BOOLEAN] : typed' = Append(typed, c) /\ rxdata' = Append(rxdata, c)
    <3>1. Len(typed) + 1 \in Nat
      BY DEF LineInv
    <3> QED BY <1>4, <3>1 DEF Small!H_Type
  <2>2. Len(typed') = Len(typed) + 1 /\ Len(rxdata') = Len(rxdata) + 1 /\ Len(typed) \in Nat
        /\ Len(rxdata) \in Nat /\ \A i \in 1 .. Len(typed) : typed'[i] = typed[i]
    BY <2>1 DEF LineInv
  <2>3. Read0' = Read0 /\ \A i \in 1 .. Read0 : i \in 1 .. Len(typed)
    BY <2>2 DEF Read0
  <2>4. got' = got
    BY <1>4 DEF Small!H_Type
  <2> QED BY <2>2, <2>3, <2>4 DEF GotInv
<1>5. CASE ~(Small!R_Take \/ Small!R_Data \/ Small!H_Type)
  <2>1. UNCHANGED <<typed, rxdata, got>>
    BY <1>5 DEF Small!Next, Small!Write, Small!Read, Small!Enter, Small!W_Poll, Small!W_Put, Small!W_Loop, Small!W_Done, Small!R_Status, Small!R_Clear,
       Small!R_Loop, Small!R_End, Small!H_Shift, Small!line
  <2> QED BY <1>1, <2>1
<1> QED BY <1>2, <1>3, <1>4, <1>5

LEMMA PollInvInit == Small!Init => PollInv
<1> SUFFICES ASSUME Small!Init PROVE PollInv
  OBVIOUS
<1>1. PollTypes
  BY PollFacts DEF Small!Init, PollTypes, Writing
<1>2. SentInv
  <2>1. sent = <<>> /\ offered = 0 /\ at = "idle"
    BY DEF Small!Init
  <2>2. <<>> = [i \in 1 .. 0 |-> i]
    OBVIOUS
  <2> QED BY <2>1, <2>2 DEF SentInv, Writing
<1>3. /\ typed = <<>> /\ rxdata = <<>> /\ got = <<>> /\ flagged = FALSE /\ at = "idle"
      /\ Len(<<>>) = 0 /\ 1 .. 0 = {}
  BY DEF Small!Init
<1>4. LineInv
  <2>1. <<>> \in Seq([char : Nat, bad : BOOLEAN])
    OBVIOUS
  <2> QED BY <1>3, <2>1 DEF LineInv, Read0
<1>5. FlagInv
  BY <1>3 DEF FlagInv
<1>6. GotInv
  <2>1. Read0 = 0 /\ <<>> \in Seq(Nat)
    BY <1>3 DEF Read0
  <2> QED BY <1>3, <2>1 DEF GotInv
<1> QED BY <1>1, <1>2, <1>4, <1>5, <1>6 DEF PollInv

LEMMA PollInvKept == PollInv /\ [Small!Next]_(Small!vars) => PollInv'
<1> SUFFICES ASSUME PollInv, [Small!Next]_(Small!vars) PROVE PollInv'
  OBVIOUS
<1>1. CASE UNCHANGED Small!vars
  <2>1. /\ UNCHANGED <<core, at, len, count, ready>> /\ UNCHANGED <<rxdata, flagged, offered, sent, typed, got>>
    BY <1>1 DEF Small!vars
  <2>2. PollTypes' /\ SentInv'
    BY <2>1 DEF PollInv, PollTypes, SentInv, Small!Overran
  <2>3. LineInv' /\ FlagInv' /\ GotInv'
    BY <2>1 DEF PollInv, LineInv, FlagInv, GotInv, Read0
  <2> QED BY <2>2, <2>3 DEF PollInv
<1>2. CASE Small!Next
  BY <1>2, PollTypesKept, SentKept, LineKept, FlagKept, GotKept DEF PollInv
<1> QED BY <1>1, <1>2

LEMMA PollInvSays == PollInv => Small!PolledExact
<1> SUFFICES ASSUME PollInv PROVE Small!PolledExact
  OBVIOUS
<1> DEFINE handed == got \o [i \in DOMAIN rxdata |-> rxdata[i].char]
<1>1. Small!Overran \/ sent = [i \in 1 .. offered + (IF at \in {"write", "w_put", "w_loop"} THEN len - count ELSE 0) |-> i]
  BY DEF PollInv, SentInv, Writing
<1>2. /\ got \in Seq(Nat) /\ Len(got) \in Nat /\ Len(rxdata) \in Nat /\ Len(typed) \in Nat
      /\ DOMAIN rxdata = 1 .. Len(rxdata) /\ DOMAIN typed = 1 .. Len(typed)
      /\ Len(rxdata) <= Len(typed)
  BY DEF PollInv, GotInv, LineInv
<1>3. Read0 \in Nat /\ Read0 + Len(rxdata) = Len(typed)
  BY <1>2 DEF Read0
<1>4. \A i \in 1 .. Len(rxdata) : rxdata[i].char = Read0 + i
  <2> SUFFICES ASSUME NEW i \in 1 .. Len(rxdata) PROVE rxdata[i].char = Read0 + i
    OBVIOUS
  <2>1. Read0 + i \in 1 .. Len(typed)
    BY <1>2, <1>3
  <2> QED BY <2>1 DEF PollInv, LineInv
<1> HIDE DEF Read0
<1>5. /\ DOMAIN handed = 1 .. Len(got) + Len(rxdata)
      /\ \A j \in 1 .. Len(got) : handed[j] = got[j]
      /\ \A i \in 1 .. Len(rxdata) : handed[Len(got) + i] = Read0 + i
  <2> DEFINE rest == [i \in DOMAIN rxdata |-> rxdata[i].char]
  <2>1. rest \in Seq(Nat) /\ Len(rest) = Len(rxdata) /\ \A i \in 1 .. Len(rxdata) : rest[i] = Read0 + i
    <3>1. rest = [i \in 1 .. Len(rxdata) |-> rxdata[i].char]
      BY <1>2
    <3>2. \A i \in 1 .. Len(rxdata) : rest[i] = Read0 + i /\ rest[i] \in Nat
      BY <1>2, <1>3, <1>4, <3>1
    <3> QED BY <1>2, <3>1, <3>2
  <2> HIDE DEF rest
  <2>2. /\ DOMAIN (got \o rest) = 1 .. Len(got) + Len(rest)
        /\ \A j \in 1 .. Len(got) + Len(rest) :
              (got \o rest)[j] = IF j <= Len(got) THEN got[j] ELSE rest[j - Len(got)]
    <3>1. /\ got \o rest \in Seq(Nat) /\ Len(got \o rest) = Len(got) + Len(rest)
          /\ \A j \in 1 .. Len(got) + Len(rest) :
                (got \o rest)[j] = IF j <= Len(got) THEN got[j] ELSE rest[j - Len(got)]
      BY <1>2, <2>1, ConcatProperties
    <3>2. DOMAIN (got \o rest) = 1 .. Len(got \o rest)
      BY <3>1
    <3> QED BY <3>1, <3>2
  <2>3. \A j \in 1 .. Len(got) : (got \o rest)[j] = got[j]
    BY <1>2, <2>1, <2>2
  <2>4. \A i \in 1 .. Len(rxdata) : (got \o rest)[Len(got) + i] = Read0 + i
    <3> SUFFICES ASSUME NEW i \in 1 .. Len(rxdata) PROVE (got \o rest)[Len(got) + i] = Read0 + i
      OBVIOUS
    <3>1. Len(got) + i \in 1 .. Len(got) + Len(rest) /\ ~(Len(got) + i <= Len(got))
          /\ (Len(got) + i) - Len(got) = i
      BY <1>2, <2>1
    <3> QED BY <2>1, <2>2, <3>1
  <2> QED BY <2>1, <2>2, <2>3, <2>4 DEF rest
<1> HIDE DEF handed
<1>6. \A i \in DOMAIN typed : typed[i].bad \/ \E j \in DOMAIN handed : handed[j] = typed[i].char
  <2> SUFFICES ASSUME NEW i \in 1 .. Len(typed)
               PROVE  typed[i].bad \/ \E j \in DOMAIN handed : handed[j] = i
    BY <1>2 DEF PollInv, LineInv
  <2>1. CASE i <= Read0
    <3>1. typed[i].bad \/ \E j \in 1 .. Len(got) : got[j] = i
      BY <1>3, <2>1 DEF PollInv, GotInv
    <3>2. \A j \in 1 .. Len(got) : j \in DOMAIN handed /\ handed[j] = got[j]
      BY <1>2, <1>5
    <3> QED BY <3>1, <3>2
  <2>2. CASE ~(i <= Read0)
    <3>1. i - Read0 \in 1 .. Len(rxdata) /\ Read0 + (i - Read0) = i
      BY <1>2, <1>3, <2>2
    <3>2. Len(got) + (i - Read0) \in DOMAIN handed
      BY <1>2, <1>5, <3>1
    <3>3. handed[Len(got) + (i - Read0)] = i
      BY <1>5, <3>1
    <3> QED BY <3>2, <3>3
  <2> QED BY <2>1, <2>2
<1>7. \A i, j \in DOMAIN handed : i < j => handed[i] < handed[j]
  <2> SUFFICES ASSUME NEW i \in 1 .. Len(got) + Len(rxdata), NEW j \in 1 .. Len(got) + Len(rxdata), i < j
               PROVE  handed[i] < handed[j]
    BY <1>5
  <2>1. CASE j <= Len(got)
    <3>1. i \in 1 .. Len(got) /\ j \in 1 .. Len(got)
      BY <1>2, <2>1
    <3> QED BY <1>5, <3>1 DEF PollInv, GotInv
  <2>2. CASE ~(j <= Len(got))
    <3>1. j - Len(got) \in 1 .. Len(rxdata) /\ j = Len(got) + (j - Len(got))
      BY <1>2, <2>2
    <3>2. handed[j] = Read0 + (j - Len(got))
      BY <1>5, <3>1
    <3>3. CASE i <= Len(got)
      <4>1. i \in 1 .. Len(got)
        BY <1>2, <3>3
      <4>2. handed[i] \in 1 .. Read0
        BY <1>5, <4>1 DEF PollInv, GotInv
      <4> QED BY <1>2, <1>3, <3>1, <3>2, <4>2
    <3>4. CASE ~(i <= Len(got))
      <4>1. i - Len(got) \in 1 .. Len(rxdata) /\ i = Len(got) + (i - Len(got))
        BY <1>2, <3>4
      <4>2. handed[i] = Read0 + (i - Len(got))
        BY <1>5, <4>1
      <4> QED BY <1>2, <1>3, <3>1, <3>2, <4>1, <4>2
    <3> QED BY <3>3, <3>4
  <2> QED BY <2>1, <2>2
<1> QED BY <1>1, <1>6, <1>7 DEF Small!PolledExact, handed

LEMMA PolledMoves ==
  ASSUME Runs("small"), [HalNext]_halvars
  PROVE  [Small!Next]_(Small!vars)
<1>1. CASE UNCHANGED halvars
  BY <1>1 DEF halvars, smallvars, Small!vars
<1>2. CASE HalNext
  BY <1>2 DEF HalNext, Runs
<1> QED BY <1>1, <1>2

LEMMA PolledSafe == HalSpec => [](Runs("small") => PollInv)
<1>1. HalInit => (Runs("small") => PollInv)
  BY PollInvInit DEF HalInit
<1>2. (Runs("small") => PollInv) /\ [HalNext]_halvars => (Runs("small") => PollInv)'
  <2> SUFFICES ASSUME Runs("small") => PollInv, [HalNext]_halvars, Runs("small")'
               PROVE  PollInv'
    OBVIOUS
  <2>1. Runs("small") /\ PollInv
    BY ServiceStays DEF Runs
  <2>2. [Small!Next]_(Small!vars)
    BY <2>1, PolledMoves
  <2> QED BY <2>1, <2>2, PollInvKept
<1> QED BY <1>1, <1>2, PTL DEF HalSpec

-----------------------------------------------------------------------------
(***************************************************************************)
(* alt_putcharbuf().                                                       *)
(***************************************************************************)
\* The characters that are not refused are written or in the buffer, which is not
\* full, in the order they were given.
BufTypes == /\ buf \in Seq(Nat) /\ written \in Seq(Nat) /\ given \in Nat
            /\ Len(buf) < PutbufSize
Increasing(s) == \A i, j \in 1 .. Len(s) : i < j => s[i] < s[j]
Elements(s) == {s[i] : i \in 1 .. Len(s)}
BufInv == /\ BufTypes /\ Increasing(written \o buf)
          /\ Elements(written \o buf) = (1 .. given) \ refused

LEMMA BufFacts == PutbufSize \in Nat \ {0}
BY ServicesAssumption DEF Calls!CallsAssumption

LEMMA Joined ==
  ASSUME NEW s \in Seq(Nat), NEW t \in Seq(Nat)
  PROVE  /\ s \o t \in Seq(Nat) /\ Len(s \o t) = Len(s) + Len(t)
         /\ \A i \in 1 .. Len(s) : i \in 1 .. Len(s \o t) /\ (s \o t)[i] = s[i]
         /\ \A i \in 1 .. Len(t) : Len(s) + i \in 1 .. Len(s \o t) /\ (s \o t)[Len(s) + i] = t[i]
         /\ \A i \in 1 .. Len(s \o t) : \/ i \in 1 .. Len(s)
                                        \/ i - Len(s) \in 1 .. Len(t) /\ i = Len(s) + (i - Len(s))
<1>1. /\ s \o t \in Seq(Nat) /\ Len(s \o t) = Len(s) + Len(t) /\ Len(s) \in Nat /\ Len(t) \in Nat
      /\ \A i \in 1 .. Len(s) + Len(t) : (s \o t)[i] = IF i <= Len(s) THEN s[i] ELSE t[i - Len(s)]
  BY ConcatProperties
<1>2. \A i \in 1 .. Len(s) : i \in 1 .. Len(s \o t) /\ (s \o t)[i] = s[i]
  BY <1>1
<1>3. \A i \in 1 .. Len(t) : Len(s) + i \in 1 .. Len(s \o t) /\ (s \o t)[Len(s) + i] = t[i]
  <2> SUFFICES ASSUME NEW i \in 1 .. Len(t)
               PROVE  Len(s) + i \in 1 .. Len(s \o t) /\ (s \o t)[Len(s) + i] = t[i]
    OBVIOUS
  <2>1. Len(s) + i \in 1 .. Len(s) + Len(t) /\ ~(Len(s) + i <= Len(s)) /\ (Len(s) + i) - Len(s) = i
    BY <1>1
  <2> QED BY <1>1, <2>1
<1>4. \A i \in 1 .. Len(s \o t) : \/ i \in 1 .. Len(s)
                                  \/ i - Len(s) \in 1 .. Len(t) /\ i = Len(s) + (i - Len(s))
  BY <1>1
<1> QED BY <1>1, <1>2, <1>3, <1>4

\* A character more, later than all of those before it.
LEMMA OneMore ==
  ASSUME BufTypes, Increasing(written \o buf), refused \subseteq 1 .. given,
         Elements(written \o buf) = (1 .. given) \ refused
  PROVE  LET more == Append(buf, given + 1)
         IN /\ more \in Seq(Nat) /\ Len(more) = Len(buf) + 1
            /\ Increasing(written \o more)
            /\ Elements(written \o more) = (1 .. given + 1) \ refused
<1> DEFINE old == written \o buf
           more == Append(buf, given + 1)
           new == written \o more
<1>1. /\ more \in Seq(Nat) /\ Len(more) = Len(buf) + 1 /\ Len(written) \in Nat /\ Len(buf) \in Nat
      /\ more[Len(buf) + 1] = given + 1 /\ \A i \in 1 .. Len(buf) : more[i] = buf[i]
  BY DEF BufTypes
<1> HIDE DEF more
<1>2. /\ Len(old) = Len(written) + Len(buf)
      /\ \A i \in 1 .. Len(written) : i \in 1 .. Len(old) /\ old[i] = written[i]
      /\ \A i \in 1 .. Len(buf) : Len(written) + i \in 1 .. Len(old) /\ old[Len(written) + i] = buf[i]
  BY Joined DEF BufTypes
<1>3. /\ Len(new) = Len(written) + Len(more)
      /\ \A i \in 1 .. Len(written) : i \in 1 .. Len(new) /\ new[i] = written[i]
      /\ \A i \in 1 .. Len(more) : Len(written) + i \in 1 .. Len(new) /\ new[Len(written) + i] = more[i]
  BY <1>1, Joined DEF BufTypes
<1>4. old \in Seq(Nat)
  BY Joined DEF BufTypes
<1>5. Increasing(old) /\ Elements(old) = (1 .. given) \ refused
  OBVIOUS
<1> HIDE DEF old, new
<1>6. Len(new) = Len(old) + 1 /\ Len(old) \in Nat
  BY <1>1, <1>2, <1>3
<1>7. new[Len(old) + 1] = given + 1
  <2>1. Len(old) + 1 = Len(written) + (Len(buf) + 1) /\ Len(buf) + 1 \in 1 .. Len(more)
    BY <1>1, <1>2
  <2> QED BY <1>1, <1>3, <2>1
<1>8. \A i \in 1 .. Len(old) : new[i] = old[i]
  <2> SUFFICES ASSUME NEW i \in 1 .. Len(old) PROVE new[i] = old[i]
    OBVIOUS
  <2>1. CASE i <= Len(written)
    <3>1. i \in 1 .. Len(written)
      BY <1>1, <1>6, <2>1
    <3> QED BY <1>2, <1>3, <3>1
  <2>2. CASE ~(i <= Len(written))
    <3>1. PICK k \in 1 .. Len(buf) : i = Len(written) + k
      <4>1. i - Len(written) \in 1 .. Len(buf) /\ i = Len(written) + (i - Len(written))
        BY <1>1, <1>2, <1>6, <2>2
      <4> QED BY <4>1
    <3>2. k \in 1 .. Len(more)
      BY <1>1
    <3> QED BY <1>1, <1>2, <1>3, <3>1, <3>2
  <2> QED BY <2>1, <2>2
<1>9. \A i \in 1 .. Len(new) : i \in 1 .. Len(old) \/ i = Len(old) + 1
  BY <1>6
<1>10. \A i \in 1 .. Len(old) : old[i] \in 1 .. given /\ old[i] \notin refused
  BY <1>5 DEF Elements
<1>11. Increasing(new)
  <2> SUFFICES ASSUME NEW i \in 1 .. Len(new), NEW j \in 1 .. Len(new), i < j
               PROVE  new[i] < new[j]
    BY DEF Increasing
  <2>1. i \in 1 .. Len(old)
    BY <1>6
  <2>2. CASE j \in 1 .. Len(old)
    BY <1>5, <1>8, <2>1, <2>2 DEF Increasing
  <2>3. CASE j = Len(old) + 1
    <3>1. new[i] \in 1 .. given /\ new[j] = given + 1 /\ given \in Nat
      BY <1>7, <1>8, <1>10, <2>1, <2>3 DEF BufTypes
    <3> QED BY <3>1
  <2> QED BY <1>9, <2>2, <2>3
<1>12. given + 1 \notin refused /\ \A k \in 1 .. given + 1 : k \in 1 .. given \/ k = given + 1
  BY DEF BufTypes
<1>13. \A i \in 1 .. Len(old) : i \in 1 .. Len(new)
  BY <1>6
<1>14. Elements(new) = (1 .. given + 1) \ refused
  <2>1. ASSUME NEW i \in 1 .. Len(new)
        PROVE  new[i] \in (1 .. given + 1) \ refused
    <3>1. CASE i \in 1 .. Len(old)
      <4>1. new[i] \in 1 .. given /\ new[i] \notin refused
        BY <1>8, <1>10, <3>1
      <4> QED BY <4>1 DEF BufTypes
    <3>2. CASE i = Len(old) + 1
      BY <1>7, <1>12, <3>2 DEF BufTypes
    <3> QED BY <1>9, <3>1, <3>2
  <2>2. ASSUME NEW k \in (1 .. given + 1) \ refused
        PROVE  \E i \in 1 .. Len(new) : new[i] = k
    <3>1. CASE k \in 1 .. given
      <4>1. k \in Elements(old)
        BY <1>5, <3>1
      <4> QED BY <1>8, <1>13, <4>1 DEF Elements
    <3>2. CASE k = given + 1
      <4>1. Len(old) + 1 \in 1 .. Len(new)
        BY <1>6
      <4> QED BY <1>7, <3>2, <4>1
    <3> QED BY <1>12, <3>1, <3>2
  <2> QED BY <2>1, <2>2 DEF Elements
<1> QED BY <1>1, <1>11, <1>14 DEF new, more

\* What a flush leaves: the characters it wrote, and the rest is refused.
LEMMA FlushKeeps ==
  ASSUME written \in Seq(Nat), NEW chars \in Seq(Nat), NEW upto \in Nat,
         Increasing(written \o chars), Elements(written \o chars) = (1 .. upto) \ refused,
         refused \subseteq 1 .. upto,
         given' = upto, Calls!alt_putbufflush(chars)
  PROVE  BufInv' /\ refused' \subseteq 1 .. upto
<1>1. PICK n \in 0 .. Len(chars) : Calls!Dumped(chars, n) /\ buf' = <<>>
  BY DEF Calls!alt_putbufflush
<1> DEFINE old == written \o chars
           part == SubSeq(chars, 1, n)
           rest == {chars[i] : i \in n + 1 .. Len(chars)}
<1>2. Len(chars) \in Nat /\ Len(written) \in Nat /\ n \in Nat /\ n <= Len(chars)
  OBVIOUS
<1>3. part \in Seq(Nat) /\ Len(part) = n /\ \A i \in 1 .. n : part[i] = chars[i]
  BY <1>2
<1>4. /\ Len(old) = Len(written) + Len(chars) /\ old \in Seq(Nat)
      /\ \A i \in 1 .. Len(written) : i \in 1 .. Len(old) /\ old[i] = written[i]
      /\ \A i \in 1 .. Len(chars) : Len(written) + i \in 1 .. Len(old) /\ old[Len(written) + i] = chars[i]
      /\ \A i \in 1 .. Len(old) : \/ i \in 1 .. Len(written)
                                  \/ i - Len(written) \in 1 .. Len(chars)
                                     /\ i = Len(written) + (i - Len(written))
  BY Joined
<1>5. written' = written \o part /\ refused' = refused \cup rest
  BY <1>1 DEF Calls!Dumped
<1> HIDE DEF part
<1>6. /\ Len(written') = Len(written) + n /\ written' \in Seq(Nat)
      /\ \A i \in 1 .. Len(written) : written'[i] = written[i]
      /\ \A i \in 1 .. n : written'[Len(written) + i] = part[i]
      /\ \A i \in 1 .. Len(written') : \/ i \in 1 .. Len(written)
                                       \/ i - Len(written) \in 1 .. n
                                          /\ i = Len(written) + (i - Len(written))
  <2>1. /\ Len(written \o part) = Len(written) + Len(part) /\ written \o part \in Seq(Nat)
        /\ \A i \in 1 .. Len(written) : (written \o part)[i] = written[i]
        /\ \A i \in 1 .. Len(part) : (written \o part)[Len(written) + i] = part[i]
        /\ \A i \in 1 .. Len(written \o part) : \/ i \in 1 .. Len(written)
                                                \/ i - Len(written) \in 1 .. Len(part)
                                                   /\ i = Len(written) + (i - Len(written))
    BY <1>3, Joined
  <2> QED BY <1>3, <1>5, <2>1
<1>7. Increasing(old) /\ Elements(old) = (1 .. upto) \ refused
  OBVIOUS
<1> HIDE DEF old
<1>8. \A i \in 1 .. Len(written') : i \in 1 .. Len(old) /\ written'[i] = old[i]
  <2> SUFFICES ASSUME NEW i \in 1 .. Len(written') PROVE i \in 1 .. Len(old) /\ written'[i] = old[i]
    OBVIOUS
  <2>1. CASE i \in 1 .. Len(written)
    BY <1>4, <1>6, <2>1
  <2>2. CASE i - Len(written) \in 1 .. n /\ i = Len(written) + (i - Len(written))
    <3>1. PICK k \in 1 .. n : i = Len(written) + k
      BY <2>2
    <3>2. k \in 1 .. Len(chars)
      BY <1>2
    <3> QED BY <1>3, <1>4, <1>6, <3>1, <3>2
  <2> QED BY <1>6, <2>1, <2>2
<1>9. \A i \in 1 .. Len(old) : \/ i \in 1 .. Len(written')
                               \/ \E k \in n + 1 .. Len(chars) : i = Len(written) + k /\ old[i] = chars[k]
  <2> SUFFICES ASSUME NEW i \in 1 .. Len(old), i \notin 1 .. Len(written')
               PROVE  \E k \in n + 1 .. Len(chars) : i = Len(written) + k /\ old[i] = chars[k]
    OBVIOUS
  <2>1. i - Len(written) \in n + 1 .. Len(chars) /\ i = Len(written) + (i - Len(written))
    BY <1>2, <1>4, <1>6
  <2>2. \A k \in n + 1 .. Len(chars) : k \in 1 .. Len(chars)
    BY <1>2
  <2> QED BY <1>4, <2>1, <2>2
<1>10. \A i \in 1 .. Len(written') : written'[i] \notin rest
  <2> SUFFICES ASSUME NEW i \in 1 .. Len(written'), NEW k \in n + 1 .. Len(chars), written'[i] = chars[k]
               PROVE  FALSE
    OBVIOUS
  <2>1. k \in 1 .. Len(chars)
    BY <1>2
  <2>2. Len(written) + k \in 1 .. Len(old) /\ old[Len(written) + k] = chars[k]
    BY <1>4, <2>1
  <2>3. i < Len(written) + k
    BY <1>2, <1>6
  <2>4. i \in 1 .. Len(old) /\ written'[i] = old[i]
    BY <1>8
  <2>5. old[i] < old[Len(written) + k]
    BY <1>7, <2>2, <2>3, <2>4 DEF Increasing
  <2>6. old[i] \in Nat
    BY <1>4, <2>4
  <2> QED BY <2>2, <2>4, <2>5, <2>6
<1>11. Elements(written') = (1 .. upto) \ refused'
  <2>1. ASSUME NEW i \in 1 .. Len(written')
        PROVE  written'[i] \in (1 .. upto) \ refused'
    <3>1. old[i] \in (1 .. upto) \ refused
      BY <1>7, <1>8 DEF Elements
    <3> QED BY <1>5, <1>8, <1>10, <3>1
  <2>2. ASSUME NEW m \in (1 .. upto) \ refused'
        PROVE  \E i \in 1 .. Len(written') : written'[i] = m
    <3>1. m \in (1 .. upto) \ refused /\ m \notin rest
      BY <1>5
    <3>2. PICK i \in 1 .. Len(old) : old[i] = m
      BY <1>7, <3>1 DEF Elements
    <3>3. i \in 1 .. Len(written')
      BY <1>9, <3>1, <3>2
    <3> QED BY <1>8, <3>2, <3>3
  <2> QED BY <2>1, <2>2 DEF Elements
<1>12. Increasing(written')
  BY <1>7, <1>8 DEF Increasing
<1>13. written' \o buf' = written'
  BY <1>1, <1>6, ConcatEmptySeq
<1>14. rest \subseteq 1 .. upto
  <2> SUFFICES ASSUME NEW k \in n + 1 .. Len(chars) PROVE chars[k] \in 1 .. upto
    OBVIOUS
  <2>1. k \in 1 .. Len(chars)
    BY <1>2
  <2>2. Len(written) + k \in 1 .. Len(old) /\ old[Len(written) + k] = chars[k]
    BY <1>4, <2>1
  <2> QED BY <1>7, <2>2 DEF Elements
<1>15. BufTypes'
  <2>1. buf' \in Seq(Nat) /\ Len(buf') = 0 /\ PutbufSize' = PutbufSize
    BY <1>1
  <2> QED BY <1>6, <2>1, BufFacts DEF BufTypes
<1>16. Increasing(written' \o buf') /\ Elements(written' \o buf') = (1 .. given') \ refused'
  BY <1>11, <1>12, <1>13
<1> HIDE DEF rest
<1> QED BY <1>5, <1>14, <1>15, <1>16 DEF BufInv, Increasing, Elements

BufferInv == BufInv /\ refused \subseteq 1 .. given

LEMMA BufferInvInit == Calls!Init => BufferInv
<1> SUFFICES ASSUME Calls!Init PROVE BufferInv
  OBVIOUS
<1>1. buf = <<>> /\ given = 0 /\ written = <<>> /\ refused = {} /\ Len(<<>>) = 0 /\ 1 .. 0 = {}
  BY DEF Calls!Init
<1>2. <<>> \in Seq(Nat)
  OBVIOUS
<1>3. written \o buf = <<>>
  BY <1>1, <1>2, ConcatEmptySeq
<1>4. BufTypes
  BY <1>1, <1>2, BufFacts DEF BufTypes
<1>5. Increasing(<<>>) /\ Elements(<<>>) = {}
  BY <1>1 DEF Increasing, Elements
<1> QED BY <1>1, <1>3, <1>4, <1>5 DEF BufferInv, BufInv

LEMMA BufferInvKept == BufferInv /\ [Calls!Next]_(Calls!vars) => BufferInv'
<1> SUFFICES ASSUME BufferInv, [Calls!Next]_(Calls!vars) PROVE BufferInv'
  OBVIOUS
<1>1. CASE UNCHANGED Calls!putbuf
  <2>1. UNCHANGED <<buf, given, written, refused>>
    BY <1>1 DEF Calls!putbuf
  <2> QED BY <2>1 DEF BufferInv, BufInv, BufTypes, Increasing, Elements
<1>2. CASE Calls!alt_putcharbuf
  <2> DEFINE more == Append(buf, given + 1)
  <2>1. /\ more \in Seq(Nat) /\ Len(more) = Len(buf) + 1 /\ Increasing(written \o more)
        /\ Elements(written \o more) = (1 .. given + 1) \ refused
    BY OneMore DEF BufferInv, BufInv
  <2>2. /\ given' = given + 1 /\ given + 1 \in Nat /\ refused \subseteq 1 .. given + 1
        /\ written \in Seq(Nat) /\ given \in Nat
    BY <1>2 DEF Calls!alt_putcharbuf, BufferInv, BufInv, BufTypes
  <2>3. CASE Len(more) >= PutbufSize
    <3>1. Calls!alt_putbufflush(more)
      BY <1>2, <2>3 DEF Calls!alt_putcharbuf
    <3> HIDE DEF more
    <3>2. BufInv' /\ refused' \subseteq 1 .. given + 1
      BY <2>1, <2>2, <3>1, FlushKeeps
    <3> QED BY <2>2, <3>2 DEF BufferInv
  <2>4. CASE ~(Len(more) >= PutbufSize)
    <3>1. buf' = more /\ UNCHANGED <<written, refused>>
      BY <1>2, <2>4 DEF Calls!alt_putcharbuf
    <3> HIDE DEF more
    <3>2. Len(more) < PutbufSize
      BY <2>1, <2>4, BufFacts
    <3>3. BufTypes'
      BY <2>1, <2>2, <3>1, <3>2 DEF BufTypes
    <3> QED BY <2>1, <2>2, <3>1, <3>3 DEF BufferInv, BufInv, Increasing, Elements
  <2> QED BY <2>3, <2>4
<1>3. CASE Calls!Flush
  <2>1. Calls!alt_putbufflush(buf) /\ given' = given
    BY <1>3 DEF Calls!Flush
  <2>2. BufInv' /\ refused' \subseteq 1 .. given
    BY <2>1, FlushKeeps DEF BufferInv, BufInv, BufTypes
  <2> QED BY <2>1, <2>2 DEF BufferInv
<1>4. CASE Calls!Next /\ ~Calls!alt_putcharbuf /\ ~Calls!Flush
  <2>1. \A op \in {"write", "read", "fstat", "isatty", "lseek", "fcntl", "ioctl"} :
           Calls!BadFd(op) => UNCHANGED Calls!putbuf
    BY DEF Calls!BadFd, Calls!Keep
  <2>2. \A f \in Descriptors :
           /\ \A n \in 1 .. 2 : Calls!write(f, n) \/ Calls!read(f, n) => UNCHANGED Calls!putbuf
           /\ Calls!fstat(f) \/ Calls!isatty(f) \/ Calls!lseek(f) \/ Calls!F_GETFL(f) \/ Calls!F_Other(f) => UNCHANGED Calls!putbuf
           /\ \A flags \in Calls!Arguments : Calls!F_SETFL(f, flags) => UNCHANGED Calls!putbuf
           /\ \A req \in Calls!Requests : \A term \in Calls!PointsAt(req) : Calls!ioctl(f, req, term) => UNCHANGED Calls!putbuf
    BY DEF Calls!write, Calls!read, Calls!Transfer, Calls!fstat, Calls!isatty, Calls!lseek, Calls!F_GETFL, Calls!F_Other, Calls!F_SETFL, Calls!ioctl, Calls!Keep
  <2>3. \A file \in -1 .. 3 :
           /\ \A op \in {"write", "read"} : Calls!DirectTransfer(op, file, 1) => UNCHANGED Calls!putbuf
           /\ Calls!DirectFstat(file) \/ Calls!DirectIsatty(file) \/ Calls!DirectSeek(file) => UNCHANGED Calls!putbuf
           /\ \A req \in Calls!Requests : \A term \in Calls!PointsAt(req) :
                 Calls!DirectIoctl(file, req, term) => UNCHANGED Calls!putbuf
    BY DEF Calls!DirectTransfer, Calls!DirectFstat, Calls!DirectIsatty, Calls!DirectSeek, Calls!DirectIoctl, Calls!Keep
  <2>4. Calls!alt_getchar \/ Calls!alt_putchar \/ Calls!alt_putstr => UNCHANGED Calls!putbuf
    BY DEF Calls!alt_getchar, Calls!alt_putchar, Calls!alt_putstr, Calls!DirectPut, Calls!Keep
  <2>5. UNCHANGED Calls!putbuf
    BY <1>4, <2>1, <2>2, <2>3, <2>4 DEF Calls!Next
  <2> QED BY <1>1, <2>5
<1>5. CASE UNCHANGED Calls!vars
  BY <1>1, <1>5 DEF Calls!vars, Calls!putbuf
<1> QED BY <1>2, <1>3, <1>4, <1>5

LEMMA BufferInvSays == BufferInv => Calls!BufferAccounts
<1> SUFFICES ASSUME BufferInv PROVE Calls!BufferAccounts
  OBVIOUS
<1> DEFINE all == written \o buf
<1>1. all \in Seq(Nat)
  BY Joined DEF BufferInv, BufInv, BufTypes
<1>2. DOMAIN all = 1 .. Len(all)
  BY <1>1
<1>3. Increasing(all) /\ Elements(all) = (1 .. given) \ refused /\ Len(buf) < PutbufSize
  BY DEF BufferInv, BufInv, BufTypes
<1> HIDE DEF all
<1>4. /\ Len(buf) < PutbufSize
      /\ {all[i] : i \in DOMAIN all} = (1 .. given) \ refused
      /\ \A i, j \in DOMAIN all : i < j => all[i] < all[j]
  BY <1>2, <1>3 DEF Increasing, Elements
<1> QED BY <1>4 DEF Calls!BufferAccounts, all

LEMMA BuffersSafe == HalSpec => [](Runs("calls") => BufferInv)
<1>1. HalInit => (Runs("calls") => BufferInv)
  BY BufferInvInit DEF HalInit
<1>2. (Runs("calls") => BufferInv) /\ [HalNext]_halvars => (Runs("calls") => BufferInv)'
  <2> SUFFICES ASSUME Runs("calls") => BufferInv, [HalNext]_halvars, Runs("calls")'
               PROVE  BufferInv'
    OBVIOUS
  <2>1. Runs("calls") /\ BufferInv
    BY ServiceStays DEF Runs
  <2>2. [Calls!Next]_(Calls!vars)
    BY <2>1, CallsMove
  <2> QED BY <2>1, <2>2, BufferInvKept
<1> QED BY <1>1, <1>2, PTL DEF HalSpec

\* What is given to a small driver, or to the buffer in front of semihosting, comes out in its
\* order, each character at most once, unless the call refused it; and what comes in is handed
\* on in its order, or was bad (intel_lw_uart_write.c, altera_avalon_jtag_uart_write.c,
\* alt_putcharbuf.c).
THEOREM OutputIsExact == HalSpec => []OutputExact
<1>1. (Runs("small") => PollInv) /\ (Runs("calls") => BufferInv) => OutputExact
  BY PollInvSays, BufferInvSays DEF OutputExact
<1> QED BY <1>1, PolledSafe, BuffersSafe, PTL

-----------------------------------------------------------------------------
(***************************************************************************)
(* The calls of the CLIC.                                                  *)
(***************************************************************************)
Bytes == SUBSET (0 .. 7)
Registers == [Controller!Words -> [0 .. 3 -> Bytes]]
ClicTypes == clicintctl \in Registers /\ clicintattr \in Registers

LEMMA ClicFacts ==
  /\ Irqs \subseteq Controller!Platform /\ {LevelBits, PriorityBits, Controller!LevelShift, Controller!PriorityShift} \subseteq Nat
  /\ Controller!PriorityShift + PriorityBits = Controller!LevelShift /\ Controller!LevelShift + LevelBits = 8
<1>1. /\ PlatformLines \in Nat \ {0} /\ Irqs \subseteq 0 .. PlatformLines - 1
      /\ LevelBits \in Nat /\ PriorityBits \in Nat /\ LevelBits + PriorityBits <= 8
  BY ServicesAssumption DEF Controller!ClicAssumption
<1> QED BY <1>1 DEF Controller!Platform, Controller!LevelShift, Controller!PriorityShift

\* Every line has a register and a slice in it, and no other line has both.
LEMMA Places ==
  /\ \A i \in Controller!Platform : Controller!Register(i) \in Controller!Words /\ Controller!Slice(i) \in 0 .. 3
  /\ \A i, j \in Controller!Platform : Controller!Register(i) = Controller!Register(j) /\ Controller!Slice(i) = Controller!Slice(j) => i = j
  /\ \A i, j \in Controller!Platform : i \div 4 # j \div 4 => Controller!Register(i) # Controller!Register(j)
  /\ \A i \in Controller!Platform : i % 4 = 0 <=> Controller!Slice(i) = 0
<1>1. PlatformLines \in Nat \ {0}
  BY ServicesAssumption DEF Controller!ClicAssumption
<1>2. \A i \in Controller!Platform : Controller!Register(i) \in Controller!Words /\ Controller!Slice(i) \in 0 .. 3
  BY <1>1 DEF Controller!Platform, Controller!Register, Controller!Slice, Controller!Id, Controller!Words
<1>3. \A i, j \in Controller!Platform : Controller!Register(i) = Controller!Register(j) /\ Controller!Slice(i) = Controller!Slice(j) => i = j
  BY <1>1 DEF Controller!Platform, Controller!Register, Controller!Slice, Controller!Id
<1>4. \A i, j \in Controller!Platform : i \div 4 # j \div 4 => Controller!Register(i) # Controller!Register(j)
  BY <1>1 DEF Controller!Platform, Controller!Register, Controller!Id
<1>5. \A i \in Controller!Platform : i % 4 = 0 <=> Controller!Slice(i) = 0
  BY <1>1 DEF Controller!Platform, Controller!Slice, Controller!Id
<1> QED BY <1>2, <1>3, <1>4, <1>5

\* What is stored for a line is read for it, and for no other.
LEMMA LineStored ==
  ASSUME NEW reg \in Registers, NEW line \in Controller!Platform, NEW bits \in Bytes
  PROVE  /\ Controller!Store(reg, line, bits) \in Registers
         /\ \A i \in Controller!Platform : Controller!Store(reg, line, bits)[Controller!Register(i)][Controller!Slice(i)]
                                = IF i = line THEN bits ELSE reg[Controller!Register(i)][Controller!Slice(i)]
<1> DEFINE r == Controller!Register(line)
           s == Controller!Slice(line)
           new == [reg[r] EXCEPT ![s] = bits]
<1>1. r \in Controller!Words /\ s \in 0 .. 3 /\ reg[r] \in [0 .. 3 -> Bytes]
  BY Places DEF Registers
<1>2. new \in [0 .. 3 -> Bytes] /\ \A k \in 0 .. 3 : new[k] = IF k = s THEN bits ELSE reg[r][k]
  BY <1>1
<1>3. Controller!Store(reg, line, bits) = [reg EXCEPT ![r] = new]
  BY DEF Controller!Store
<1> HIDE DEF new
<1>4. /\ [reg EXCEPT ![r] = new] \in Registers
      /\ \A k \in Controller!Words : [reg EXCEPT ![r] = new][k] = IF k = r THEN new ELSE reg[k]
  BY <1>1, <1>2 DEF Registers
<1>5. ASSUME NEW i \in Controller!Platform
      PROVE  [reg EXCEPT ![r] = new][Controller!Register(i)][Controller!Slice(i)] = IF i = line THEN bits ELSE reg[Controller!Register(i)][Controller!Slice(i)]
  <2>1. Controller!Register(i) \in Controller!Words /\ Controller!Slice(i) \in 0 .. 3 /\ (Controller!Register(i) = r /\ Controller!Slice(i) = s => i = line)
    BY Places
  <2> QED BY <1>2, <1>4, <2>1
<1> QED BY <1>3, <1>4, <1>5

-----------------------------------------------------------------------------
\* The fields of a byte do not disturb each other.
LEMMA Encoded ==
  ASSUME NEW l \in Controller!Levels, NEW p \in Controller!Priorities
  PROVE  /\ Controller!alt_clic_encode_ctl_byte(l, p) \in Bytes
         /\ Controller!alt_clic_ctl_level_bits_of(Controller!alt_clic_encode_ctl_byte(l, p)) = l
         /\ Controller!alt_clic_ctl_priority_bits_of(Controller!alt_clic_encode_ctl_byte(l, p)) = p
<1> DEFINE bits == Controller!alt_clic_encode_ctl_byte(l, p)
<1>1. PICK ls \in Nat, ps \in Nat : ls = Controller!LevelShift /\ ps = Controller!PriorityShift
  BY ClicFacts
<1>2. /\ \A b \in l : b \in Nat /\ ls + b <= 7
      /\ \A b \in p : b \in Nat /\ ps + b < ls
      /\ ls <= 8 /\ ps <= ls /\ 7 - LevelBits = ls - 1 /\ 7 - (LevelBits + PriorityBits) = ps - 1
      /\ \A b \in p : b \in 0 .. 7 - ps
  BY <1>1, ClicFacts DEF Controller!Levels, Controller!Priorities
<1>3. \A c : c \in bits <=> \/ \E b \in l : c = b + ls
                            \/ \E b \in p : c = b + ps
                            \/ c \in 0 .. ps - 1
  BY <1>1, <1>2 DEF Controller!alt_clic_encode_ctl_byte, Controller!ShiftLeft
<1> HIDE DEF bits
<1>4. bits \in Bytes
  BY <1>2, <1>3 DEF Bytes
<1>5. Controller!alt_clic_ctl_level_bits_of(bits) = l
  <2>1. Controller!alt_clic_ctl_level_bits_of(bits) = {b - ls : b \in {c \in bits : c >= ls}}
    BY <1>1 DEF Controller!alt_clic_ctl_level_bits_of, Controller!ShiftRight
  <2>2. ASSUME NEW b \in l
        PROVE  b \in {k - ls : k \in {c \in bits : c >= ls}}
    <3>1. b + ls \in bits /\ b + ls >= ls /\ (b + ls) - ls = b
      BY <1>2, <1>3
    <3> QED BY <3>1
  <2>3. ASSUME NEW c \in bits, c >= ls
        PROVE  c - ls \in l
    <3>1. \A b \in p : c # b + ps
      BY <1>2, <2>3
    <3>2. c \notin 0 .. ps - 1
      BY <1>2, <2>3
    <3>3. PICK b \in l : c = b + ls
      BY <1>3, <3>1, <3>2
    <3> QED BY <1>2, <3>3
  <2> QED BY <2>1, <2>2, <2>3
<1>6. Controller!alt_clic_ctl_priority_bits_of(bits) = p
  <2>1. Controller!alt_clic_ctl_priority_bits_of(bits) = {b - ps : b \in {c \in bits \cap 0 .. ls - 1 : c >= ps}}
    BY <1>1, <1>2 DEF Controller!alt_clic_ctl_priority_bits_of, Controller!ShiftRight
  <2>2. ASSUME NEW b \in p
        PROVE  b \in {k - ps : k \in {c \in bits \cap 0 .. ls - 1 : c >= ps}}
    <3>1. b + ps \in bits /\ b + ps \in 0 .. ls - 1 /\ b + ps >= ps /\ (b + ps) - ps = b
      BY <1>2, <1>3
    <3> QED BY <3>1
  <2>3. ASSUME NEW c \in bits, c \in 0 .. ls - 1, c >= ps
        PROVE  c - ps \in p
    <3>1. \A b \in l : c # b + ls
      BY <1>2, <2>3
    <3>2. c \notin 0 .. ps - 1
      BY <1>2, <2>3
    <3>3. PICK b \in p : c = b + ps
      BY <1>3, <3>1, <3>2
    <3> QED BY <1>2, <3>3
  <2> QED BY <2>1, <2>2, <2>3
<1> QED BY <1>4, <1>5, <1>6 DEF bits

\* What is read of a byte fits the fields.
LEMMA Decoded ==
  ASSUME NEW bits \in Bytes
  PROVE  /\ Controller!alt_clic_ctl_level_bits_of(bits) \in Controller!Levels
         /\ Controller!alt_clic_ctl_priority_bits_of(bits) \in Controller!Priorities
<1>1. PICK ls \in Nat, ps \in Nat : ls = Controller!LevelShift /\ ps = Controller!PriorityShift
  BY ClicFacts
<1>2. /\ ps + PriorityBits = ls /\ ls + LevelBits = 8 /\ LevelBits \in Nat /\ PriorityBits \in Nat
      /\ 7 - LevelBits = ls - 1
  BY <1>1, ClicFacts
<1>3. \A c \in bits : c >= ls => c - ls \in 0 .. LevelBits - 1
  BY <1>2 DEF Bytes
<1>4. \A c \in bits \cap 0 .. ls - 1 : c >= ps => c - ps \in 0 .. PriorityBits - 1
  BY <1>2 DEF Bytes
<1> QED BY <1>1, <1>2, <1>3, <1>4
        DEF Controller!alt_clic_ctl_level_bits_of, Controller!alt_clic_ctl_priority_bits_of, Controller!ShiftRight, Controller!Levels, Controller!Priorities

-----------------------------------------------------------------------------
LevelOf == [i \in Controller!Platform |-> Controller!alt_clic_get_level(i)]
PriorityOf == [i \in Controller!Platform |-> Controller!alt_clic_get_priority(i)]
AttributesOf == [i \in Controller!Platform |-> Controller!alt_clic_get_attr_byte(i)]
SwitchedOn == {i \in Controller!Platform : Controller!Id(i) \in clicintie}

\* A byte of levels and priorities is stored: the line has those, and the others what they had.
LEMMA ControlStored ==
  ASSUME ClicTypes, NEW line \in Controller!Platform, NEW l \in Controller!Levels, NEW p \in Controller!Priorities,
         Controller!alt_clic_set_ctl_byte(line, Controller!alt_clic_encode_ctl_byte(l, p))
  PROVE  /\ ClicTypes' /\ UNCHANGED <<AttributesOf, SwitchedOn>>
         /\ LevelOf' = [LevelOf EXCEPT ![line] = l]
         /\ PriorityOf' = [PriorityOf EXCEPT ![line] = p]
<1> DEFINE bits == Controller!alt_clic_encode_ctl_byte(l, p)
<1>1. /\ bits \in Bytes /\ Controller!alt_clic_ctl_level_bits_of(bits) = l
      /\ Controller!alt_clic_ctl_priority_bits_of(bits) = p
  BY Encoded
<1>2. clicintctl' = Controller!Store(clicintctl, line, bits) /\ UNCHANGED <<clicintattr, clicintie>>
  BY DEF Controller!alt_clic_set_ctl_byte
<1> HIDE DEF bits
<1>3. /\ clicintctl' \in Registers
      /\ \A i \in Controller!Platform : clicintctl'[Controller!Register(i)][Controller!Slice(i)]
                             = IF i = line THEN bits ELSE clicintctl[Controller!Register(i)][Controller!Slice(i)]
  BY <1>1, <1>2, LineStored DEF ClicTypes
<1>4. ClicTypes'
  BY <1>2, <1>3 DEF ClicTypes
<1>5. LevelOf' = [i \in Controller!Platform |-> IF i = line THEN l ELSE Controller!alt_clic_get_level(i)]
  BY <1>1, <1>3 DEF LevelOf, Controller!alt_clic_get_level, Controller!alt_clic_get_ctl_byte
<1>6. PriorityOf' = [i \in Controller!Platform |-> IF i = line THEN p ELSE Controller!alt_clic_get_priority(i)]
  BY <1>1, <1>3 DEF PriorityOf, Controller!alt_clic_get_priority, Controller!alt_clic_get_ctl_byte
<1>7. UNCHANGED <<AttributesOf, SwitchedOn>>
  BY <1>2 DEF AttributesOf, SwitchedOn, Controller!alt_clic_get_attr_byte
<1> QED BY <1>4, <1>5, <1>6, <1>7 DEF LevelOf, PriorityOf

LEMMA AttributesStored ==
  ASSUME ClicTypes, NEW line \in Controller!Platform, NEW bits \in Bytes, Controller!alt_clic_set_attr_byte(line, bits)
  PROVE  /\ ClicTypes' /\ UNCHANGED <<LevelOf, PriorityOf, SwitchedOn>>
         /\ AttributesOf' = [AttributesOf EXCEPT ![line] = bits]
<1>1. clicintattr' = Controller!Store(clicintattr, line, bits) /\ UNCHANGED <<clicintctl, clicintie>>
  BY DEF Controller!alt_clic_set_attr_byte
<1>2. /\ clicintattr' \in Registers
      /\ \A i \in Controller!Platform : clicintattr'[Controller!Register(i)][Controller!Slice(i)]
                             = IF i = line THEN bits ELSE clicintattr[Controller!Register(i)][Controller!Slice(i)]
  BY <1>1, LineStored DEF ClicTypes
<1>3. ClicTypes'
  BY <1>1, <1>2 DEF ClicTypes
<1>4. AttributesOf' = [i \in Controller!Platform |-> IF i = line THEN bits ELSE Controller!alt_clic_get_attr_byte(i)]
  BY <1>2 DEF AttributesOf, Controller!alt_clic_get_attr_byte
<1>5. UNCHANGED <<LevelOf, PriorityOf, SwitchedOn>>
  BY <1>1 DEF LevelOf, PriorityOf, SwitchedOn, Controller!alt_clic_get_level, Controller!alt_clic_get_priority,
     Controller!alt_clic_get_ctl_byte
<1> QED BY <1>3, <1>4, <1>5 DEF AttributesOf

\* The trigger mode of the first line of a register is its own; that of another line may
\* disturb the attributes of the four.
LEMMA TriggerStored ==
  ASSUME ClicTypes, NEW line \in Controller!Platform, NEW trigger \in SUBSET {0, 1},
         Controller!alt_clic_set_trigger_mode(line, trigger)
  PROVE  /\ ClicTypes' /\ UNCHANGED <<LevelOf, PriorityOf, SwitchedOn>>
         /\ IF line % 4 = 0
            THEN AttributesOf' = [AttributesOf EXCEPT ![line] = (@ \ {1, 2}) \cup {b + 1 : b \in trigger}]
            ELSE /\ AttributesOf' \in [Controller!Platform -> SUBSET (0 .. 7)]
                 /\ \A j \in Controller!Platform : j \div 4 # line \div 4 => AttributesOf'[j] = AttributesOf[j]
<1> DEFINE r == Controller!Register(line)
           s == Controller!Slice(line)
           word == clicintattr[r]
           masked == [word EXCEPT ![0] = @ \ {1 + s, 2 + s}]
           new == [masked EXCEPT ![s] = @ \cup Controller!ShiftLeft(trigger, 1)]
<1>1. clicintattr' = [clicintattr EXCEPT ![r] = new] /\ UNCHANGED <<clicintctl, clicintie>>
  BY DEF Controller!alt_clic_set_trigger_mode
<1>2. r \in Controller!Words /\ s \in 0 .. 3 /\ word \in [0 .. 3 -> Bytes]
  BY Places DEF ClicTypes, Registers
<1>3. Controller!ShiftLeft(trigger, 1) = {b + 1 : b \in trigger} /\ Controller!ShiftLeft(trigger, 1) \in Bytes
  BY DEF Controller!ShiftLeft, Bytes
<1>4. masked \in [0 .. 3 -> Bytes]
  BY <1>2 DEF Bytes
<1>5. new \in [0 .. 3 -> Bytes]
  <2> HIDE DEF masked
  <2> QED BY <1>2, <1>3, <1>4 DEF Bytes
<1>6. ClicTypes'
  <2> HIDE DEF new
  <2> QED BY <1>1, <1>2, <1>5 DEF ClicTypes, Registers
<1>7. \A i \in Controller!Platform : AttributesOf'[i] = IF Controller!Register(i) = r THEN new[Controller!Slice(i)] ELSE AttributesOf[i]
  <2> HIDE DEF new
  <2> QED BY <1>1, <1>2, Places DEF AttributesOf, Controller!alt_clic_get_attr_byte, ClicTypes, Registers
<1>8. UNCHANGED <<LevelOf, PriorityOf, SwitchedOn>>
  BY <1>1 DEF LevelOf, PriorityOf, SwitchedOn, Controller!alt_clic_get_level, Controller!alt_clic_get_priority,
     Controller!alt_clic_get_ctl_byte
<1>9. AttributesOf \in [Controller!Platform -> Bytes] /\ AttributesOf' \in [Controller!Platform -> Bytes]
  <2>1. \A i \in Controller!Platform : clicintattr[Controller!Register(i)][Controller!Slice(i)] \in Bytes
                            /\ clicintattr'[Controller!Register(i)][Controller!Slice(i)] \in Bytes
    BY <1>6, Places DEF ClicTypes, Registers
  <2> QED BY <2>1 DEF AttributesOf, Controller!alt_clic_get_attr_byte
<1>10. CASE line % 4 = 0
  <2>1. s = 0
    BY <1>10, Places
  <2>2. \A k \in 0 .. 3 : new[k] = IF k = 0 THEN (word[0] \ {1, 2}) \cup {b + 1 : b \in trigger} ELSE word[k]
    <3>1. 1 + s = 1 /\ 2 + s = 2
      BY <2>1
    <3>2. masked = [word EXCEPT ![0] = word[0] \ {1, 2}]
      BY <3>1
    <3>3. masked[0] = word[0] \ {1, 2} /\ \A k \in 0 .. 3 : k # 0 => masked[k] = word[k]
      BY <1>2, <3>2
    <3> HIDE DEF masked
    <3>4. new = [masked EXCEPT ![0] = masked[0] \cup {b + 1 : b \in trigger}]
      BY <1>3, <2>1
    <3> QED BY <1>4, <3>3, <3>4
  <2> HIDE DEF new, masked
  <2>3. AttributesOf[line] = word[0]
    BY <2>1 DEF AttributesOf, Controller!alt_clic_get_attr_byte
  <2>4. \A i \in Controller!Platform : AttributesOf'[i] = IF i = line THEN (AttributesOf[line] \ {1, 2}) \cup {b + 1 : b \in trigger}
                                               ELSE AttributesOf[i]
    <3> SUFFICES ASSUME NEW i \in Controller!Platform
                 PROVE  AttributesOf'[i] = IF i = line THEN (AttributesOf[line] \ {1, 2}) \cup {b + 1 : b \in trigger}
                                           ELSE AttributesOf[i]
      OBVIOUS
    <3>1. CASE i = line
      BY <1>7, <2>1, <2>2, <2>3, <3>1
    <3>2. CASE i # line /\ Controller!Register(i) = r
      <4>1. Controller!Slice(i) \in 0 .. 3 /\ Controller!Slice(i) # 0
        BY <2>1, <3>2, Places
      <4>2. AttributesOf[i] = word[Controller!Slice(i)]
        BY <3>2 DEF AttributesOf, Controller!alt_clic_get_attr_byte
      <4> QED BY <1>7, <2>2, <3>2, <4>1, <4>2
    <3>3. CASE i # line /\ Controller!Register(i) # r
      BY <1>7, <3>3
    <3> QED BY <3>1, <3>2, <3>3
  <2>5. AttributesOf' = [AttributesOf EXCEPT ![line] = (@ \ {1, 2}) \cup {b + 1 : b \in trigger}]
    BY <1>9, <2>4
  <2> QED BY <1>6, <1>8, <1>10, <2>5
<1>11. CASE ~(line % 4 = 0)
  <2> HIDE DEF new
  <2>1. \A j \in Controller!Platform : j \div 4 # line \div 4 => AttributesOf'[j] = AttributesOf[j]
    BY <1>7, Places
  <2> QED BY <1>6, <1>8, <1>9, <1>11, <2>1 DEF Bytes
<1> QED BY <1>10, <1>11

LEMMA Switched ==
  ASSUME ClicTypes, NEW line \in Controller!Platform
  PROVE  /\ Controller!alt_ic_irq_enable(line) => /\ ClicTypes' /\ UNCHANGED <<LevelOf, PriorityOf, AttributesOf>>
                                      /\ SwitchedOn' = SwitchedOn \cup {line}
         /\ Controller!alt_ic_irq_disable(line) => /\ ClicTypes' /\ UNCHANGED <<LevelOf, PriorityOf, AttributesOf>>
                                       /\ SwitchedOn' = SwitchedOn \ {line}
<1>1. \A i \in Controller!Platform : Controller!Id(i) = Controller!Id(line) <=> i = line
  BY ServicesAssumption DEF Controller!Id, Controller!Platform, Controller!ClicAssumption
<1>2. ASSUME UNCHANGED <<clicintctl, clicintattr>>
      PROVE  ClicTypes' /\ UNCHANGED <<LevelOf, PriorityOf, AttributesOf>>
  BY <1>2 DEF ClicTypes, LevelOf, PriorityOf, AttributesOf, Controller!alt_clic_get_level, Controller!alt_clic_get_priority,
     Controller!alt_clic_get_ctl_byte, Controller!alt_clic_get_attr_byte
<1>3. ASSUME Controller!alt_ic_irq_enable(line) PROVE SwitchedOn' = SwitchedOn \cup {line}
  BY <1>1, <1>3 DEF SwitchedOn, Controller!alt_ic_irq_enable
<1>4. ASSUME Controller!alt_ic_irq_disable(line) PROVE SwitchedOn' = SwitchedOn \ {line}
  BY <1>1, <1>4 DEF SwitchedOn, Controller!alt_ic_irq_disable
<1> QED BY <1>2, <1>3, <1>4 DEF Controller!alt_ic_irq_enable, Controller!alt_ic_irq_disable

-----------------------------------------------------------------------------
LEMMA ClicInitial == Controller!Init => ClicTypes /\ Controller!Configuration!Init
<1> SUFFICES ASSUME Controller!Init PROVE ClicTypes /\ Controller!Configuration!Init
  OBVIOUS
<1>1. ClicTypes
  BY DEF Controller!Init, ClicTypes, Registers, Bytes
<1>2. \A i \in Controller!Platform : /\ Controller!alt_clic_get_ctl_byte(i) = IF LevelBits = 8 THEN {0} ELSE {}
                          /\ Controller!alt_clic_get_attr_byte(i) = {}
  BY Places DEF Controller!Init, Controller!alt_clic_get_ctl_byte, Controller!alt_clic_get_attr_byte
<1>3. \A i \in Controller!Platform : /\ Controller!alt_clic_get_level(i) = IF LevelBits = 8 THEN {0} ELSE {}
                          /\ Controller!alt_clic_get_priority(i) = {}
  <2>1. CASE LevelBits = 8
    <3>1. Controller!LevelShift = 0 /\ 0 .. 7 - LevelBits = {}
      BY <2>1 DEF Controller!LevelShift
    <3>2. Controller!ShiftRight({0}, 0) = {0}
      BY DEF Controller!ShiftRight
    <3>3. \A n : Controller!ShiftRight({}, n) = {}
      BY DEF Controller!ShiftRight
    <3> QED BY <1>2, <2>1, <3>1, <3>2, <3>3 DEF Controller!alt_clic_get_level, Controller!alt_clic_get_priority,
            Controller!alt_clic_ctl_level_bits_of, Controller!alt_clic_ctl_priority_bits_of
  <2>2. CASE LevelBits # 8
    <3>1. \A n : Controller!ShiftRight({}, n) = {}
      BY DEF Controller!ShiftRight
    <3> QED BY <1>2, <2>2, <3>1 DEF Controller!alt_clic_get_level, Controller!alt_clic_get_priority,
            Controller!alt_clic_ctl_level_bits_of, Controller!alt_clic_ctl_priority_bits_of
  <2> QED BY <2>1, <2>2
<1>4. /\ clicintie = {} /\ asked = Controller!Configuration!NoCall
  BY DEF Controller!Init, Controller!Configuration!NoCall
<1>5. /\ LevelOf = [i \in Controller!Platform |-> IF LevelBits = 8 THEN {0} ELSE {}]
      /\ PriorityOf = [i \in Controller!Platform |-> {}] /\ AttributesOf = [i \in Controller!Platform |-> {}]
      /\ SwitchedOn = {}
  BY <1>2, <1>3, <1>4 DEF LevelOf, PriorityOf, AttributesOf, SwitchedOn
<1> QED BY <1>1, <1>4, <1>5 DEF Controller!Configuration!Init, LevelOf, PriorityOf, AttributesOf, SwitchedOn

LEMMA ClicStep == ClicTypes /\ [Controller!Next]_(Controller!vars) => ClicTypes' /\ [Controller!Configuration!Next]_(Controller!Configuration!lines)
<1> SUFFICES ASSUME ClicTypes, [Controller!Next]_(Controller!vars)
             PROVE  ClicTypes' /\ [Controller!Configuration!Next]_(Controller!Configuration!lines)
  OBVIOUS
<1> USE DEF LevelOf, PriorityOf, AttributesOf, SwitchedOn
<1>0. Irqs \subseteq Controller!Platform
  BY ClicFacts
<1>1. CASE UNCHANGED Controller!vars
  BY <1>1 DEF Controller!vars, ClicTypes, Controller!Configuration!lines, Controller!alt_clic_get_level, Controller!alt_clic_get_priority,
     Controller!alt_clic_get_ctl_byte, Controller!alt_clic_get_attr_byte
<1>2. CASE \E line \in Irqs, l \in Controller!Levels, p \in Controller!Priorities :
              /\ Controller!Call("both", line, l, p)
              /\ Controller!alt_clic_set_ctl_byte(line, Controller!alt_clic_encode_ctl_byte(l, p))
  <2>1. PICK line \in Irqs, l \in Controller!Levels, p \in Controller!Priorities :
           /\ asked' = [call |-> "both", irq |-> line, with |-> <<l, p>>]
           /\ Controller!alt_clic_set_ctl_byte(line, Controller!alt_clic_encode_ctl_byte(l, p))
    BY <1>2 DEF Controller!Call
  <2>2. ClicTypes' /\ Controller!Configuration!SetBoth(line, l, p)
    BY <1>0, <2>1, ControlStored DEF Controller!Configuration!SetBoth, Controller!Configuration!AskTwo
  <2> QED BY <1>0, <2>1, <2>2 DEF Controller!Configuration!Next
<1>3. CASE \E line \in Irqs, l \in Controller!Levels : Controller!Call("level", line, l, {}) /\ Controller!alt_clic_set_level(line, l)
  <2>1. PICK line \in Irqs, l \in Controller!Levels :
           /\ asked' = [call |-> "level", irq |-> line, with |-> <<l, {}>>]
           /\ Controller!alt_clic_set_ctl_byte(line, Controller!alt_clic_encode_ctl_byte(l, Controller!alt_clic_get_priority(line)))
    BY <1>3 DEF Controller!Call, Controller!alt_clic_set_level
  <2>2. Controller!alt_clic_get_priority(line) \in Controller!Priorities
    BY <1>0, Places, Decoded DEF Controller!alt_clic_get_priority, Controller!alt_clic_get_ctl_byte, ClicTypes, Registers
  <2>3. /\ ClicTypes' /\ UNCHANGED <<AttributesOf, SwitchedOn>>
        /\ LevelOf' = [LevelOf EXCEPT ![line] = l]
        /\ PriorityOf' = [PriorityOf EXCEPT ![line] = Controller!alt_clic_get_priority(line)]
    BY <1>0, <2>1, <2>2, ControlStored
  <2>4. PriorityOf' = PriorityOf
    BY <1>0, <2>3
  <2>5. Controller!Configuration!SetLevel(line, l)
    BY <2>1, <2>3, <2>4 DEF Controller!Configuration!SetLevel, Controller!Configuration!Ask
  <2> QED BY <1>0, <2>1, <2>3, <2>5 DEF Controller!Configuration!Next
<1>4. CASE \E line \in Irqs, p \in Controller!Priorities : Controller!Call("priority", line, p, {}) /\ Controller!alt_clic_set_priority(line, p)
  <2>1. PICK line \in Irqs, p \in Controller!Priorities :
           /\ asked' = [call |-> "priority", irq |-> line, with |-> <<p, {}>>]
           /\ Controller!alt_clic_set_ctl_byte(line, Controller!alt_clic_encode_ctl_byte(Controller!alt_clic_get_level(line), p))
    BY <1>4 DEF Controller!Call, Controller!alt_clic_set_priority
  <2>2. Controller!alt_clic_get_level(line) \in Controller!Levels
    BY <1>0, Places, Decoded DEF Controller!alt_clic_get_level, Controller!alt_clic_get_ctl_byte, ClicTypes, Registers
  <2>3. /\ ClicTypes' /\ UNCHANGED <<AttributesOf, SwitchedOn>>
        /\ LevelOf' = [LevelOf EXCEPT ![line] = Controller!alt_clic_get_level(line)]
        /\ PriorityOf' = [PriorityOf EXCEPT ![line] = p]
    BY <1>0, <2>1, <2>2, ControlStored
  <2>4. LevelOf' = LevelOf
    BY <1>0, <2>3
  <2>5. Controller!Configuration!SetPriority(line, p)
    BY <2>1, <2>3, <2>4 DEF Controller!Configuration!SetPriority, Controller!Configuration!Ask
  <2> QED BY <1>0, <2>1, <2>3, <2>5 DEF Controller!Configuration!Next
<1>5. CASE \E line \in Irqs, bits \in Controller!Attributes :
              Controller!Call("attributes", line, bits, {}) /\ Controller!alt_clic_set_attr_byte(line, bits)
  <2>1. PICK line \in Irqs, bits \in Controller!Attributes :
           /\ asked' = [call |-> "attributes", irq |-> line, with |-> <<bits, {}>>]
           /\ Controller!alt_clic_set_attr_byte(line, bits)
    BY <1>5 DEF Controller!Call
  <2>2. bits \in Bytes
    BY DEF Controller!Attributes, Controller!alt_clic_encode_attr_byte, Controller!ShiftLeft, Bytes
  <2>3. ClicTypes' /\ Controller!Configuration!SetAttributes(line, bits)
    BY <1>0, <2>1, <2>2, AttributesStored DEF Controller!Configuration!SetAttributes, Controller!Configuration!Ask
  <2> QED BY <1>0, <2>1, <2>3 DEF Controller!Configuration!Next
<1>6. CASE \E line \in Irqs, trigger \in SUBSET {0, 1} :
              Controller!Call("trigger", line, trigger, {}) /\ Controller!alt_clic_set_trigger_mode(line, trigger)
  <2>1. PICK line \in Irqs, trigger \in SUBSET {0, 1} :
           /\ asked' = [call |-> "trigger", irq |-> line, with |-> <<trigger, {}>>]
           /\ Controller!alt_clic_set_trigger_mode(line, trigger)
    BY <1>6 DEF Controller!Call
  <2>2. ClicTypes' /\ Controller!Configuration!SetTrigger(line, trigger)
    BY <1>0, <2>1, TriggerStored DEF Controller!Configuration!SetTrigger, Controller!Configuration!Ask
  <2> QED BY <1>0, <2>1, <2>2 DEF Controller!Configuration!Next
<1>7. CASE \E line \in Irqs : \/ Controller!Call("enable", line, {}, {}) /\ Controller!alt_ic_irq_enable(line)
                              \/ Controller!Call("disable", line, {}, {}) /\ Controller!alt_ic_irq_disable(line)
  <2>1. PICK line \in Irqs :
           \/ /\ asked' = [call |-> "enable", irq |-> line, with |-> <<{}, {}>>]
              /\ Controller!alt_ic_irq_enable(line)
           \/ /\ asked' = [call |-> "disable", irq |-> line, with |-> <<{}, {}>>]
              /\ Controller!alt_ic_irq_disable(line)
    BY <1>7 DEF Controller!Call
  <2>2. ClicTypes' /\ (Controller!Configuration!SwitchOn(line) \/ Controller!Configuration!SwitchOff(line))
    BY <1>0, <2>1, Switched DEF Controller!Configuration!SwitchOn, Controller!Configuration!SwitchOff, Controller!Configuration!Ask
  <2> QED BY <1>0, <2>1, <2>2 DEF Controller!Configuration!Next
<1>8. CASE Controller!Next
  BY <1>2, <1>3, <1>4, <1>5, <1>6, <1>7, <1>8 DEF Controller!Next
<1> QED BY <1>1, <1>8

LEMMA ClicMoves ==
  ASSUME [HalNext]_halvars
  PROVE  [Controller!Next]_(Controller!vars)
<1>1. CASE UNCHANGED clicvars
  BY <1>1 DEF clicvars, Controller!vars
<1>2. CASE ~UNCHANGED clicvars
  BY <1>2 DEF HalNext, halvars, clicvars
<1> QED BY <1>1, <1>2

\* A call of the CLIC changes the field it names of the line it names, and what it set is what
\* the corresponding call reads (sys/alt_irq.h): the packing of two fields into a byte and of
\* four bytes into a register is invisible, but for the trigger mode of a line that is not the
\* first of its four.
THEOREM ImplementsLines == HalSpec => ClicRefined
<1>1. HalInit => ClicTypes /\ Controller!Configuration!Init
  BY ClicInitial DEF HalInit
<1>2. ClicTypes /\ [HalNext]_halvars
      => ClicTypes' /\ [Controller!Configuration!Next]_(Controller!Configuration!lines)
  BY ClicMoves, ClicStep
<1>3. HalSpec => []ClicTypes
  BY <1>1, <1>2, PTL DEF HalSpec
<1> QED BY <1>1, <1>2, <1>3, PTL DEF HalSpec, ClicRefined, Controller!ClicRefined, Controller!Configuration!Spec
=============================================================================
