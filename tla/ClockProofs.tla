---------------------------- MODULE ClockProofs -----------------------------
(***************************************************************************)
(* The system clock, for every set of alarms, every width of the count's   *)
(* words and every period: reads in halves, races over the compare         *)
(* register and a list that changes under the walk do no harm.             *)
(***************************************************************************)
EXTENDS Clock, DataTheorems

-----------------------------------------------------------------------------
(***************************************************************************)
(* The count, the compare register and who is where.                       *)
(***************************************************************************)
Labels == {"idle", "off", "m_high", "m_low", "m_check", "c_max", "c_low", "c_high",
           "tick", "walk", "slept"}
CountTypes ==
    /\ mtime \in 0 .. MaxTime /\ mtimecmp \in [high : Nat, low : Nat]
    /\ enabled \in BOOLEAN /\ rate \in BOOLEAN
    /\ pc \in [Threads -> Labels]
    /\ high \in [Threads -> Nat] /\ low \in [Threads -> Nat] /\ target \in [Threads -> Nat]
    /\ job \in {"none", "init", "start", "sleep"}
    /\ offset \in Nat /\ wait \in Nat /\ inits \in Nat /\ armed \in Nat /\ asleep \in Nat

\* The words a thread has read are those of counts between the time it began to
\* matter and now, the high word's no later than the low word's.
Since(t) == IF t = "main" /\ job = "start" THEN asleep ELSE 0
WordsRead(t) ==
    /\ pc[t] = "m_low" =>
          \E h \in Nat : Since(t) <= h /\ h <= mtime /\ high[t] = h \div Words
    /\ pc[t] = "m_check" =>
          \E h, l \in Nat : /\ Since(t) <= h /\ h <= l /\ l <= mtime
                            /\ high[t] = h \div Words /\ low[t] = l % Words

SleepInv == /\ \A t \in Threads : WordsRead(t)
            /\ asleep <= mtime
            /\ job = "sleep" => asleep <= offset
            /\ SleptLongEnough

\* While a thread is between the writes of the compare register, the register
\* is beyond any count, so the program cannot be interrupted there; when nobody
\* is, it is what was last meant.
AtCompare(t) == pc[t] \in {"c_low", "c_high"}
CompareInv ==
    /\ \A t \in Threads :
          /\ AtCompare(t) => mtimecmp.high = Words - 1
          /\ pc[t] \in {"c_max", "c_low", "c_high"} => target[t] <= mtime + Delta
          /\ pc[t] = "c_high" => mtimecmp.low = target[t] % Words
    /\ AtCompare("main") => pc["isr"] = "off"
    /\ enabled /\ (\A t \in Threads : ~AtCompare(t))
          => Value(mtimecmp) = armed /\ armed <= mtime + Delta

CountInv == CountTypes /\ SleepInv /\ CompareInv

\* The steps that concern the list of alarms only.
ListStep == \/ T_Alarm
            \/ \E a \in Alarms : alt_alarm_stop(a) \/ \E n \in Delays : alt_alarm_start(a, n)

LEMMA StepCases ==
  ASSUME [Next]_vars,
         NEW P,
         \A t \in Threads : M_High(t) => P, \A t \in Threads : M_Low(t) => P,
         \A t \in Threads : M_Check(t) => P, \A t \in Threads : C_Max(t) => P,
         \A t \in Threads : C_Low(t) => P, \A t \in Threads : C_High(t) => P,
         Advance => P, Interrupt => P, T_Count => P, T_Done => P, ListStep => P,
         TimerInit => P, Slept => P, \A d \in Sleeps : usleep(d) => P,
         UNCHANGED vars => P
  PROVE  P
<1>1. \A t \in Threads : TimerAccess(t) => P
  BY DEF TimerAccess
<1>2. "main" \in Threads /\ "isr" \in Threads
  BY DEF Threads
<1>3. IsrStep => P
  BY <1>1, <1>2 DEF IsrStep, ListStep
<1>4. MainStep => P
  BY <1>1, <1>2 DEF MainStep, ListStep
<1> QED BY <1>3, <1>4 DEF Next

LEMMA CountTypesStep == CountTypes /\ [Next]_vars => CountTypes'
<1> SUFFICES ASSUME CountTypes, [Next]_vars PROVE CountTypes'
  OBVIOUS
<1>a. Words \in Nat \ {0}
  BY ClockAssumption
<1>b. \A n \in Nat : n \div Words \in Nat /\ n % Words \in Nat
  BY <1>a, DivMod
<1> USE <1>b, ClockAssumption DEF CountTypes, Threads, Labels, At, Goto, Forget, alarms, program
<1>1. ASSUME NEW t \in Threads, M_High(t) PROVE CountTypes'
  BY <1>1 DEF M_High
<1>2. ASSUME NEW t \in Threads, M_Low(t) PROVE CountTypes'
  BY <1>2 DEF M_Low
<1>3. ASSUME NEW t \in Threads, M_Check(t) PROVE CountTypes'
  <2>1. Read(t) \in Nat
    BY DEF Read, Value
  <2> HIDE DEF Read
  <2> QED BY <1>3, <2>1 DEF M_Check
<1>4. ASSUME NEW t \in Threads, C_Max(t) PROVE CountTypes'
  BY <1>4 DEF C_Max
<1>5. ASSUME NEW t \in Threads, C_Low(t) PROVE CountTypes'
  BY <1>5 DEF C_Low
<1>6. ASSUME NEW t \in Threads, C_High(t) PROVE CountTypes'
  BY <1>6 DEF C_High
<1>7. ASSUME Advance PROVE CountTypes'
  BY <1>7 DEF Advance
<1>8. ASSUME Interrupt PROVE CountTypes'
  BY <1>8 DEF Interrupt
<1>9. ASSUME T_Count PROVE CountTypes'
  BY <1>9 DEF T_Count
<1>10. ASSUME T_Done PROVE CountTypes'
  BY <1>10 DEF T_Done
<1>11. ASSUME ListStep PROVE CountTypes'
  BY <1>11 DEF ListStep, T_Alarm, alt_alarm_stop, alt_alarm_start
<1>12. ASSUME TimerInit PROVE CountTypes'
  BY <1>12 DEF TimerInit
<1>13. ASSUME Slept PROVE CountTypes'
  BY <1>13 DEF Slept
<1>14. ASSUME NEW d \in Sleeps, usleep(d) PROVE CountTypes'
  BY <1>14 DEF usleep
<1>15. ASSUME UNCHANGED vars PROVE CountTypes'
  BY <1>15 DEF vars
<1> QED BY <1>1, <1>2, <1>3, <1>4, <1>5, <1>6, <1>7, <1>8, <1>9, <1>10, <1>11, <1>12, <1>13,
           <1>14, <1>15, StepCases, Zenon

\* What a thread has read when no rollover came between is a count that was.
LEMMA ReadIsACount ==
  ASSUME CountTypes, SleepInv, NEW t \in Threads, pc[t] = "m_check", ~RolledOver(t)
  PROVE  Read(t) \in Nat /\ Since(t) <= Read(t) /\ Read(t) <= mtime
<1>1. PICK h, l \in Nat : /\ Since(t) <= h /\ h <= l /\ l <= mtime
                          /\ high[t] = h \div Words /\ low[t] = l % Words
  BY DEF SleepInv, WordsRead
<1>2. Words \in Nat \ {0} /\ mtime \in Nat
  BY ClockAssumption DEF CountTypes
<1>3. mtime \div Words = h \div Words
  BY <1>1 DEF RolledOver
<1>4. (h \div Words) * Words + (l % Words) = l
  BY <1>1, <1>2, <1>3, HalvesMeet
<1>5. Read(t) = l
  BY <1>1, <1>4 DEF Read, Value
<1>6. Since(t) \in Nat
  BY DEF Since, CountTypes
<1> QED BY <1>1, <1>2, <1>5, <1>6

\* A register being written matches no count.
LEMMA BeyondAnyCount ==
  ASSUME CountTypes, CompareInv, NEW t \in Threads, AtCompare(t)
  PROVE  ~(mtime >= Value(mtimecmp))
<1>1. mtimecmp.high = Words - 1 /\ mtimecmp.low \in Nat
  BY DEF CompareInv, CountTypes
<1>2. (Words - 1) * Words = Words * (Words - 1) /\ Words * (Words - 1) \in Int
  BY ClockAssumption
<1>3. Value(mtimecmp) = Words * (Words - 1) + mtimecmp.low
  BY <1>1, <1>2 DEF Value
<1>4. mtime <= MaxTime /\ mtime \in Nat /\ MaxTime \in Nat /\ Delta \in Nat
      /\ MaxTime + Delta < Words * (Words - 1)
  BY ClockAssumption DEF CountTypes
<1> QED BY <1>1, <1>2, <1>3, <1>4

\* The program is never interrupted there, so one thread writes at a time.
LEMMA CompareStep == CountInv /\ [Next]_vars => CompareInv'
<1> SUFFICES ASSUME CountTypes, SleepInv, CompareInv, [Next]_vars PROVE CompareInv'
  BY DEF CountInv
<1>a. /\ CountTypes' /\ Words \in Nat \ {0} /\ Delta \in Nat \ {0} /\ mtime \in Nat
      /\ \A t \in Threads : target[t] \in Nat
  BY CountTypesStep, ClockAssumption DEF CountTypes
<1> USE DEF CompareInv, AtCompare
<1>1. ASSUME NEW t \in Threads, M_High(t) PROVE CompareInv'
  BY <1>1, <1>a DEF M_High, CountTypes, Threads, At, Goto
<1>2. ASSUME NEW t \in Threads, M_Low(t) PROVE CompareInv'
  BY <1>2, <1>a DEF M_Low, CountTypes, Threads, At, Goto
<1>3. ASSUME NEW t \in Threads, M_Check(t) PROVE CompareInv'
  <2>1. ~RolledOver(t) => Read(t) \in Nat /\ Read(t) <= mtime
    BY <1>3, ReadIsACount DEF M_Check, At
  <2>2. ~RolledOver(t) => Read(t) + Delta <= mtime + Delta
    BY <1>a, <2>1
  <2> QED BY <1>3, <1>a, <2>2 DEF M_Check, CountTypes, Threads, At, Goto
<1>4. ASSUME NEW t \in Threads, C_Max(t) PROVE CompareInv'
  BY <1>4, <1>a DEF C_Max, CountTypes, Threads, At, Goto
<1>5. ASSUME NEW t \in Threads, C_Low(t) PROVE CompareInv'
  BY <1>5, <1>a DEF C_Low, CountTypes, Threads, At, Goto
<1>6. ASSUME NEW t \in Threads, C_High(t) PROVE CompareInv'
  <2>1. mtimecmp' = [high |-> target[t] \div Words, low |-> target[t] % Words]
    BY <1>6, <1>a DEF C_High, CountTypes, At
  <2>2. Value(mtimecmp)' = target[t]
    BY <1>a, <2>1, DivMod DEF Value
  <2>3. armed' = target[t] /\ target[t] <= mtime' + Delta /\ ~AtCompare(t)'
    BY <1>6, <1>a DEF C_High, At, Goto, CountTypes, Threads
  <2>4. \A u \in Threads : u # t => pc'[u] = pc[u] /\ target'[u] = target[u] /\ ~AtCompare(u)
    BY <1>6 DEF C_High, At, Goto, Forget, CountTypes, Threads
  <2> QED BY <1>6, <1>a, <2>2, <2>3, <2>4 DEF C_High, At, Goto, CountTypes, Threads
<1>7. ASSUME Advance PROVE CompareInv'
  <2>1. mtime' = mtime + 1 /\ UNCHANGED <<mtimecmp, enabled, pc, target, armed>>
    BY <1>7 DEF Advance
  <2>2. \A n \in Int : n <= mtime + Delta => n <= mtime' + Delta
    BY <1>a, <2>1
  <2>3. armed \in Int /\ \A t \in Threads : target[t] \in Int
    BY DEF CountTypes
  <2> QED BY <2>1, <2>2, <2>3 DEF Value
<1>8. ASSUME Interrupt PROVE CompareInv'
  <2>1. ~AtCompare("main")
    BY <1>8, BeyondAnyCount DEF Interrupt, Pending, Threads
  <2> QED BY <1>8, <2>1 DEF Interrupt, CountTypes, Threads, Goto
<1>9. ASSUME T_Count PROVE CompareInv'
  BY <1>9 DEF T_Count, CountTypes, Threads, At, Goto, program
<1>10. ASSUME T_Done PROVE CompareInv'
  BY <1>10 DEF T_Done, CountTypes, Threads, At, Goto, program
<1>11. ASSUME ListStep PROVE CompareInv'
  BY <1>11 DEF ListStep, T_Alarm, alt_alarm_stop, alt_alarm_start
<1>12. ASSUME TimerInit PROVE CompareInv'
  BY <1>12 DEF TimerInit, CountTypes, Threads, At, Goto
<1>13. ASSUME Slept PROVE CompareInv'
  BY <1>13 DEF Slept, CountTypes, Threads, At, Goto
<1>14. ASSUME NEW d \in Sleeps, usleep(d) PROVE CompareInv'
  BY <1>14 DEF usleep, CountTypes, Threads, At, Goto
<1>15. ASSUME UNCHANGED vars PROVE CompareInv'
  BY <1>15 DEF vars
<1> QED BY <1>1, <1>2, <1>3, <1>4, <1>5, <1>6, <1>7, <1>8, <1>9, <1>10, <1>11, <1>12, <1>13,
           <1>14, <1>15, StepCases, Zenon

\* Time only lengthens what has been slept.
LEMMA SleepStep == CountInv /\ [Next]_vars => SleepInv'
<1> SUFFICES ASSUME CountTypes, SleepInv, CompareInv, [Next]_vars PROVE SleepInv'
  BY DEF CountInv
<1>a. /\ Words \in Nat \ {0} /\ mtime \in Nat /\ asleep \in Nat /\ offset \in Nat /\ wait \in Nat
      /\ asleep <= mtime /\ \A t \in Threads : Since(t) <= mtime /\ Since(t) \in Nat
  BY ClockAssumption DEF CountTypes, SleepInv, Since
<1> USE DEF SleepInv, SleptLongEnough
<1>1. ASSUME NEW t \in Threads, M_High(t) PROVE SleepInv'
  <2>1. \A u \in Threads : Since(u)' = Since(u)
    BY <1>1 DEF M_High, Since, program
  <2>2. WordsRead(t)'
    BY <1>1, <1>a, <2>1 DEF M_High, WordsRead, Goto, CountTypes
  <2>3. \A u \in Threads : u # t => WordsRead(u)'
    BY <1>1, <2>1 DEF M_High, WordsRead, Goto, CountTypes
  <2> QED BY <1>1, <2>2, <2>3 DEF M_High, Goto, program, CountTypes, Threads
<1>2. ASSUME NEW t \in Threads, M_Low(t) PROVE SleepInv'
  <2>1. \A u \in Threads : Since(u)' = Since(u)
    BY <1>2 DEF M_Low, Since, program
  <2>2. WordsRead(t)'
    <3>1. PICK h \in Nat : Since(t) <= h /\ h <= mtime /\ high[t] = h \div Words
      BY <1>2 DEF M_Low, WordsRead, At
    <3> QED BY <1>2, <1>a, <2>1, <3>1 DEF M_Low, WordsRead, Goto, CountTypes
  <2>3. \A u \in Threads : u # t => WordsRead(u)'
    BY <1>2, <2>1 DEF M_Low, WordsRead, Goto, CountTypes
  <2> QED BY <1>2, <2>2, <2>3 DEF M_Low, Goto, program, CountTypes, Threads
<1>3. ASSUME NEW t \in Threads, M_Check(t) PROVE SleepInv'
  <2>1. ~RolledOver(t) => Read(t) \in Nat /\ Since(t) <= Read(t) /\ Read(t) <= mtime
    BY <1>3, ReadIsACount DEF M_Check, At
  <2>2. WordsRead(t)'
    BY <1>3 DEF M_Check, WordsRead, Goto, CountTypes
  <2>3. \A u \in Threads : u # t => WordsRead(u)'
    <3> SUFFICES ASSUME NEW u \in Threads, u # t PROVE WordsRead(u)'
      OBVIOUS
    <3>1. pc'[u] = pc[u] /\ high'[u] = high[u] /\ low'[u] = low[u] /\ mtime' = mtime
      BY <1>3 DEF M_Check, Goto, Forget, CountTypes
    <3>2. Since(u)' = Since(u)
      BY <1>3 DEF M_Check, Since, program, Threads
    <3> QED BY <3>1, <3>2 DEF WordsRead
  <2>4. asleep' = asleep /\ wait' = wait /\ mtime' = mtime
    BY <1>3 DEF M_Check, program
  <2>5. (job = "sleep" => asleep <= offset)'
    BY <1>3, <2>1, <2>4 DEF M_Check, program, Since
  <2>6. SleptLongEnough'
    <3>1. CASE t = "main" /\ job = "sleep" /\ ~RolledOver(t) /\ ~(Read(t) - offset < wait)
      BY <1>a, <2>1, <2>4, <3>1
    <3>2. CASE ~(t = "main" /\ job = "sleep" /\ ~RolledOver(t) /\ ~(Read(t) - offset < wait))
      <4>1. pc'["main"] = "slept" => pc["main"] = "slept"
        BY <1>3, <3>2 DEF M_Check, Goto, CountTypes, Threads
      <4> QED BY <2>4, <4>1
    <3> QED BY <3>1, <3>2
  <2> QED BY <2>2, <2>3, <2>4, <2>5, <2>6
<1>4. ASSUME NEW t \in Threads, C_Max(t) \/ C_Low(t) PROVE SleepInv'
  <2>1. \A u \in Threads : Since(u)' = Since(u)
    BY <1>4 DEF C_Max, C_Low, Since, program
  <2>2. \A u \in Threads : WordsRead(u)'
    BY <1>4, <2>1 DEF C_Max, C_Low, WordsRead, Goto, CountTypes
  <2> QED BY <1>4, <2>2 DEF C_Max, C_Low, Goto, program, CountTypes, Threads
<1>5. ASSUME NEW t \in Threads, C_High(t) PROVE SleepInv'
  <2>1. \A u \in Threads : u # t => Since(u)' = Since(u)
    BY <1>5 DEF C_High, Since, Threads
  <2>2. \A u \in Threads : WordsRead(u)'
    BY <1>5, <2>1 DEF C_High, WordsRead, Goto, CountTypes
  <2> QED BY <1>5, <2>2 DEF C_High, Goto, CountTypes, Threads
<1>6. ASSUME Advance PROVE SleepInv'
  <2>1. mtime' = mtime + 1 /\ UNCHANGED <<pc, high, low, program>>
    BY <1>6 DEF Advance
  <2>2. \A n \in Int : n <= mtime => n <= mtime'
    BY <1>a, <2>1
  <2>3. \A u \in Threads : WordsRead(u)'
    BY <2>1, <2>2 DEF WordsRead, Since, program
  <2>4. mtime' - asleep >= mtime - asleep
    BY <1>a, <2>1
  <2> QED BY <1>a, <2>1, <2>2, <2>3, <2>4 DEF program
<1>7. ASSUME Interrupt \/ T_Count \/ T_Done PROVE SleepInv'
  <2>1. \A u \in Threads : WordsRead(u)'
    BY <1>7 DEF Interrupt, T_Count, T_Done, WordsRead, Since, program, Goto, CountTypes
  <2> QED BY <1>7, <2>1 DEF Interrupt, T_Count, T_Done, program, Goto, CountTypes, Threads
<1>8. ASSUME ListStep PROVE SleepInv'
  <2>1. \A u \in Threads : WordsRead(u)'
    BY <1>8 DEF ListStep, T_Alarm, alt_alarm_stop, alt_alarm_start, WordsRead, Since, program
  <2> QED BY <1>8, <2>1 DEF ListStep, T_Alarm, alt_alarm_stop, alt_alarm_start, program
<1>9. ASSUME TimerInit \/ Slept \/ \E d \in Sleeps : usleep(d) PROVE SleepInv'
  <2>1. WordsRead("main")'
    BY <1>9 DEF TimerInit, Slept, usleep, WordsRead, Goto, CountTypes, Threads
  <2>2. WordsRead("isr")'
    BY <1>9 DEF TimerInit, Slept, usleep, WordsRead, Since, Goto, CountTypes, Threads
  <2>3. asleep' <= mtime' /\ job' # "sleep" /\ pc'["main"] # "slept"
    BY <1>9, <1>a DEF TimerInit, Slept, usleep, Goto, CountTypes, Threads
  <2> QED BY <2>1, <2>2, <2>3 DEF Threads
<1>10. ASSUME UNCHANGED vars PROVE SleepInv'
  BY <1>10 DEF vars, program, WordsRead, Since
<1> QED BY <1>1, <1>2, <1>3, <1>4, <1>5, <1>6, <1>7, <1>8, <1>9, <1>10, StepCases, Zenon

LEMMA CountInit == Init => CountInv
<1> SUFFICES ASSUME Init PROVE CountInv
  OBVIOUS
<1>1. Words \in Nat \ {0} /\ ResetCompare \in Nat /\ 0 \in 0 .. MaxTime
  BY ClockAssumption
<1>2. AsWords(ResetCompare) \in [high : Nat, low : Nat]
  BY <1>1, DivMod DEF AsWords
<1>3. pc = [main |-> "idle", isr |-> "off"]
  BY DEF Init
<1>4. pc \in [Threads -> Labels] /\ pc["main"] = "idle" /\ pc["isr"] = "off"
  BY <1>3 DEF Threads, Labels
<1>5. CountTypes
  BY <1>1, <1>2, <1>4 DEF Init, CountTypes
<1>6. SleepInv
  BY <1>4 DEF Init, SleepInv, WordsRead, SleptLongEnough, Threads
<1>7. CompareInv
  BY <1>4 DEF Init, CompareInv, AtCompare, Threads
<1> QED BY <1>5, <1>6, <1>7 DEF CountInv

\* What is read of the count, and what is written of the compare register, is consistent
\* wherever the handler comes between two accesses (alt_niosv_mtime_get(), alt_niosv_mtimecmp_set()).
THEOREM CountSafe == Spec => []CountInv
<1>1. CountInv /\ [Next]_vars => CountInv'
  BY CountTypesStep, SleepStep, CompareStep DEF CountInv
<1> QED BY <1>1, CountInit, PTL DEF Spec

\* usleep() returns no sooner than it was asked to, although the count it is
\* measured by is read in two halves and moves between them.
THEOREM SleepsLongEnough == Spec => []SleptLongEnough
<1>1. CountInv => SleptLongEnough
  BY DEF CountInv, SleepInv
<1> QED BY <1>1, CountSafe, PTL

\* The timer interrupts no sooner than meant, and when nobody is at the compare
\* register the next tick is at most a period away, whoever raced over it.
THEOREM TicksComeOnTime == Spec => TicksOnTime
<1>1. CountInv /\ [Next]_vars
        => [pc["isr"] = "off" /\ pc'["isr"] # "off" => mtime >= armed]_vars
  <2> SUFFICES ASSUME CountTypes, CompareInv, [Next]_vars,
                      pc["isr"] = "off", pc'["isr"] # "off"
               PROVE  mtime >= armed
    BY DEF CountInv
  <2>1. ASSUME Interrupt PROVE mtime >= armed
    <3>1. enabled /\ mtime >= Value(mtimecmp)
      BY <2>1 DEF Interrupt, Pending
    <3>2. \A t \in Threads : ~AtCompare(t)
      BY <3>1, BeyondAnyCount
    <3> QED BY <3>1, <3>2 DEF CompareInv
  <2>2. ASSUME NEW t \in Threads,
               M_High(t) \/ M_Low(t) \/ M_Check(t) \/ C_Max(t) \/ C_Low(t) \/ C_High(t)
        PROVE  FALSE
    <3>1. t = "main"
      BY <2>2 DEF M_High, M_Low, M_Check, C_Max, C_Low, C_High, At, Threads
    <3>2. pc'["isr"] = pc["isr"]
      BY <2>2, <3>1 DEF M_High, M_Low, M_Check, C_Max, C_Low, C_High, Goto, CountTypes, Threads
    <3> QED BY <3>2
  <2>3. ASSUME T_Count \/ T_Done \/ T_Alarm PROVE FALSE
    BY <2>3 DEF T_Count, T_Done, T_Alarm, At
  <2>4. ASSUME \/ Advance \/ TimerInit \/ Slept \/ UNCHANGED vars
               \/ \E d \in Sleeps : usleep(d)
               \/ \E a \in Alarms : alt_alarm_stop(a) \/ \E n \in Delays : alt_alarm_start(a, n)
        PROVE  FALSE
    BY <2>4 DEF Advance, TimerInit, Slept, vars, usleep, alt_alarm_stop, alt_alarm_start, Goto,
                CountTypes, Threads
  <2>5. ListStep => FALSE
    BY <2>3, <2>4 DEF ListStep
  <2> QED BY <2>1, <2>2, <2>3, <2>4, <2>5, StepCases, Zenon
<1>2. CountInv => (enabled /\ (\A t \in Threads : pc[t] \notin {"c_low", "c_high"})
                     => Value(mtimecmp) <= mtime + Delta)
  BY DEF CountInv, CompareInv, AtCompare
<1> QED BY <1>1, <1>2, CountSafe, PTL DEF Spec, TicksOnTime

-----------------------------------------------------------------------------
(***************************************************************************)
(* The list of alarms.                                                     *)
(***************************************************************************)
Nodes == Alarms \cup {AlarmList}
Pointers == Nodes \cup {NoAlarm}

\* Where alt_tick()'s walk is: the alarms before the cursor are due later, the
\* others not before now.
WalkingAt(c, n, j) ==
    /\ cursor = IF j = n + 1 THEN AlarmList ELSE c[j]
    /\ \A i \in 1 .. n : time[c[i]] >= nticks /\ (i < j => time[c[i]] > nticks)

\* The running alarms are on a chain from the head; any other alarm is alone,
\* or was never started.
AlarmChain(c, n) ==
    /\ Chain(links, c, n) /\ c[0] = AlarmList
    /\ \A a \in Alarms : \/ \E i \in 1 .. n : a = c[i]
                         \/ links[a] = Alone(a)
                         \/ links[a].next = NoAlarm
    /\ pc["isr"] = "walk" => \E j \in 1 .. n + 1 : WalkingAt(c, n, j)
    /\ pc["isr"] # "walk" => cursor = AlarmList /\ \A i \in 1 .. n : time[c[i]] > nticks

ListTypes == /\ nticks \in Nat /\ links \in Web(Nodes, Pointers)
             /\ time \in [Alarms -> Nat] /\ cursor \in Nodes
ListInv == ListTypes /\ \E c, n : AlarmChain(c, n)

AlarmInv == CountTypes /\ ListInv

TypeOK == CountTypes /\ ListTypes

\* The chain holds the alarms that run.
LEMMA ChainOfAlarms ==
  ASSUME ListTypes, NEW c, NEW n, AlarmChain(c, n)
  PROVE  /\ n \in Nat /\ c \in [0 .. n -> Nodes] /\ Linked = OnChain(c, n)
         /\ \A i \in 1 .. n : c[i] \in Alarms
         /\ \A i, j \in 0 .. n : c[i] = c[j] => i = j
         /\ links[AlarmList].next = IF n = 0 THEN AlarmList ELSE c[1]
         /\ \A i \in 1 .. n : links[c[i]].next = IF i = n THEN AlarmList ELSE c[i + 1]
<1>1. /\ DOMAIN links = Nodes /\ n \in Nat /\ c \in [0 .. n -> Nodes] /\ c[0] = AlarmList
      /\ \A i, j \in 0 .. n : c[i] = c[j] => i = j
      /\ \A i \in 0 .. n - 1 : links[c[i]].next = c[i + 1]
      /\ links[c[n]].next = AlarmList
  BY DEF AlarmChain, Chain, ListTypes, Web
<1>2. IsFiniteSet(Nodes)
  BY ClockAssumption, FS_AddElement DEF Nodes
<1>3. Linked = OnChain(c, n)
  BY <1>1, <1>2, ChainMembers DEF Linked, AlarmChain
<1>4. \A i \in 1 .. n : c[i] \in Alarms
  <2> SUFFICES ASSUME NEW i \in 1 .. n PROVE c[i] \in Alarms
    OBVIOUS
  <2>1. i \in 0 .. n /\ 0 \in 0 .. n /\ i # 0
    BY <1>1
  <2>2. c[i] # AlarmList /\ c[i] \in Nodes
    BY <1>1, <2>1
  <2> QED BY <2>2 DEF Nodes
<1>5. links[AlarmList].next = IF n = 0 THEN AlarmList ELSE c[1]
  <2>1. CASE n = 0
    BY <1>1, <2>1
  <2>2. CASE n # 0
    <3>1. 0 \in 0 .. n - 1 /\ 0 + 1 = 1
      BY <1>1, <2>2
    <3> QED BY <1>1, <2>2, <3>1
  <2> QED BY <2>1, <2>2
<1>6. \A i \in 1 .. n : links[c[i]].next = IF i = n THEN AlarmList ELSE c[i + 1]
  <2> SUFFICES ASSUME NEW i \in 1 .. n
               PROVE  links[c[i]].next = IF i = n THEN AlarmList ELSE c[i + 1]
    OBVIOUS
  <2>1. i # n => i \in 0 .. n - 1
    BY <1>1
  <2> QED BY <1>1, <2>1
<1> QED BY <1>1, <1>3, <1>4, <1>5, <1>6

\* Taking an alarm off the list leaves the others as they were: the chain is
\* one shorter, and what was behind the alarm has moved up.
LEMMA StoppedOnChain ==
  ASSUME ListTypes, NEW c, NEW n, AlarmChain(c, n), NEW k \in 1 .. n, Stopped(c[k])
  PROVE  LET d == Without(c, n, k)
         IN /\ links' \in Web(Nodes, Pointers) /\ time' \in [Alarms -> Nat]
            /\ Chain(links', d, n - 1) /\ d[0] = AlarmList
            /\ \A a \in Alarms : \/ \E i \in 1 .. n - 1 : a = d[i]
                                 \/ links'[a] = Alone(a)
                                 \/ links'[a].next = NoAlarm
            /\ \A i \in 1 .. n - 1 : /\ d[i] = IF i < k THEN c[i] ELSE c[i + 1]
                                     /\ time'[d[i]] = time[d[i]]
<1> DEFINE d == Without(c, n, k)
<1>1. /\ n \in Nat /\ c \in [0 .. n -> Nodes] /\ c[k] \in Alarms
      /\ \A i \in 1 .. n : c[i] \in Alarms
      /\ \A i, j \in 0 .. n : c[i] = c[j] => i = j
  BY ChainOfAlarms
<1>2. /\ links' \in Web(Nodes, Pointers) /\ links'[c[k]] = Alone(c[k])
      /\ Chain(links', d, n - 1)
      /\ \A x \in Nodes : (\A i \in 0 .. n : x # c[i]) => links'[x] = links[x]
  <2>1. Nodes \subseteq Pointers /\ links \in Web(Nodes, Pointers) /\ Chain(links, c, n)
    BY DEF Pointers, ListTypes, AlarmChain
  <2>2. links' = alt_llist_remove(links, c[k])
    BY DEF Stopped
  <2> QED BY <2>1, <2>2, RemoveChain
<1>3. \A i \in 0 .. n - 1 : d[i] = IF i < k THEN c[i] ELSE c[i + 1]
  BY DEF Without
<1> HIDE DEF d
<1>4. d[0] = AlarmList
  <2>1. 0 \in 0 .. n - 1 /\ 0 < k
    BY <1>1
  <2> QED BY <1>3, <2>1 DEF AlarmChain
<1>5. \A i \in 1 .. n : i # k => \E j \in 1 .. n - 1 : c[i] = d[j]
  <2> SUFFICES ASSUME NEW i \in 1 .. n, i # k PROVE \E j \in 1 .. n - 1 : c[i] = d[j]
    OBVIOUS
  <2>1. CASE i < k
    <3>1. i \in 1 .. n - 1 /\ d[i] = c[i]
      BY <1>1, <1>3, <2>1
    <3> QED BY <3>1
  <2>2. CASE i > k
    <3>1. i - 1 \in 1 .. n - 1 /\ i - 1 \in 0 .. n - 1 /\ ~(i - 1 < k) /\ (i - 1) + 1 = i
      BY <1>1, <2>2
    <3>2. d[i - 1] = c[i]
      BY <1>3, <3>1
    <3> QED BY <3>1, <3>2
  <2> QED BY <2>1, <2>2
<1>6. ASSUME NEW a \in Alarms
      PROVE  \/ \E i \in 1 .. n - 1 : a = d[i]
             \/ links'[a] = Alone(a)
             \/ links'[a].next = NoAlarm
  <2>1. CASE \E i \in 1 .. n : a = c[i]
    BY <1>2, <1>5, <2>1
  <2>2. CASE ~\E i \in 1 .. n : a = c[i]
    <3>1. \A i \in 0 .. n : a # c[i]
      BY <1>1, <2>2, ClockAssumption DEF AlarmChain
    <3>2. links'[a] = links[a]
      BY <1>2, <3>1 DEF Nodes
    <3> QED BY <2>2, <3>2 DEF AlarmChain
  <2> QED BY <2>1, <2>2
<1>7. time' = [time EXCEPT ![c[k]] = 0] /\ time \in [Alarms -> Nat]
  BY DEF Stopped, ListTypes
<1>8. ASSUME NEW i \in 1 .. n - 1 PROVE time'[d[i]] = time[d[i]]
  <2> DEFINE j == IF i < k THEN i ELSE i + 1
  <2>1. j \in 1 .. n /\ j # k /\ d[i] = c[j]
    BY <1>1, <1>3
  <2>2. c[j] # c[k] /\ c[j] \in Alarms
    BY <1>1, <2>1
  <2> QED BY <1>7, <2>1, <2>2
<1>9. \A i \in 1 .. n - 1 : d[i] = IF i < k THEN c[i] ELSE c[i + 1]
  BY <1>1, <1>3
<1> QED BY <1>2, <1>4, <1>6, <1>7, <1>8, <1>9 DEF d

\* The walk goes on to the next alarm whatever its callback asked for.
LEMMA WalkStep == AlarmInv /\ T_Alarm => ListInv'
<1> SUFFICES ASSUME ListTypes, NEW c, NEW n, AlarmChain(c, n), T_Alarm PROVE ListInv'
  BY DEF AlarmInv, ListInv
<1>1. /\ pc["isr"] = "walk" /\ pc' = pc /\ cursor # AlarmList /\ nticks' = nticks
      /\ cursor' = links[cursor].next /\ nticks \in Nat /\ time \in [Alarms -> Nat]
  BY DEF T_Alarm, At, ListTypes
<1>2. PICK j \in 1 .. n + 1 : WalkingAt(c, n, j)
  BY <1>1 DEF AlarmChain
<1>3. /\ n \in Nat /\ c \in [0 .. n -> Nodes] /\ \A i \in 1 .. n : c[i] \in Alarms
      /\ \A i, k \in 0 .. n : c[i] = c[k] => i = k
      /\ \A i \in 1 .. n : links[c[i]].next = IF i = n THEN AlarmList ELSE c[i + 1]
  BY ChainOfAlarms
<1>4. /\ j \in 1 .. n /\ cursor = c[j] /\ c[j] \in Alarms
      /\ cursor' = IF j = n THEN AlarmList ELSE c[j + 1]
  BY <1>1, <1>2, <1>3 DEF WalkingAt
<1>5. cursor' \in Nodes
  BY <1>3, <1>4 DEF Nodes
<1>6. CASE links' = links /\ time' \in [Alarms -> Nat] /\ time'[c[j]] > nticks
           /\ \A a \in Alarms \ {c[j]} : time'[a] = time[a]
  <2>1. \A i \in 1 .. n : i # j => time'[c[i]] = time[c[i]]
    BY <1>3, <1>4, <1>6
  <2>2. \A i \in 1 .. n : time'[c[i]] >= nticks' /\ (i < j + 1 => time'[c[i]] > nticks')
    <3> SUFFICES ASSUME NEW i \in 1 .. n
                 PROVE  time'[c[i]] >= nticks' /\ (i < j + 1 => time'[c[i]] > nticks')
      OBVIOUS
    <3>1. CASE i = j
      <4>1. time'[c[i]] \in Nat
        BY <1>3, <1>6
      <4> QED BY <1>1, <1>6, <3>1, <4>1
    <3>2. CASE i # j
      <4>1. time'[c[i]] >= nticks /\ (i < j => time'[c[i]] > nticks)
        BY <1>2, <2>1, <3>2 DEF WalkingAt
      <4> QED BY <1>1, <1>3, <3>2, <4>1
    <3> QED BY <3>1, <3>2
  <2>3. j + 1 \in 1 .. n + 1 /\ cursor' = IF j + 1 = n + 1 THEN AlarmList ELSE c[j + 1]
    BY <1>3, <1>4
  <2>4. AlarmChain(c, n)'
    BY <1>1, <1>6, <2>2, <2>3 DEF AlarmChain, WalkingAt
  <2> QED BY <1>1, <1>5, <1>6, <2>4 DEF ListInv, ListTypes
<1>7. CASE Stopped(c[j])
  <2> DEFINE d == Without(c, n, j)
  <2>1. /\ links' \in Web(Nodes, Pointers) /\ time' \in [Alarms -> Nat]
        /\ Chain(links', d, n - 1) /\ d[0] = AlarmList
        /\ \A a \in Alarms : \/ \E i \in 1 .. n - 1 : a = d[i]
                             \/ links'[a] = Alone(a)
                             \/ links'[a].next = NoAlarm
        /\ \A i \in 1 .. n - 1 : /\ d[i] = IF i < j THEN c[i] ELSE c[i + 1]
                                 /\ time'[d[i]] = time[d[i]]
    BY <1>4, <1>7, StoppedOnChain
  <2> HIDE DEF d
  <2>2. \A i \in 1 .. n - 1 : time'[d[i]] >= nticks' /\ (i < j => time'[d[i]] > nticks')
    <3> SUFFICES ASSUME NEW i \in 1 .. n - 1
                 PROVE  time'[d[i]] >= nticks' /\ (i < j => time'[d[i]] > nticks')
      OBVIOUS
    <3>1. CASE i < j
      BY <1>1, <1>2, <1>3, <2>1, <3>1 DEF WalkingAt
    <3>2. CASE ~(i < j)
      <4>1. i + 1 \in 1 .. n /\ d[i] = c[i + 1]
        BY <1>3, <2>1, <3>2
      <4> QED BY <1>1, <1>2, <2>1, <3>2, <4>1 DEF WalkingAt
    <3> QED BY <3>1, <3>2
  <2>3. j \in 1 .. (n - 1) + 1 /\ cursor' = IF j = (n - 1) + 1 THEN AlarmList ELSE d[j]
    <3>1. CASE j = n
      BY <1>3, <1>4, <3>1
    <3>2. CASE j # n
      <4>1. j \in 1 .. n - 1 /\ ~(j < j) /\ j # (n - 1) + 1
        BY <1>3, <1>4, <3>2
      <4>2. d[j] = c[j + 1] /\ cursor' = c[j + 1]
        BY <1>4, <2>1, <3>2, <4>1
      <4>3. j \in 1 .. (n - 1) + 1
        BY <1>3, <4>1
      <4> QED BY <4>1, <4>2, <4>3
    <3> QED BY <3>1, <3>2
  <2>4. AlarmChain(d, n - 1)'
    <3>1. (\E k \in 1 .. (n - 1) + 1 : WalkingAt(d, n - 1, k))'
      BY <2>2, <2>3 DEF WalkingAt
    <3> QED BY <1>1, <2>1, <3>1 DEF AlarmChain
  <2>5. ListTypes'
    BY <1>1, <1>5, <2>1 DEF ListTypes
  <2> QED BY <2>4, <2>5 DEF ListInv
<1>8. CASE ~(time[cursor] > nticks)
  <2>1. PICK period \in Periods :
           IF period = 0 THEN Stopped(cursor)
           ELSE time' = [time EXCEPT ![cursor] = @ + period] /\ UNCHANGED links
    BY <1>8 DEF T_Alarm
  <2>2. CASE period = 0
    BY <1>4, <1>7, <2>1, <2>2
  <2>3. CASE period # 0
    <3>1. period \in Nat \ {0} /\ time[c[j]] >= nticks /\ time[c[j]] \in Nat
      BY <1>1, <1>2, <1>4, <2>3, ClockAssumption DEF WalkingAt
    <3>2. time' = [time EXCEPT ![c[j]] = time[c[j]] + period] /\ links' = links
      BY <1>4, <2>1, <2>3
    <3>3. time'[c[j]] = time[c[j]] + period /\ \A a \in Alarms \ {c[j]} : time'[a] = time[a]
      BY <1>1, <1>4, <3>2
    <3>4. time' \in [Alarms -> Nat] /\ time'[c[j]] > nticks
      BY <1>1, <3>1, <3>2, <3>3
    <3> QED BY <1>6, <3>2, <3>3, <3>4
  <2> QED BY <2>2, <2>3
<1>9. CASE time[cursor] > nticks
  <2>1. links' = links /\ time' = time
    BY <1>9 DEF T_Alarm
  <2> QED BY <1>1, <1>4, <1>6, <1>9, <2>1
<1> QED BY <1>8, <1>9

\* A tick makes due what was due in the next one.
LEMMA TickStep == AlarmInv /\ (T_Count \/ T_Done) => ListInv'
<1> SUFFICES ASSUME CountTypes, ListTypes, NEW c, NEW n, AlarmChain(c, n), T_Count \/ T_Done
             PROVE  ListInv'
  BY DEF AlarmInv, ListInv
<1>1. /\ n \in Nat /\ c \in [0 .. n -> Nodes] /\ \A i \in 1 .. n : c[i] \in Alarms
      /\ links[AlarmList].next = IF n = 0 THEN AlarmList ELSE c[1]
  BY ChainOfAlarms
<1>2. CASE T_Count
  <2>1. /\ pc["isr"] # "walk" /\ pc'["isr"] = "walk" /\ nticks' = nticks + 1
        /\ links' = links /\ time' = time /\ cursor' = links[AlarmList].next
    BY <1>2 DEF T_Count, At, Goto, CountTypes, Threads
  <2>2. \A i \in 1 .. n : time[c[i]] >= nticks' /\ ~(i < 1)
    BY <1>1, <2>1 DEF AlarmChain, ListTypes
  <2>3. cursor' = IF 1 = n + 1 THEN AlarmList ELSE c[1]
    BY <1>1, <2>1
  <2>4. AlarmChain(c, n)'
    <3>1. 1 \in 1 .. n + 1
      BY <1>1
    <3> QED BY <2>1, <2>2, <2>3, <3>1 DEF AlarmChain, WalkingAt
  <2>5. cursor' \in Nodes
    BY <1>1, <2>1 DEF Nodes
  <2> QED BY <2>1, <2>4, <2>5 DEF ListInv, ListTypes
<1>3. CASE T_Done
  <2>1. /\ pc["isr"] = "walk" /\ pc'["isr"] # "walk" /\ cursor = AlarmList
        /\ UNCHANGED <<nticks, links, time, cursor>>
    BY <1>3 DEF T_Done, At, Goto, CountTypes, Threads, alarms
  <2>2. PICK j \in 1 .. n + 1 : WalkingAt(c, n, j)
    BY <2>1 DEF AlarmChain
  <2>3. j = n + 1
    <3>1. \A i \in 1 .. n : c[i] # AlarmList
      BY <1>1, ClockAssumption
    <3> QED BY <1>1, <2>1, <2>2, <3>1 DEF WalkingAt
  <2>4. \A i \in 1 .. n : time[c[i]] > nticks
    BY <1>1, <2>2, <2>3 DEF WalkingAt
  <2>5. AlarmChain(c, n)'
    BY <2>1, <2>4 DEF AlarmChain
  <2> QED BY <2>1, <2>5 DEF ListInv, ListTypes
<1> QED BY <1>2, <1>3

\* An alarm that starts is due after this tick, and is not on the list yet.
LEMMA StartStep ==
  ASSUME AlarmInv, NEW a \in Alarms, NEW delay \in Delays, alt_alarm_start(a, delay)
  PROVE  ListInv'
<1>1. PICK c, n : AlarmChain(c, n)
  BY DEF AlarmInv, ListInv
<1>2. ListTypes
  BY DEF AlarmInv, ListInv
<1>3. /\ n \in Nat /\ c \in [0 .. n -> Nodes] /\ \A i \in 1 .. n : c[i] \in Alarms
      /\ Linked = OnChain(c, n)
  BY <1>1, <1>2, ChainOfAlarms
<1>4. /\ pc["isr"] # "walk" /\ pc' = pc /\ cursor' = cursor /\ nticks' = nticks
      /\ cursor = AlarmList
      /\ time' = [time EXCEPT ![a] = delay + nticks + 1]
      /\ links' = alt_llist_insert(links, AlarmList, a) /\ a \notin OnChain(c, n)
  BY <1>1, <1>3 DEF alt_alarm_start, At, DueTime, AlarmChain
<1> DEFINE d == Behind(c, n, a)
<1>5. \A i \in 0 .. n : c[i] # a
  BY <1>1, <1>3, <1>4, ClockAssumption DEF AlarmChain, OnChain
<1>6. /\ links' \in Web(Nodes, Pointers) /\ Chain(links', d, n + 1)
      /\ \A x \in Nodes : (x # a /\ \A i \in 0 .. n : x # c[i]) => links'[x] = links[x]
  <2>1. Nodes \subseteq Pointers /\ links \in Web(Nodes, Pointers) /\ Chain(links, c, n)
        /\ a \in Nodes /\ c[0] = AlarmList
    BY <1>1, <1>2 DEF Pointers, Nodes, ListTypes, AlarmChain
  <2> QED BY <1>4, <1>5, <2>1, InsertChain
<1>7. \A i \in 0 .. n + 1 : d[i] = IF i = 0 THEN c[0] ELSE IF i = 1 THEN a ELSE c[i - 1]
  BY DEF Behind
<1> HIDE DEF d
<1>8. /\ d[0] = AlarmList /\ d[1] = a
      /\ \A i \in 1 .. n : d[i + 1] = c[i] /\ i + 1 \in 1 .. n + 1
      /\ \A i \in 1 .. n + 1 : i = 1 \/ (i - 1 \in 1 .. n /\ d[i] = c[i - 1])
  <2>1. 0 \in 0 .. n + 1 /\ 1 \in 0 .. n + 1
    BY <1>3
  <2>2. \A i \in 1 .. n : i + 1 \in 1 .. n + 1 /\ i + 1 \in 0 .. n + 1 /\ i + 1 # 0 /\ i + 1 # 1
                          /\ (i + 1) - 1 = i
    BY <1>3
  <2>3. \A i \in 1 .. n + 1 : i = 1 \/ (i - 1 \in 1 .. n /\ i \in 0 .. n + 1 /\ i # 0 /\ i # 1)
    BY <1>3
  <2> QED BY <1>1, <1>7, <2>1, <2>2, <2>3 DEF AlarmChain
<1>9. /\ time' \in [Alarms -> Nat] /\ time'[a] > nticks
      /\ \A b \in Alarms \ {a} : time'[b] = time[b]
  <2>1. delay \in Nat /\ nticks \in Nat /\ time \in [Alarms -> Nat]
    BY <1>2, ClockAssumption DEF ListTypes
  <2>2. delay + nticks + 1 \in Nat /\ delay + nticks + 1 > nticks
    BY <2>1
  <2> QED BY <1>4, <2>1, <2>2
<1>10. \A i \in 1 .. n + 1 : time'[d[i]] > nticks'
  <2> SUFFICES ASSUME NEW i \in 1 .. n + 1 PROVE time'[d[i]] > nticks'
    OBVIOUS
  <2>1. CASE i = 1
    BY <1>4, <1>8, <1>9, <2>1
  <2>2. CASE i # 1
    <3>1. i - 1 \in 1 .. n /\ d[i] = c[i - 1]
      BY <1>8, <2>2
    <3>2. c[i - 1] \in Alarms \ {a} /\ time[c[i - 1]] > nticks
      BY <1>1, <1>3, <1>4, <1>5, <3>1 DEF AlarmChain
    <3> QED BY <1>4, <1>9, <3>1, <3>2
  <2> QED BY <2>1, <2>2
<1>11. ASSUME NEW b \in Alarms
       PROVE  \/ \E i \in 1 .. n + 1 : b = d[i]
              \/ links'[b] = Alone(b)
              \/ links'[b].next = NoAlarm
  <2>1. CASE b = a
    <3>1. 1 \in 1 .. n + 1
      BY <1>3
    <3> QED BY <1>8, <2>1, <3>1
  <2>2. CASE \E i \in 1 .. n : b = c[i]
    BY <1>8, <2>2
  <2>3. CASE b # a /\ ~\E i \in 1 .. n : b = c[i]
    <3>1. \A i \in 0 .. n : b # c[i]
      BY <1>1, <1>3, <2>3, ClockAssumption DEF AlarmChain
    <3>2. links'[b] = links[b]
      BY <1>6, <2>3, <3>1 DEF Nodes
    <3> QED BY <1>1, <2>3, <3>2 DEF AlarmChain
  <2> QED BY <2>1, <2>2, <2>3
<1>12. AlarmChain(d, n + 1)'
  BY <1>4, <1>6, <1>8, <1>10, <1>11 DEF AlarmChain
<1>13. ListTypes'
  BY <1>2, <1>4, <1>6, <1>9 DEF ListTypes
<1> QED BY <1>12, <1>13 DEF ListInv

\* Stopping an alarm that is no longer running changes no pointer.
LEMMA StopStep ==
  ASSUME AlarmInv, NEW a \in Alarms, alt_alarm_stop(a)
  PROVE  ListInv'
<1>1. PICK c, n : AlarmChain(c, n)
  BY DEF AlarmInv, ListInv
<1>2. ListTypes
  BY DEF AlarmInv, ListInv
<1>3. /\ n \in Nat /\ c \in [0 .. n -> Nodes] /\ \A i \in 1 .. n : c[i] \in Alarms
  BY <1>1, <1>2, ChainOfAlarms
<1>4. /\ pc["isr"] # "walk" /\ pc' = pc /\ cursor' = cursor /\ nticks' = nticks
      /\ cursor = AlarmList /\ Stopped(a) /\ links[a].next # NoAlarm
      /\ \A i \in 1 .. n : time[c[i]] > nticks
  BY <1>1 DEF alt_alarm_stop, At, AlarmChain
<1>5. CASE \E k \in 1 .. n : a = c[k]
  <2>1. PICK k \in 1 .. n : a = c[k]
    BY <1>5
  <2> DEFINE d == Without(c, n, k)
  <2>2. /\ links' \in Web(Nodes, Pointers) /\ time' \in [Alarms -> Nat]
        /\ Chain(links', d, n - 1) /\ d[0] = AlarmList
        /\ \A b \in Alarms : \/ \E i \in 1 .. n - 1 : b = d[i]
                             \/ links'[b] = Alone(b)
                             \/ links'[b].next = NoAlarm
        /\ \A i \in 1 .. n - 1 : /\ d[i] = IF i < k THEN c[i] ELSE c[i + 1]
                                 /\ time'[d[i]] = time[d[i]]
    BY <1>1, <1>2, <1>4, <2>1, StoppedOnChain
  <2> HIDE DEF d
  <2>3. \A i \in 1 .. n - 1 : time'[d[i]] > nticks'
    <3> SUFFICES ASSUME NEW i \in 1 .. n - 1 PROVE time'[d[i]] > nticks'
      OBVIOUS
    <3>1. i \in 1 .. n /\ i + 1 \in 1 .. n
      BY <1>3
    <3> QED BY <1>4, <2>2, <3>1
  <2>4. AlarmChain(d, n - 1)'
    BY <1>4, <2>2, <2>3 DEF AlarmChain
  <2>5. ListTypes'
    BY <1>2, <1>4, <2>2 DEF ListTypes
  <2> QED BY <2>4, <2>5 DEF ListInv
<1>6. CASE ~\E k \in 1 .. n : a = c[k]
  <2>1. links[a] = Alone(a)
    BY <1>1, <1>4, <1>6 DEF AlarmChain
  <2>2. links' = links
    <3>1. links \in Web(Nodes, Pointers) /\ a \in Nodes /\ Nodes \subseteq Pointers
      BY <1>2 DEF ListTypes, Nodes, Pointers
    <3> QED BY <1>4, <2>1, <3>1, RemoveAlone DEF Stopped
  <2>3. time' \in [Alarms -> Nat] /\ \A i \in 1 .. n : time'[c[i]] = time[c[i]]
    BY <1>2, <1>3, <1>4, <1>6 DEF Stopped, ListTypes
  <2>4. AlarmChain(c, n)'
    BY <1>1, <1>4, <2>2, <2>3 DEF AlarmChain
  <2>5. ListTypes'
    BY <1>2, <1>4, <2>2, <2>3 DEF ListTypes
  <2> QED BY <2>4, <2>5 DEF ListInv
<1> QED BY <1>5, <1>6

LEMMA AlarmStep == AlarmInv /\ [Next]_vars => AlarmInv'
<1> SUFFICES ASSUME AlarmInv, [Next]_vars PROVE ListInv'
  BY CountTypesStep DEF AlarmInv
<1>1. ListStep => ListInv'
  BY WalkStep, StartStep, StopStep DEF ListStep
<1>2. ASSUME UNCHANGED alarms, pc'["isr"] = "walk" <=> pc["isr"] = "walk" PROVE ListInv'
  <2>1. PICK c, n : AlarmChain(c, n)
    BY DEF AlarmInv, ListInv
  <2>2. AlarmChain(c, n)'
    BY <1>2, <2>1 DEF AlarmChain, WalkingAt, alarms
  <2> QED BY <1>2, <2>2 DEF AlarmInv, ListInv, ListTypes, alarms
<1>3. ASSUME NEW t \in Threads,
             M_High(t) \/ M_Low(t) \/ M_Check(t) \/ C_Max(t) \/ C_Low(t) \/ C_High(t)
      PROVE  ListInv'
  <2>1. UNCHANGED alarms
    BY <1>3 DEF M_High, M_Low, M_Check, C_Max, C_Low, C_High
  <2>2. pc'["isr"] = "walk" <=> pc["isr"] = "walk"
    BY <1>3 DEF M_High, M_Low, M_Check, C_Max, C_Low, C_High, At, Goto, AlarmInv, CountTypes,
                Threads
  <2> QED BY <1>2, <2>1, <2>2
<1>4. ASSUME Interrupt \/ TimerInit \/ Slept \/ (\E d \in Sleeps : usleep(d)) \/ Advance
             \/ UNCHANGED vars
      PROVE  ListInv'
  <2>1. UNCHANGED alarms
    BY <1>4 DEF Interrupt, TimerInit, Slept, usleep, Advance, vars
  <2>2. pc'["isr"] = "walk" <=> pc["isr"] = "walk"
    BY <1>4 DEF Interrupt, TimerInit, Slept, usleep, Advance, vars, Goto, AlarmInv, CountTypes,
                Threads
  <2> QED BY <1>2, <2>1, <2>2
<1> QED BY <1>1, <1>3, <1>4, TickStep, StepCases, Zenon

LEMMA AlarmInit == Init => AlarmInv
<1> SUFFICES ASSUME Init PROVE ListInv
  BY CountInit DEF AlarmInv, CountInv
<1> DEFINE c == [i \in 0 .. 0 |-> AlarmList]
<1>1. /\ nticks = 0 /\ cursor = AlarmList /\ pc["isr"] = "off"
      /\ links = [a \in Nodes |-> IF a = AlarmList THEN Alone(a)
                                  ELSE [next |-> NoAlarm, previous |-> NoAlarm]]
      /\ time = [a \in Alarms |-> 0]
  BY DEF Init, Nodes
<1>2. links \in Web(Nodes, Pointers)
  BY <1>1 DEF Web, Nodes, Pointers, Alone
<1>3. \A a \in Alarms : links[a].next = NoAlarm
  BY <1>1, ClockAssumption DEF Nodes
<1>4. Chain(links, c, 0)
  <2>1. links[AlarmList].next = AlarmList /\ links[AlarmList].previous = AlarmList
    BY <1>1 DEF Nodes, Alone
  <2>2. DOMAIN links = Nodes /\ AlarmList \in Nodes
    BY <1>1 DEF Nodes
  <2> QED BY <2>1, <2>2 DEF Chain
<1>5. AlarmChain(c, 0)
  BY <1>1, <1>3, <1>4 DEF AlarmChain
<1>6. ListTypes
  BY <1>1, <1>2 DEF ListTypes, Nodes
<1> QED BY <1>5, <1>6 DEF ListInv

\* The alarms stay one chain from the list head and back, sound at every step of alt_tick(),
\* which goes on behind alarms that stop and start (alt_alarm_start(), alt_alarm_stop()).
THEOREM AlarmsSafe == Spec => []AlarmInv
BY AlarmInit, AlarmStep, PTL DEF Spec

\* Every variable of the clock keeps its type.
THEOREM ClockTypes == Spec => []TypeOK
<1>1. AlarmInv => TypeOK
  BY DEF AlarmInv, ListInv, TypeOK
<1> QED BY <1>1, AlarmsSafe, PTL

\* No running alarm is ever overdue outside alt_tick(), and each is called back
\* in the tick it is due in, whatever callbacks and the program do to the list.
THEOREM AlarmsOnTime == Spec => []AlarmOnTime
<1>1. AlarmInv => AlarmOnTime
  <2> SUFFICES ASSUME ListTypes, NEW c, NEW n, AlarmChain(c, n) PROVE AlarmOnTime
    BY DEF AlarmInv, ListInv
  <2>1. Linked = OnChain(c, n)
    BY ChainOfAlarms
  <2> QED BY <2>1 DEF AlarmOnTime, OnChain, AlarmChain, WalkingAt
<1> QED BY <1>1, AlarmsSafe, PTL
=============================================================================
