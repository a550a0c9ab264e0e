------------------------------- MODULE Clock -------------------------------
(***************************************************************************)
(* The system clock of the HAL: the machine timer's 64-bit count and       *)
(* compare register, each read and written as two words; the timer         *)
(* handler, which sets the next interrupt and calls alt_tick(); the list   *)
(* of alarms alt_tick() walks; and the program, which starts and stops     *)
(* alarms, sleeps, and initialises the timer - at boot and, in two of the  *)
(* repository's programs, again at the top of main().                      *)
(*                                                                         *)
(* The count advances between any two accesses.  The handler interrupts    *)
(* the program between any two of its steps; the parts the program runs    *)
(* with interrupts off are one step.                                       *)
(***************************************************************************)
EXTENDS Llist

CONSTANTS
    Alarms,         \* the alarm structures
    AlarmList,      \* alt_alarm_list, the head of the list
    NoAlarm,        \* the links of an alarm that was never started
    Words,          \* the values of one word of the count (2^32)
    Delta,          \* MTIMECMP_DELTA_AMT
    Delays,         \* the nticks alarms are started with
    Periods,        \* what callbacks return
    Sleeps,         \* arguments of usleep(), in units of the count
    ResetCompare,   \* the compare register out of reset
    MaxTime,        \* bound: the count stops here
    MaxInits        \* bound: initialisations of the timer

ASSUME ClockAssumption ==
    /\ Words \in Nat \ 0 .. 1 /\ Delta \in Nat \ {0} /\ MaxTime \in Nat /\ MaxInits \in Nat
    /\ MaxTime + Delta < Words * (Words - 1) /\ ResetCompare \in 0 .. Words * Words - 1
    /\ Delays \subseteq Nat /\ Periods \subseteq Nat /\ Sleeps \subseteq Nat
    /\ IsFiniteSet(Alarms) /\ AlarmList \notin Alarms /\ NoAlarm \notin Alarms /\ NoAlarm # AlarmList

Threads == {"main", "isr"}

VARIABLES
    mtime,          \* the count
    mtimecmp,       \* the compare register, as two words
    enabled,        \* the timer interrupt is enabled in mie
    rate,           \* _alt_tick_rate is set
    nticks,         \* _alt_nticks
    links, time,    \* the alarms: list pointers, and when each is due
    cursor,         \* alt_tick()'s "alarm"
    pc, high, low,  \* per thread: position, and the words read last
    target,         \* per thread: the argument of alt_niosv_mtimecmp_set()
    job,            \* what the program reads the count for
    offset, wait,   \* alt_niosv_timestamp_offset; usleep()'s argument
    inits,          \* initialisations so far
    armed, asleep   \* history: the compare value last set; the count when usleep() was called

alarms == <<links, time, nticks, cursor>>
program == <<job, offset, wait, inits, rate, asleep>>
vars == <<mtime, mtimecmp, enabled, alarms, pc, high, low, target, program, armed>>

AsWords(n) == [high |-> n \div Words, low |-> n % Words]
Value(w) == w.high * Words + w.low
Linked == Members(links, AlarmList)

Init == /\ mtime = 0 /\ mtimecmp = AsWords(ResetCompare) /\ armed = 0
        /\ enabled = FALSE /\ rate = FALSE /\ nticks = 0
        /\ links = [a \in Alarms \cup {AlarmList} |->
                      IF a = AlarmList THEN Alone(a) ELSE [next |-> NoAlarm, previous |-> NoAlarm]]
        /\ time = [a \in Alarms |-> 0] /\ cursor = AlarmList
        /\ pc = [main |-> "idle", isr |-> "off"]
        /\ high = [t \in Threads |-> 0] /\ low = [t \in Threads |-> 0]
        /\ target = [t \in Threads |-> 0]
        /\ job = "none" /\ offset = 0 /\ wait = 0 /\ inits = 0 /\ asleep = 0

\* One processor: the program waits while the handler runs.
At(t, label) == pc[t] = label /\ (t = "main" => pc["isr"] = "off")
Goto(t, label) == pc' = [pc EXCEPT ![t] = label]

\* The locals of a call end with it.
Forget(v, t) == v' = [v EXCEPT ![t] = 0]

-----------------------------------------------------------------------------
(***************************************************************************)
(* alt_niosv_mtime_get(): high word, low word, high word again.            *)
(***************************************************************************)
M_High(t) == /\ At(t, "m_high")
             /\ high' = [high EXCEPT ![t] = mtime \div Words]
             /\ Goto(t, "m_low")
             /\ UNCHANGED <<mtime, mtimecmp, enabled, alarms, low, target, program, armed>>

M_Low(t) == /\ At(t, "m_low")
            /\ low' = [low EXCEPT ![t] = mtime % Words]
            /\ Goto(t, "m_check")
            /\ UNCHANGED <<mtime, mtimecmp, enabled, alarms, high, target, program, armed>>

Read(t) == Value([high |-> high[t], low |-> low[t]])

\* Mutant: no guard against a rollover between the words.
RolledOver_Never(t) == FALSE

RolledOver(t) == mtime \div Words # high[t]

\* The compare register is set to the time read plus one period, or the
\* sleeper takes its offset and then polls until its time has passed.
M_Check(t) ==
    /\ At(t, "m_check")
    /\ IF RolledOver(t) THEN Goto(t, "m_high") /\ UNCHANGED <<target, program>>
       ELSE \/ /\ t = "isr" \/ job = "init"
               /\ target' = [target EXCEPT ![t] = Read(t) + Delta]
               /\ Goto(t, "c_max") /\ UNCHANGED program
            \/ /\ t = "main" /\ job = "start"
               /\ offset' = Read(t) /\ job' = "sleep"
               /\ Goto(t, "m_high") /\ UNCHANGED <<target, wait, inits, rate, asleep>>
            \/ /\ t = "main" /\ job = "sleep"
               /\ Goto(t, IF Read(t) - offset < wait THEN "m_high" ELSE "slept")
               /\ UNCHANGED <<target, program>>
    /\ Forget(high, t) /\ Forget(low, t)
    /\ UNCHANGED <<mtime, mtimecmp, enabled, alarms, armed>>

-----------------------------------------------------------------------------
(***************************************************************************)
(* alt_niosv_mtimecmp_set(): a high word that cannot match, the low word,  *)
(* the high word.                                                          *)
(***************************************************************************)
\* Mutant: the low word is written under the old high word.
C_Max_None(t) == /\ At(t, "c_max") /\ Goto(t, "c_low")
                 /\ UNCHANGED <<mtime, mtimecmp, enabled, alarms, high, low, target, program, armed>>
C_Max(t) == /\ At(t, "c_max")
            /\ mtimecmp' = [mtimecmp EXCEPT !.high = Words - 1]
            /\ Goto(t, "c_low")
            /\ UNCHANGED <<mtime, enabled, alarms, high, low, target, program, armed>>

C_Low(t) == /\ At(t, "c_low")
            /\ mtimecmp' = [mtimecmp EXCEPT !.low = target[t] % Words]
            /\ Goto(t, "c_high")
            /\ UNCHANGED <<mtime, enabled, alarms, high, low, target, program, armed>>

\* The handler goes on to alt_tick(), the initialisation enables the interrupt.
C_High(t) == /\ At(t, "c_high")
             /\ mtimecmp' = [mtimecmp EXCEPT !.high = target[t] \div Words]
             /\ armed' = target[t]
             /\ enabled' = (enabled \/ t = "main")
             /\ Goto(t, IF t = "isr" THEN "tick" ELSE "idle")
             /\ Forget(target, t)
             /\ job' = (IF t = "main" THEN "none" ELSE job)
             /\ UNCHANGED <<mtime, alarms, high, low, offset, wait, inits, rate, asleep>>

-----------------------------------------------------------------------------
(***************************************************************************)
(* The handler, alt_niosv_timer_sc_isr().                                  *)
(***************************************************************************)
Pending == enabled /\ mtime >= Value(mtimecmp)

Interrupt == /\ pc["isr"] = "off" /\ Pending
             /\ Goto("isr", "m_high")
             /\ UNCHANGED <<mtime, mtimecmp, enabled, alarms, high, low, target, program, armed>>

T_Count == /\ At("isr", "tick")
           /\ nticks' = nticks + 1
           /\ cursor' = links[AlarmList].next
           /\ Goto("isr", "walk")
           /\ UNCHANGED <<mtime, mtimecmp, enabled, links, time, high, low, target, program, armed>>

\* alt_alarm_stop(); an alarm off the list is due at no time.
Stopped(a) == /\ links' = alt_llist_remove(links, a)
              /\ time' = [time EXCEPT ![a] = 0]

\* Mutant: the successor is read after the callback has been dealt with.
T_Alarm_Late ==
    /\ At("isr", "walk") /\ cursor # AlarmList
    /\ IF time[cursor] > nticks THEN UNCHANGED <<links, time>>
       ELSE \E period \in Periods :
               IF period = 0 THEN Stopped(cursor)
               ELSE time' = [time EXCEPT ![cursor] = @ + period] /\ UNCHANGED links
    /\ cursor' = links'[cursor].next
    /\ UNCHANGED <<mtime, mtimecmp, enabled, nticks, pc, high, low, target, program, armed>>

\* One alarm of the list; one that is due is called back, and its callback
\* says when it wants to be called next, or never.
T_Alarm ==
    /\ At("isr", "walk") /\ cursor # AlarmList
    /\ cursor' = links[cursor].next
    /\ IF time[cursor] > nticks THEN UNCHANGED <<links, time>>
       ELSE \E period \in Periods :
               IF period = 0 THEN Stopped(cursor)
               ELSE time' = [time EXCEPT ![cursor] = @ + period] /\ UNCHANGED links
    /\ UNCHANGED <<mtime, mtimecmp, enabled, nticks, pc, high, low, target, program, armed>>

T_Done == /\ At("isr", "walk") /\ cursor = AlarmList
          /\ Goto("isr", "off")
          /\ UNCHANGED <<mtime, mtimecmp, enabled, alarms, high, low, target, program, armed>>

-----------------------------------------------------------------------------
(***************************************************************************)
(* The program.                                                            *)
(***************************************************************************)
\* INTEL_NIOSV_M_INIT(), by alt_sys_init(): the rate is set once, the timer
\* every time.
TimerInit == /\ At("main", "idle") /\ inits < MaxInits
             /\ inits' = inits + 1 /\ rate' = TRUE /\ job' = "init"
             /\ Goto("main", "m_high")
             /\ UNCHANGED <<mtime, mtimecmp, enabled, alarms, high, low, target, offset, wait, asleep, armed>>

\* Mutant: due after n ticks that may be over in no time.
DueTime_Early(n) == nticks + n

DueTime(n) == n + nticks + 1

\* An alarm that is running is not started again.  Before the rate is set
\* the call is -ENOTSUP, as the JTAG UART's is at boot.
alt_alarm_start(a, n) ==
    /\ At("main", "idle") /\ a \notin Linked /\ rate
    /\ time' = [time EXCEPT ![a] = DueTime(n)]
    /\ links' = alt_llist_insert(links, AlarmList, a)
    /\ UNCHANGED <<mtime, mtimecmp, enabled, nticks, cursor, pc, high, low, target, program, armed>>

\* Any alarm that was started, whether it is still running or not.
alt_alarm_stop(a) ==
    /\ At("main", "idle") /\ links[a].next # NoAlarm
    /\ Stopped(a)
    /\ UNCHANGED <<mtime, mtimecmp, enabled, nticks, cursor, pc, high, low, target, program, armed>>

\* alt_busy_sleep(), with the timer as the timestamp driver.
usleep(d) == /\ At("main", "idle")
             /\ job' = "start" /\ wait' = d /\ asleep' = mtime
             /\ Goto("main", "m_high")
             /\ UNCHANGED <<mtime, mtimecmp, enabled, alarms, high, low, target, offset, inits, rate, armed>>

Slept == /\ At("main", "slept")
         /\ Goto("main", "idle")
         /\ job' = "none" /\ offset' = 0 /\ wait' = 0 /\ asleep' = 0
         /\ UNCHANGED <<mtime, mtimecmp, enabled, alarms, high, low, target, inits, rate, armed>>

Advance == /\ mtime < MaxTime
           /\ mtime' = mtime + 1
           /\ UNCHANGED <<mtimecmp, enabled, alarms, pc, high, low, target, program, armed>>

TimerAccess(t) == M_High(t) \/ M_Low(t) \/ M_Check(t) \/ C_Max(t) \/ C_Low(t) \/ C_High(t)
IsrStep == TimerAccess("isr") \/ T_Count \/ T_Alarm \/ T_Done
MainStep == \/ TimerAccess("main") \/ TimerInit \/ Slept
            \/ \E a \in Alarms : alt_alarm_stop(a) \/ \E n \in Delays : alt_alarm_start(a, n)
            \/ \E d \in Sleeps : usleep(d)

Next == Advance \/ Interrupt \/ IsrStep \/ MainStep

Spec == Init /\ [][Next]_vars

\* A handler that has been entered runs.
FairSpec == Spec /\ WF_vars(IsrStep)

-----------------------------------------------------------------------------
(***************************************************************************)
(* Properties.                                                             *)
(***************************************************************************)

\* usleep() returns no sooner than asked, although the count it is measured
\* by is read in two halves.
SleptLongEnough == pc["main"] = "slept" => mtime - asleep >= wait

\* The timer interrupts no sooner than the compare value last set in full, not
\* for a mixture of an old and a new word, which the program can be interrupted
\* in when it initialises the timer again; and while the clock runs and nobody
\* is at the compare register, the next tick is no more than a period away: no
\* race over the register stops the clock.
TicksOnTime ==
    /\ [][pc["isr"] = "off" /\ pc'["isr"] # "off" => mtime >= armed]_vars
    /\ [](enabled /\ (\A t \in Threads : pc[t] \notin {"c_low", "c_high"})
            => Value(mtimecmp) <= mtime + Delta)

\* Outside alt_tick() no running alarm is overdue, and an alarm is called
\* back in the tick it is due in, however callbacks and the program add to,
\* remove from and re-time the list.
AlarmOnTime ==
    /\ pc["isr"] # "walk" => \A a \in Linked : time[a] > nticks
    /\ pc["isr"] = "walk" => \A a \in Linked : time[a] >= nticks

\* The timer handler ends.
TickReturns == (pc["isr"] # "off") ~> (pc["isr"] = "off")
=============================================================================
