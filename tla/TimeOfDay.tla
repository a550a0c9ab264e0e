------------------------------ MODULE TimeOfDay ------------------------------
(***************************************************************************)
(* The clock calls: settimeofday(), gettimeofday() and times(), over the   *)
(* tick count that the timer's handler advances (alt_settod.c,             *)
(* alt_gettod.c, alt_times.c, alt_alarm.h).  The count has two words, so a *)
(* call loads it in two steps, in the order the compiler chose, with       *)
(* interrupts on.                                                          *)
(***************************************************************************)
EXTENDS Integers

CONSTANTS
    Word,            \* values of one word: 2^32
    ALT_US,          \* microseconds in a second
    Rates,           \* ticks per second the timer may have
    Times,           \* times a program sets, in microseconds
    MaxTicks         \* bound: ticks

\* What the constants may be.
TimeAssumption == /\ {Word, ALT_US} \subseteq Nat \ {0} /\ MaxTicks \in Nat
                  /\ Rates \subseteq 1 .. ALT_US /\ Times \subseteq Nat

VARIABLES
    nticks, tick_rate,           \* _alt_nticks, _alt_tick_rate (0: no clock)
    reset_sec, reset_usec,       \* alt_resettime
    calling, time,   \* the call main is in, and its argument
    low, high,       \* the words it has loaded, or None
    told,          \* of the last call
    began,           \* history: nticks at the first load
    setTo, setAt     \* history: the time set last, and the count loaded for it
vars == <<nticks, tick_rate, reset_sec, reset_usec, calling, time, low, high, told,
          began, setTo, setAt>>

clock == <<nticks, tick_rate>>
reset == <<reset_sec, reset_usec>>
set == <<setTo, setAt>>

None == -1
Answer(call, t, loaded) == [call |-> call, time |-> t, ticks |-> loaded]
NoAnswer == Answer("none", 0, 0)

Init == /\ nticks = 0 /\ tick_rate = 0 /\ reset_sec = 0 /\ reset_usec = 0
        /\ calling = "none" /\ time = 0 /\ low = None /\ high = None
        /\ told = NoAnswer /\ began = 0 /\ setTo = 0 /\ setAt = 0

\* The timer's driver names its rate; a second one is refused.
alt_sysclk_init == /\ calling = "none"
                   /\ \E rate \in Rates : tick_rate' = IF tick_rate = 0 THEN rate ELSE tick_rate
                   /\ UNCHANGED <<nticks, reset, calling, time, low, high, told, began, set>>

\* The handler counts; no more than a word's worth of ticks pass in one call.
Tick == /\ tick_rate # 0 /\ nticks < MaxTicks
        /\ calling # "none" => nticks + 1 - began < Word
        /\ nticks' = nticks + 1
        /\ UNCHANGED <<tick_rate, reset, calling, time, low, high, told, began, set>>

Call == /\ calling = "none"
        /\ calling' \in {"settimeofday", "gettimeofday", "times"}
        /\ time' \in IF calling' = "settimeofday" THEN Times ELSE {0}
        /\ low' = None /\ high' = None /\ began' = nticks /\ told' = NoAnswer
        /\ UNCHANGED <<clock, reset, set>>

-----------------------------------------------------------------------------
\* alt_nticks()
LoadLow == /\ calling # "none" /\ low = None
           /\ low' = nticks % Word
           /\ began' = IF high = None THEN nticks ELSE began
           /\ UNCHANGED <<clock, reset, calling, time, high, told, set>>

LoadHigh == /\ calling # "none" /\ high = None
            /\ high' = nticks \div Word
            /\ began' = IF low = None THEN nticks ELSE began
            /\ UNCHANGED <<clock, reset, calling, time, low, told, set>>

Loaded == high * Word + low
Ready(call) == calling = call /\ low # None /\ high # None
Sec(n) == n \div tick_rate

\* Mutant: the remainder of the second is not taken.
Usec_Whole(n) == n * (ALT_US \div tick_rate)
Usec(n) == (n * (ALT_US \div tick_rate)) % ALT_US

Return(t) == calling' = "none" /\ told' = Answer(calling, t, Loaded)

\* ENOSYS or ENOTSUP.
NoClock == /\ \E call \in {"settimeofday", "gettimeofday", "times"} : Ready(call)
           /\ tick_rate = 0
           /\ calling' = "none" /\ told' = NoAnswer
           /\ UNCHANGED <<clock, reset, time, low, high, began, set>>

settimeofday == /\ Ready("settimeofday") /\ tick_rate # 0
                /\ reset_sec' = time \div ALT_US - Sec(Loaded)
                /\ reset_usec' = (time % ALT_US) - Usec(Loaded)
                /\ Return(time)
                /\ setTo' = time /\ setAt' = Loaded
                /\ UNCHANGED <<clock, time, low, high, began>>

\* A negative time is reported as 0.
Normalised(sec, usec) == IF usec < 0 /\ sec <= 0 THEN 0 ELSE sec * ALT_US + usec

gettimeofday == /\ Ready("gettimeofday") /\ tick_rate # 0
                /\ Return(Normalised(reset_sec + Sec(Loaded), reset_usec + Usec(Loaded)))
                /\ UNCHANGED <<clock, reset, time, low, high, began, set>>

\* clock_t is one word.
times == /\ Ready("times") /\ tick_rate # 0
         /\ Return(Loaded % Word)
         /\ UNCHANGED <<clock, reset, time, low, high, began, set>>

Next == \/ alt_sysclk_init \/ Tick \/ Call \/ LoadLow \/ LoadHigh
        \/ NoClock \/ settimeofday \/ gettimeofday \/ times

Spec == Init /\ [][Next]_vars

-----------------------------------------------------------------------------
\* Whatever ticks come between the two loads, the count a call works with is one
\* the clock had during them, or, if the low word rolled over between them, such a
\* count and one high word more or less; times() does not see the difference.
\* From it, gettimeofday() reports the time that was set and the ticks counted
\* since, exactly if the rate divides a second, and otherwise wrong by less than
\* two seconds; what would be before 0 may be reported as 0.
TimeOfDayRight ==
    LET n == told.ticks
        Had(k) == \E m \in began .. nticks : k = m
        rolled == began \div Word # nticks \div Word
        expected == setTo * tick_rate + (n - setAt) * ALT_US    \* in ticks of a microsecond
        error == told.time * tick_rate - expected
    IN told # NoAnswer =>
       /\ Had(n) \/ (rolled /\ (Had(n - Word) \/ Had(n + Word)))
       /\ told.call = "times" => \E m \in began .. nticks : told.time = m % Word
       /\ told.call = "gettimeofday" =>
             IF expected < 0 THEN told.time * tick_rate < 2 * ALT_US * tick_rate
             ELSE /\ ALT_US % tick_rate = 0 => error = 0
                  /\ - 2 * ALT_US * tick_rate < error /\ error < 2 * ALT_US * tick_rate
=============================================================================
