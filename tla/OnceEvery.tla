----------------------------- MODULE OnceEvery -----------------------------
(***************************************************************************)
(* canopy_once_every (canopy.c:87-99): a timer of the application, the     *)
(* monotone clock, and an addition of unsigned integers of Width bits.     *)
(***************************************************************************)
EXTENDS Integers

CONSTANTS
    Width,      \* of uint64_t
    MaxTime,    \* bound: the clock stops here, long before it would wrap
    Period      \* the periods that calls ask for

Modulus == 2 ^ Width

ASSUME OnceEveryAssumption ==
    /\ Width \in Nat \ {0}
    /\ Modulus \in Nat \ {0}    \* so it is; the provers know nothing of ^
    /\ MaxTime \in 0..(Modulus - 1)
    /\ Period \subseteq 0..(Modulus - 1)

VARIABLES
    curtime,    \* what clock_gettime returns
    timer,      \* the application's *timer
    due,        \* the answer of the last call
    times       \* history: when calls were answered true

timerVars == <<curtime, timer, due, times>>

\* "*timer should be initialized to 0 by your application" (canopy.h:675).
TimerInit == curtime \in 0..MaxTime /\ timer = 0 /\ due = FALSE /\ times = {}

Tick ==
    /\ curtime < MaxTime
    /\ curtime' = curtime + 1
    /\ UNCHANGED <<timer, due, times>>

OnceEvery_KeepsPace(us) ==
    /\ due' = (curtime > (timer + us) % Modulus)
    /\ timer' = IF due' THEN (timer + us) % Modulus ELSE timer
    /\ times' = IF due' THEN times \cup {curtime} ELSE times
    /\ UNCHANGED curtime

\* canopy_once_every
OnceEvery(us) ==
    /\ due' = (curtime > (timer + us) % Modulus)
    /\ timer' = IF due' THEN curtime ELSE timer
    /\ times' = IF due' THEN times \cup {curtime} ELSE times
    /\ UNCHANGED curtime

TimerNext == Tick \/ \E us \in Period : OnceEvery(us)
TimerSpec == TimerInit /\ [][TimerNext]_timerVars

-----------------------------------------------------------------------------

\* "Returns true once every <us> microseconds" (canopy.h:680): two true answers are
\* more than the period of the later one apart, unless the sum in the comparison
\* wraps (canopy.c:93); and the answer is never withheld for longer than it must,
\* also if the calls come late.
Paced ==
    [][\A us \in Period :
         OnceEvery(us) =>
            /\ due' /\ timer + us < Modulus => \A s \in times : curtime > s + us
            /\ (\A s \in times \cup {0} : curtime > s + us) => due']_timerVars
=============================================================================
