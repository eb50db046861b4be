--------------------------- MODULE OnceEveryProofs ---------------------------
(***************************************************************************)
(* That canopy_once_every keeps its pace, for a clock and periods of any   *)
(* width.                                                                  *)
(***************************************************************************)
EXTENDS OnceEvery, TLAPS

\* The timer is the last of the times at which the answer was true, or still 0.
TimerIsLast ==
    /\ curtime \in 0..MaxTime
    /\ timer \in 0..curtime
    /\ timer \in times \cup {0}
    /\ times \subseteq 0..timer

-----------------------------------------------------------------------------

\* A remainder is no more than the number, and is the number below the modulus.
LEMMA RestIsSmaller ==
    ASSUME NEW a \in Nat, NEW m \in Nat \ {0}
    PROVE  a % m \in 0..a /\ (a < m => a % m = a)
BY SMT

\* A call or a tick of the clock keeps the timer the last true answer.
LEMMA TimerStep ==
    ASSUME TimerIsLast, [TimerNext]_timerVars
    PROVE  TimerIsLast'
<1> USE OnceEveryAssumption DEF TimerIsLast
<1>1. CASE Tick
    BY <1>1 DEF Tick
<1>2. ASSUME NEW us \in Period, OnceEvery(us)
      PROVE  TimerIsLast'
    <2>1. CASE due'
        BY <1>2, <2>1 DEF OnceEvery
    <2>2. CASE ~due'
        BY <1>2, <2>2 DEF OnceEvery
    <2> QED  BY <2>1, <2>2
<1>3. CASE UNCHANGED timerVars
    BY <1>3 DEF timerVars
<1> QED  BY <1>1, <1>2, <1>3 DEF TimerNext

\* The timer is, in every state, the last time at which a call was answered true.
THEOREM TimerCorrect == TimerSpec => []TimerIsLast
<1>1. TimerInit => TimerIsLast
    BY OnceEveryAssumption DEF TimerInit, TimerIsLast
<1> QED  BY <1>1, TimerStep, PTL DEF TimerSpec

\* canopy_once_every answers true at most once in a period, unless its sum wraps, and
\* is never late with it (canopy.c:87-99): for all periods, and clocks of any width.
THEOREM PacedCorrect == TimerSpec => Paced
<1> DEFINE Pace == \A us \in Period :
         OnceEvery(us) =>
            /\ due' /\ timer + us < Modulus => \A s \in times : curtime > s + us
            /\ (\A s \in times \cup {0} : curtime > s + us) => due'
<1>1. TimerIsLast => Pace
    <2> SUFFICES ASSUME TimerIsLast, NEW us \in Period, OnceEvery(us)
                 PROVE  /\ due' /\ timer + us < Modulus =>
                              \A s \in times : curtime > s + us
                        /\ (\A s \in times \cup {0} : curtime > s + us) => due'
        OBVIOUS
    <2>1. timer + us \in Nat /\ us \in Nat /\ Modulus \in Nat \ {0}
        BY OnceEveryAssumption DEF TimerIsLast
    <2>2. ASSUME due', timer + us < Modulus, NEW s \in times
          PROVE  curtime > s + us
        <3>1. curtime > timer + us
            BY <2>1, <2>2, RestIsSmaller DEF OnceEvery
        <3> QED  BY <2>1, <3>1, OnceEveryAssumption DEF TimerIsLast
    <2>3. ASSUME \A s \in times \cup {0} : curtime > s + us
          PROVE  due'
        <3>1. curtime > timer + us
            BY <2>3 DEF TimerIsLast
        <3>2. (timer + us) % Modulus \in 0..(timer + us)
            BY <2>1, RestIsSmaller
        <3>3. curtime > (timer + us) % Modulus
            BY <2>1, <3>1, <3>2, OnceEveryAssumption DEF TimerIsLast
        <3>4. due' = (curtime > (timer + us) % Modulus)
            BY DEF OnceEvery
        <3> QED  BY <3>3, <3>4, Zenon
    <2> QED  BY <2>2, <2>3
<1>2. TimerIsLast /\ [TimerNext]_timerVars => [Pace]_timerVars
    BY <1>1
<1> QED  BY <1>2, TimerCorrect, PTL DEF TimerSpec, Paced
=============================================================================
