------------------------------- MODULE Timer -------------------------------
(***************************************************************************)
(* The timer wheel of src/world/timer.c.                                   *)
(*                                                                         *)
(* A slot holds the timers of one second, modulo the size of the wheel.    *)
(* module_timer_update empties the slots of all seconds up to now; each    *)
(* timer is unlinked, its callback runs, and it is freed.  Callbacks and   *)
(* the rest of the program add and remove timers.  The order of the timers *)
(* of a slot is left open.                                                 *)
(***************************************************************************)
EXTENDS Integers, FiniteSets

CONSTANTS
    MaxTimer,       \* MAX_TIMER, the size of the wheel
    Timers,         \* the Timer structures that can be allocated
    MaxTime         \* bound on the clock

ASSUME TimerAssumption == MaxTimer \in Nat /\ MaxTimer > 1 /\ MaxTime \in Nat

VARIABLES
    wheel,          \* manager.timer_list
    at,             \* timer->at, 0 for a structure that is free
    next,           \* manager.next
    list,           \* what is left of the slot that is being emptied
    now,            \* agT_current()
    pc              \* "idle", or where module_timer_update is

timerVars == <<wheel, at, next, list>>
vars == <<timerVars, now, pc>>
----------------------------------------------------------------------------
Slots == 0 .. MaxTimer - 1
Free(t) == at[t] = 0

TypeOK ==
    /\ wheel \in [Slots -> SUBSET Timers]
    /\ at \in [Timers -> Nat]
    /\ next \in Nat \ {0}
    /\ list \subseteq Timers
    /\ now \in Nat
    /\ pc \in {"idle", "update", "fire"}

\* module_timer_load, in second 1.
Init ==
    /\ wheel = [s \in Slots |-> {}]
    /\ at = [t \in Timers |-> 0]
    /\ next = 1
    /\ list = {}
    /\ now = 1
    /\ pc = "idle"

\* Mutant: a timer a whole lap ahead is accepted.
AcceptsLap(a) == a >= next /\ a <= next + MaxTimer

\* timer_add refuses times the wheel cannot hold.
Accepts(a) == a >= next /\ a < next + MaxTimer

\* timer_add with a time it accepts; t is the structure MALLOC returns.
TimerAdd(t, a) ==
    /\ wheel' = [wheel EXCEPT ![a % MaxTimer] = @ \cup {t}]
    /\ at' = [at EXCEPT ![t] = a]

\* timer_remove
TimerRemove(t) ==
    /\ wheel' = [wheel EXCEPT ![at[t] % MaxTimer] = @ \ {t}]
    /\ at' = [at EXCEPT ![t] = 0]
----------------------------------------------------------------------------
(* module_timer_update.                                                    *)

\* The clock moves, by more than a second if the process was held up, and the
\* update runs.
Second(s) ==
    /\ pc = "idle"
    /\ s > now
    /\ now' = s
    /\ pc' = "update"
    /\ UNCHANGED timerVars

TakeSlot ==
    /\ pc = "update"
    /\ next <= now
    /\ list' = wheel[next % MaxTimer]
    /\ wheel' = [wheel EXCEPT ![next % MaxTimer] = {}]
    /\ pc' = "fire"
    /\ UNCHANGED <<at, next, now>>

\* The timer of an iteration of the inner loop: its callback's effect on the
\* wheel is either nothing or one more timer (a second or more ahead), and then
\* the timer is freed.
FireNothing(t) ==
    /\ list' = list \ {t}
    /\ at' = [at EXCEPT ![t] = 0]
    /\ UNCHANGED <<wheel, next, now, pc>>

FireAdd(t, u, a) ==
    /\ a > next /\ Accepts(a)
    /\ list' = list \ {t}
    /\ wheel' = [wheel EXCEPT ![a % MaxTimer] = @ \cup {u}]
    /\ at' = [at EXCEPT ![t] = 0, ![u] = a]
    /\ UNCHANGED <<next, now, pc>>

SlotDone ==
    /\ pc = "fire"
    /\ list = {}
    /\ next' = next + 1
    /\ pc' = "update"
    /\ UNCHANGED <<wheel, at, list, now>>

UpdateDone ==
    /\ pc = "update"
    /\ next > now
    /\ pc' = "idle"
    /\ UNCHANGED <<timerVars, now>>

\* Calls from outside the update.
Add(t, a) ==
    /\ pc = "idle"
    /\ Free(t)
    /\ Accepts(a)
    /\ TimerAdd(t, a)
    /\ UNCHANGED <<next, list, now, pc>>

Remove(t) ==
    /\ pc = "idle"
    /\ ~Free(t)
    /\ TimerRemove(t)
    /\ UNCHANGED <<next, list, now, pc>>

Times == 1 .. MaxTime

Next ==
    \/ \E s \in Times : Second(s)
    \/ TakeSlot \/ SlotDone \/ UpdateDone
    \/ \E t \in list : pc = "fire" /\ FireNothing(t)
    \/ \E t \in list, u \in Timers, a \in Times :
           pc = "fire" /\ Free(u) /\ FireAdd(t, u, a)
    \/ \E t \in Timers, a \in Times : Add(t, a)
    \/ \E t \in Timers : Remove(t)

Spec == Init /\ [][Next]_vars
----------------------------------------------------------------------------
(* Properties.                                                             *)

\* What the wheel rests on: a timer that is allocated is linked once, in the slot
\* of its second or in the list being worked off, and its second is within one lap
\* of manager.next, so that no timer is passed over or fires a lap early.
WheelSound ==
    /\ \A s \in Slots : \A t \in wheel[s] :
           at[t] % MaxTimer = s /\ t \notin list
    /\ \A t \in Timers : ~Free(t) =>
           IF t \in list THEN pc = "fire" /\ at[t] = next
           ELSE /\ t \in wheel[at[t] % MaxTimer]
                /\ at[t] >= next /\ at[t] < next + MaxTimer
    /\ \A t \in list : ~Free(t)
    /\ pc = "fire" => \A t \in wheel[next % MaxTimer] : at[t] # next
    /\ pc = "idle" => next = now + 1 \/ next = 1

\* Once the update is over no timer that was due is left.
NoneOverdue == pc = "idle" => \A t \in Timers : ~Free(t) => at[t] > now \/ now = 1
============================================================================
