---------------------------- MODULE Timer_proofs ----------------------------
(***************************************************************************)
(* Proofs about the timer wheel, for every size of the wheel, any number   *)
(* of timers and however many seconds the clock jumps over; and about the  *)
(* limits on playing time, which use it.                                   *)
(***************************************************************************)
EXTENDS MCAddicted, TLAPS

\* A structure that is linked in the wheel is allocated.
LinkedAllocated == \A s \in Slots : \A t \in wheel[s] : ~Free(t)

\* Where manager.next is, seen from the clock.
NextFollowsClock ==
    /\ now >= 1
    /\ pc = "idle" => next = now + 1 \/ (next = 1 /\ now = 1)
    /\ pc = "update" => next <= now + 1
    /\ pc = "fire" => next <= now

IInv ==
    /\ TypeOK
    /\ WheelSound
    /\ LinkedAllocated
    /\ NextFollowsClock
-----------------------------------------------------------------------------
(* A positive multiple of m is at least m.                                 *)
LEMMA MultipleAtLeast ==
    ASSUME NEW m \in Nat \ {0}, NEW d \in Int, d >= 1
    PROVE  m * d >= m
  BY Z3

(* Two seconds of one lap that share a slot are the same second.           *)
LEMMA SameSecond ==
    ASSUME NEW m \in Nat \ {0}, NEW a \in Nat, NEW b \in Nat,
           a % m = b % m, b <= a, a < b + m
    PROVE  a = b
<1> DEFINE p == a \div m
           q == b \div m
<1>1. p \in Int /\ q \in Int /\ a = m * p + (a % m) /\ b = m * q + (b % m)
  OBVIOUS
<1>2. a % m \in Int /\ b % m \in Int
  OBVIOUS
<1> HIDE DEF p, q
<1>3. m * (p - q) = m * p - m * q
  BY <1>1
<1>4. a - b = m * (p - q)
  BY <1>1, <1>2, <1>3
<1>5. CASE p - q >= 1
  <2>1. m * (p - q) >= m
    BY <1>1, <1>5, MultipleAtLeast
  <2> QED
    BY <1>4, <2>1
<1>6. CASE p - q <= -1
  <2>1. m * (q - p) >= m
    BY <1>1, <1>6, MultipleAtLeast
  <2>2. m * (q - p) = m * q - m * p
    BY <1>1
  <2> DEFINE x == m * p
             y == m * q
  <2>3. x \in Int /\ y \in Int /\ a - b = x - y /\ y - x >= m
    BY <1>1, <1>3, <1>4, <2>1, <2>2
  <2> HIDE DEF x, y
  <2> QED
    BY <2>3
<1>7. CASE p - q = 0
  BY <1>4, <1>7
<1> QED
  BY <1>1, <1>5, <1>6, <1>7

(* Every second has a slot.                                                *)
LEMMA SlotOfSecond ==
    ASSUME NEW a \in Nat
    PROVE  a % MaxTimer \in Slots
  BY TimerAssumption DEF Slots
-----------------------------------------------------------------------------
(* An empty wheel.                                                         *)
LEMMA InitInv == Init => IInv
  BY DEF Init, IInv, TypeOK, WheelSound, LinkedAllocated, NextFollowsClock, Free

(* The clock alone.                                                        *)
LEMMA SecondInv ==
    ASSUME IInv, NEW s \in Times, Second(s)
    PROVE  IInv'
  BY DEF Second, timerVars, Times, IInv, TypeOK, WheelSound, LinkedAllocated,
         NextFollowsClock, Free

(* The slot that is taken holds the timers of this very second.            *)
LEMMA TakeSlotInv ==
    ASSUME IInv, TakeSlot
    PROVE  IInv'
<1> DEFINE slot == next % MaxTimer
<1>1. slot \in Slots /\ next \in Nat /\ MaxTimer \in Nat \ {0}
  BY SlotOfSecond, TimerAssumption DEF IInv, TypeOK
<1>2. list = {}
  BY Zenon DEF IInv, TypeOK, WheelSound, TakeSlot
<1>3. \A t \in wheel[slot] : t \in Timers /\ ~Free(t) /\ at[t] = next
  <2> SUFFICES ASSUME NEW t \in wheel[slot] PROVE t \in Timers /\ ~Free(t) /\ at[t] = next
    BY Zenon
  <2>1. t \in Timers /\ ~Free(t) /\ at[t] \in Nat
    BY Zenon, <1>1 DEF IInv, TypeOK, LinkedAllocated
  <2>2. at[t] % MaxTimer = slot /\ at[t] >= next /\ at[t] < next + MaxTimer
    BY Zenon, <1>1, <1>2, <2>1 DEF IInv, WheelSound
  <2> QED
    BY Zenon, <1>1, <2>1, <2>2, SameSecond
<1> HIDE DEF slot
<1>4. /\ next <= now
      /\ list' = wheel[slot]
      /\ wheel' = [wheel EXCEPT ![slot] = {}]
      /\ pc' = "fire"
      /\ UNCHANGED <<at, next, now>>
  BY Zenon DEF TakeSlot, slot
<1>5. TypeOK' /\ LinkedAllocated' /\ NextFollowsClock'
  BY Zenon, <1>1, <1>3, <1>4 DEF IInv, TypeOK, LinkedAllocated, NextFollowsClock, Free
<1>6. \A t \in Timers : ~Free(t) =>
         /\ at[t] % MaxTimer \in Slots
         /\ t \in wheel[at[t] % MaxTimer]
         /\ at[t] >= next /\ at[t] < next + MaxTimer
  BY Zenon, <1>2, SlotOfSecond DEF IInv, WheelSound, TypeOK
<1>7. WheelSound'
  <2>1. \A s \in Slots : \A t \in wheel'[s] : at'[t] % MaxTimer = s /\ t \notin list'
    BY Zenon, <1>1, <1>4 DEF IInv, WheelSound, TypeOK
  <2>2. \A t \in Timers : ~Free(t)' =>
           IF t \in list' THEN pc' = "fire" /\ at'[t] = next'
           ELSE /\ t \in wheel'[at'[t] % MaxTimer]
                /\ at'[t] >= next' /\ at'[t] < next' + MaxTimer
    BY Zenon, <1>1, <1>3, <1>4, <1>6 DEF IInv, TypeOK, Free
  <2>3. \A t \in list' : ~Free(t)'
    BY Zenon, <1>3, <1>4 DEF Free
  <2>4. wheel'[next' % MaxTimer] = {}
    BY Zenon, <1>1, <1>4 DEF IInv, TypeOK, slot
  <2> QED
    BY Zenon, <1>4, <2>1, <2>2, <2>3, <2>4 DEF WheelSound
<1> QED
  BY Zenon, <1>5, <1>7 DEF IInv

(* A timer that fired is freed.                                            *)
LEMMA FireNothingInv ==
    ASSUME IInv, pc = "fire", NEW t \in list, FireNothing(t)
    PROVE  IInv'
<1>1. t \in Timers
  BY Zenon DEF IInv, TypeOK
<1>2. \A s \in Slots : t \notin wheel[s]
  BY Zenon DEF IInv, WheelSound
<1> QED
  BY <1>1, <1>2
     DEF FireNothing, IInv, TypeOK, WheelSound, LinkedAllocated, NextFollowsClock, Free

(* A callback adds a timer of a later second of this lap.                  *)
LEMMA FireAddInv ==
    ASSUME IInv, pc = "fire", NEW t \in list, NEW u \in Timers, NEW a \in Nat,
           Free(u), FireAdd(t, u, a)
    PROVE  IInv'
<1>1. t \in Timers /\ ~Free(t) /\ u # t /\ u \notin list
  BY Zenon DEF IInv, TypeOK, WheelSound
<1>2. \A s \in Slots : t \notin wheel[s] /\ u \notin wheel[s]
  BY Zenon DEF IInv, WheelSound, LinkedAllocated
<1>3. a \in Nat /\ a # 0 /\ a > next /\ a < next + MaxTimer /\ a % MaxTimer \in Slots
  BY SlotOfSecond DEF FireAdd, Accepts, IInv, TypeOK
<1>4. /\ list' = list \ {t}
      /\ wheel' = [wheel EXCEPT ![a % MaxTimer] = @ \cup {u}]
      /\ at' = [at EXCEPT ![t] = 0, ![u] = a]
      /\ UNCHANGED <<next, now, pc>>
  BY Zenon DEF FireAdd
<1>5. at'[u] = a /\ at'[t] = 0 /\ \A v \in Timers \ {t, u} : at'[v] = at[v]
  BY Zenon, <1>1, <1>4 DEF IInv, TypeOK
<1>6. TypeOK'
  BY Zenon, <1>1, <1>3, <1>4 DEF IInv, TypeOK
<1>7. \A s \in Slots : \A v \in wheel'[s] :
         \/ v \in wheel[s] /\ v \in Timers \ {t, u}
         \/ v = u /\ s = a % MaxTimer
  BY Zenon, <1>2, <1>3, <1>4 DEF IInv, TypeOK
<1>8. LinkedAllocated' /\ NextFollowsClock'
  <2>1. \A s \in Slots : \A v \in wheel'[s] : at'[v] # 0
    BY <1>3, <1>5, <1>7 DEF IInv, LinkedAllocated, Free
  <2>2. NextFollowsClock'
    BY Zenon, <1>4 DEF IInv, NextFollowsClock
  <2> QED
    BY Zenon, <2>1, <2>2 DEF LinkedAllocated, Free
<1>9. WheelSound'
  <2>1. \A s \in Slots : \A v \in wheel'[s] : at'[v] % MaxTimer = s /\ v \notin list'
    <3> SUFFICES ASSUME NEW s \in Slots, NEW v \in wheel'[s]
                 PROVE  at'[v] % MaxTimer = s /\ v \notin list'
      BY Zenon
    <3>1. CASE v \in wheel[s] /\ v \in Timers \ {t, u}
      <4>1. at[v] % MaxTimer = s /\ v \notin list /\ at'[v] = at[v]
        BY Zenon, <1>5, <3>1 DEF IInv, WheelSound
      <4> QED
        BY Zenon, <1>4, <4>1
    <3>2. CASE v = u /\ s = a % MaxTimer
      BY Zenon, <1>1, <1>4, <1>5, <3>2
    <3> QED
      BY Zenon, <1>7, <3>1, <3>2
  <2>2. ASSUME NEW v \in Timers, ~Free(v)'
        PROVE  IF v \in list' THEN pc' = "fire" /\ at'[v] = next'
               ELSE /\ v \in wheel'[at'[v] % MaxTimer]
                    /\ at'[v] >= next' /\ at'[v] < next' + MaxTimer
    <3>1. CASE v = u
      BY <1>1, <1>3, <1>4, <1>5, <3>1 DEF IInv, TypeOK
    <3>2. CASE v # u
      <4>1. v # t /\ at'[v] = at[v] /\ ~Free(v)
        BY Zenon, <1>5, <2>2, <3>2 DEF Free
      <4>2. at[v] % MaxTimer \in Slots
        BY Zenon, SlotOfSecond DEF IInv, TypeOK
      <4>3. wheel[at[v] % MaxTimer] \subseteq wheel'[at[v] % MaxTimer]
        BY Zenon, <1>3, <1>4, <4>2 DEF IInv, TypeOK
      <4> QED
        BY Zenon, <1>4, <4>1, <4>3 DEF IInv, WheelSound
    <3> QED
      BY Zenon, <3>1, <3>2
  <2>3. \A v \in list' : ~Free(v)'
    BY Zenon, <1>1, <1>4, <1>5 DEF IInv, WheelSound, TypeOK, Free
  <2>4. \A v \in wheel'[next' % MaxTimer] : at'[v] # next'
    <3>1. next % MaxTimer \in Slots /\ next' = next
      BY Zenon, <1>4, SlotOfSecond DEF IInv, TypeOK
    <3> QED
      BY <1>3, <1>5, <1>7, <3>1 DEF IInv, WheelSound, TypeOK
  <2>5. pc' = "fire"
    BY Zenon, <1>4
  <2> QED
    BY Zenon, <2>1, <2>2, <2>3, <2>4, <2>5 DEF WheelSound
<1> QED
  BY Zenon, <1>6, <1>8, <1>9 DEF IInv

(* No timer of this second is left when the wheel moves on.                *)
LEMMA SlotDoneInv ==
    ASSUME IInv, SlotDone
    PROVE  IInv'
<1>1. next \in Nat /\ next' = next + 1 /\ MaxTimer \in Nat
  BY Zenon, TimerAssumption DEF IInv, TypeOK, SlotDone
<1>2. \A t \in Timers : ~Free(t) =>
         /\ t \in wheel[at[t] % MaxTimer]
         /\ at[t] >= next /\ at[t] < next + MaxTimer /\ at[t] # next
  BY Zenon DEF IInv, WheelSound, SlotDone
<1>3. TypeOK' /\ LinkedAllocated' /\ NextFollowsClock'
  BY <1>1 DEF IInv, TypeOK, LinkedAllocated, NextFollowsClock, Free, SlotDone
<1>4. WheelSound'
  BY <1>1, <1>2 DEF IInv, TypeOK, WheelSound, Free, SlotDone
<1> QED
  BY Zenon, <1>3, <1>4 DEF IInv

(* The update is over. next is the second after now: it was not before it  *)
(* when the update began, and the clock stood still.                       *)
LEMMA UpdateDoneInv ==
    ASSUME IInv, UpdateDone
    PROVE  IInv'
  BY
     DEF UpdateDone, timerVars, IInv, TypeOK, WheelSound, LinkedAllocated, NextFollowsClock, Free

(* timer_add from outside the update, in one of the seconds ahead.         *)
LEMMA AddInv ==
    ASSUME IInv, NEW t \in Timers, NEW a \in Nat, Add(t, a)
    PROVE  IInv'
<1>1. pc = "idle" /\ list = {} /\ at[t] = 0
  BY Zenon DEF Add, Free, IInv, TypeOK, WheelSound
<1>2. \A s \in Slots : t \notin wheel[s]
  BY Zenon, <1>1 DEF IInv, LinkedAllocated, Free
<1>3. a \in Nat /\ a # 0 /\ a >= next /\ a < next + MaxTimer /\ a % MaxTimer \in Slots
  BY SlotOfSecond DEF Add, Accepts, IInv, TypeOK
<1>4. /\ wheel' = [wheel EXCEPT ![a % MaxTimer] = @ \cup {t}]
      /\ at' = [at EXCEPT ![t] = a]
      /\ UNCHANGED <<next, list, now, pc>>
  BY Zenon DEF Add, TimerAdd
<1>5. at'[t] = a /\ \A v \in Timers \ {t} : at'[v] = at[v]
  BY Zenon, <1>4 DEF IInv, TypeOK
<1>6. TypeOK' /\ NextFollowsClock'
  BY Zenon, <1>3, <1>4 DEF IInv, TypeOK, NextFollowsClock
<1>7. \A s \in Slots : \A v \in wheel'[s] :
         \/ v \in wheel[s] /\ v \in Timers \ {t}
         \/ v = t /\ s = a % MaxTimer
  BY Zenon, <1>2, <1>3, <1>4 DEF IInv, TypeOK
<1>8. \A s \in Slots : \A v \in wheel'[s] : at'[v] % MaxTimer = s /\ at'[v] # 0
  BY <1>3, <1>5, <1>7 DEF IInv, WheelSound, LinkedAllocated, Free
<1>9. ASSUME NEW v \in Timers, at'[v] # 0
      PROVE  /\ v \in wheel'[at'[v] % MaxTimer]
             /\ at'[v] >= next' /\ at'[v] < next' + MaxTimer
  <2>1. CASE v = t
    BY Zenon, <1>3, <1>4, <1>5, <2>1 DEF IInv, TypeOK
  <2>2. CASE v # t
    <3>1. at'[v] = at[v] /\ ~Free(v)
      BY Zenon, <1>5, <1>9, <2>2 DEF Free
    <3>2. at[v] % MaxTimer \in Slots
      BY Zenon, SlotOfSecond DEF IInv, TypeOK
    <3>3. wheel[at[v] % MaxTimer] \subseteq wheel'[at[v] % MaxTimer]
      BY Zenon, <1>3, <1>4, <3>2 DEF IInv, TypeOK
    <3> QED
      BY Zenon, <1>1, <1>4, <3>1, <3>3 DEF IInv, WheelSound
  <2> QED
    BY Zenon, <2>1, <2>2
<1>10. pc' = "idle" /\ list' = {} /\ (next' = now' + 1 \/ next' = 1)
  BY Zenon, <1>1, <1>4 DEF IInv, WheelSound
<1> QED
  BY Zenon, <1>6, <1>8, <1>9, <1>10 DEF IInv, WheelSound, LinkedAllocated, Free

(* timer_remove looks in the slot where the timer is.                      *)
LEMMA RemoveInv ==
    ASSUME IInv, NEW t \in Timers, Remove(t)
    PROVE  IInv'
<1>1. pc = "idle" /\ list = {}
  BY Zenon DEF Remove, Free, IInv, TypeOK, WheelSound
<1>2. at[t] % MaxTimer \in Slots
  BY Zenon, SlotOfSecond DEF IInv, TypeOK
<1>3. /\ wheel' = [wheel EXCEPT ![at[t] % MaxTimer] = @ \ {t}]
      /\ at' = [at EXCEPT ![t] = 0]
      /\ UNCHANGED <<next, list, now, pc>>
  BY Zenon DEF Remove, TimerRemove
<1>4. at'[t] = 0 /\ \A v \in Timers \ {t} : at'[v] = at[v]
  BY Zenon, <1>3 DEF IInv, TypeOK
<1>5. TypeOK' /\ NextFollowsClock'
  BY Zenon, <1>3 DEF IInv, TypeOK, NextFollowsClock
<1>6. \A s \in Slots : wheel'[s] = wheel[s] \ {t}
  BY Zenon, <1>2, <1>3 DEF IInv, TypeOK, WheelSound
<1>7. \A s \in Slots : \A v \in wheel'[s] : at'[v] % MaxTimer = s /\ at'[v] # 0
  BY <1>4, <1>6 DEF IInv, TypeOK, WheelSound, LinkedAllocated, Free
<1>8. ASSUME NEW v \in Timers, at'[v] # 0
      PROVE  /\ v \in wheel'[at'[v] % MaxTimer]
             /\ at'[v] >= next' /\ at'[v] < next' + MaxTimer
  <2>1. v # t /\ at'[v] = at[v] /\ ~Free(v)
    BY Zenon, <1>4, <1>8 DEF Free
  <2>2. at[v] % MaxTimer \in Slots
    BY Zenon, SlotOfSecond DEF IInv, TypeOK
  <2> QED
    BY Zenon, <1>1, <1>3, <1>6, <2>1, <2>2 DEF IInv, WheelSound
<1>9. pc' = "idle" /\ list' = {} /\ (next' = now' + 1 \/ next' = 1)
  BY Zenon, <1>1, <1>3 DEF IInv, WheelSound
<1> QED
  BY Zenon, <1>5, <1>7, <1>8, <1>9 DEF IInv, WheelSound, LinkedAllocated, Free
-----------------------------------------------------------------------------
(* Steps that leave the wheel alone.                                       *)
LEMMA SameWheel ==
    ASSUME IInv, UNCHANGED <<wheel, at, next, list, now, pc>>
    PROVE  IInv'
  BY Zenon DEF IInv, TypeOK, WheelSound, LinkedAllocated, NextFollowsClock, Free

(* Any use of the wheel.                                                   *)
LEMMA StepInv ==
    ASSUME IInv, Next
    PROVE  IInv'
<1>1. Times \subseteq Nat
  BY DEF Times
<1> QED
  BY Zenon, <1>1, SecondInv, TakeSlotInv, SlotDoneInv, UpdateDoneInv, FireNothingInv,
     FireAddInv,
     AddInv, RemoveInv DEF Next

(* The inductive invariant holds in every state that is reached.           *)
LEMMA InvHolds == Spec => []IInv
<1>1. ASSUME IInv, UNCHANGED vars PROVE IInv'
  BY Zenon, <1>1, SameWheel DEF vars, timerVars
<1> QED
  BY <1>1, StepInv, InitInv, PTL DEF Spec

(* Every allocated timer is linked once, in the slot of its second, within *)
(* a lap of manager.next: none is passed over and none fires a lap early,  *)
(* whatever callbacks add and however far the clock jumps.                 *)
THEOREM TimersNotLost == Spec => []WheelSound
<1>1. IInv => WheelSound
  BY Zenon DEF IInv
<1> QED
  BY <1>1, InvHolds, PTL

(* When module_timer_update returns, no timer that was due is left.        *)
THEOREM DueTimersFired == Spec => []NoneOverdue
<1>1. IInv => NoneOverdue
  BY DEF IInv, TypeOK, WheelSound, NextFollowsClock, NoneOverdue
<1> QED
  BY <1>1, InvHolds, PTL
-----------------------------------------------------------------------------
(* The limits on playing time.                                             *)

\* The next check of p comes before its limit is exceeded by more than Extra
\* seconds, or within CheckDelay seconds; also while an update is under way.
Due(p) ==
    \/ played[p] + at[timer[p]] - login[p] <= KickTime + Extra
    \/ at[timer[p]] <= now + CheckDelay

\* The second conjunct keeps the time played from becoming negative.
AInv ==
    /\ IInv /\ AddictedTypeOK /\ InfoHasTimer
    /\ \A p \in Players : login[p] <= now
    /\ \A p \in Players : info[p] = "watched" => Due(p)

\* What a change of the entries leaves of the infos: they have their timers, and
\* the timer of one is the one it had, or new.
InfosKept ==
    /\ IInv' /\ InfoHasTimer' /\ UNCHANGED now
    /\ info' \in [Players -> {"none", "adult", "watched"}]
    /\ timer' \in [Players -> Timers \cup {NoTimer}]
    /\ sended' \in [Players -> BOOLEAN]
    /\ owner' \in [Timers -> Players]
    /\ \A q \in Players : info'[q] = "watched" =>
          \/ info[q] = "watched" /\ at'[timer'[q]] = at[timer[q]]
          \/ at'[timer'[q]] <= now + CheckDelay

(* The first check of a player, CheckDelay seconds ahead, is in the lap.   *)
LEMMA FirstCheckAccepted ==
    ASSUME IInv, pc = "idle"
    PROVE  now + CheckDelay \in Nat \ {0} /\ Accepts(now + CheckDelay)
  BY AddictedAssumption, TimerAssumption DEF IInv, TypeOK, NextFollowsClock, Accepts

(* addicted_login, addicted_logout and addicted_set_adult.                 *)
LEMMA SetInfoKeeps ==
    ASSUME AInv, pc = "idle", NEW p \in Players, NEW v \in {"none", "adult", "watched"},
           SetInfo(p, v)
    PROVE  InfosKept /\ info' = [info EXCEPT ![p] = v]
<1>1. /\ info' = [info EXCEPT ![p] = v]
      /\ sended' = [sended EXCEPT ![p] = v = "watched" /\ @]
      /\ UNCHANGED <<next, list, now, pc>>
  BY Zenon DEF SetInfo
<1>2. /\ info' \in [Players -> {"none", "adult", "watched"}]
      /\ info'[p] = v /\ \A q \in Players \ {p} : info'[q] = info[q]
  BY Zenon, <1>1 DEF AInv, AddictedTypeOK
<1>3. sended' \in [Players -> BOOLEAN]
  <2>1. (v = "watched" /\ sended[p]) \in BOOLEAN /\ sended \in [Players -> BOOLEAN]
    BY Zenon DEF AInv, AddictedTypeOK
  <2> QED
    BY Zenon, <1>1, <2>1
<1>4. CASE v = "watched" /\ info[p] # "watched"
  <2>1. PICK t \in Timers :
           /\ Free(t)
           /\ TimerAdd(t, now + CheckDelay)
           /\ timer' = [timer EXCEPT ![p] = t]
           /\ owner' = [owner EXCEPT ![t] = p]
    BY Zenon, <1>4 DEF SetInfo
  <2>2. IInv'
    BY Zenon, <1>1, <2>1, FirstCheckAccepted, AddInv DEF AInv, Add
  <2>3. at'[t] = now + CheckDelay /\ \A u \in Timers \ {t} : at'[u] = at[u]
    BY Zenon, <2>1 DEF TimerAdd, AInv, IInv, TypeOK
  <2>4. /\ timer' \in [Players -> Timers \cup {NoTimer}] /\ owner' \in [Timers -> Players]
        /\ timer'[p] = t /\ \A q \in Players \ {p} : timer'[q] = timer[q]
        /\ owner'[t] = p /\ \A u \in Timers \ {t} : owner'[u] = owner[u]
    BY Zenon, <2>1 DEF AInv, AddictedTypeOK
  <2>5. now + CheckDelay # 0
    BY Zenon, FirstCheckAccepted DEF AInv
  <2>6. \A u \in Timers \ {t} : at[u] # 0 => owner[u] \in Players \ {p}
    BY Zenon, <1>4 DEF AInv, InfoHasTimer, AddictedTypeOK, Free
  <2>7. \A q \in Players : info[q] = "watched" => timer[q] \in Timers \ {t} /\ q # p
    BY <1>4, <2>1 DEF AInv, InfoHasTimer, AddictedTypeOK, Free
  <2>8. InfoHasTimer'
    <3>1. \A u \in Timers : at'[u] # 0 => info'[owner'[u]] = "watched" /\ timer'[owner'[u]] = u
      BY <1>2, <1>4, <2>3, <2>4, <2>6 DEF AInv, InfoHasTimer, Free
    <3>2. \A q \in Players :
             IF info'[q] = "watched"
             THEN timer'[q] # NoTimer /\ at'[timer'[q]] # 0 /\ owner'[timer'[q]] = q
             ELSE timer'[q] = NoTimer
      BY <1>2, <1>4, <2>3, <2>4, <2>5, <2>7, AddictedAssumption
         DEF AInv, InfoHasTimer, Free
    <3> QED
      BY Zenon, <3>1, <3>2 DEF InfoHasTimer, Free
  <2>9. \A q \in Players : info'[q] = "watched" =>
          \/ info[q] = "watched" /\ at'[timer'[q]] = at[timer[q]]
          \/ at'[timer'[q]] <= now + CheckDelay
    BY <1>2, <2>3, <2>4, <2>7, FirstCheckAccepted DEF AInv
  <2> QED
    BY Zenon, <1>1, <1>2, <1>3, <2>2, <2>4, <2>8, <2>9 DEF InfosKept
<1>5. CASE v # "watched" /\ info[p] = "watched"
  <2>1. /\ TimerRemove(timer[p])
        /\ timer' = [timer EXCEPT ![p] = NoTimer]
        /\ UNCHANGED owner
    BY Zenon, <1>5 DEF SetInfo
  <2>2. timer[p] \in Timers /\ ~Free(timer[p]) /\ owner[timer[p]] = p
    BY <1>5 DEF AInv, InfoHasTimer, AddictedTypeOK
  <2>3. IInv'
    BY Zenon, <1>1, <2>1, <2>2, RemoveInv DEF AInv, Remove
  <2>4. at'[timer[p]] = 0 /\ \A u \in Timers \ {timer[p]} : at'[u] = at[u]
    BY Zenon, <2>1, <2>2 DEF TimerRemove, AInv, IInv, TypeOK
  <2>5. /\ timer' \in [Players -> Timers \cup {NoTimer}] /\ owner' \in [Timers -> Players]
        /\ timer'[p] = NoTimer /\ \A q \in Players \ {p} : timer'[q] = timer[q]
    BY Zenon, <2>1 DEF AInv, AddictedTypeOK
  <2>6. \A u \in Timers \ {timer[p]} : at[u] # 0 => owner[u] \in Players \ {p}
    BY Zenon DEF AInv, InfoHasTimer, AddictedTypeOK, Free
  <2>7. \A q \in Players \ {p} : info[q] = "watched" => timer[q] \in Timers \ {timer[p]}
    BY <2>2 DEF AInv, InfoHasTimer, AddictedTypeOK
  <2>8. InfoHasTimer'
    <3>1. \A u \in Timers : at'[u] # 0 => info'[owner'[u]] = "watched" /\ timer'[owner'[u]] = u
      BY <1>2, <2>1, <2>4, <2>5, <2>6 DEF AInv, InfoHasTimer, Free
    <3>2. \A q \in Players :
             IF info'[q] = "watched"
             THEN timer'[q] # NoTimer /\ at'[timer'[q]] # 0 /\ owner'[timer'[q]] = q
             ELSE timer'[q] = NoTimer
      BY <1>2, <1>5, <2>1, <2>4, <2>5, <2>7 DEF AInv, InfoHasTimer, Free
    <3> QED
      BY Zenon, <3>1, <3>2 DEF InfoHasTimer, Free
  <2>9. \A q \in Players : info'[q] = "watched" =>
          info[q] = "watched" /\ at'[timer'[q]] = at[timer[q]]
    BY Zenon, <1>2, <1>5, <2>4, <2>5, <2>7
  <2> QED
    BY Zenon, <1>1, <1>2, <1>3, <2>3, <2>5, <2>8, <2>9 DEF InfosKept
<1>6. CASE (v = "watched") = (info[p] = "watched")
  <2>1. UNCHANGED <<wheel, at, timer, owner>>
    BY Zenon, <1>6 DEF SetInfo
  <2>2. IInv'
    BY Zenon, <1>1, <2>1, SameWheel DEF AInv
  <2>3. InfoHasTimer'
    BY <1>2, <1>6, <2>1 DEF AInv, InfoHasTimer, Free, AddictedTypeOK
  <2> QED
    BY Zenon, <1>1, <1>2, <1>3, <1>6, <2>1, <2>2, <2>3 DEF InfosKept, AInv, AddictedTypeOK
<1> QED
  BY Zenon, <1>4, <1>5, <1>6

(* A message: the entries change as SetInfo says, and the time on record   *)
(* of a player who is watched, less the time of its login, does not grow.  *)
LEMMA MessageInv ==
    ASSUME AInv, InfosKept, online' \subseteq Players \ NoRole,
           played' \in [Players -> Nat], logout' \in [Players -> Nat],
           login' \in [Players -> Nat], \A q \in Players : login'[q] <= now,
           \A q \in Players : info[q] = "watched" /\ info'[q] = "watched" =>
               played'[q] - login'[q] <= played[q] - login[q]
    PROVE  AInv'
<1>1. AddictedTypeOK'
  BY Zenon DEF InfosKept, AddictedTypeOK, IInv
<1>2. ASSUME NEW q \in Players, info'[q] = "watched"
      PROVE  Due(q)'
  <2>1. CASE at'[timer'[q]] <= now + CheckDelay
    BY Zenon, <2>1 DEF Due, InfosKept
  <2>2. CASE info[q] = "watched" /\ at'[timer'[q]] = at[timer[q]]
    <3>1. timer[q] \in Timers
      BY <2>2 DEF AInv, InfoHasTimer, AddictedTypeOK
    <3>2. at[timer[q]] \in Nat /\ now \in Nat /\ CheckDelay \in Nat
      BY Zenon, <3>1, AddictedAssumption DEF AInv, IInv, TypeOK
    <3>3. played[q] \in Nat /\ login[q] \in Nat /\ played'[q] \in Nat /\ login'[q] \in Nat
      BY Zenon DEF AInv, AddictedTypeOK
    <3>4. played'[q] - login'[q] <= played[q] - login[q] /\ Due(q)
      BY Zenon, <1>2, <2>2 DEF AInv
    <3> QED
      BY <2>2, <3>2, <3>3, <3>4, AddictedAssumption DEF Due, InfosKept
  <2> QED
    BY Zenon, <1>2, <2>1, <2>2 DEF InfosKept
<1> QED
  BY Zenon, <1>1, <1>2 DEF AInv, InfosKept

(* addicted_can_login leaves the time on record or forgets it.             *)
LEMMA RestedLess ==
    ASSUME AInv, NEW p \in Players, NEW v
    PROVE  Rested(p, v) \in Nat /\ Rested(p, v) <= played[p]
  BY DEF Rested, AInv, AddictedTypeOK

(* process_message with any other command.                                 *)
LEMMA OtherInv ==
    ASSUME AInv, NEW p \in Players, Other(p)
    PROVE  AInv'
<1>1. InfosKept
  BY Zenon, SetInfoKeeps DEF Other, Admitted, AInv, AddictedTypeOK
<1>2. online' \subseteq Players \ NoRole /\ UNCHANGED <<login, logout>>
  BY Zenon DEF Other, AInv, AddictedTypeOK
<1>3. played' \in [Players -> Nat] /\ \A q \in Players : played'[q] <= played[q]
  BY RestedLess DEF Other, AInv, AddictedTypeOK
<1>4. \A q \in Players : /\ played[q] \in Nat /\ login[q] \in Nat /\ played'[q] \in Nat
                         /\ login[q] <= now
  BY Zenon, <1>3 DEF AInv, AddictedTypeOK
<1>5. \A q \in Players : played'[q] - login'[q] <= played[q] - login[q]
  BY <1>2, <1>3, <1>4
<1> QED
  BY Zenon, <1>1, <1>2, <1>3, <1>4, <1>5, MessageInv DEF AInv, AddictedTypeOK

(* aL_login: the time since the login starts again.                        *)
LEMMA LoginInv ==
    ASSUME AInv, NEW p \in Players, LoginAdult(p) \/ LoginYoung(p)
    PROVE  AInv'
<1>1. /\ InfosKept /\ logout' = logout
      /\ login' \in {login, [login EXCEPT ![p] = now]}
      /\ \E v : played' = [played EXCEPT ![p] = Rested(p, v)]
      /\ online' \in {online \cup ({p} \ NoRole), online \ {p}}
  <2>1. CASE LoginAdult(p)
    BY Zenon, <2>1, SetInfoKeeps DEF LoginAdult
  <2>2. CASE LoginYoung(p)
    <3>1. PICK v \in {"none", "adult", "watched"} : pc = "idle" /\ SetInfo(p, v)
      BY <2>2 DEF LoginYoung, AInv, AddictedTypeOK
    <3>2. InfosKept
      BY Zenon, <3>1, SetInfoKeeps
    <3> QED
      BY Zenon, <2>2, <3>2 DEF LoginYoung
  <2> QED
    BY Zenon, <2>1, <2>2
<1>2. now \in Nat /\ login \in [Players -> Nat] /\ played \in [Players -> Nat]
  BY Zenon DEF AInv, AddictedTypeOK, TypeOK
<1>3. /\ login' \in [Players -> Nat]
      /\ \A q \in Players : login[q] <= login'[q] /\ login'[q] <= now
  BY <1>1, <1>2 DEF AInv
<1>4. played' \in [Players -> Nat] /\ \A q \in Players : played'[q] <= played[q]
  BY <1>1, <1>2, RestedLess
<1>5. \A q \in Players : played'[q] - login'[q] <= played[q] - login[q]
  BY <1>2, <1>3, <1>4
<1>6. online' \subseteq Players \ NoRole /\ logout' \in [Players -> Nat]
  BY Zenon, <1>1 DEF AInv, AddictedTypeOK
<1> QED
  BY Zenon, <1>1, <1>3, <1>4, <1>5, <1>6, MessageInv

(* aL_logout: the time on record is that of the whole stay.                *)
LEMMA LoggedOutTyped ==
    ASSUME AInv, NEW p \in Players, NEW time \in Nat, NEW v, LoggedOut(p, time, v)
    PROVE  /\ played' \in [Players -> Nat] /\ logout' \in [Players -> Nat]
           /\ \A q \in Players \ {p} : played'[q] = played[q]
<1>1. /\ now \in Nat /\ login[p] \in Nat /\ login[p] <= now
      /\ played \in [Players -> Nat] /\ logout \in [Players -> Nat]
  BY Zenon DEF AInv, AddictedTypeOK, TypeOK
<1>2. time + now - login[p] \in Nat
  BY <1>1
<1> QED
  BY Zenon, <1>1, <1>2 DEF LoggedOut

(* A logout or a kick frees the info.                                      *)
LEMMA LogoutInv ==
    ASSUME AInv, NEW p \in Players, Logout(p) \/ Kick(p)
    PROVE  AInv'
<1>1. PICK v \in {"none", "adult"} : pc = "idle" /\ SetInfo(p, v)
  BY Zenon DEF Logout, Kick, Admitted, AInv, AddictedTypeOK
<1>2. InfosKept /\ info' = [info EXCEPT ![p] = v]
  BY Zenon, <1>1, SetInfoKeeps
<1>3. info'[p] # "watched"
  BY Zenon, <1>2 DEF AInv, AddictedTypeOK
<1>4. /\ played' \in [Players -> Nat] /\ logout' \in [Players -> Nat]
      /\ \A q \in Players \ {p} : played'[q] = played[q]
  <2>1. CASE Logout(p)
    BY Zenon, <2>1, RestedLess, LoggedOutTyped DEF Logout
  <2>2. CASE Kick(p)
    <3>1. played[p] \in Nat
      BY Zenon DEF AInv, AddictedTypeOK
    <3>2. CASE LoggedOut(p, played[p], info[p])
      BY Zenon, <3>1, <3>2, LoggedOutTyped
    <3>3. CASE UNCHANGED <<played, logout>>
      BY Zenon, <3>3 DEF AInv, AddictedTypeOK
    <3> QED
      BY Zenon, <2>2, <3>2, <3>3 DEF Kick
  <2> QED
    BY Zenon, <2>1, <2>2
<1>5. login' = login /\ online' \subseteq Players \ NoRole
  BY Zenon DEF Logout, Kick, AInv, AddictedTypeOK
<1>6. \A q \in Players : info'[q] = "watched" => played'[q] - login'[q] <= played[q] - login[q]
  <2>1. \A q \in Players : played[q] \in Nat /\ login[q] \in Nat
    BY Zenon DEF AInv, AddictedTypeOK
  <2> QED
    BY <1>3, <1>4, <1>5, <2>1
<1>7. login' \in [Players -> Nat] /\ \A q \in Players : login'[q] <= now
  BY Zenon, <1>5 DEF AInv, AddictedTypeOK
<1> QED
  BY Zenon, <1>2, <1>4, <1>5, <1>6, <1>7, MessageInv

(* A change of age, and the unloading of a player.                         *)
LEMMA ServiceInv ==
    ASSUME AInv, NEW p \in Players,
           Unload(p) \/ \E v \in {"adult", "watched"} : SetAdult(p, v)
    PROVE  AInv'
<1>1. /\ online' \subseteq Players \ NoRole /\ UNCHANGED <<played, login, logout>>
  BY Zenon DEF Unload, SetAdult, propVars, AInv, AddictedTypeOK
<1>2. InfosKept
  <2>1. CASE Unload(p)
    <3>1. UNCHANGED <<wheel, at, next, list, now, pc, info, timer, sended, owner>>
      BY Zenon, <2>1 DEF Unload, vars, timerVars, infoVars
    <3>2. IInv'
      BY Zenon, <3>1, SameWheel DEF AInv
    <3> QED
      BY Zenon, <3>1, <3>2 DEF InfosKept, InfoHasTimer, Free, AInv, AddictedTypeOK
  <2>2. CASE \E v \in {"adult", "watched"} : SetAdult(p, v)
    BY Zenon, <2>2, SetInfoKeeps DEF SetAdult
  <2> QED
    BY Zenon, <2>1, <2>2
<1>3. \A q \in Players : played[q] \in Nat /\ login[q] \in Nat /\ login[q] <= now
  BY Zenon DEF AInv, AddictedTypeOK
<1>4. \A q \in Players : played'[q] - login'[q] <= played[q] - login[q]
  BY <1>1, <1>3
<1> QED
  BY Zenon, <1>1, <1>2, <1>3, <1>4, MessageInv DEF AInv, AddictedTypeOK

(* The clock and the loops of module_timer_update.                         *)
LEMMA WheelInv ==
    ASSUME AInv, Wheel
    PROVE  AInv'
<1>1. IInv' /\ UNCHANGED <<info, timer, sended, owner, online, played, login, logout>>
  BY Zenon, SecondInv, TakeSlotInv, SlotDoneInv, UpdateDoneInv
     DEF Wheel, infoVars, propVars, AInv
<1>2. at' = at /\ now \in Nat /\ now' \in Nat /\ now <= now'
  BY
     DEF Wheel, Second, TakeSlot, SlotDone, UpdateDone, timerVars, AInv, IInv, TypeOK, Times
<1>3. AddictedTypeOK' /\ InfoHasTimer'
  BY Zenon, <1>1, <1>2 DEF AInv, IInv, AddictedTypeOK, InfoHasTimer, Free
<1>4. \A p \in Players : login[p] \in Nat /\ login[p] <= now
  BY Zenon DEF AInv, AddictedTypeOK
<1>5. \A p \in Players : login'[p] <= now'
  BY <1>1, <1>2, <1>4
<1>6. ASSUME NEW p \in Players, info[p] = "watched"
      PROVE  Due(p)'
  <2>1. timer[p] \in Timers
    BY <1>6 DEF AInv, InfoHasTimer, AddictedTypeOK
  <2>2. at[timer[p]] \in Nat /\ Due(p)
    BY Zenon, <1>6, <2>1 DEF AInv, IInv, TypeOK
  <2> QED
    BY <1>1, <1>2, <2>2, AddictedAssumption DEF Due
<1> QED
  BY Zenon, <1>1, <1>3, <1>5, <1>6 DEF AInv

(* The timer that fires is that of an info in use.                         *)
LEMMA FiredTimer ==
    ASSUME AInv, NEW t \in list
    PROVE  /\ t \in Timers /\ at[t] # 0
           /\ owner[t] \in Players /\ info[owner[t]] = "watched" /\ timer[owner[t]] = t
           /\ \A u \in Timers \ {t} : at[u] # 0 => owner[u] # owner[t]
           /\ \A q \in Players \ {owner[t]} : info[q] = "watched" => timer[q] \in Timers \ {t}
<1>1. t \in Timers /\ ~Free(t)
  BY Zenon DEF AInv, IInv, TypeOK, WheelSound
<1> QED
  BY <1>1 DEF AInv, InfoHasTimer, AddictedTypeOK, Free

(* checkPlayer frees the info of a player who is gone or has been kicked.  *)
LEMMA InfoFreed ==
    ASSUME AInv, pc = "fire", NEW t \in list, NEW p, p = owner[t], FireNothing(t),
           info' = [info EXCEPT ![p] = "none"], timer' = [timer EXCEPT ![p] = NoTimer],
           sended' = [sended EXCEPT ![p] = FALSE], owner' = owner
    PROVE  InfosKept /\ info'[p] = "none"
<1>1. IInv' /\ now' = now
  BY Zenon, FireNothingInv DEF AInv, FireNothing
<1>2. at'[t] = 0 /\ \A u \in Timers \ {t} : at'[u] = at[u]
  BY FiredTimer DEF FireNothing, AInv, IInv, TypeOK
<1>3. /\ info' \in [Players -> {"none", "adult", "watched"}]
      /\ timer' \in [Players -> Timers \cup {NoTimer}]
      /\ sended' \in [Players -> BOOLEAN] /\ owner' \in [Timers -> Players]
      /\ p \in Players /\ info'[p] = "none" /\ timer'[p] = NoTimer
      /\ \A q \in Players \ {p} : info'[q] = info[q] /\ timer'[q] = timer[q]
  BY FiredTimer DEF AInv, AddictedTypeOK
<1>4. InfoHasTimer'
  <2>1. \A u \in Timers : at'[u] # 0 => info'[owner'[u]] = "watched" /\ timer'[owner'[u]] = u
    BY <1>2, <1>3, FiredTimer DEF AInv, InfoHasTimer, Free
  <2>2. \A q \in Players :
           IF info'[q] = "watched"
           THEN timer'[q] # NoTimer /\ at'[timer'[q]] # 0 /\ owner'[timer'[q]] = q
           ELSE timer'[q] = NoTimer
    BY <1>2, <1>3, FiredTimer DEF AInv, InfoHasTimer, Free
  <2> QED
    BY Zenon, <2>1, <2>2 DEF InfoHasTimer, Free
<1>5. \A q \in Players : info'[q] = "watched" =>
         info[q] = "watched" /\ at'[timer'[q]] = at[timer[q]]
  BY <1>2, <1>3, FiredTimer
<1> QED
  BY Zenon, <1>1, <1>3, <1>4, <1>5 DEF InfosKept

(* checkPlayer of a player who is not online, or who is kicked.            *)
LEMMA CheckEndsInv ==
    ASSUME AInv, pc = "fire", NEW t \in list, Gone(owner[t], t) \/ Kicked(owner[t], t)
    PROVE  AInv'
<1> DEFINE p == owner[t]
<1>1. p \in Players /\ played[p] \in Nat
  BY Zenon, FiredTimer DEF AInv, AddictedTypeOK
<1>2. InfosKept /\ info'[p] = "none"
  BY Zenon, InfoFreed DEF Gone, Kicked
<1>3. UNCHANGED <<online, login>>
  BY Zenon DEF Gone, Kicked, propVars
<1>4. /\ played' \in [Players -> Nat] /\ logout' \in [Players -> Nat]
      /\ \A q \in Players \ {p} : played'[q] = played[q]
  <2>1. CASE Gone(p, t)
    BY Zenon, <2>1 DEF Gone, propVars, AInv, AddictedTypeOK
  <2>2. CASE Kicked(p, t)
    BY Zenon, <1>1, <2>2, LoggedOutTyped DEF Kicked
  <2> QED
    BY Zenon, <2>1, <2>2
<1> HIDE DEF p
<1>5. \A q \in Players : played[q] \in Nat /\ login[q] \in Nat /\ login[q] <= now
  BY Zenon DEF AInv, AddictedTypeOK
<1>6. \A q \in Players : info'[q] = "watched" => played'[q] - login'[q] <= played[q] - login[q]
  BY <1>2, <1>3, <1>4, <1>5
<1> QED
  BY Zenon, <1>2, <1>3, <1>4, <1>5, <1>6, MessageInv DEF AInv, AddictedTypeOK

(* The seconds to the next check: at least one, less than a lap, and not   *)
(* past the check for the kick.  So timer_add never refuses that check.    *)
LEMMA StepInLap ==
    ASSUME AInv, NEW p \in Players, Played(p) < KickTime + Grace
    PROVE  /\ Played(p) \in Int /\ Step(p) \in 1 .. MaxTimer - 1
           /\ Played(p) + Step(p) <= KickTime + Extra
<1> DEFINE x == Played(p)
           r == x % NotifyTime
           since == next - login[p]
<1>1. x \in Int /\ since \in Int
  BY DEF Played, AInv, AddictedTypeOK, TypeOK
<1>2. /\ KickTime \in Nat /\ Extra \in Nat /\ Grace \in Nat /\ Grace < Extra
      /\ NotifyTime \in Nat \ {0} /\ FirstNotify \in Nat /\ MaxTimer \in Nat /\ MaxTimer > 1
  BY Zenon, AddictedAssumption, TimerAssumption
<1>3. r \in 0 .. NotifyTime - 1
  BY <1>1, <1>2
<1>4. ~Sent(p) => since < FirstNotify
  BY <1>1, <1>2 DEF Sent
<1>5. Step(p) = LET secKick == KickTime - x + Extra
                    hour == NotifyTime - r
                    secNotify == IF Sent(p) THEN hour ELSE Least(hour, FirstNotify - since)
                IN Least(Least(secKick, secNotify), MaxTimer - 1)
  BY Zenon DEF Step
<1> HIDE DEF x, r, since
<1>6. x < KickTime + Grace
  BY Zenon DEF x
<1>7. Step(p) \in 1 .. MaxTimer - 1 /\ x + Step(p) <= KickTime + Extra
  BY <1>1, <1>2, <1>3, <1>4, <1>5, <1>6 DEF Least
<1> QED
  BY Zenon, <1>1, <1>7 DEF x

(* checkPlayer sets the next timer.                                        *)
LEMMA RearmInv ==
    ASSUME AInv, pc = "fire", NEW t \in list, Rearm(owner[t], t)
    PROVE  AInv'
<1> DEFINE p == owner[t]
           a == next + Step(p)
<1>1. PICK u \in Timers :
         /\ Free(u)
         /\ FireAdd(t, u, a)
         /\ timer' = [timer EXCEPT ![p] = u]
         /\ owner' = [owner EXCEPT ![u] = p]
  BY Zenon DEF Rearm
<1>2. /\ sended' = [sended EXCEPT ![p] = Sent(p)]
      /\ UNCHANGED <<info, online, played, login, logout>>
  BY Zenon DEF Rearm, propVars
<1>3. /\ t \in Timers /\ at[t] # 0 /\ p \in Players /\ info[p] = "watched"
      /\ \A w \in Timers \ {t} : at[w] # 0 => owner[w] # p
      /\ \A q \in Players \ {p} : info[q] = "watched" => timer[q] \in Timers \ {t}
  BY Zenon, FiredTimer
<1>4. /\ Step(p) \in 1 .. MaxTimer - 1 /\ next \in Nat /\ a \in Nat \ {0}
      /\ played[p] \in Nat /\ login[p] \in Nat
      /\ played[p] + a - login[p] <= KickTime + Extra
  <2>1. Played(p) \in Int /\ Step(p) \in 1 .. MaxTimer - 1
        /\ Played(p) + Step(p) <= KickTime + Extra
    BY Zenon, <1>3, StepInLap DEF Rearm
  <2>2. next \in Nat /\ played[p] \in Nat /\ login[p] \in Nat /\ KickTime + Extra \in Int
    BY <1>3, AddictedAssumption DEF AInv, AddictedTypeOK, TypeOK
  <2> QED
    BY <2>1, <2>2 DEF Played
<1> HIDE DEF p, a
<1>5. IInv'
  BY Zenon, <1>1, <1>4, FireAddInv DEF AInv
<1>6. u # t /\ at'[u] = a /\ at'[t] = 0 /\ \A w \in Timers \ {t, u} : at'[w] = at[w]
  BY Zenon, <1>1, <1>3 DEF FireAdd, AInv, IInv, TypeOK, Free
<1>7. /\ timer' \in [Players -> Timers \cup {NoTimer}] /\ owner' \in [Timers -> Players]
      /\ timer'[p] = u /\ \A q \in Players \ {p} : timer'[q] = timer[q]
      /\ owner'[u] = p /\ \A w \in Timers \ {u} : owner'[w] = owner[w]
  BY Zenon, <1>1, <1>3 DEF AInv, AddictedTypeOK
<1>8. sended' \in [Players -> BOOLEAN]
  <2>1. sended \in [Players -> BOOLEAN]
    BY Zenon DEF AInv, AddictedTypeOK
  <2>2. Sent(p) \in BOOLEAN
    BY Zenon, <1>3, <2>1 DEF Sent
  <2> QED
    BY Zenon, <1>2, <2>1, <2>2
<1>9. AddictedTypeOK'
  BY Zenon, <1>2, <1>5, <1>7, <1>8 DEF AInv, IInv, AddictedTypeOK
<1>10. /\ \A w \in Timers \ {t} : at[w] # 0 =>
             owner[w] \in Players \ {p} /\ info[owner[w]] = "watched" /\ timer[owner[w]] = w
       /\ \A q \in Players \ {p} :
             IF info[q] = "watched"
             THEN /\ timer[q] \in Timers \ {t, u} /\ timer[q] # NoTimer
                  /\ at[timer[q]] # 0 /\ owner[timer[q]] = q
             ELSE timer[q] = NoTimer
  BY Zenon, <1>1, <1>3 DEF AInv, InfoHasTimer, Free, AddictedTypeOK
<1>11. InfoHasTimer'
  <2>1. \A w \in Timers : at'[w] # 0 => info'[owner'[w]] = "watched" /\ timer'[owner'[w]] = w
    <3> SUFFICES ASSUME NEW w \in Timers, at'[w] # 0
                 PROVE  info'[owner'[w]] = "watched" /\ timer'[owner'[w]] = w
      BY Zenon
    <3>1. CASE w = u
      BY Zenon, <1>2, <1>3, <1>7, <3>1
    <3>2. CASE w # u
      <4>1. w \in Timers \ {t, u} /\ at[w] # 0 /\ owner'[w] = owner[w]
        BY Zenon, <1>6, <1>7, <3>2
      <4> QED
        BY <1>2, <1>7, <1>10, <4>1
    <3> QED
      BY Zenon, <3>1, <3>2
  <2>2. \A q \in Players :
           IF info'[q] = "watched"
           THEN timer'[q] # NoTimer /\ at'[timer'[q]] # 0 /\ owner'[timer'[q]] = q
           ELSE timer'[q] = NoTimer
    <3> SUFFICES ASSUME NEW q \in Players
                 PROVE  IF info[q] = "watched"
                        THEN timer'[q] # NoTimer /\ at'[timer'[q]] # 0 /\ owner'[timer'[q]] = q
                        ELSE timer'[q] = NoTimer
      BY Zenon, <1>2
    <3>1. CASE q = p
      <4>1. u # NoTimer /\ a # 0
        BY Zenon, <1>4, AddictedAssumption
      <4> QED
        BY Zenon, <1>3, <1>6, <1>7, <3>1, <4>1
    <3>2. CASE q # p
      <4>1. q \in Players \ {p} /\ timer'[q] = timer[q]
        BY Zenon, <1>7, <3>2
      <4>2. CASE info[q] = "watched"
        <5>1. /\ timer[q] \in Timers \ {t, u} /\ timer[q] # NoTimer
              /\ at[timer[q]] # 0 /\ owner[timer[q]] = q
          BY Zenon, <1>10, <4>1, <4>2
        <5>2. at'[timer[q]] = at[timer[q]] /\ owner'[timer[q]] = owner[timer[q]]
          BY Zenon, <1>6, <1>7, <5>1
        <5> QED
          BY Zenon, <4>1, <4>2, <5>1, <5>2
      <4>3. CASE info[q] # "watched"
        BY Zenon, <1>10, <4>1, <4>3
      <4> QED
        BY Zenon, <4>2, <4>3
    <3> QED
      BY Zenon, <3>1, <3>2
  <2> QED
    BY Zenon, <2>1, <2>2 DEF InfoHasTimer, Free
<1>12. ASSUME NEW q \in Players, info'[q] = "watched"
       PROVE  Due(q)'
  <2>1. CASE q = p
    BY Zenon, <1>2, <1>4, <1>6, <1>7, <2>1 DEF Due
  <2>2. CASE q # p
    <3>1. info[q] = "watched" /\ timer'[q] = timer[q]
      BY Zenon, <1>2, <1>7, <1>12, <2>2
    <3>2. at'[timer'[q]] = at[timer[q]]
      <4>1. timer[q] \in Timers \ {t, u}
        BY Zenon, <1>10, <2>2, <3>1
      <4> QED
        BY Zenon, <1>6, <3>1, <4>1
    <3>3. now' = now /\ Due(q)
      BY Zenon, <1>1, <3>1 DEF FireAdd, AInv
    <3> QED
      BY Zenon, <1>2, <3>2, <3>3 DEF Due
  <2> QED
    BY Zenon, <2>1, <2>2
<1>13. \A q \in Players : login'[q] <= now'
  BY Zenon, <1>1, <1>2 DEF FireAdd, AInv
<1> QED
  BY Zenon, <1>5, <1>9, <1>11, <1>12, <1>13 DEF AInv
-----------------------------------------------------------------------------
(* The state before the first message.                                     *)
LEMMA AddictedInitInv == AddictedInit => AInv
<1> SUFFICES ASSUME AddictedInit PROVE AInv
  BY Zenon
<1>1. IInv
  BY Zenon, InitInv DEF AddictedInit
<1>2. owner \in [Timers -> Players]
  BY Zenon, AddictedAssumption DEF AddictedInit
<1>3. AddictedTypeOK
  BY Zenon, <1>1, <1>2 DEF AddictedInit, AddictedTypeOK, IInv
<1> QED
  BY <1>1, <1>3 DEF AddictedInit, Init, AInv, InfoHasTimer, Free

(* Every step of the limits on playing time.                               *)
LEMMA AddictedStepInv ==
    ASSUME AInv, AddictedNext
    PROVE  AInv'
<1>1. CASE Wheel
  BY Zenon, <1>1, WheelInv
<1>2. CASE \E t \in Timers : Check(t)
  BY Zenon, <1>2, CheckEndsInv, RearmInv DEF Check
<1>3. CASE \E p \in Players :
             \/ Other(p) \/ LoginAdult(p) \/ LoginYoung(p) \/ Logout(p)
             \/ Kick(p) \/ Unload(p)
             \/ \E v \in {"adult", "watched"} : SetAdult(p, v)
  BY Zenon, <1>3, OtherInv, LoginInv, LogoutInv, ServiceInv
<1> QED
  BY Zenon, <1>1, <1>2, <1>3 DEF AddictedNext

\* The two uses of the wheel.
MCInv ==
    /\ IInv /\ AddictedTypeOK
    /\ part = "addicted" => AInv

(* Each use keeps its invariant.                                           *)
LEMMA BothInvHold == MCSpec => []MCInv
<1>1. MCInit => MCInv
  BY Zenon, AddictedInitInv DEF MCInit, MCInv, AInv
<1>2. ASSUME MCInv, MCNext PROVE MCInv'
  <2>1. CASE part = "wheel" /\ Next /\ UNCHANGED <<infoVars, propVars>>
    <3>1. IInv'
      BY Zenon, <1>2, <2>1, StepInv DEF MCInv
    <3> QED
      BY Zenon, <1>2, <2>1, <3>1
         DEF MCInv, MCNext, IInv, AddictedTypeOK, infoVars, propVars
  <2>2. CASE part = "addicted" /\ AddictedNext
    BY Zenon, <1>2, <2>2, AddictedStepInv DEF MCInv, MCNext, AInv
  <2> QED
    BY Zenon, <1>2, <2>1, <2>2 DEF MCNext
<1>3. ASSUME MCInv, UNCHANGED <<part, addictedVars>> PROVE MCInv'
  <2>1. UNCHANGED <<part, wheel, at, next, list, now, pc, info, timer, sended, owner,
                    online, played, login, logout>>
    BY Zenon, <1>3 DEF addictedVars, vars, timerVars, infoVars, propVars
  <2>2. IInv'
    BY Zenon, <1>3, <2>1, SameWheel DEF MCInv
  <2>3. AddictedTypeOK'
    BY Zenon, <1>3, <2>1, <2>2 DEF MCInv, IInv, AddictedTypeOK
  <2>4. AInv => AInv'
    BY Zenon, <2>1, <2>2, <2>3 DEF AInv, InfoHasTimer, Due, Free
  <2> QED
    BY Zenon, <1>3, <2>1, <2>2, <2>3, <2>4 DEF MCInv
<1> QED
  BY <1>1, <1>2, <1>3, PTL DEF MCSpec

(* The infos that are allocated and the timers in the wheel belong to each *)
(* other, for any players and in any order of logins, logouts, kicks,      *)
(* changes of age, unloads and checks: checkPlayer never runs with an info *)
(* that was freed, and nobody drops out of being checked.                  *)
THEOREM WatchingHolds == MCSpec => []Watching
<1>1. MCInv => Watching
  BY Zenon DEF MCInv, AInv, Watching
<1> QED
  BY <1>1, BothInvHold, PTL

(* checkPlayer runs before a minor exceeds the limit by more than Extra    *)
(* seconds, for all values of the limits.                                  *)
THEOREM InTimeHolds == MCSpec => []InTime
<1>1. MCInv => InTime
  BY Zenon DEF MCInv, AInv, InTime, CheckedInTime, Due
<1> QED
  BY <1>1, BothInvHold, PTL
=============================================================================
