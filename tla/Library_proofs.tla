--------------------------- MODULE Library_proofs ---------------------------
(***************************************************************************)
(* Proofs about the two libraries the servers are built on: the resource   *)
(* pool of the framework and the threads of the Lua servers.               *)
(*                                                                         *)
(* The resource pool, for every number of slots and every id width.  The   *)
(* inductive invariant joins the shape of the idle list (which type        *)
(* correctness already needs: a pop reads the link of the head) with the   *)
(* congruence of an id and its slot, and with the order of the ids a slot  *)
(* goes through; NoneLost adds that the list leaves out no idle slot.      *)
(*                                                                         *)
(* The threads, for any number of threads and services, any timeouts and   *)
(* any bound on the serial numbers.  The inductive invariant WaitsInv adds *)
(* that serial numbers are not reused and that the threads an update has   *)
(* taken out, and has still to resume, are nowhere else.                   *)
(***************************************************************************)
EXTENDS Lrm, MCServices, FiniteSetTheorems, TLAPS

\* The ids of the slots in use are the ids handed out.
IdsMatchSlots ==
    Congruent =>
        /\ \A s \in Slots : SlotOf(id[s]) = s
        /\ \A s \in Slots : next[s] = InUse <=> id[s] \in held
        /\ \A i \in held : Resolves(i)

\* Before an overflow the ids of a slot only grow.
StaleIdsBehind ==
    ~wrapped => \A i \in stale : i < id[SlotOf(i)]

IInv ==
    /\ TypeOK
    /\ IdleListSound
    /\ InvalidNeverCarried
    /\ IdsMatchSlots
    /\ StaleIdsBehind
-----------------------------------------------------------------------------
(* Arithmetic of remainders.                                               *)

(* A positive multiple of m is at least m.                                 *)
LEMMA MultipleAtLeast ==
    ASSUME NEW m \in Nat \ {0}, NEW d \in Int, d >= 1
    PROVE  m * d >= m
  BY Z3

(* The remainder of a division is unique.                                  *)
LEMMA RemainderUnique ==
    ASSUME NEW m \in Nat \ {0}, NEW q \in Int, NEW p \in Int,
           NEW r \in 0 .. m - 1, NEW t \in 0 .. m - 1,
           m * q + r = m * p + t
    PROVE  r = t
<1>1. CASE q >= p + 1
  <2>1. m * (q - p) >= m
    BY <1>1, MultipleAtLeast
  <2>2. m * (q - p) = m * q - m * p
    OBVIOUS
  <2> QED
    BY <2>1, <2>2
<1>2. CASE p >= q + 1
  <2>1. m * (p - q) >= m
    BY <1>2, MultipleAtLeast
  <2>2. m * (p - q) = m * p - m * q
    OBVIOUS
  <2> QED
    BY <2>1, <2>2
<1> QED
  BY <1>1, <1>2

(* What \div and % compute.                                                *)
LEMMA Division ==
    ASSUME NEW m \in Nat \ {0}, NEW a \in Nat
    PROVE  /\ a % m \in 0 .. m - 1
           /\ a \div m \in Int
           /\ a = m * (a \div m) + (a % m)
  OBVIOUS

(* Adding a multiple of m does not change the remainder.                   *)
LEMMA RemainderShift ==
    ASSUME NEW m \in Nat \ {0}, NEW a \in Nat, NEW b \in Nat, b % m = 0
    PROVE  (a + b) % m = a % m
<1> DEFINE qa == a \div m
           qb == b \div m
           qc == (a + b) \div m
<1>1. a = m * qa + (a % m) /\ qa \in Int /\ a % m \in 0 .. m - 1
  BY Zenon, Division
<1>2. b = m * qb /\ qb \in Int
  BY Division
<1>3. a + b \in Nat
  OBVIOUS
<1>4. a + b = m * qc + ((a + b) % m) /\ qc \in Int /\ (a + b) % m \in 0 .. m - 1
  BY Zenon, <1>3, Division
<1> HIDE DEF qa, qb, qc
<1>5. m * (qa + qb) = m * qa + m * qb
  BY <1>1, <1>2
<1>6. m * qc + ((a + b) % m) = m * (qa + qb) + (a % m)
  BY <1>1, <1>2, <1>4, <1>5
<1>7. qa + qb \in Int
  BY <1>1, <1>2
<1> QED
  BY Zenon, <1>1, <1>4, <1>6, <1>7, RemainderUnique

(* A number below m is its own remainder.                                  *)
LEMMA SmallRemainder ==
    ASSUME NEW m \in Nat \ {0}, NEW a \in 0 .. m - 1
    PROVE  a % m = a
<1>1. a \in Nat /\ a % m \in 0 .. m - 1 /\ a \div m \in Int
  BY Division
<1>2. m * 0 + a = m * (a \div m) + (a % m)
  BY <1>1, Division
<1> QED
  BY <1>1, <1>2, RemainderUnique
-----------------------------------------------------------------------------
(* Every id points at a slot.                                              *)
LEMMA SlotOfId ==
    ASSUME NEW i \in Ids
    PROVE  SlotOf(i) \in Slots
<1>1. i \in Nat /\ MaxRes \in Nat \ {0}
  BY LrmAssumption DEF Ids
<1> QED
  BY Zenon, <1>1, Division DEF SlotOf, Slots

(* The reduction of a sum to the width of resid_t is one subtraction.      *)
LEMMA WrapAround ==
    ASSUME NEW a \in Ids
    PROVE  (a + MaxRes) % IdSpace =
             IF a + MaxRes < IdSpace THEN a + MaxRes ELSE a + MaxRes - IdSpace
<1> DEFINE b == a + MaxRes
<1>1. b \in Nat /\ b < 2 * IdSpace /\ IdSpace \in Nat \ {0}
  BY LrmAssumption DEF Ids
<1> HIDE DEF b
<1> DEFINE q == b \div IdSpace
<1>2. b = IdSpace * q + (b % IdSpace) /\ q \in Int /\ b % IdSpace \in 0 .. IdSpace - 1
  BY Zenon, <1>1, Division
<1> HIDE DEF q
<1>3. CASE b < IdSpace
  <2>1. IdSpace * 0 + b = IdSpace * q + (b % IdSpace)
    BY <1>1, <1>2
  <2>2. b \in 0 .. IdSpace - 1
    BY <1>1, <1>3
  <2> QED
    BY <1>1, <1>2, <1>3, <2>1, <2>2, RemainderUnique DEF b
<1>4. CASE b >= IdSpace
  <2>1. IdSpace * 1 + (b - IdSpace) = IdSpace * q + (b % IdSpace)
    BY <1>1, <1>2
  <2>2. b - IdSpace \in 0 .. IdSpace - 1
    BY <1>1, <1>4
  <2>3. b - IdSpace = b % IdSpace
    BY <1>1, <1>2, <2>1, <2>2, RemainderUnique
  <2> QED
    BY <1>1, <1>4, <2>3, LrmAssumption DEF b, Ids
<1> QED
  BY <1>1, <1>3, <1>4

(* The id a released slot gets is an id, is not INVALID_ID, stays on the   *)
(* slot unless it overflows a space that MaxRes does not divide, and is    *)
(* larger unless it overflows.                                             *)
LEMMA NextIdFacts ==
    ASSUME NEW i \in Ids
    PROVE  /\ NextId(i) \in Ids
           /\ NextId(i) # INVALID_ID
           /\ NextId(i) # i
           /\ ~(NextId(i) < i) => NextId(i) = i + MaxRes
           /\ (~(NextId(i) < i) \/ IdSpace % MaxRes = 0) => SlotOf(NextId(i)) = SlotOf(i)
<1> DEFINE j == (i + MaxRes) % IdSpace
<1>1. /\ i \in Nat /\ MaxRes \in Nat \ {0} /\ IdSpace \in Nat
      /\ 0 <= i /\ i <= IdSpace - 1 /\ IdSpace > 2 * MaxRes + 1
      /\ INVALID_ID = IdSpace - 1
  BY LrmAssumption DEF Ids, INVALID_ID
<1>2. j = IF i + MaxRes < IdSpace THEN i + MaxRes ELSE i + MaxRes - IdSpace
  BY Zenon, WrapAround
<1>3. j \in Ids
  BY <1>1, <1>2 DEF Ids
<1>4. (j + MaxRes) % IdSpace =
        IF j + MaxRes < IdSpace THEN j + MaxRes ELSE j + MaxRes - IdSpace
  BY Zenon, <1>3, WrapAround
<1>5. NextId(i) = IF j = INVALID_ID THEN (j + MaxRes) % IdSpace ELSE j
  BY Zenon DEF NextId
<1> HIDE DEF j
<1>6. \/ NextId(i) = i + MaxRes /\ i + MaxRes < IdSpace - 1
      \/ NextId(i) = i + MaxRes - IdSpace /\ i + MaxRes >= IdSpace
      \/ NextId(i) = MaxRes - 1 /\ i + MaxRes = IdSpace - 1
  BY <1>1, <1>2, <1>4, <1>5
<1>7. /\ NextId(i) \in Ids
      /\ NextId(i) # INVALID_ID
      /\ NextId(i) # i
      /\ ~(NextId(i) < i) => NextId(i) = i + MaxRes
  BY <1>1, <1>6 DEF Ids
<1>8. MaxRes % MaxRes = 0
  <2>1. MaxRes * 1 + 0 = MaxRes * (MaxRes \div MaxRes) + (MaxRes % MaxRes)
    BY <1>1, Division
  <2> QED
    BY <1>1, <2>1, Division, RemainderUnique
<1>9. (i + MaxRes) % MaxRes = i % MaxRes
  BY Zenon, <1>1, <1>8, RemainderShift
<1>10. ASSUME IdSpace % MaxRes = 0 PROVE NextId(i) % MaxRes = i % MaxRes
  <2>1. CASE NextId(i) = i + MaxRes
    BY Zenon, <2>1, <1>9
  <2>2. CASE NextId(i) = i + MaxRes - IdSpace /\ i + MaxRes >= IdSpace
    <3>1. NextId(i) \in Nat /\ NextId(i) + IdSpace = i + MaxRes
      BY <1>1, <2>2
    <3>2. (NextId(i) + IdSpace) % MaxRes = NextId(i) % MaxRes
      BY Zenon, <1>1, <1>10, <3>1, RemainderShift
    <3> QED
      BY Zenon, <3>1, <3>2, <1>9
  <2>3. CASE NextId(i) = MaxRes - 1 /\ i + MaxRes = IdSpace - 1
    <3>1. /\ NextId(i) \in Nat /\ NextId(i) + IdSpace = i + MaxRes + MaxRes
          /\ i + MaxRes \in Nat
      BY <1>1, <2>3
    <3>2. (NextId(i) + IdSpace) % MaxRes = NextId(i) % MaxRes
      BY Zenon, <1>1, <1>10, <3>1, RemainderShift
    <3>3. (i + MaxRes + MaxRes) % MaxRes = (i + MaxRes) % MaxRes
      BY Zenon, <1>1, <1>8, <3>1, RemainderShift
    <3> QED
      BY Zenon, <3>1, <3>2, <3>3, <1>9
  <2> QED
    BY Zenon, <2>1, <2>2, <2>3, <1>6
<1>11. ~(NextId(i) < i) => NextId(i) % MaxRes = i % MaxRes
  BY Zenon, <1>7, <1>9
<1> QED
  BY Zenon, <1>7, <1>10, <1>11 DEF SlotOf
-----------------------------------------------------------------------------
(* The links of the pool after init_lrm_idle_list.                         *)
LEMMA InitInv == Init => IInv
<1> SUFFICES ASSUME Init PROVE IInv
  BY Zenon
<1>1. TypeOK
  <2>1. id \in [Slots -> Ids] /\ idle \in Slots
    BY LrmAssumption DEF Init, Slots, Ids
  <2>2. next \in [Slots -> Slots \cup {InUse, End}]
    <3>1. \A s \in Slots : s + 1 \in Slots \cup {InUse, End}
      BY LrmAssumption DEF Slots, End
    <3> QED
      BY Zenon, <3>1 DEF Init
  <2> QED
    BY Zenon, <2>1, <2>2 DEF Init, TypeOK
<1>2. IdleListSound
  BY LrmAssumption DEF Init, IdleListSound, Slots, InUse, End
<1>3. InvalidNeverCarried
  BY LrmAssumption DEF Init, InvalidNeverCarried, Slots, INVALID_ID
<1>4. IdsMatchSlots
  <2>1. \A s \in Slots : s % MaxRes = s
    <3> SUFFICES ASSUME NEW s \in Slots PROVE s % MaxRes = s
      BY Zenon
    <3> QED
      BY Zenon, LrmAssumption, SmallRemainder DEF Slots
  <2>2. \A s \in Slots : next[s] # InUse
    BY LrmAssumption DEF Init, Slots, InUse
  <2> QED
    BY Zenon, <2>1, <2>2 DEF Init, IdsMatchSlots, SlotOf
<1> QED
  BY Zenon, <1>1, <1>2, <1>3, <1>4 DEF Init, IInv, StaleIdsBehind

(* _agR_new keeps the invariant.                                           *)
LEMMA NewInv == ASSUME IInv, Congruent, New PROVE IInv'
<1>1. idle \in Slots /\ next[idle] \in Slots \cup {End}
  BY Zenon DEF IInv, TypeOK, New, IdleListSound
<1>2. InUse \notin Slots /\ End \notin Slots /\ InUse # End
  BY LrmAssumption DEF Slots, InUse, End
<1>3. TypeOK'
  BY Zenon, <1>1 DEF IInv, TypeOK, New
<1>4. IdleListSound'
  BY <1>1, <1>2 DEF IInv, TypeOK, New, IdleListSound
<1>5. InvalidNeverCarried'
  BY Zenon DEF IInv, New, InvalidNeverCarried, Slots, INVALID_ID
<1>6. IdsMatchSlots'
  <2>1. /\ \A s \in Slots : SlotOf(id[s]) = s
        /\ \A s \in Slots : next[s] = InUse <=> id[s] \in held
        /\ \A i \in held : Resolves(i)
    BY Zenon DEF IInv, IdsMatchSlots
  <2>2. \A s \in Slots : id[s] = id[idle] => s = idle
    BY Zenon, <1>1, <2>1
  <2>3. \A i \in held' : Resolves(i)'
    BY Zenon, <1>1, <2>1 DEF New, Resolves, SlotOf
  <2>4. \A s \in Slots : next'[s] = InUse <=> id'[s] \in held'
    BY Zenon, <1>1, <2>1, <2>2 DEF New, IInv, TypeOK
  <2> QED
    BY Zenon, <2>1, <2>3, <2>4 DEF New, IdsMatchSlots, SlotOf, Slots, Congruent, InUse
<1>7. StaleIdsBehind'
  BY Zenon DEF IInv, New, StaleIdsBehind, SlotOf
<1> QED
  BY Zenon, <1>3, <1>4, <1>5, <1>6, <1>7 DEF IInv

(* _agR_free keeps the invariant.                                          *)
LEMMA FreeInv ==
    ASSUME IInv, Congruent, NEW i \in held, Free(i)
    PROVE  IInv'
<1> DEFINE s == SlotOf(i)
           j == NextId(id[s])
<1>1. /\ i \in Ids /\ s \in Slots /\ id[s] = i /\ next[s] = InUse
  <2>1. i \in Ids
    BY Zenon DEF IInv, TypeOK
  <2>2. s \in Slots
    BY Zenon, <2>1, SlotOfId DEF s
  <2> QED
    BY Zenon, <2>1, <2>2 DEF Free, Resolves, IInv, IdsMatchSlots
<1>2. /\ j \in Ids /\ j # INVALID_ID /\ j # i
      /\ ~(j < i) => j = i + MaxRes
      /\ (~(j < i) \/ IdSpace % MaxRes = 0) => SlotOf(j) = s
  BY Zenon, <1>1, NextIdFacts
<1>3. /\ id' = [id EXCEPT ![s] = j]
      /\ next' = [next EXCEPT ![s] = idle]
      /\ idle' = s
      /\ held' = held \ {i}
      /\ stale' = stale \cup {i}
      /\ wrapped' = (wrapped \/ j < i)
  BY Zenon, <1>1 DEF Free
<1> HIDE DEF j, s
<1>4. InUse \notin Slots /\ End \notin Slots /\ InUse # End
  BY LrmAssumption DEF Slots, InUse, End
<1>5. TypeOK'
  BY Zenon, <1>1, <1>2, <1>3 DEF IInv, TypeOK
<1>6. IdleListSound'
  BY <1>1, <1>3, <1>4 DEF IInv, TypeOK, IdleListSound
<1>7. InvalidNeverCarried'
  BY Zenon, <1>1, <1>2, <1>3 DEF IInv, TypeOK, InvalidNeverCarried, Slots, INVALID_ID
<1>8. IdsMatchSlots'
  <2> SUFFICES ASSUME Congruent'
               PROVE  /\ \A t \in Slots : SlotOf(id'[t]) = t
                      /\ \A t \in Slots : next'[t] = InUse <=> id'[t] \in held'
                      /\ \A k \in held' : id'[SlotOf(k)] = k
    BY Zenon DEF IdsMatchSlots, Slots, SlotOf, Resolves, InUse
  <2>1. /\ \A t \in Slots : SlotOf(id[t]) = t
        /\ \A t \in Slots : next[t] = InUse <=> id[t] \in held
        /\ \A k \in held : id[SlotOf(k)] = k
    BY Zenon DEF IInv, IdsMatchSlots, Resolves
  <2>2. SlotOf(j) = s
    BY Zenon, <1>2, <1>3 DEF Congruent
  <2>3. \A t \in Slots : SlotOf(id'[t]) = t
    BY Zenon, <1>1, <1>3, <2>1, <2>2 DEF IInv, TypeOK
  <2>4. j \notin held
    BY Zenon, <1>1, <1>2, <2>1, <2>2
  <2>5. \A t \in Slots : id[t] = i => t = s
    BY Zenon, <1>1, <2>1 DEF s
  <2>6. \A t \in Slots : next'[t] = InUse <=> id'[t] \in held'
    BY Zenon, <1>1, <1>3, <1>4, <2>1, <2>4, <2>5 DEF IInv, TypeOK
  <2>7. \A k \in held' : k \in held /\ SlotOf(k) # s
    BY Zenon, <1>1, <1>3, <2>1
  <2>8. \A k \in held : SlotOf(k) \in Slots
    BY Zenon, SlotOfId DEF IInv, TypeOK
  <2>9. \A k \in held' : id'[SlotOf(k)] = k
    BY Zenon, <1>3, <2>1, <2>7, <2>8 DEF IInv, TypeOK
  <2> QED
    BY Zenon, <2>3, <2>6, <2>9
<1>9. StaleIdsBehind'
  <2> SUFFICES ASSUME ~wrapped', NEW k \in stale' PROVE k < id'[SlotOf(k)]
    BY Zenon DEF StaleIdsBehind, SlotOf
  <2>1. ~wrapped /\ j = i + MaxRes
    BY Zenon, <1>2, <1>3
  <2>2. i < j
    BY <1>1, <2>1, LrmAssumption DEF Ids
  <2>3. CASE k = i
    BY Zenon, <1>1, <1>3, <2>2, <2>3 DEF IInv, TypeOK, s
  <2>4. CASE k \in stale
    <3>1. k \in Ids /\ SlotOf(k) \in Slots /\ k < id[SlotOf(k)]
      BY Zenon, <2>1, <2>4, SlotOfId DEF IInv, TypeOK, StaleIdsBehind
    <3>2. CASE SlotOf(k) = s
      <4>1. k < i
        BY Zenon, <1>1, <3>1, <3>2
      <4>2. id'[SlotOf(k)] = j
        BY Zenon, <1>1, <1>3, <3>2 DEF IInv, TypeOK
      <4> QED
        BY <1>1, <1>2, <2>2, <3>1, <4>1, <4>2 DEF Ids
    <3>3. CASE SlotOf(k) # s
      BY Zenon, <1>3, <3>1, <3>3 DEF IInv, TypeOK
    <3> QED
      BY Zenon, <3>2, <3>3
  <2> QED
    BY Zenon, <1>3, <2>3, <2>4
<1> QED
  BY Zenon, <1>5, <1>6, <1>7, <1>8, <1>9 DEF IInv

(* The inductive invariant holds in every state of the pool.               *)
THEOREM Inductive == Spec => []IInv
<1>1. IInv /\ [Next]_vars => IInv'
  <2> SUFFICES ASSUME IInv, [Next]_vars PROVE IInv'
    BY Zenon
  <2>1. CASE Congruent /\ New
    BY Zenon, <2>1, NewInv
  <2>2. ASSUME Congruent, NEW i \in held, Free(i) PROVE IInv'
    BY Zenon, <2>2, FreeInv
  <2>3. CASE UNCHANGED vars
    BY Zenon, <2>3 DEF vars, IInv, TypeOK, IdleListSound, InvalidNeverCarried,
                IdsMatchSlots, StaleIdsBehind, Congruent, Resolves, SlotOf,
                Slots, Ids, InUse, End, INVALID_ID
  <2> QED
    BY Zenon, <2>1, <2>2, <2>3 DEF Next
<1> QED
  BY <1>1, InitInv, PTL DEF Spec
-----------------------------------------------------------------------------
(* Every variable of the pool keeps its type; in particular a pop never    *)
(* puts the null link of a slot in use at the head of the idle list.       *)
THEOREM TypeCorrect == Spec => []TypeOK
  BY Inductive, PTL DEF IInv

(* Every id that _agR_new handed out is found by _agR_get until _agR_free, *)
(* on a slot in use: before an overflow, or forever when the number of     *)
(* slots divides the id space.                                             *)
THEOREM HeldIdResolves == Spec => []LiveIdResolves
<1>1. IInv => LiveIdResolves
  <2> SUFFICES ASSUME IInv, Congruent, NEW i \in held
               PROVE  Resolves(i) /\ next[SlotOf(i)] = InUse
    BY Zenon DEF LiveIdResolves
  <2>1. SlotOf(i) \in Slots /\ id[SlotOf(i)] = i
    BY Zenon, SlotOfId DEF IInv, TypeOK, IdsMatchSlots, Resolves
  <2> QED
    BY Zenon, <2>1 DEF IInv, IdsMatchSlots, Resolves
<1> QED
  BY <1>1, Inductive, PTL

(* Before an overflow no released id is ever found again: a late use of a  *)
(* connection id cannot reach the connection that took over its slot.      *)
THEOREM ReleasedIdRejected == Spec => []StaleIdRejected
<1>1. IInv => StaleIdRejected
  <2> SUFFICES ASSUME IInv, ~wrapped, NEW i \in stale
               PROVE  id[SlotOf(i)] # i
    BY Zenon DEF StaleIdRejected, Resolves
  <2>1. i \in Ids /\ i < id[SlotOf(i)] /\ id[SlotOf(i)] \in Ids
    BY Zenon, SlotOfId DEF IInv, TypeOK, StaleIdsBehind
  <2> QED
    BY <2>1 DEF Ids
<1> QED
  BY <1>1, Inductive, PTL

(* The idle list links idle slots only, without joins and without a link   *)
(* to its head.                                                            *)
THEOREM IdleListCorrect == Spec => []IdleListSound
  BY Inductive, PTL DEF IInv

(* No slot carries INVALID_ID and none hands it out: NextId skips it, also *)
(* where the sum overflows.                                                *)
THEOREM InvalidSkipped == Spec => []InvalidNeverCarried
  BY Inductive, PTL DEF IInv

(* The pool implements ResourceIds when, as in the programs, the number of *)
(* slots does not divide the id space: whatever is allocated and released, *)
(* every id it hands out is valid and was never handed out before.         *)
THEOREM PoolImplements ==
    ASSUME IdSpace % MaxRes # 0
    PROVE  Spec => ImplementsPool
<1>1. Init => Pool!Init
  BY Zenon DEF Init, Pool!Init
<1>2. IInv /\ [Next]_vars => [Pool!HandOut \/ Pool!Release]_<<held, stale>>
  <2> SUFFICES ASSUME IInv, [Next]_vars
               PROVE  [Pool!HandOut \/ Pool!Release]_<<held, stale>>
    BY Zenon
  <2>1. CASE Congruent /\ New
    <3>1. ~wrapped
      BY Zenon, <2>1 DEF Congruent
    <3>2. idle \in Slots /\ next[idle] # InUse
      BY Zenon, <2>1 DEF New, IInv, TypeOK, IdleListSound
    <3>3. id[idle] \in Ids \ {INVALID_ID} /\ SlotOf(id[idle]) = idle
      BY Zenon, <2>1, <3>2 DEF IInv, TypeOK, InvalidNeverCarried, IdsMatchSlots
    <3>4. id[idle] \notin held
      BY Zenon, <2>1, <3>2 DEF IInv, IdsMatchSlots
    <3>5. id[idle] \notin stale
      BY <3>1, <3>3 DEF IInv, StaleIdsBehind, Ids
    <3> QED
      BY Zenon, <2>1, <3>3, <3>4, <3>5 DEF New, Pool!HandOut
  <2>2. ASSUME NEW i \in held, Free(i)
        PROVE  Pool!Release
    BY Zenon, <2>2 DEF Free, Pool!Release
  <2>3. CASE UNCHANGED vars
    BY Zenon, <2>3 DEF vars
  <2> QED
    BY Zenon, <2>1, <2>2, <2>3 DEF Next
<1> QED
  BY <1>1, <1>2, Inductive, PTL DEF Spec, ImplementsPool, Pool!Spec
-----------------------------------------------------------------------------
(***************************************************************************)
(* No slot is lost.  Every idle slot is reached from the head of the idle  *)
(* list: each but the head has a slot before it, of a higher rank, and no  *)
(* rank reaches top.                                                       *)
(***************************************************************************)
Reached(rank, top) ==
    \A s \in Slots : next[s] # InUse =>
        /\ rank[s] < top
        /\ s = idle \/ \E t \in Slots : next[t] = s /\ rank[t] > rank[s]

NoneLost == \E rank \in [Slots -> Nat] : \E top \in Nat : Reached(rank, top)

(* init_lrm_idle_list links all slots.                                     *)
LEMMA InitNoneLost == Init => NoneLost
<1> SUFFICES ASSUME Init PROVE NoneLost
  BY Zenon
<1> DEFINE rank == [s \in Slots |-> MaxRes - s]
<1>1. rank \in [Slots -> Nat] /\ MaxRes + 1 \in Nat
  BY LrmAssumption DEF Slots
<1>2. ASSUME NEW s \in Slots, s # idle
      PROVE  \E t \in Slots : next[t] = s /\ rank[t] > rank[s]
  <2>1. s - 1 \in Slots /\ next[s - 1] = s /\ rank[s - 1] > rank[s]
    BY <1>2, LrmAssumption DEF Init, Slots
  <2> QED
    BY Zenon, <2>1
<1>3. \A s \in Slots : rank[s] < MaxRes + 1
  BY LrmAssumption DEF Slots
<1>4. Reached(rank, MaxRes + 1)
  BY Zenon, <1>2, <1>3 DEF Reached
<1> QED
  BY Zenon, <1>1, <1>4 DEF NoneLost

(* _agR_new takes the head, _agR_free puts a new one before it.            *)
LEMMA StepNoneLost == IInv /\ NoneLost /\ [Next]_vars => NoneLost'
<1> SUFFICES ASSUME IInv, NoneLost, [Next]_vars PROVE NoneLost'
  BY Zenon
<1>1. PICK rank \in [Slots -> Nat], top \in Nat : Reached(rank, top)
  BY Zenon DEF NoneLost
<1>2. InUse \notin Slots /\ End \notin Slots /\ InUse # End
  BY LrmAssumption DEF Slots, InUse, End
<1>3. CASE New
  <2>1. idle \in Slots /\ idle' = next[idle] /\ next' = [next EXCEPT ![idle] = InUse]
    BY Zenon, <1>3 DEF IInv, TypeOK, New
  <2>2. next \in [Slots -> Slots \cup {InUse, End}]
    BY Zenon DEF IInv, TypeOK
  <2>3. ASSUME NEW s \in Slots, next'[s] # InUse
        PROVE  /\ rank[s] < top
               /\ s = idle' \/ \E t \in Slots : next'[t] = s /\ rank[t] > rank[s]
    <3>1. s # idle /\ next[s] # InUse
      BY Zenon, <2>1, <2>2, <2>3
    <3>2. rank[s] < top /\ \E t \in Slots : next[t] = s /\ rank[t] > rank[s]
      BY Zenon, <1>1, <3>1 DEF Reached
    <3>3. PICK t \in Slots : next[t] = s /\ rank[t] > rank[s]
      BY Zenon, <3>2
    <3>4. CASE t = idle
      BY Zenon, <2>1, <3>2, <3>3, <3>4
    <3>5. CASE t # idle
      <4>1. next'[t] = s
        BY Zenon, <2>1, <2>2, <3>3, <3>5
      <4> QED
        BY Zenon, <3>2, <3>3, <4>1
    <3> QED
      BY Zenon, <3>4, <3>5
  <2>4. Reached(rank, top)'
    BY Zenon, <2>3 DEF Reached, Slots, InUse
  <2> QED
    BY Zenon, <2>4 DEF NoneLost, Slots
<1>4. ASSUME NEW i \in held, Free(i), Congruent PROVE NoneLost'
  <2> DEFINE s == SlotOf(i)
             higher == [rank EXCEPT ![s] = top]
  <2>1. s \in Slots
    BY Zenon, SlotOfId DEF IInv, TypeOK
  <2>2. next' = [next EXCEPT ![s] = idle] /\ idle' = s
    BY Zenon, <1>4 DEF Free
  <2>3. next \in [Slots -> Slots \cup {InUse, End}]
    BY Zenon DEF IInv, TypeOK
  <2>4. next[s] = InUse
    BY Zenon, <1>4, <2>1 DEF IInv, IdsMatchSlots, Free, Resolves
  <2> HIDE DEF s
  <2>5. higher \in [Slots -> Nat] /\ top + 1 \in Nat
    BY <2>1
  <2>6. ASSUME NEW q \in Slots, next'[q] # InUse
        PROVE  /\ higher[q] < top + 1
               /\ q = idle' \/ \E t \in Slots : next'[t] = q /\ higher[t] > higher[q]
    <3>1. CASE q = s
      <4>1. higher[q] = top
        BY Zenon, <2>1, <3>1
      <4> QED
        BY <2>2, <3>1, <4>1
    <3>2. CASE q # s
      <4>1. next[q] # InUse /\ higher[q] = rank[q]
        BY Zenon, <2>1, <2>2, <2>3, <2>6, <3>2
      <4>2. /\ rank[q] < top
            /\ q = idle \/ \E t \in Slots : next[t] = q /\ rank[t] > rank[q]
        BY Zenon, <1>1, <4>1 DEF Reached
      <4>3. rank[q] < top + 1
        BY <4>2
      <4>4. CASE q = idle
        <5>1. next'[s] = q /\ higher[s] = top
          BY Zenon, <2>1, <2>2, <2>3, <4>4
        <5>2. higher[s] > higher[q]
          BY <5>1, <4>1, <4>2
        <5> QED
          BY Zenon, <2>1, <4>1, <4>3, <5>1, <5>2
      <4>5. ASSUME NEW t \in Slots, next[t] = q, rank[t] > rank[q]
            PROVE  next'[t] = q /\ higher[t] > higher[q]
        <5>1. t # s
          BY Zenon, <1>2, <2>4, <4>5
        <5> QED
          BY Zenon, <2>1, <2>2, <2>3, <4>1, <4>5, <5>1
      <4> QED
        BY Zenon, <4>1, <4>2, <4>3, <4>4, <4>5
    <3> QED
      BY Zenon, <3>1, <3>2
  <2> HIDE DEF higher
  <2>7. Reached(higher, top + 1)'
    BY Zenon, <2>6 DEF Reached, Slots, InUse
  <2> QED
    BY Zenon, <2>5, <2>7 DEF NoneLost, Slots
<1>5. CASE UNCHANGED vars
  BY Zenon, <1>5 DEF vars, NoneLost, Reached, Slots, InUse
<1> QED
  BY Zenon, <1>3, <1>4, <1>5 DEF Next
-----------------------------------------------------------------------------
(* The slots in use, and their ids.                                        *)
Used == {s \in Slots : next[s] = InUse}

(* A nonempty set of natural numbers has a least element.                  *)
LEMMA LeastOf ==
    ASSUME NEW S, S \subseteq Nat, S # {}
    PROVE  \E m \in S : \A k \in S : m <= k
<1> DEFINE R == OpToRel(<, Nat)
<1>1. PICK m \in S : \A k \in S : ~(<<k, m>> \in R)
  BY Zenon, WFMin, NatLessThanWellFounded
<1>2. R = {ss \in Nat \X Nat : ss[1] < ss[2]}
  BY Zenon DEF OpToRel
<1> HIDE DEF R
<1>3. \A k, n \in Nat : k < n => <<k, n>> \in R
  <2> SUFFICES ASSUME NEW k \in Nat, NEW n \in Nat, k < n
               PROVE  <<k, n>> \in {ss \in Nat \X Nat : ss[1] < ss[2]}
    BY Zenon, <1>2
  <2> QED
    BY Zenon
<1>4. \A k \in S : ~(k < m)
  BY Zenon, <1>1, <1>3
<1>5. \A k \in S : m <= k
  <2> TAKE k \in S
  <2>1. k \in Nat /\ m \in Nat
    BY Zenon
  <2> QED
    BY <1>4, <2>1
<1> QED
  BY Zenon, <1>5

(* When the idle list is empty every slot is in use: of the idle slots one *)
(* with the highest rank would have a slot before it.                      *)
LEMMA EmptyListAllUsed == ASSUME NoneLost, idle = End PROVE Used = Slots
<1> SUFFICES ASSUME NEW s0 \in Slots, next[s0] # InUse PROVE FALSE
  BY Zenon DEF Used
<1>1. PICK rank \in [Slots -> Nat], top \in Nat : Reached(rank, top)
  BY Zenon DEF NoneLost
<1> DEFINE D == {k \in Nat : \E s \in Slots : next[s] # InUse /\ k = top - rank[s]}
<1>2. \A s \in Slots : next[s] # InUse => top - rank[s] \in D
  <2> TAKE s \in Slots
  <2> HAVE next[s] # InUse
  <2>1. rank[s] < top /\ rank[s] \in Nat
    BY Zenon, <1>1 DEF Reached
  <2>2. top - rank[s] \in Nat
    BY <2>1
  <2> QED
    BY Zenon, <2>2
<1>3. D \subseteq Nat /\ D # {}
  BY Zenon, <1>2
<1>4. PICK m \in D : \A k \in D : m <= k
  <2> HIDE DEF D
  <2> QED
    BY Zenon, <1>3, LeastOf
<1>5. PICK s \in Slots : next[s] # InUse /\ m = top - rank[s]
  BY Zenon, <1>4
<1>6. End \notin Slots /\ InUse \notin Slots
  BY LrmAssumption DEF End, Slots, InUse
<1>7. PICK t \in Slots : next[t] = s /\ rank[t] > rank[s]
  BY Zenon, <1>1, <1>5, <1>6 DEF Reached
<1>8. m <= top - rank[t]
  BY Zenon, <1>2, <1>4, <1>6, <1>7
<1> QED
  BY <1>5, <1>7, <1>8

(* As many ids are held as slots are in use.                               *)
LEMMA HeldCount ==
    ASSUME IInv, Congruent
    PROVE  /\ held = {id[s] : s \in Used}
           /\ \A s \in Used : s \in Slots /\ id[s] \in held /\ SlotOf(id[s]) = s
           /\ IsFiniteSet(Used) /\ Cardinality(held) = Cardinality(Used)
           /\ Cardinality(Used) \in 0 .. MaxRes
           /\ Used = Slots => Cardinality(Used) = MaxRes
<1>1. \A s \in Used : s \in Slots /\ id[s] \in held /\ SlotOf(id[s]) = s
  BY Zenon DEF Used, IInv, IdsMatchSlots
<1>2. \A i \in held : SlotOf(i) \in Slots /\ id[SlotOf(i)] = i
  BY Zenon, SlotOfId DEF IInv, TypeOK, IdsMatchSlots, Resolves
<1>3. \A i \in held : SlotOf(i) \in Used /\ id[SlotOf(i)] = i
  BY Zenon, <1>2 DEF Used, IInv, IdsMatchSlots
<1>4. held = {id[s] : s \in Used}
  BY Zenon, <1>1, <1>3
<1>5. /\ IsFiniteSet(Slots) /\ Cardinality(Slots) = MaxRes
  <2>1. /\ IsFiniteSet(0 .. MaxRes - 1)
        /\ Cardinality(0 .. MaxRes - 1) = IF 0 > MaxRes - 1 THEN 0 ELSE MaxRes - 1 - 0 + 1
    <3>1. 0 \in Int /\ MaxRes - 1 \in Int
      BY LrmAssumption
    <3> HIDE DEF Slots
    <3> QED
      BY Zenon, <3>1, FS_Interval
  <2> QED
    BY <2>1, LrmAssumption DEF Slots
<1>6. IsFiniteSet(Used) /\ Cardinality(Used) <= MaxRes
  <2>1. Used \in SUBSET Slots
    BY Zenon DEF Used
  <2> QED
    BY Zenon, <2>1, <1>5, FS_Subset
<1>7. Cardinality(Used) \in Nat
  BY Zenon, <1>6, FS_CardinalityType
<1>8. Cardinality(held) = Cardinality(Used)
  <2> DEFINE f == [s \in Used |-> id[s]]
  <2>1. f \in [Used -> held]
    BY Zenon, <1>1
  <2>2. \A a, b \in Used : f[a] = f[b] => a = b
    BY Zenon, <1>1
  <2>3. \A i \in held : \E s \in Used : f[s] = i
    BY Zenon, <1>3
  <2>4. f \in Bijection(Used, held)
    BY Zenon, <2>1, <2>2, <2>3 DEF Bijection, Injection, Surjection, IsInjective
  <2>5. ExistsBijection(Used, held)
    BY Zenon, <2>4 DEF ExistsBijection
  <2> QED
    BY Zenon, <1>6, <2>5, FS_Bijection
<1>9. Cardinality(Used) \in 0 .. MaxRes
  BY <1>6, <1>7, LrmAssumption
<1> QED
  BY Zenon, <1>1, <1>4, <1>5, <1>6, <1>8, <1>9

(* The walk is what its recursion says.                                    *)
LEMMA WalkStep ==
    \A k \in 0 .. MaxRes + 1 :
        Walk[k] = IF k = 0 THEN INVALID_ID ELSE AgRNext(Walk[k - 1])
<1> DEFINE Walks(m, f) ==
              f = [k \in 0 .. m |-> IF k = 0 THEN INVALID_ID ELSE AgRNext(f[k - 1])]
           Without == {m \in Nat : ~\E f : Walks(m, f)}
<1>1. \E f : Walks(0, f)
  <2> DEFINE f == [k \in 0 .. 0 |-> INVALID_ID]
  <2>1. \A k \in 0 .. 0 : k = 0
    OBVIOUS
  <2>2. f = [k \in 0 .. 0 |-> IF k = 0 THEN INVALID_ID ELSE AgRNext(f[k - 1])]
    BY Zenon, <2>1
  <2> QED
    BY Zenon, <2>2
<1>2. ASSUME NEW m \in Nat, NEW f, Walks(m, f)
      PROVE  \E g : Walks(m + 1, g)
  <2> DEFINE g == [k \in 0 .. m + 1 |-> IF k = m + 1 THEN AgRNext(f[m]) ELSE f[k]]
             h == [k \in 0 .. m + 1 |-> IF k = 0 THEN INVALID_ID ELSE AgRNext(g[k - 1])]
  <2>1. \A k \in 0 .. m : f[k] = IF k = 0 THEN INVALID_ID ELSE AgRNext(f[k - 1])
    BY Zenon, <1>2
  <2>2. ASSUME NEW k \in 0 .. m + 1 PROVE g[k] = h[k]
    <3>1. CASE k = m + 1
      <4>1. k # 0 /\ k - 1 = m /\ m \in 0 .. m + 1 /\ m # m + 1
        BY <3>1
      <4>2. g[m] = f[m] /\ g[k] = AgRNext(f[m])
        BY Zenon, <3>1, <4>1
      <4> QED
        BY Zenon, <4>1, <4>2
    <3>2. CASE k # m + 1
      <4>1. k \in 0 .. m
        BY <3>2
      <4>2. k # 0 => k - 1 \in 0 .. m + 1 /\ k - 1 # m + 1
        BY <3>2
      <4>3. g[k] = f[k] /\ (k # 0 => g[k - 1] = f[k - 1])
        BY Zenon, <3>2, <4>1, <4>2
      <4> QED
        BY Zenon, <2>1, <4>1, <4>3
    <3> QED
      BY Zenon, <3>1, <3>2
  <2>3. g = h
    BY Zenon, <2>2
  <2> QED
    BY Zenon, <2>3
<1>3. Without = {}
  <2> SUFFICES ASSUME Without # {} PROVE FALSE
    BY Zenon
  <2>1. PICK m \in Without : \A k \in Without : m <= k
    <3>1. Without \subseteq Nat
      BY Zenon
    <3> HIDE DEF Without
    <3> QED
      BY Zenon, <3>1, LeastOf
  <2>2. m \in Nat /\ m # 0
    BY Zenon, <1>1
  <2>3. m - 1 \in Nat /\ ~(m <= m - 1) /\ (m - 1) + 1 = m
    BY <2>2
  <2>4. PICK f : Walks(m - 1, f)
    BY Zenon, <2>1, <2>3
  <2>5. \E g : Walks((m - 1) + 1, g)
    <3> HIDE DEF Walks
    <3> QED
      BY Zenon, <1>2, <2>3, <2>4
  <2> QED
    BY Zenon, <2>1, <2>3, <2>5
<1>4. MaxRes + 1 \in Nat
  BY LrmAssumption
<1>5. \E f : Walks(MaxRes + 1, f)
  BY Zenon, <1>3, <1>4
<1>6. Walks(MaxRes + 1, Walk)
  BY Zenon, <1>5 DEF Walk
<1> QED
  BY Zenon, <1>6

(* What _agR_next finds after a slot, or from the start.                   *)
LEMMA NextFound ==
    ASSUME IInv, Congruent, NEW i, i = INVALID_ID \/ i \in held,
           NEW B, B = IF i = INVALID_ID THEN {} ELSE {s \in Used : s <= SlotOf(i)}
    PROVE  /\ B = Used => AgRNext(i) = INVALID_ID
           /\ B # Used => \E m \in Used \ B :
                /\ AgRNext(i) = id[m]
                /\ {s \in Used : s <= m} = B \cup {m}
<1> DEFINE from == IF i = INVALID_ID THEN 0 ELSE SlotOf(i) + 1
           ahead == {s \in from .. MaxRes - 1 : next[s] = InUse}
<1>1. AgRNext(i) = IF ahead = {} THEN INVALID_ID ELSE id[Min(ahead)]
  BY Zenon DEF AgRNext
<1>2. i # INVALID_ID => SlotOf(i) \in Slots
  BY Zenon, SlotOfId DEF IInv, TypeOK
<1>3. ahead = Used \ B
  <2>1. CASE i = INVALID_ID
    BY Zenon, <2>1 DEF Used, Slots
  <2>2. CASE i # INVALID_ID
    <3>1. \A s : s \in SlotOf(i) + 1 .. MaxRes - 1 <=> s \in Slots /\ ~(s <= SlotOf(i))
      BY <1>2, <2>2, LrmAssumption DEF Slots
    <3> QED
      BY Zenon, <2>2, <3>1 DEF Used
  <2> QED
    BY Zenon, <2>1, <2>2
<1>4. B \subseteq Used
  BY Zenon
<1> HIDE DEF ahead
<1>5. CASE B = Used
  BY Zenon, <1>1, <1>3, <1>5
<1>6. CASE B # Used
  <2>1. ahead # {} /\ ahead \subseteq Nat
    <3>1. Slots \subseteq Nat
      BY LrmAssumption DEF Slots
    <3> QED
      BY Zenon, <1>3, <1>4, <1>6, <3>1 DEF Used
  <2>2. \E m \in ahead : \A k \in ahead : m <= k
    BY Zenon, <2>1, LeastOf
  <2> DEFINE m == Min(ahead)
  <2>3. m \in ahead /\ \A k \in ahead : m <= k
    BY Zenon, <2>2 DEF Min
  <2>4. AgRNext(i) = id[m]
    BY Zenon, <1>1, <2>1
  <2> HIDE DEF m
  <2>5. m \in Used \ B
    BY Zenon, <1>3, <2>3
  <2>6. ASSUME NEW s \in Used PROVE s <= m <=> s \in B \/ s = m
    <3>1. s \in Nat /\ m \in Nat
      BY <2>5, LrmAssumption DEF Used, Slots
    <3>2. CASE s \in B
      <4>1. i # INVALID_ID /\ s <= SlotOf(i) /\ ~(m <= SlotOf(i))
        BY Zenon, <2>5, <3>2
      <4>2. SlotOf(i) \in Nat
        BY <1>2, <4>1, LrmAssumption DEF Slots
      <4> QED
        BY <3>1, <3>2, <4>1, <4>2
    <3>3. CASE s \notin B
      <4>1. m <= s
        BY Zenon, <1>3, <2>3, <3>3
      <4> QED
        BY <3>1, <3>3, <4>1
    <3> QED
      BY Zenon, <3>2, <3>3
  <2>7. {s \in Used : s <= m} = B \cup {m}
    BY Zenon, <1>4, <2>5, <2>6
  <2> QED
    BY Zenon, <1>6, <2>4, <2>5, <2>7
<1> QED
  BY Zenon, <1>5, <1>6

\* The slots that the first k calls of the walk have passed.
Passed(k) == IF k = 0 THEN {} ELSE {s \in Used : s <= SlotOf(Walk[k])}

\* What is true of the walk after k calls that found something.
WalkAt(k) ==
    /\ Walk[k] = INVALID_ID <=> k = 0
    /\ k # 0 => Walk[k] \in held
    /\ Cardinality(Passed(k)) = k
    /\ {Walk[j] : j \in 1 .. k} = {id[s] : s \in Passed(k)}

(* The next call passes one slot more, as long as one is left.             *)
LEMMA WalkGoesOn ==
    ASSUME IInv, Congruent, NEW k \in Nat, k < Cardinality(Used), WalkAt(k)
    PROVE  WalkAt(k + 1)
<1>1. /\ \A s \in Used : s \in Slots /\ id[s] \in held /\ SlotOf(id[s]) = s
      /\ IsFiniteSet(Used) /\ Cardinality(Used) \in 0 .. MaxRes
  BY Zenon, HeldCount
<1>2. k + 1 \in 0 .. MaxRes + 1 /\ k + 1 # 0 /\ (k + 1) - 1 = k
  BY <1>1, LrmAssumption
<1>3. Walk[k + 1] = AgRNext(Walk[k])
  BY Zenon, <1>2, WalkStep
<1>4. Passed(k) = IF Walk[k] = INVALID_ID THEN {} ELSE {s \in Used : s <= SlotOf(Walk[k])}
  BY Zenon DEF WalkAt, Passed
<1>5. Passed(k) # Used
  BY <1>1 DEF WalkAt
<1>6. PICK m \in Used \ Passed(k) :
        Walk[k + 1] = id[m] /\ {s \in Used : s <= m} = Passed(k) \cup {m}
  <2>1. Walk[k] = INVALID_ID \/ Walk[k] \in held
    BY Zenon DEF WalkAt
  <2>2. \E m \in Used \ Passed(k) :
          AgRNext(Walk[k]) = id[m] /\ {s \in Used : s <= m} = Passed(k) \cup {m}
    BY Zenon, <1>4, <1>5, <2>1, NextFound
  <2> QED
    BY Zenon, <1>3, <2>2
<1>7. Passed(k + 1) = Passed(k) \cup {m}
  BY Zenon, <1>1, <1>2, <1>6 DEF Passed
<1>8. Walk[k + 1] \in held /\ Walk[k + 1] # INVALID_ID
  BY Zenon, <1>1, <1>6 DEF IInv, InvalidNeverCarried
<1>9. Cardinality(Passed(k + 1)) = k + 1
  <2>1. IsFiniteSet(Passed(k))
    <3>1. Passed(k) \in SUBSET Used
      BY Zenon DEF Passed
    <3> QED
      BY Zenon, <1>1, <3>1, FS_Subset
  <2>2. Cardinality(Passed(k) \cup {m}) = Cardinality(Passed(k)) + 1
    BY Zenon, <1>6, <2>1, FS_AddElement
  <2> QED
    BY Zenon, <1>7, <2>2 DEF WalkAt
<1>10. {Walk[j] : j \in 1 .. k + 1} = {id[s] : s \in Passed(k + 1)}
  <2>1. \A j : j \in 1 .. k + 1 <=> j \in 1 .. k \/ j = k + 1
    OBVIOUS
  <2>2. {Walk[j] : j \in 1 .. k + 1} = {Walk[j] : j \in 1 .. k} \cup {Walk[k + 1]}
    BY Zenon, <2>1
  <2>3. {id[s] : s \in Passed(k) \cup {m}} = {id[s] : s \in Passed(k)} \cup {id[m]}
    BY Zenon
  <2> QED
    BY Zenon, <1>6, <1>7, <2>2, <2>3 DEF WalkAt
<1> QED
  BY Zenon, <1>2, <1>8, <1>9, <1>10 DEF WalkAt

(* So it passes all that are in use.                                       *)
LEMMA WalkPassesAll == ASSUME IInv, Congruent PROVE WalkAt(Cardinality(Used))
<1> DEFINE N == Cardinality(Used)
           Fails == {k \in 0 .. N : ~WalkAt(k)}
<1>1. N \in 0 .. MaxRes
  BY Zenon, HeldCount
<1>2. N \in Nat
  BY <1>1, LrmAssumption
<1>3. WalkAt(0)
  <2>1. 0 \in 0 .. MaxRes + 1 /\ 1 .. 0 = {}
    BY LrmAssumption
  <2>2. Walk[0] = INVALID_ID
    BY Zenon, <2>1, WalkStep
  <2> QED
    BY Zenon, <2>1, <2>2, FS_EmptySet DEF WalkAt, Passed
<1> HIDE DEF N
<1>4. Fails = {}
  <2> SUFFICES ASSUME Fails # {} PROVE FALSE
    BY Zenon
  <2>1. PICK m \in Fails : \A k \in Fails : m <= k
    <3>1. Fails \subseteq Nat
      BY <1>2
    <3> HIDE DEF Fails
    <3> QED
      BY Zenon, <3>1, LeastOf
  <2>2. m \in 0 .. N /\ ~WalkAt(m) /\ m # 0
    BY Zenon, <1>3
  <2>3. m - 1 \in Nat /\ m - 1 < N /\ m - 1 \in 0 .. N /\ ~(m <= m - 1) /\ (m - 1) + 1 = m
    BY <1>2, <2>2
  <2>4. WalkAt(m - 1)
    BY Zenon, <2>1, <2>3
  <2>5. WalkAt((m - 1) + 1)
    BY Zenon, <2>3, <2>4, WalkGoesOn DEF N
  <2> QED
    BY Zenon, <2>2, <2>3, <2>5
<1>5. N \in 0 .. N
  BY <1>2
<1> QED
  BY Zenon, <1>4, <1>5 DEF N

(* The pool loses no slot: _agR_new fails only when all are handed out,    *)
(* and the walk of _agN_free over the pool, _agR_next by _agR_next, visits *)
(* every connection that is left, once, and ends.                          *)
THEOREM NoSlotLostHolds == Spec => []NoSlotLost
<1>1. IInv /\ NoneLost => NoSlotLost
  <2> SUFFICES ASSUME IInv, NoneLost, Congruent PROVE NoSlotLost
    BY Zenon DEF NoSlotLost
  <2> DEFINE n == Cardinality(held)
  <2>1. /\ held = {id[s] : s \in Used} /\ IsFiniteSet(Used)
        /\ n = Cardinality(Used) /\ n \in 0 .. MaxRes
        /\ Used = Slots => n = MaxRes
    BY Zenon, HeldCount
  <2> HIDE DEF n
  <2>2. idle = End => n = MaxRes
    BY Zenon, <2>1, EmptyListAllUsed
  <2>3. WalkAt(n)
    BY Zenon, <2>1, WalkPassesAll
  <2>4. Passed(n) = Used
    <3>1. Passed(n) \in SUBSET Used
      BY Zenon DEF Passed
    <3>2. Cardinality(Used) = Cardinality(Passed(n))
      BY Zenon, <2>1, <2>3 DEF WalkAt
    <3> QED
      BY Zenon, <2>1, <3>1, <3>2, FS_Subset
  <2>5. {Walk[k] : k \in 1 .. n} = held
    BY Zenon, <2>1, <2>3, <2>4 DEF WalkAt
  <2>6. Walk[n + 1] = INVALID_ID
    <3>1. n + 1 \in 0 .. MaxRes + 1 /\ n + 1 # 0 /\ (n + 1) - 1 = n
      BY <2>1, LrmAssumption
    <3>2. Walk[n + 1] = AgRNext(Walk[n])
      BY Zenon, <3>1, WalkStep
    <3>3. Walk[n] = INVALID_ID \/ Walk[n] \in held
      BY Zenon, <2>3 DEF WalkAt
    <3>4. Passed(n) = IF Walk[n] = INVALID_ID THEN {} ELSE {s \in Used : s <= SlotOf(Walk[n])}
      BY Zenon, <2>3 DEF WalkAt, Passed
    <3> QED
      BY Zenon, <2>4, <3>2, <3>3, <3>4, NextFound
  <2> QED
    BY Zenon, <2>2, <2>5, <2>6 DEF NoSlotLost, n
<1> QED
  BY <1>1, InitNoneLost, StepNoneLost, Inductive, PTL DEF Spec
-----------------------------------------------------------------------------
(* The threads of the Lua servers.                                         *)

Phase(p) == IF p = "fired" THEN "asleep" ELSE "waiting"

\* A serial number is given to one request, and entries carry numbers given.
SNsApart(c, n) ==
    /\ \A r, s \in Remotes : \A e \in c[r], f \in c[s] : e.sn = f.sn => r = s /\ e = f
    /\ \A r \in Remotes : \A e \in c[r] : e.sn <= n

\* Each thread but those of S waits in one place, with the entries c, the sleeps
\* w and the threads R still to be resumed; those of S are in none.
Placed(c, w, R, fl, S) ==
    /\ \A r \in Remotes : \A e \in c[r] : e.co # NoThread =>
           /\ e.co \notin S /\ e.co \notin R
           /\ state[e.co] = "waiting" /\ asked[e.co] = e.sn
    /\ \A t \in Threads : w[t] # Lua!Awake =>
           t \notin S /\ t \notin R /\ state[t] = "asleep"
    /\ \A t \in R : t \notin S /\ state[t] = Phase(pc)
    /\ ~fl => \A t \in Threads \ S :
           /\ state[t] = "waiting" =>
                  t \in R \/ \E r \in Remotes : \E e \in c[r] : e.co = t
           /\ state[t] = "asleep" => t \in R \/ w[t] # Lua!Awake

\* The inductive invariant.
WaitsInv ==
    /\ Lua!TypeOK
    /\ SNsApart(co, nextSN)
    /\ Placed(co, wake, rest, failed, {})
    /\ pc \notin Lua!Callbacks => rest = {}

\* What TypeOK says of the variables that a thread changes while it runs.
RunTyped ==
    /\ co \in [Remotes -> SUBSET Lua!Entries]
    /\ nextSN \in 0 .. MaxSN
    /\ wire \in [Remotes -> SUBSET Lua!SNs]
    /\ wake \in [Threads -> Lua!Awake .. MaxSleep]
    /\ state \in [Threads -> {"new", "waiting", "asleep", "dead"}]
    /\ asked \in [Threads -> 0 .. MaxSN]

\* The longest timeout.
MaxLeft == CHOOSE n \in Timeouts : \A k \in Timeouts : k <= n

\* TIMEOUT is a natural number, and no request waits longer.
LEMMA MaxLeftType == MaxLeft \in Nat /\ \A k \in Timeouts : k <= MaxLeft
  BY Zenon, ServicesAssumption DEF MaxLeft

\* The fields of an entry of _co, and that Request makes one.
LEMMA EntriesType ==
    /\ \A e \in Lua!Entries : /\ e.sn \in Lua!SNs /\ e.co \in Threads \cup {NoThread}
                          /\ e.left \in -1 .. MaxLeft
    /\ \A sn \in Lua!SNs, t \in Threads \cup {NoThread}, k \in -1 .. MaxLeft :
           [sn |-> sn, co |-> t, left |-> k] \in Lua!Entries
  BY Zenon DEF Lua!Entries, MaxLeft
-----------------------------------------------------------------------------
(* The steps.                                                              *)

\* A thread that is in no place and is resumed is in at most one when
\* coroutine.resume returns.
LEMMA RunPlaces ==
    ASSUME Lua!TypeOK,
           NEW c \in [Remotes -> SUBSET Lua!Entries], NEW w \in [Threads -> Lua!Awake .. MaxSleep],
           NEW th \in Threads, NEW how, Lua!Run(th, c, w, how),
           SNsApart(c, nextSN), Placed(c, w, rest', failed', {th}), pc' = pc
    PROVE  /\ RunTyped'
           /\ SNsApart(co', nextSN')
           /\ Placed(co, wake, rest, failed, {})'
<1>1. CASE Lua!Ends(th, c, w)
  <2>1. co' = c /\ wake' = w /\ UNCHANGED <<nextSN, wire, asked>>
        /\ state' = [state EXCEPT ![th] = "dead"]
    BY Zenon, <1>1 DEF Lua!Ends
  <2>2. RunTyped'
    BY Zenon, <2>1 DEF RunTyped, Lua!TypeOK
  <2>3. SNsApart(co', nextSN')
    BY Zenon, <2>1
  <2>4. Placed(co, wake, rest, failed, {})'
    BY <2>1 DEF Lua!TypeOK, Placed, Phase
  <2> QED
    BY Zenon, <2>2, <2>3, <2>4
<1>2. CASE Lua!Sleeps(th, c, w)
  <2>1. /\ co' = c /\ UNCHANGED <<nextSN, wire, asked>>
        /\ state' = [state EXCEPT ![th] = "asleep"]
        /\ \E sec \in 1 .. MaxSleep : wake' = [w EXCEPT ![th] = sec]
    BY Zenon, <1>2 DEF Lua!Sleeps
  <2>2. /\ wake' \in [Threads -> Lua!Awake .. MaxSleep] /\ wake'[th] # Lua!Awake
        /\ \A t \in Threads \ {th} : wake'[t] = w[t]
    BY <2>1, ServicesAssumption DEF Lua!Awake
  <2>3. RunTyped'
    BY Zenon, <2>1, <2>2 DEF RunTyped, Lua!TypeOK
  <2>4. SNsApart(co', nextSN')
    BY Zenon, <2>1
  <2>5. Placed(co, wake, rest, failed, {})'
    BY <2>1, <2>2 DEF Lua!TypeOK, Placed, Phase
  <2> QED
    BY Zenon, <2>3, <2>4, <2>5
<1>3. CASE Lua!Requests(th, c, w)
  <2>1. PICK r \in Remotes, t \in Timeouts :
            /\ nextSN < MaxSN
            /\ nextSN' = nextSN + 1
            /\ co' = [c EXCEPT ![r] = @ \cup {[sn |-> nextSN', co |-> th, left |-> t]}]
            /\ wire' \in {wire, [wire EXCEPT ![r] = @ \cup {nextSN'}]}
            /\ state' = [state EXCEPT ![th] = "waiting"]
            /\ asked' = [asked EXCEPT ![th] = nextSN']
            /\ wake' = w
    BY Zenon, <1>3 DEF Lua!Requests
  <2> DEFINE new == [sn |-> nextSN', co |-> th, left |-> t]
  <2>2. new \in Lua!Entries /\ nextSN' \in Lua!SNs
    BY <2>1, ServicesAssumption, MaxLeftType, EntriesType DEF Lua!TypeOK, Lua!SNs
  <2>3. new.sn = nextSN' /\ new.co = th
    BY Zenon
  <2>4. co' = [c EXCEPT ![r] = @ \cup {new}]
    BY Zenon, <2>1
  <2> HIDE DEF new
  <2>5. \A s \in Remotes : \A e \in co'[s] : e \in c[s] \/ (s = r /\ e = new)
    BY Zenon, <2>4
  <2>6. \A s \in Remotes : c[s] \subseteq co'[s]
    BY Zenon, <2>4
  <2>7. new \in co'[r]
    BY Zenon, <2>4
  <2>8. SNsApart(co', nextSN')
    <3>1. \A s \in Remotes : \A e \in c[s] : e.sn <= nextSN /\ e.sn \in Nat
      BY EntriesType DEF SNsApart, Lua!SNs
    <3>2. nextSN \in Nat
      BY ServicesAssumption DEF Lua!TypeOK
    <3> QED
      BY <2>1, <2>3, <2>5, <3>1, <3>2 DEF SNsApart
  <2>9. Placed(co, wake, rest, failed, {})'
    BY <2>1, <2>3, <2>5, <2>6, <2>7 DEF Placed, Lua!TypeOK, Phase
  <2>10. co' \in [Remotes -> SUBSET Lua!Entries]
    BY Zenon, <2>2, <2>4
  <2> QED
    BY <2>1, <2>2, <2>8, <2>9, <2>10, ServicesAssumption DEF RunTyped, Lua!TypeOK, Lua!SNs
<1> QED
  BY Zenon, <1>1, <1>2, <1>3 DEF Lua!Run

\* RunThread: a new thread is in no place.
LEMMA StartKeeps ==
    ASSUME WaitsInv, NEW th \in Threads, Lua!Start(th)
    PROVE  WaitsInv'
<1>1. PICK how \in {"ok", "error"} : Lua!Run(th, co, wake, how)
  BY Zenon DEF Lua!Start
<1>2. Placed(co, wake, rest', failed', {th})
  BY DEF WaitsInv, Lua!TypeOK, Placed, Lua!Start, Phase
<1>3. /\ Lua!TypeOK /\ SNsApart(co, nextSN) /\ pc' = pc
      /\ co \in [Remotes -> SUBSET Lua!Entries] /\ wake \in [Threads -> Lua!Awake .. MaxSleep]
  BY Zenon DEF WaitsInv, Lua!TypeOK, Lua!Start
<1>4. RunTyped' /\ SNsApart(co', nextSN') /\ Placed(co, wake, rest, failed, {})'
  BY Zenon, <1>1, <1>2, <1>3, RunPlaces
<1>5. Lua!TypeOK'
  BY Zenon, <1>3, <1>4 DEF RunTyped, Lua!TypeOK, Lua!Start
<1> QED
  BY Zenon, <1>4, <1>5 DEF WaitsInv, Lua!Start

\* Service:Request outside a thread: the entry is nobody's.
LEMMA RequestNoThreadKeeps ==
    ASSUME WaitsInv, NEW r \in Remotes, Lua!RequestNoThread(r)
    PROVE  WaitsInv'
<1>1. PICK t \in Timeouts : co' = [co EXCEPT ![r] =
                @ \cup {[sn |-> nextSN', co |-> NoThread, left |-> t]}]
  BY Zenon DEF Lua!RequestNoThread
<1> DEFINE new == [sn |-> nextSN', co |-> NoThread, left |-> t]
<1>2. new \in Lua!Entries /\ nextSN' \in Lua!SNs
  BY SMTT(30), ServicesAssumption, MaxLeftType, EntriesType
     DEF Lua!RequestNoThread, WaitsInv, Lua!TypeOK, Lua!SNs
<1>3. new.sn = nextSN' /\ new.co = NoThread /\ co' = [co EXCEPT ![r] = @ \cup {new}]
  BY Zenon, <1>1
<1> HIDE DEF new
<1>4. co \in [Remotes -> SUBSET Lua!Entries]
  BY Zenon DEF WaitsInv, Lua!TypeOK
<1>5. /\ \A s \in Remotes : \A e \in co'[s] : e \in co[s] \/ (s = r /\ e = new)
      /\ \A s \in Remotes : co[s] \subseteq co'[s]
      /\ co' \in [Remotes -> SUBSET Lua!Entries]
  BY Zenon, <1>2, <1>3, <1>4
<1>6. SNsApart(co', nextSN')
  <2>1. \A s \in Remotes : \A e \in co[s] : e.sn <= nextSN /\ e.sn \in Nat
    BY <1>4, EntriesType DEF WaitsInv, SNsApart, Lua!SNs
  <2>2. nextSN \in Nat /\ nextSN' = nextSN + 1
    BY ServicesAssumption DEF WaitsInv, Lua!TypeOK, Lua!RequestNoThread
  <2> QED
    BY <1>3, <1>5, <2>1, <2>2 DEF WaitsInv, SNsApart
<1>7. Placed(co, wake, rest, failed, {})'
  BY <1>3, <1>5 DEF WaitsInv, Placed, Lua!RequestNoThread, Phase
<1>8. Lua!TypeOK'
  BY <1>2, <1>5, ServicesAssumption DEF WaitsInv, Lua!TypeOK, Lua!RequestNoThread, Lua!SNs
<1> QED
  BY Zenon, <1>6, <1>7, <1>8 DEF WaitsInv, Lua!RequestNoThread

\* onMessage: the entry of the answer is the only one of its thread, so that the
\* thread is in no place when it is resumed.
LEMMA MessageKeeps ==
    ASSUME WaitsInv, NEW r \in Remotes, NEW sn \in Lua!SNs, Lua!Message(r, sn)
    PROVE  WaitsInv'
<1> DEFINE entry == {e \in co[r] : e.sn = sn}
           c == [co EXCEPT ![r] = @ \ entry]
<1>1. co \in [Remotes -> SUBSET Lua!Entries] /\ wake \in [Threads -> Lua!Awake .. MaxSleep]
  BY Zenon DEF WaitsInv, Lua!TypeOK
<1>2. /\ c \in [Remotes -> SUBSET Lua!Entries]
      /\ \A s \in Remotes : c[s] \subseteq co[s]
      /\ \A s \in Remotes : \A e \in co[s] : e \in c[s] \/ (s = r /\ e.sn = sn)
      /\ \A e \in c[r] : e.sn # sn
  BY Zenon, <1>1
<1>3. SNsApart(c, nextSN)
  BY <1>2 DEF WaitsInv, SNsApart
<1>4. pc' = pc /\ rest' = rest /\ failed' = failed /\ conn' = conn /\ todo' = todo
  BY Zenon DEF Lua!Message
<1>5. CASE \E e \in entry : e.co # NoThread
  <2>1. PICK e \in entry, how \in {"ok", "error"} : Lua!Run(e.co, c, wake, how)
    BY Zenon, <1>5 DEF Lua!Message
  <2>2. e \in co[r] /\ e.sn = sn /\ e \in Lua!Entries
    BY Zenon, <1>1
  <2>3. \A f \in co[r] : f.sn = sn => f = e
    BY Zenon, <2>2 DEF WaitsInv, SNsApart
  <2>4. e.co \in Threads
    BY Zenon, <1>5, <2>2, <2>3, EntriesType
  <2> HIDE DEF c
  <2>5. Placed(c, wake, rest', failed', {e.co})
    <3>1. \A s \in Remotes : \A f \in c[s] : f.co # e.co
      <4> SUFFICES ASSUME NEW s \in Remotes, NEW f \in c[s], f.co = e.co
                   PROVE  FALSE
        BY Zenon
      <4>1. f \in co[s] /\ f.sn = e.sn
        BY <1>2, <2>2, <2>4, ServicesAssumption DEF WaitsInv, Placed
      <4>2. s = r
        BY Zenon, <2>2, <4>1 DEF WaitsInv, SNsApart
      <4> QED
        BY Zenon, <1>2, <2>2, <4>1, <4>2
    <3>2. state[e.co] = "waiting" /\ e.co \notin rest
      BY Zenon, <2>2, <2>4, ServicesAssumption DEF WaitsInv, Placed
    <3>3. \A s \in Remotes : \A f \in co[s] : f \in c[s] \/ f = e
      BY Zenon, <1>2, <2>3
    <3> QED
      BY <1>2, <1>4, <3>1, <3>2, <3>3 DEF WaitsInv, Placed, Phase
  <2>6. Lua!TypeOK
    BY Zenon DEF WaitsInv
  <2> QED
    <3>1. RunTyped' /\ SNsApart(co', nextSN') /\ Placed(co, wake, rest, failed, {})'
      BY Zenon, <1>1, <1>2, <1>3, <1>4, <2>1, <2>4, <2>5, <2>6, RunPlaces
    <3>2. Lua!TypeOK'
      BY Zenon, <1>4, <2>6, <3>1 DEF RunTyped, Lua!TypeOK
    <3> QED
      BY Zenon, <1>4, <3>1, <3>2 DEF WaitsInv
<1>6. CASE ~ \E e \in entry : e.co # NoThread
  <2>1. co' = c /\ UNCHANGED <<nextSN, wire, wake, state, asked>>
    BY Zenon, <1>6 DEF Lua!Message
  <2>2. \A s \in Remotes : \A e \in co[s] : e \in c[s] \/ e.co = NoThread
    BY Zenon, <1>2, <1>6
  <2> HIDE DEF c
  <2>3. Placed(co, wake, rest, failed, {})'
    BY <1>2, <1>4, <2>1, <2>2, ServicesAssumption DEF WaitsInv, Placed, Phase
  <2> QED
    BY Zenon, <1>2, <1>3, <1>4, <2>1, <2>3 DEF WaitsInv, Lua!TypeOK
<1> QED
  BY Zenon, <1>5, <1>6

\* Time passes: the entries and the sleeps stay those of their threads.
LEMMA TickKeeps ==
    ASSUME WaitsInv, NEW d \in 1 .. MaxStep, Lua!Tick(d)
    PROVE  WaitsInv'
<1> DEFINE Aged(e) == [e EXCEPT !.left = Lua!Later(@, d, -1)]
<1>1. co \in [Remotes -> SUBSET Lua!Entries] /\ wake \in [Threads -> Lua!Awake .. MaxSleep]
  BY Zenon DEF WaitsInv, Lua!TypeOK
<1>2. d \in Nat /\ d >= 1
  BY ServicesAssumption
<1>3. \A e \in Lua!Entries : Aged(e) \in Lua!Entries /\ Aged(e).sn = e.sn /\ Aged(e).co = e.co
  <2> SUFFICES ASSUME NEW e \in Lua!Entries
               PROVE  Aged(e) \in Lua!Entries /\ Aged(e).sn = e.sn /\ Aged(e).co = e.co
    BY Zenon
  <2>1. e.left \in -1 .. MaxLeft /\ e = [sn |-> e.sn, co |-> e.co, left |-> e.left]
    BY Zenon, EntriesType DEF Lua!Entries
  <2>2. Lua!Later(e.left, d, -1) \in -1 .. MaxLeft
    BY <1>2, <2>1, MaxLeftType DEF Lua!Later
  <2>3. Aged(e) = [sn |-> e.sn, co |-> e.co, left |-> Lua!Later(e.left, d, -1)]
    BY <2>1
  <2>4. [sn |-> e.sn, co |-> e.co, left |-> Lua!Later(e.left, d, -1)] \in Lua!Entries
    BY Zenon, <2>2, EntriesType
  <2> HIDE DEF Aged
  <2> QED
    BY <2>3, <2>4
<1>4. co' = [r \in Remotes |-> {Aged(e) : e \in co[r]}]
  BY Zenon DEF Lua!Tick
<1> HIDE DEF Aged
<1>5. /\ co' \in [Remotes -> SUBSET Lua!Entries]
      /\ \A r \in Remotes : \A f \in co'[r] : \E e \in co[r] :
             f = Aged(e) /\ f.sn = e.sn /\ f.co = e.co
      /\ \A r \in Remotes : \A e \in co[r] : \E f \in co'[r] : f.co = e.co
  BY <1>1, <1>3, <1>4
<1>6. SNsApart(co', nextSN')
  <2>1. nextSN' = nextSN
    BY Zenon DEF Lua!Tick
  <2> QED
    BY <1>5, <2>1 DEF WaitsInv, SNsApart
<1>7. /\ wake' \in [Threads -> Lua!Awake .. MaxSleep]
      /\ \A t \in Threads : wake'[t] # Lua!Awake <=> wake[t] # Lua!Awake
  BY <1>1, <1>2, ServicesAssumption DEF Lua!Tick, Lua!Later, Lua!Awake
<1>8. rest = {} /\ rest' = {} /\ failed' = failed /\ state' = state /\ asked' = asked
  BY Zenon DEF WaitsInv, Lua!Tick, Lua!Callbacks
<1>9. Placed(co, wake, rest, failed, {})'
  <2>1. \A r \in Remotes : \A f \in co'[r] : f.co # NoThread =>
            state[f.co] = "waiting" /\ asked[f.co] = f.sn
    BY <1>5 DEF WaitsInv, Placed
  <2>2. ~failed => \A t \in Threads :
            /\ state[t] = "waiting" => \E r \in Remotes : \E f \in co'[r] : f.co = t
            /\ state[t] = "asleep" => wake'[t] # Lua!Awake
    BY <1>5, <1>7, <1>8 DEF WaitsInv, Placed
  <2> QED
    BY Zenon, <1>7, <1>8, <2>1, <2>2 DEF WaitsInv, Placed
<1> QED
  BY Zenon, <1>5, <1>6, <1>7, <1>8, <1>9 DEF WaitsInv, Lua!TypeOK, Lua!Tick, Lua!Callbacks

\* The callback of Thread.lua: those who are taken out of tickers are in fired.
LEMMA TakeFiredKeeps ==
    ASSUME WaitsInv, Lua!TakeFired
    PROVE  WaitsInv'
<1>1. rest = {} /\ pc' = "fired"
  BY Zenon DEF WaitsInv, Lua!TakeFired, Lua!Callbacks
<1>2. \A t \in Threads : wake[t] \in Lua!Awake .. MaxSleep
  BY Zenon DEF WaitsInv, Lua!TypeOK
<1>3. /\ wake' \in [Threads -> Lua!Awake .. MaxSleep]
      /\ rest' \subseteq Threads
      /\ \A t \in Threads : t \in rest' <=> wake[t] = 0
      /\ \A t \in Threads : wake'[t] # Lua!Awake <=> wake[t] # Lua!Awake /\ wake[t] # 0
  BY <1>2, ServicesAssumption DEF Lua!TakeFired, Lua!Awake
<1>4. UNCHANGED <<conn, co, nextSN, wire, state, asked, failed>>
  BY Zenon DEF Lua!TakeFired
<1>5. \A t \in Threads : wake[t] = 0 => state[t] = "asleep"
  BY DEF WaitsInv, Placed, Lua!Awake
<1>6. \A r \in Remotes : \A e \in co[r] : e.co # NoThread =>
          e.co \in Threads /\ state[e.co] = "waiting" /\ asked[e.co] = e.sn
  BY Zenon, EntriesType DEF WaitsInv, Lua!TypeOK, Placed
<1>7. Placed(co, wake, rest, failed, {})'
  <2>1. \A r \in Remotes : \A e \in co[r] : e.co # NoThread => e.co \notin rest'
    BY Zenon, <1>3, <1>5, <1>6
  <2>2. ~failed => \A t \in Threads :
            /\ state[t] = "waiting" => \E r \in Remotes : \E e \in co[r] : e.co = t
            /\ state[t] = "asleep" => t \in rest' \/ wake'[t] # Lua!Awake
    BY Zenon, <1>1, <1>3 DEF WaitsInv, Placed
  <2>3. \A t \in Threads : wake'[t] # Lua!Awake => t \notin rest' /\ state[t] = "asleep"
    BY Zenon, <1>3 DEF WaitsInv, Placed
  <2>4. \A t \in rest' : state[t] = Phase(pc')
    <3>1. Phase(pc') = "asleep"
      BY Zenon, <1>1 DEF Phase
    <3> QED
      BY Zenon, <1>3, <1>5, <3>1
  <2> QED
    BY Zenon, <1>4, <1>6, <2>1, <2>2, <2>3, <2>4 DEF Placed
<1> QED
  BY Zenon, <1>1, <1>3, <1>4, <1>7 DEF WaitsInv, Lua!TypeOK, Lua!TakeFired, Lua!Callbacks

\* onSchedulerUpdate: those whose entry is taken out of _co are in toCo, and have
\* no other entry.
LEMMA CollectKeeps ==
    ASSUME WaitsInv, Lua!Collect
    PROVE  WaitsInv'
<1> DEFINE Over(r) == {e \in co[r] : conn[r] = "nil" \/ e.left < 0}
<1>1. rest = {} /\ pc' = "toCo" /\ UNCHANGED <<nextSN, wire, wake, state, asked, failed>>
  BY Zenon DEF WaitsInv, Lua!Collect, Lua!Callbacks
<1>2. /\ co \in [Remotes -> SUBSET Lua!Entries]
      /\ \A r \in Remotes : \A e \in co[r] : e.co \in Threads \cup {NoThread}
  BY Zenon, EntriesType DEF WaitsInv, Lua!TypeOK
<1>3. /\ rest' = {e.co : e \in UNION {Over(r) : r \in Remotes}} \ {NoThread}
      /\ co' = [r \in Remotes |-> co[r] \ Over(r)]
  BY Zenon DEF Lua!Collect
<1>4. \A r \in Remotes : Over(r) \subseteq co[r]
  BY Zenon
<1> HIDE DEF Over
<1>5. /\ co' \in [Remotes -> SUBSET Lua!Entries]
      /\ \A r \in Remotes : \A e \in co'[r] : e \in co[r] /\ e \notin Over(r)
      /\ \A r \in Remotes : \A e \in co[r] : e \in co'[r] \/ e \in Over(r)
  BY Zenon, <1>2, <1>3
<1>6. /\ \A t \in rest' : t # NoThread /\ \E r \in Remotes : \E e \in Over(r) : e.co = t
      /\ \A r \in Remotes : \A e \in Over(r) : e.co # NoThread => e.co \in rest'
  BY Zenon, <1>3
<1>7. rest' \subseteq Threads /\ \A t \in rest' : state[t] = "waiting"
  BY <1>2, <1>4, <1>6 DEF WaitsInv, Placed
<1>8. \A r \in Remotes : \A e \in co'[r] : e.co # NoThread => e.co \notin rest'
  <2> SUFFICES ASSUME NEW r \in Remotes, NEW e \in co'[r], e.co # NoThread,
                      NEW s \in Remotes, NEW f \in Over(s), f.co = e.co
               PROVE  FALSE
    BY Zenon, <1>6
  <2>1. e \in co[r] /\ f \in co[s] /\ f.sn = e.sn
    BY <1>4, <1>5 DEF WaitsInv, Placed
  <2>2. r = s /\ e = f
    BY Zenon, <2>1 DEF WaitsInv, SNsApart
  <2> QED
    BY Zenon, <1>5, <2>2
<1>9. SNsApart(co', nextSN')
  BY Zenon, <1>1, <1>5 DEF WaitsInv, SNsApart
<1>10. Placed(co, wake, rest, failed, {})'
  <2>1. ~failed => \A t \in Threads :
            /\ state[t] = "waiting" =>
                   t \in rest' \/ \E r \in Remotes : \E e \in co'[r] : e.co = t
            /\ state[t] = "asleep" => wake[t] # Lua!Awake
    BY <1>1, <1>5, <1>6, ServicesAssumption DEF WaitsInv, Placed
  <2>2. \A t \in Threads : wake[t] # Lua!Awake => t \notin rest' /\ state[t] = "asleep"
    BY Zenon, <1>7 DEF WaitsInv, Placed
  <2>3. \A r \in Remotes : \A e \in co'[r] : e.co # NoThread =>
            state[e.co] = "waiting" /\ asked[e.co] = e.sn
    BY Zenon, <1>5 DEF WaitsInv, Placed
  <2>4. \A t \in rest' : state[t] = Phase(pc')
    BY Zenon, <1>1, <1>7 DEF Phase
  <2> QED
    BY Zenon, <1>1, <1>8, <2>1, <2>2, <2>3, <2>4 DEF Placed
<1>11. Lua!TypeOK'
  <2>1. conn' \in [Remotes -> {"nil", "connecting", "up"}] /\ todo' \subseteq {"fired", "toCo"}
    BY Zenon DEF WaitsInv, Lua!TypeOK, Lua!Collect
  <2>2. Lua!TypeOK
    BY Zenon DEF WaitsInv
  <2> QED
    BY Zenon, <1>1, <1>5, <1>7, <2>1, <2>2 DEF Lua!TypeOK
<1> QED
  BY Zenon, <1>1, <1>9, <1>10, <1>11 DEF WaitsInv, Lua!Callbacks

\* An iteration of the last loop of either callback: the thread that is taken out
\* of fired or toCo is in no place. After an error the others are in none either.
LEMMA ResumeNextKeeps ==
    ASSUME WaitsInv, NEW th \in Threads, NEW how \in {"ok", "error"}, Lua!ResumeNext(th, how)
    PROVE  WaitsInv'
<1>1. /\ pc \in Lua!Callbacks /\ pc' = pc /\ th \in rest /\ Lua!Run(th, co, wake, how)
      /\ rest' \subseteq rest \ {th} /\ conn' = conn /\ todo' = todo
      /\ failed' \in BOOLEAN
      /\ ~failed' => ~failed /\ rest' = rest \ {th}
  BY Zenon DEF Lua!ResumeNext, WaitsInv, Lua!TypeOK
<1>2. /\ Lua!TypeOK /\ SNsApart(co, nextSN)
      /\ co \in [Remotes -> SUBSET Lua!Entries] /\ wake \in [Threads -> Lua!Awake .. MaxSleep]
  BY Zenon DEF WaitsInv, Lua!TypeOK
<1>3. Placed(co, wake, rest', failed', {th})
  <2>1. /\ \A r \in Remotes : \A e \in co[r] : e.co # NoThread =>
               /\ e.co \notin rest /\ state[e.co] = "waiting" /\ asked[e.co] = e.sn
        /\ \A t \in Threads : wake[t] # Lua!Awake => t \notin rest /\ state[t] = "asleep"
        /\ \A t \in rest : state[t] = Phase(pc)
    BY Zenon DEF WaitsInv, Placed
  <2>2. ~failed' => \A t \in Threads \ {th} :
            /\ state[t] = "waiting" =>
                   t \in rest' \/ \E r \in Remotes : \E e \in co[r] : e.co = t
            /\ state[t] = "asleep" => t \in rest' \/ wake[t] # Lua!Awake
    BY Zenon, <1>1 DEF WaitsInv, Placed
  <2> QED
    BY <1>1, <2>1, <2>2 DEF Placed
<1>4. RunTyped' /\ SNsApart(co', nextSN') /\ Placed(co, wake, rest, failed, {})'
  BY Zenon, <1>1, <1>2, <1>3, RunPlaces
<1>5. Lua!TypeOK'
  BY Zenon, <1>1, <1>2, <1>4 DEF RunTyped, Lua!TypeOK
<1> QED
  BY Zenon, <1>1, <1>4, <1>5 DEF WaitsInv

\* The other steps move no thread.
LEMMA OthersKeep ==
    ASSUME WaitsInv,
           \/ \E r \in Remotes : Lua!Connected(r) \/ Lua!Closed(r)
           \/ Lua!CallbackDone
           \/ UNCHANGED Lua!vars
    PROVE  WaitsInv'
<1>1. CASE \E r \in Remotes : Lua!Connected(r) \/ Lua!Closed(r)
  <2>1. UNCHANGED <<co, nextSN, wake, state, asked, pc, todo, rest, failed>>
    BY Zenon, <1>1 DEF Lua!Connected, Lua!Closed
  <2>2. Lua!TypeOK'
    <3>1. conn' \in [Remotes -> {"nil", "connecting", "up"}]
      BY Zenon, <1>1 DEF WaitsInv, Lua!TypeOK, Lua!Connected, Lua!Closed
    <3>2. wire' \in [Remotes -> SUBSET Lua!SNs]
      BY Zenon, <1>1 DEF WaitsInv, Lua!TypeOK, Lua!Connected, Lua!Closed
    <3> QED
      BY Zenon, <2>1, <3>1, <3>2 DEF WaitsInv, Lua!TypeOK
  <2> QED
    BY <2>1, <2>2 DEF WaitsInv, SNsApart, Placed, Phase
<1>2. CASE Lua!CallbackDone
  BY <1>2 DEF WaitsInv, Lua!TypeOK, SNsApart, Placed, Lua!CallbackDone
<1>3. CASE UNCHANGED Lua!vars
  BY <1>3 DEF WaitsInv, Lua!TypeOK, SNsApart, Placed, Phase, Lua!vars
<1> QED
  BY Zenon, <1>1, <1>2, <1>3
-----------------------------------------------------------------------------
(* The theorem.                                                            *)

\* The inductive invariant gives OneWait: two entries of a thread carry the number
\* it asked last, and so are one.
LEMMA WaitsInvGivesOneWait == WaitsInv => OneWait
<1> SUFFICES ASSUME WaitsInv PROVE OneWait
  BY Zenon
<1>1. Lua!TypeOK
  BY Zenon DEF WaitsInv
<1> SUFFICES ASSUME NEW th \in Threads
    PROVE  /\ \A e, f \in Lua!EntriesOf(th) : e = f
           /\ \A e \in Lua!EntriesOf(th) :
                  state[th] = "waiting" /\ asked[th] = e.sn /\ th \notin rest
           /\ wake[th] # Lua!Awake => state[th] = "asleep" /\ th \notin rest
           /\ th \in rest =>
                  state[th] = IF pc = "fired" THEN "asleep" ELSE "waiting"
           /\ ~failed =>
                  /\ state[th] = "waiting" => Lua!EntriesOf(th) # {} \/ th \in rest
                  /\ state[th] = "asleep" => wake[th] # Lua!Awake \/ th \in rest
  BY Zenon, <1>1 DEF OneWait, Lua!OneWait
<1>2. th # NoThread
  BY Zenon, ServicesAssumption
<1>3. \A e : e \in Lua!EntriesOf(th) <=> e.co = th /\ \E r \in Remotes : e \in co[r]
  BY Zenon DEF Lua!EntriesOf
<1>4. \A e \in Lua!EntriesOf(th) :
          state[th] = "waiting" /\ asked[th] = e.sn /\ th \notin rest
  BY <1>2, <1>3 DEF WaitsInv, Placed
<1>5. \A e, f \in Lua!EntriesOf(th) : e = f
  BY <1>3, <1>4 DEF WaitsInv, SNsApart
<1>6. ~failed =>
          /\ state[th] = "waiting" => Lua!EntriesOf(th) # {} \/ th \in rest
          /\ state[th] = "asleep" => wake[th] # Lua!Awake \/ th \in rest
  BY Zenon, <1>3 DEF WaitsInv, Placed
<1> QED
  BY Zenon, <1>4, <1>5, <1>6 DEF WaitsInv, Placed, Phase

\* A waiting thread of the Lua servers is in one place, whatever the order of
\* answers, timeouts, lost connections and errors: a late answer never resumes it
\* in a later wait.
THEOREM OneWaitHolds == Lua!Spec => []OneWait
<1>1. Lua!Init => WaitsInv
  <2> SUFFICES ASSUME Lua!Init PROVE WaitsInv
    BY Zenon
  <2>1. Lua!TypeOK
    <3>1. conn \in [Remotes -> {"nil", "connecting", "up"}]
      BY Zenon DEF Lua!Init
    <3>2. wake \in [Threads -> Lua!Awake .. MaxSleep]
      BY ServicesAssumption DEF Lua!Init, Lua!Awake
    <3>3. nextSN \in 0 .. MaxSN /\ asked \in [Threads -> 0 .. MaxSN]
      BY ServicesAssumption DEF Lua!Init
    <3> QED
      BY Zenon, <3>1, <3>2, <3>3 DEF Lua!Init, Lua!TypeOK
  <2> QED
    BY Zenon, <2>1 DEF Lua!Init, WaitsInv, SNsApart, Placed
<1>2. WaitsInv /\ [Lua!Next]_(Lua!vars) => WaitsInv'
  BY Zenon, StartKeeps, RequestNoThreadKeeps, MessageKeeps, TickKeeps, TakeFiredKeeps,
     CollectKeeps, ResumeNextKeeps, OthersKeep
     DEF Lua!Next, Lua!ResumeSome
<1> QED
  BY <1>1, <1>2, WaitsInvGivesOneWait, PTL DEF Lua!Spec
=============================================================================
