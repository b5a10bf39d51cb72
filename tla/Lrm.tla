-------------------------------- MODULE Lrm --------------------------------
(***************************************************************************)
(* The resource pool of src/framework/lrm.c: a fixed array of slots that   *)
(* hands out generation ids.  Slot s first has id s; every release adds    *)
(* MaxRes to its id (skipping INVALID_ID), so that an id somebody          *)
(* still holds after the release no longer names the slot.  The network    *)
(* layer names every connection by such an id.                             *)
(*                                                                         *)
(* id, next and idle are the fields of struct lresource and struct lrm.    *)
(* held, stale and wrapped are history: the ids handed out and not yet     *)
(* released, the ids released, and whether some id has overflowed.         *)
(***************************************************************************)
EXTENDS Integers, FiniteSets, FiniteSetsExt

CONSTANTS
    MaxRes,     \* the number of slots, _agRM_new's first argument
    IdSpace     \* the number of values of a resid_t (2^32 in the code)

ASSUME LrmAssumption ==
    /\ MaxRes \in Nat \ {0}
    /\ IdSpace \in Nat
    /\ IdSpace > 2 * MaxRes + 1

VARIABLES id, next, idle, held, stale, wrapped

vars == <<id, next, idle, held, stale, wrapped>>
----------------------------------------------------------------------------
Slots == 0 .. MaxRes - 1
Ids == 0 .. IdSpace - 1
INVALID_ID == IdSpace - 1

\* Values of the link `next' that are not a slot: the null pointer of a slot in
\* use, and the address of resource_list_end.
InUse == -1
End == MaxRes

TypeOK ==
    /\ id \in [Slots -> Ids]
    /\ next \in [Slots -> Slots \cup {InUse, End}]
    /\ idle \in Slots \cup {End}
    /\ held \in SUBSET Ids
    /\ stale \in SUBSET Ids
    /\ wrapped \in BOOLEAN

\* init_lrm_idle_list: the list is built from the last slot to the first, so
\* that slot 0 is its head.
Init ==
    /\ id = [s \in Slots |-> s]
    /\ next = [s \in Slots |-> s + 1]
    /\ idle = 0
    /\ held = {}
    /\ stale = {}
    /\ wrapped = FALSE

\* get_lresource: the slot an id points at, and whether it still carries it.
SlotOf(i) == i % MaxRes
Resolves(i) == id[SlotOf(i)] = i
----------------------------------------------------------------------------
\* _agR_new when a slot is idle: pop it and hand out the id it carries.
New ==
    /\ idle # End
    /\ idle' = next[idle]
    /\ next' = [next EXCEPT ![idle] = InUse]
    /\ held' = held \cup {id[idle]}
    /\ UNCHANGED <<id, stale, wrapped>>

\* Mutants of NextId.
NextIdKeepsGeneration(i) == i
NextIdOffByOne(i) == (i + MaxRes - 1) % IdSpace

\* The id a slot gets when it is released, in the width of resid_t.
NextId(i) ==
    LET j == (i + MaxRes) % IdSpace
    IN  IF j = INVALID_ID THEN (j + MaxRes) % IdSpace ELSE j

\* Mutant of Free: the slot does not link to the slots idle before it.
FreeDropsRest(i) ==
    /\ Resolves(i)
    /\ LET s == SlotOf(i)
           j == NextId(id[s])
       IN  /\ id' = [id EXCEPT ![s] = j]
           /\ next' = [next EXCEPT ![s] = End]
           /\ idle' = s
           /\ held' = held \ {i}
           /\ stale' = stale \cup {i}
           /\ wrapped' = (wrapped \/ j < id[s])

\* _agR_free: the slot gets its next id and goes to the head of the idle list.
\* Its callers pass the id they got from _agR_new, once (do_close, and the
\* failure paths of _agN_connect and _agN_listen).
Free(i) ==
    /\ Resolves(i)
    /\ LET s == SlotOf(i)
           j == NextId(id[s])
       IN  /\ id' = [id EXCEPT ![s] = j]
           /\ next' = [next EXCEPT ![s] = idle]
           /\ idle' = s
           /\ held' = held \ {i}
           /\ stale' = stale \cup {i}
           /\ wrapped' = (wrapped \/ j < id[s])

\* The id arithmetic keeps an id on its slot as long as no id has overflowed,
\* or the number of slots divides the id space.  Behaviours are followed up to
\* the first overflow otherwise: from there on the id of the slot names another
\* slot, and the callers, which dereference _agR_get(_agR_new()), fail.
Congruent == ~wrapped \/ IdSpace % MaxRes = 0

Next ==
    /\ Congruent
    /\ \/ New
       \/ \E i \in held : Free(i)

Spec == Init /\ [][Next]_vars
----------------------------------------------------------------------------
\* _agR_next: the id of the first slot in use after the slot of ite.
AgRNext(ite) ==
    LET from == IF ite = INVALID_ID THEN 0 ELSE SlotOf(ite) + 1
        rest == {s \in from .. MaxRes - 1 : next[s] = InUse}
    IN  IF rest = {} THEN INVALID_ID ELSE id[Min(rest)]

\* The walk of _agN_free over the pool: k calls of _agR_next from INVALID_ID.
Walk[k \in 0 .. MaxRes + 1] ==
    IF k = 0 THEN INVALID_ID ELSE AgRNext(Walk[k - 1])
----------------------------------------------------------------------------
(* Every id that was handed out and not released is found by get_lresource *)
(* on a slot in use, so two holders never share a slot.                    *)
LiveIdResolves ==
    Congruent => \A i \in held : Resolves(i) /\ next[SlotOf(i)] = InUse

(* An id that was released never names a slot again, whatever the slot was *)
(* reused for since: a late _agR_get or a second _agR_free does nothing.   *)
(* (Until an id overflows; ids repeat after that.)                         *)
StaleIdRejected ==
    ~wrapped => \A i \in stale : ~Resolves(i)

(* INVALID_ID, the answer of a failed _agR_new and the mark of "no         *)
(* connection" in every caller, is never the id of a slot, not even when   *)
(* ids overflow.                                                           *)
InvalidNeverCarried ==
    \A s \in Slots : id[s] # INVALID_ID

(* The idle list: it links idle slots only, two links never meet and       *)
(* nothing links to its head, so no slot is handed out twice; "next == 0"  *)
(* marks exactly the slots in use.                                         *)
IdleListSound ==
    /\ idle # End => next[idle] # InUse
    /\ \A s \in Slots : next[s] \in Slots =>
          /\ next[next[s]] # InUse
          /\ next[s] # idle
          /\ \A t \in Slots : next[t] = next[s] => t = s

(* No slot is lost: _agR_new answers INVALID_ID only when every slot has a *)
(* holder, and the walk with _agR_next that _agN_free makes visits every   *)
(* id that is held, once, and ends.                                        *)
NoSlotLost ==
    Congruent =>
        LET n == Cardinality(held)
        IN  /\ idle = End => n = MaxRes
            /\ {Walk[k] : k \in 1 .. n} = held
            /\ Walk[n + 1] = INVALID_ID

(* The pool implements ResourceIds: no id is handed out twice.  (If the    *)
(* number of slots divides the id space the pool goes on after an overflow,*)
(* and repeats ids.)                                                       *)
Pool == INSTANCE ResourceIds WITH live <- held, dead <- stale
ImplementsPool == Pool!Spec
============================================================================
