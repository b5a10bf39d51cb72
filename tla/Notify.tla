------------------------------- MODULE Notify -------------------------------
(***************************************************************************)
(* Notifications of the world server, src/world/notify.c.                  *)
(*                                                                         *)
(* Notifications for a player's client wait in a list (PlayerNotify) until *)
(* notification_clean sends the list; notification_set replaces a          *)
(* notification with the same key that still waits.  Counts for the        *)
(* backend are summed up in an array of NBCount entries with a map from    *)
(* players to entries; _nb_clean sends those that have been quiet for      *)
(* NBDelay seconds, or all of them when the array is full, and closes the  *)
(* gaps.  The loop of _nb_clean is modelled step by step (pc = "clean").   *)
(***************************************************************************)
EXTENDS Integers, Sequences

CONSTANTS
    Players,
    Clients,        \* the players that are sent notifications
    Keys,           \* rkey: the type and key of notification_set
    NoKey,          \* rkey = 0, of notification_add
    Values,         \* contents of notifications
    NBCount,        \* NB_COUNT
    NBDelay,        \* NB_DELAY
    MaxCount,       \* bound on the counts recorded for a player
    MaxList,        \* bound on the notifications waiting for a player
    None            \* no entry, and memory that is zero

VARIABLES
    l,              \* the notifications that wait, by player
    last,           \* the value last given to notification_set, if it waits
    player,         \* nb_list.player
    used,           \* nb_list.used
    map,            \* nb_list.map, the index of a player's entry
    recorded, sent, \* all that was recorded, and sent, of a player's counts
    pc,             \* "idle" or "clean"
    i, n,           \* i and used of _nb_clean
    force,          \* its parameter
    todo            \* the player whose count made the array overflow

queueVars == <<l, last>>
countVars == <<player, used, map, recorded, sent>>
vars == <<queueVars, countVars, pc, i, n, force, todo>>
----------------------------------------------------------------------------
Entry == [rkey : Keys \cup {NoKey}, value : Values]
Slots == 0 .. NBCount - 1
Zero == [pid |-> None, value |-> 0, age |-> 0]

\* struct nb_player; age is now - time, cut off at NBDelay.
NBPlayer == [pid : Players \cup {None}, value : 0 .. MaxCount, age : 0 .. NBDelay]

TypeOK ==
    /\ \A p \in Clients : l[p] \in Seq(Entry) /\ Len(l[p]) <= MaxList
    /\ last \in [Clients -> [Keys -> Values \cup {None}]]
    /\ player \in [Slots -> NBPlayer]
    /\ used \in 0 .. NBCount
    /\ map \in [Players -> Slots \cup {None}]
    /\ recorded \in [Players -> 0 .. MaxCount]
    /\ sent \in [Players -> 0 .. MaxCount]
    /\ pc \in {"idle", "clean"} /\ force \in BOOLEAN
    /\ i \in 0 .. NBCount /\ n \in 0 .. NBCount
    /\ todo \in Players \cup {None}

Init ==
    /\ l = [p \in Clients |-> <<>>]
    /\ last = [p \in Clients |-> [k \in Keys |-> None]]
    /\ player = [s \in Slots |-> Zero]
    /\ used = 0
    /\ map = [p \in Players |-> None]
    /\ recorded = [p \in Players |-> 0]
    /\ sent = [p \in Players |-> 0]
    /\ pc = "idle" /\ i = 0 /\ n = 0 /\ force = FALSE /\ todo = None
----------------------------------------------------------------------------
(* Notifications for clients.                                              *)

\* notification_add
Add(p, v) ==
    /\ pc = "idle"
    /\ Len(l[p]) < MaxList
    /\ l' = [l EXCEPT ![p] = Append(@, [rkey |-> NoKey, value |-> v])]
    /\ UNCHANGED <<last, countVars, pc, i, n, force, todo>>

Waiting(p, k) == {j \in DOMAIN l[p] : l[p][j].rkey = k}

\* notification_set: in its old place if one with the key waits.
Set(p, k, v) ==
    /\ pc = "idle"
    /\ Waiting(p, k) = {} => Len(l[p]) < MaxList
    /\ l' = [l EXCEPT ![p] =
                IF Waiting(p, k) = {} THEN Append(@, [rkey |-> k, value |-> v])
                ELSE [j \in DOMAIN @ |-> IF j \in Waiting(p, k)
                                         THEN [@[j] EXCEPT !.value = v] ELSE @[j]]]
    /\ last' = [last EXCEPT ![p][k] = v]
    /\ UNCHANGED <<countVars, pc, i, n, force, todo>>
----------------------------------------------------------------------------
(* Counts for the backend.                                                 *)

\* The start of _nb_clean.
CleanFrom(f, p) ==
    /\ pc' = "clean"
    /\ i' = 0 /\ n' = used
    /\ used' = 0
    /\ force' = f /\ todo' = p

\* notification_clean, at the end of every request: all lists are sent, and
\* _nb_clean begins.
Clean ==
    /\ pc = "idle"
    /\ l' = [p \in Clients |-> <<>>]
    /\ last' = [p \in Clients |-> [k \in Keys |-> None]]
    /\ CleanFrom(FALSE, None)
    /\ UNCHANGED <<player, map, recorded, sent>>

\* module_notify_update, d seconds later.
Second(d) ==
    /\ pc = "idle"
    /\ l' = [p \in Clients |-> <<>>]
    /\ last' = [p \in Clients |-> [k \in Keys |-> None]]
    /\ player' = [s \in Slots |-> IF player[s] = Zero THEN Zero
                    ELSE [player[s] EXCEPT !.age = IF @ + d > NBDelay THEN NBDelay
                                                                     ELSE @ + d]]
    /\ CleanFrom(FALSE, None)
    /\ UNCHANGED <<map, recorded, sent>>

\* Mutant: an entry is moved and its old place keeps its contents.
CleanStepCopies ==
    /\ pc = "clean"
    /\ i < n
    /\ i' = i + 1
    /\ LET e == player[i] IN
       IF force \/ e.age >= NBDelay
       THEN /\ map' = [map EXCEPT ![e.pid] = None]
            /\ sent' = [sent EXCEPT ![e.pid] = @ + e.value]
            /\ player' = [player EXCEPT ![i] = Zero]
            /\ UNCHANGED used
       ELSE /\ used' = used + 1
            /\ player' = [player EXCEPT ![used] = e]
            /\ map' = [map EXCEPT ![e.pid] = used]
            /\ UNCHANGED sent
    /\ UNCHANGED <<queueVars, recorded, pc, n, force, todo>>

\* An iteration of the loop of _nb_clean.
CleanStep ==
    /\ pc = "clean"
    /\ i < n
    /\ i' = i + 1
    /\ LET e == player[i] IN
       IF force \/ e.age >= NBDelay
       THEN /\ map' = [map EXCEPT ![e.pid] = None]
            /\ sent' = [sent EXCEPT ![e.pid] = @ + e.value]
            /\ player' = [player EXCEPT ![i] = Zero]
            /\ UNCHANGED used
       ELSE /\ used' = used + 1
            /\ IF used = i THEN UNCHANGED <<player, map>>
               ELSE /\ map' = [map EXCEPT ![e.pid] = used]
                    /\ player' = [player EXCEPT ![used] = e, ![i] = Zero]
            /\ UNCHANGED sent
    /\ UNCHANGED <<queueVars, recorded, pc, n, force, todo>>

\* _nb_get of a player without an entry, and the count.
Enter(p) ==
    /\ map' = [map EXCEPT ![p] = used]
    /\ player' = [player EXCEPT ![used] =
                    [pid |-> p, value |-> @.value + 1, age |-> 0]]
    /\ used' = used + 1

\* notification_backend: a count of one for player p.
Record(p) ==
    /\ pc = "idle"
    /\ recorded[p] < MaxCount
    /\ recorded' = [recorded EXCEPT ![p] = @ + 1]
    /\ UNCHANGED <<queueVars, sent>>
    /\ CASE map[p] # None ->
              /\ player' = [player EXCEPT ![map[p]].value = @ + 1, ![map[p]].age = 0]
              /\ UNCHANGED <<used, map, pc, i, n, force, todo>>
         [] map[p] = None /\ used < NBCount ->
              Enter(p) /\ UNCHANGED <<pc, i, n, force, todo>>
         [] map[p] = None /\ used >= NBCount ->
              CleanFrom(TRUE, p) /\ UNCHANGED <<player, map>>

\* The end of _nb_clean; a count that had no room is entered now.
CleanDone ==
    /\ pc = "clean"
    /\ i = n
    /\ pc' = "idle" /\ i' = 0 /\ n' = 0 /\ force' = FALSE /\ todo' = None
    /\ IF todo = None THEN UNCHANGED <<player, used, map>> ELSE Enter(todo)
    /\ UNCHANGED <<queueVars, recorded, sent>>

Next ==
    \/ \E p \in Clients, v \in Values : Add(p, v) \/ \E k \in Keys : Set(p, k, v)
    \/ Clean \/ \E d \in 1 .. NBDelay : Second(d)
    \/ \E p \in Players : Record(p)
    \/ CleanStep \/ CleanDone

Spec == Init /\ [][Next]_vars
----------------------------------------------------------------------------
(* Properties.                                                             *)

\* A client is sent the last value of every key once, wherever other
\* notifications were put in between.
LastValue ==
    \A p \in Clients, k \in Keys :
        IF last[p][k] = None THEN Waiting(p, k) = {}
        ELSE \E j \in DOMAIN l[p] :
                 Waiting(p, k) = {j} /\ l[p][j].value = last[p][k]

\* Between requests the map and the array agree: each entry below used is that of
\* one player, found by the map, and the rest of the array is zero, as _nb_get
\* needs it to be.
MapMatches ==
    pc = "idle" =>
        /\ \A p \in Players : map[p] # None =>
               map[p] < used /\ player[map[p]].pid = p
        /\ \A s \in Slots : IF s < used THEN map[player[s].pid] = s
                                        ELSE player[s] = Zero

\* No count is lost or sent twice, through overflows of the array, moves of its
\* entries and the cleaning that happens in the middle of a count.
CountsKept ==
    pc = "idle" => \A p \in Players :
        recorded[p] = sent[p] + (IF map[p] = None THEN 0 ELSE player[map[p]].value)

\* Between requests every count that waits was last added to less than NBDelay
\* seconds ago: none is overlooked when the entries are moved.
SentInTime == pc = "idle" => \A s \in Slots : s < used => player[s].age < NBDelay
============================================================================
