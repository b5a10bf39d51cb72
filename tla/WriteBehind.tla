---------------------------- MODULE WriteBehind ----------------------------
(***************************************************************************)
(* How the world server keeps the rows of its players in memory: the       *)
(* functions DATA_X_new, _update, _delete, _release, _save, _flush and     *)
(* _load that src/code_generate/code_generate.cpp writes for every table,  *)
(* and when src/world/player.c and src/world/dispatch.c call them.         *)
(*                                                                         *)
(* A change is made to a structure in memory, which is put on an update    *)
(* list.  A flush, at the end of every request and every second, saves the *)
(* changed columns of the structures that have been quiet for QuietMax or  *)
(* dirty for DirtyMax seconds, and of those that were released.            *)
(*                                                                         *)
(* Between Begin and End one request is handled.  A structure is not       *)
(* looked at again after its release, so that the order of the update list *)
(* makes no difference.  Times are kept as ages.  Saves may fail.          *)
(***************************************************************************)
EXTENDS Integers, FiniteSets

CONSTANTS
    Records,        \* the rows, by their keys; one player has one row
    Objs,           \* the structures that can be allocated
    Fields,         \* the columns
    Values,         \* what a column can hold
    NoObj,          \* no structure
    QuietMax,       \* 5
    DirtyMax,       \* 30
    ZombieTime,     \* YQ_MAX_ZOMBIE_TIME
    MaxStep         \* bound on the seconds between two updates

VARIABLES
    obj,            \* the structures
    cur,            \* the structure a loaded row is in
    row,            \* the rows of the database, a function on those that exist
    list,           \* X_update_list
    idle,           \* seconds since the player of a row was last used
    pc,             \* "request" while one is handled
    failed          \* whether a save has failed

vars == <<obj, cur, row, list, idle, pc, failed>>
----------------------------------------------------------------------------
Data == [Fields -> Values]

\* flag is data_flag, "free" for memory that is not allocated; dirtyAge and
\* changeAge are now - dirty_time and now - last_change_time, cut off above
\* DirtyMax; clean is dirty_time = 0.
Struct ==
    [rec : Records, data : Data, dirty : SUBSET Fields, clean : BOOLEAN,
     dirtyAge : 0 .. DirtyMax, changeAge : 0 .. DirtyMax,
     flag : {"none", "delete", "release", "free"}]

Fresh(r, d) ==
    [rec |-> r, data |-> d, dirty |-> {}, clean |-> TRUE,
     dirtyAge |-> 0, changeAge |-> 0, flag |-> "none"]

TypeOK ==
    /\ obj \in [Objs -> Struct]
    /\ cur \in [Records -> Objs \cup {NoObj}]
    /\ DOMAIN row \subseteq Records /\ row \in [DOMAIN row -> Data]
    /\ list \subseteq Objs
    /\ idle \in [Records -> 0 .. ZombieTime + 1]
    /\ pc \in {"idle", "request"}
    /\ failed \in BOOLEAN

Freed(o) == [o EXCEPT !.flag = "free", !.dirty = {}, !.clean = TRUE,
                      !.dirtyAge = 0, !.changeAge = 0]

Init ==
    /\ \E r \in Records, d \in Data :
           /\ obj = [o \in Objs |-> Freed(Fresh(r, d))]
           /\ row = [s \in Records |-> d]
    /\ cur = [r \in Records |-> NoObj]
    /\ list = {}
    /\ idle = [r \in Records |-> 0]
    /\ pc = "idle"
    /\ failed = FALSE
----------------------------------------------------------------------------
(* Saving.                                                                 *)

\* Mutant: a structure is saved when it has been quiet.
DueQuiet(s) == s.flag = "release" \/ (s.flag = "none" /\ s.changeAge >= QuietMax)

\* Whether the flush calls DATA_X_save.
Due(s) ==
    \/ s.flag = "release"
    \/ s.flag = "none" /\ (s.dirtyAge >= DirtyMax \/ s.changeAge >= QuietMax)

\* The structure after DATA_X_save that did not fail.
Saved(s) == [s EXCEPT !.dirty = {}, !.clean = TRUE, !.dirtyAge = 0, !.changeAge = 0]

\* The row after it.
Written(s, d) == [f \in Fields |-> IF f \in s.dirty THEN s.data[f] ELSE d[f]]

\* DATA_X_flush with structures objs and list l.  The saves of lost fail.
Flush(objs, l) ==
    LET due == {o \in l : Due(objs[o])}
        dirty == {o \in due : objs[o].dirty # {} /\ objs[o].rec \in DOMAIN row}
    IN \E lost \in SUBSET dirty :
           /\ failed' = (failed \/ lost # {})
           /\ obj' = [o \in Objs |->
                CASE o \in l /\ objs[o].flag \in {"delete", "release"} ->
                        Freed(objs[o])
                  [] o \in due \ lost /\ objs[o].flag = "none" -> Saved(objs[o])
                  [] OTHER -> objs[o]]
           /\ row' = [r \in DOMAIN row |->
                LET w == {o \in dirty \ lost : objs[o].rec = r}
                IN IF w = {} THEN row[r]
                   ELSE Written(objs[CHOOSE o \in w : TRUE], row[r])]
           /\ list' = {o \in l : objs[o].flag = "none"} \ due
----------------------------------------------------------------------------
(* A request.                                                              *)

\* Mutant: a structure that is clean is not put on the list when released.
ReleasedDirty(gone) ==
    {o \in Objs : \E r \in gone : cur[r] = o /\ obj[o].dirty # {}}

\* DATA_X_release for the structures of the players in gone.
Released(gone) == {cur[r] : r \in gone} \ {NoObj}
Marked(gone) ==
    [o \in Objs |-> IF o \in Released(gone) THEN [obj[o] EXCEPT !.flag = "release"]
                                            ELSE obj[o]]

\* Mutant: a player is unloaded as soon as it is not used.
ZombiesSoon == {r \in Records : cur[r] # NoObj /\ idle[r] > 0}

\* The players try_unload_player_from_zombie_list unloads.
Zombies == {r \in Records : cur[r] # NoObj /\ idle[r] > ZombieTime}

\* process_message up to the handler.  The flush in _player_release finds nothing
\* to save: the clock has not moved since the last one.
Begin ==
    /\ pc = "idle"
    /\ pc' = "request"
    /\ obj' = Marked(Zombies)
    /\ list' = list \cup Released(Zombies)
    /\ cur' = [r \in Records |-> IF r \in Zombies THEN NoObj ELSE cur[r]]
    /\ UNCHANGED <<row, idle, failed>>

\* DATA_X_load: a structure for a row that exists.
Load(r, o) ==
    /\ pc = "request"
    /\ cur[r] = NoObj /\ r \in DOMAIN row
    /\ obj[o].flag = "free"
    /\ obj' = [obj EXCEPT ![o] = Fresh(r, row[r])]
    /\ cur' = [cur EXCEPT ![r] = o]
    /\ idle' = [idle EXCEPT ![r] = 0]
    /\ UNCHANGED <<row, list, pc, failed>>

\* DATA_X_new: the row is inserted at once.
New(r, o, d) ==
    /\ pc = "request"
    /\ cur[r] = NoObj /\ r \notin DOMAIN row
    /\ obj[o].flag = "free"
    /\ obj' = [obj EXCEPT ![o] = Fresh(r, d)]
    /\ row' = [s \in DOMAIN row \cup {r} |-> IF s = r THEN d ELSE row[s]]
    /\ cur' = [cur EXCEPT ![r] = o]
    /\ idle' = [idle EXCEPT ![r] = 0]
    /\ UNCHANGED <<list, pc, failed>>

\* DATA_X_update_f
Update(r, f, v) ==
    /\ pc = "request"
    /\ cur[r] # NoObj
    /\ LET o == cur[r] IN
           /\ obj[o].data[f] # v
           /\ obj' = [obj EXCEPT ![o].data[f] = v, ![o].dirty = @ \cup {f},
                                 ![o].clean = FALSE, ![o].changeAge = 0]
           /\ list' = list \cup {o}
    /\ idle' = [idle EXCEPT ![r] = 0]
    /\ UNCHANGED <<cur, row, pc, failed>>

\* DATA_X_delete: the row is deleted at once.
Delete(r) ==
    /\ pc = "request"
    /\ cur[r] # NoObj
    /\ LET o == cur[r] IN
           /\ obj' = [obj EXCEPT ![o] = [Saved(@) EXCEPT !.flag = "delete"]]
           /\ list' = list \cup {o}
    /\ row' = [s \in DOMAIN row \ {r} |-> row[s]]
    /\ cur' = [cur EXCEPT ![r] = NoObj]
    /\ idle' = [idle EXCEPT ![r] = 0]
    /\ UNCHANGED <<pc, failed>>

\* The end of process_request.  The last a handler may do is to unload players
\* (player_unload in aL_login, do_pbc_unload_player).
End(gone) ==
    /\ pc = "request"
    /\ pc' = "idle"
    /\ Flush(Marked(gone), list \cup Released(gone))
    /\ cur' = [r \in Records |-> IF r \in gone THEN NoObj ELSE cur[r]]
    /\ UNCHANGED idle
----------------------------------------------------------------------------
Older(n, d, top) == IF n + d > top THEN top ELSE n + d

Aged(s, d) ==
    [s EXCEPT !.dirtyAge = IF s.clean THEN 0 ELSE Older(@, d, DirtyMax),
              !.changeAge = IF s.clean THEN 0 ELSE Older(@, d, DirtyMax)]

\* The clock moves and module_player_update flushes.
Second(d) ==
    /\ pc = "idle"
    /\ Flush([o \in Objs |-> Aged(obj[o], d)], list)
    /\ idle' = [r \in Records |-> IF cur[r] = NoObj THEN 0
                                  ELSE Older(idle[r], d, ZombieTime + 1)]
    /\ UNCHANGED <<cur, pc>>

\* The process is stopped by a signal: module_player_unload releases everything.
Stop ==
    /\ pc = "idle"
    /\ Flush(Marked(Records), list \cup Released(Records))
    /\ cur' = [r \in Records |-> NoObj]
    /\ idle' = [r \in Records |-> 0]
    /\ UNCHANGED pc

\* The process dies and is started again.
Crash ==
    /\ obj' = [o \in Objs |-> Freed(obj[o])]
    /\ cur' = [r \in Records |-> NoObj]
    /\ list' = {}
    /\ idle' = [r \in Records |-> 0]
    /\ pc' = "idle"
    /\ UNCHANGED <<row, failed>>

Next ==
    \/ Begin
    \/ \E r \in Records, o \in Objs : Load(r, o) \/ \E d \in Data : New(r, o, d)
    \/ \E r \in Records, f \in Fields, v \in Values : Update(r, f, v)
    \/ \E r \in Records : Delete(r)
    \/ \E gone \in SUBSET Records : End(gone)
    \/ \E d \in 1 .. MaxStep : Second(d)
    \/ Stop \/ Crash

Spec == Init /\ [][Next]_vars
----------------------------------------------------------------------------
(* Properties.                                                             *)

Loaded(r) == cur[r] # NoObj

\* The structures in use are allocated and belong to their row, and one that was
\* released or deleted stays on the list until it is freed: the flush neither
\* frees a structure in use nor forgets one that is not.
OwnStructs ==
    /\ \A r \in Records : Loaded(r) =>
           obj[cur[r]].flag = "none" /\ obj[cur[r]].rec = r
    /\ \A o \in Objs :
           /\ o \in list => obj[o].flag # "free"
           /\ obj[o].flag \in {"release", "delete"} => o \in list
           /\ obj[o].flag = "none" => cur[obj[o].rec] = o

\* Until a save fails, what a crash loses between two requests is at most DirtyMax
\* seconds old: a column that differs from its row in the database is marked dirty,
\* and a structure with such columns is on the update list and was dirty for less
\* than that, whatever was changed since.
LossBounded ==
    ~failed => \A r \in Records : Loaded(r) =>
        LET s == obj[cur[r]]
        IN /\ r \in DOMAIN row
           /\ \A f \in Fields : s.data[f] # row[r][f] => f \in s.dirty
           /\ pc = "idle" /\ s.dirty # {} => cur[r] \in list /\ s.dirtyAge < DirtyMax

\* Until a save fails, a player is never loaded from rows that changes of its last
\* stay in memory have yet to reach.
LoadsLatest ==
    ~failed => \A r \in Records : Loaded(r) =>
        \A o \in Objs \ {cur[r]} : obj[o].rec = r => obj[o].dirty = {}
============================================================================
