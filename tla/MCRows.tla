------------------------------ MODULE MCRows ------------------------------
(* The rows that the world server holds of its players.                    *)
EXTENDS Integers, FiniteSets

CONSTANTS
    Records, Objs, Fields, Values, NoObj, QuietMax, DirtyMax, UnloadTime, MaxStep

\* A column is saved QuietMax (5) seconds after its last change, and a player is
\* unloaded long after that (YQ_MAX_ZOMBIE_TIME, 900).
ASSUME RowsAssumption ==
    /\ NoObj \notin Objs
    /\ QuietMax \in Nat /\ DirtyMax \in Nat /\ UnloadTime \in Nat /\ MaxStep \in Nat
    /\ QuietMax <= DirtyMax /\ QuietMax <= UnloadTime

VARIABLES
    obj, struct, row, list, idle, step, failed

rowVars == <<obj, struct, row, list, idle, step, failed>>

Rows == INSTANCE WriteBehind WITH ZombieTime <- UnloadTime, cur <- struct, pc <- step

\* Rows: the flush neither frees a structure in use nor forgets one that was
\* released or deleted (DATA_X_flush).
OwnStructs == Rows!OwnStructs

\* Rows: until a save fails, what differs from the database is marked dirty,
\* and a crash loses changes of less than DirtyMax seconds (DATA_X_update_f,
\* DATA_X_save).
LossBounded == Rows!LossBounded

\* Rows: until a save fails, a player is not loaded from rows that changes of its
\* last stay in memory have yet to reach (DATA_X_load after DATA_X_release).
LoadsLatest == Rows!LoadsLatest
============================================================================
