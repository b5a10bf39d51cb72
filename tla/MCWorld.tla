------------------------------ MODULE MCWorld ------------------------------
(* Three parts of the world server that share no state, each by itself:    *)
(* its requests and players, the rows it holds of its players, and its     *)
(* notifications.                                                          *)
EXTENDS World, MCRows, MCNotes

VARIABLE part

MCInit ==
    /\ part \in {"players", "rows", "notes"}
    /\ Init /\ Rows!Init /\ Notes!Init
    /\ part = "rows" \/ \A s \in Records, f \in Fields : row[s][f] = 0

MCNext ==
    /\ part' = part
    /\ \/ part = "players" /\ Next /\ UNCHANGED <<rowVars, noteVars>>
       \/ part = "rows" /\ Rows!Next /\ UNCHANGED <<vars, noteVars>>
       \/ part = "notes" /\ Notes!Next /\ UNCHANGED <<vars, rowVars>>

MCSpec == MCInit /\ [][MCNext]_<<part, vars, rowVars, noteVars>>
----------------------------------------------------------------------------
\* The types of the three parts.
TypesOK == TypeOK /\ Rows!TypeOK /\ Notes!TypeOK
============================================================================
