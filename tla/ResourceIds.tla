---------------------------- MODULE ResourceIds ----------------------------
(***************************************************************************)
(* What the resource pool promises its users: an id that is handed out is  *)
(* a valid one that nobody has ever had, and it is live until its holder   *)
(* releases it.  The other models rely on this when they name connections  *)
(* by ids that are never used again.                                       *)
(***************************************************************************)
EXTENDS Naturals

CONSTANTS Ids, INVALID_ID

VARIABLES
    live,       \* the ids handed out and not released
    dead        \* the ids released

Init == live = {} /\ dead = {}

HandOut ==
    \E i \in Ids \ {INVALID_ID} :
        /\ i \notin live \cup dead
        /\ live' = live \cup {i}
        /\ UNCHANGED dead

Release ==
    \E i \in live :
        /\ live' = live \ {i}
        /\ dead' = dead \cup {i}

Spec == Init /\ [][HandOut \/ Release]_<<live, dead>>
=============================================================================
