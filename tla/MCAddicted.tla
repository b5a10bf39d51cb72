----------------------------- MODULE MCAddicted -----------------------------
(* The timer wheel of the world server, with any use that its callers may  *)
(* make of it (part = "wheel"), and as the limits on playing time use it   *)
(* (part = "addicted").                                                    *)
EXTENDS Addicted, TLC

VARIABLE part

MCInit == part \in {"wheel", "addicted"} /\ AddictedInit

MCNext ==
    /\ part' = part
    /\ \/ part = "wheel" /\ Next /\ UNCHANGED <<infoVars, propVars>>
       \/ part = "addicted" /\ AddictedNext

MCSpec == MCInit /\ [][MCNext]_<<part, addictedVars>>

Symmetry == Permutations(Timers)

\* The infos that are allocated and the timers in the wheel belong to each other:
\* checkPlayer never runs with an info that was freed, and no player drops out of
\* being checked.
Watching == AddictedTypeOK /\ (part = "addicted" => InfoHasTimer)

\* checkPlayer runs before a minor exceeds the limit by more than Extra seconds.
InTime == part = "addicted" => CheckedInTime
============================================================================
