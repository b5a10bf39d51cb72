------------------------------ MODULE MCNotes ------------------------------
(* The notifications of the world server.                                  *)
EXTENDS Integers, Sequences

CONSTANTS
    Counted, Notified, Keys, NoKey, Contents, NBCount, NBDelay, MaxCount, MaxList, None

ASSUME NotesAssumption ==
    /\ NoKey \notin Keys
    /\ NBCount \in Nat \ {0} /\ NBDelay \in Nat \ {0} /\ MaxCount \in Nat /\ MaxList \in Nat
    /\ None \notin Counted /\ None \notin Contents /\ None \notin 0 .. NBCount - 1

VARIABLES
    l, last, player, used, map, recorded, sent, clean, i, n, force, todo

noteVars == <<l, last, player, used, map, recorded, sent, clean, i, n, force, todo>>

Notes == INSTANCE Notify WITH Players <- Counted, Clients <- Notified,
                              Values <- Contents, pc <- clean

\* Notes: a client is sent the last value of every key, once (notification_set);
\* no count is lost or sent twice, the map and the array of counts agree, and none
\* waits for NBDelay seconds without being added to (notification_backend,
\* _nb_clean).
NotesKept ==
    /\ Notes!LastValue
    /\ Notes!MapMatches /\ Notes!CountsKept /\ Notes!SentInTime
============================================================================
