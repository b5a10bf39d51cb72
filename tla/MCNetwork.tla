----------------------------- MODULE MCNetwork -----------------------------
(* The event loop with a few connection slots, used in every way its       *)
(* programs do (Uses of the configuration), or only in the ways its lists  *)
(* are made for (plain).                                                   *)
EXTENDS Network

VARIABLE plain

Plain == INSTANCE Network WITH Uses <- {}

MCInit == plain \in BOOLEAN /\ Init

MCNext ==
    /\ plain' = plain
    /\ IF plain THEN Plain!Next ELSE Next

MCSpec == MCInit /\ [][MCNext]_<<plain, vars>> /\ Fairness

\* Plain use: active_list and closing_list are without cycles and have no
\* connection in common, and closed connections are found from closing_list.
PlainListsSound == plain => ListsSound

\* Plain use: every agN_connect is answered by a call of process_connected.
PlainConnectReported == plain => ConnectReported

\* Plain use: the slot of a connection that was closed is released by the sweep.
PlainClosingReleased == plain => ClosingReleased
============================================================================
