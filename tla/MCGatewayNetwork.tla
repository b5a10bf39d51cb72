-------------------------- MODULE MCGatewayNetwork --------------------------
(* Small instances of the gateway's use of the event loop.                 *)
EXTENDS GatewayNetwork, TLC

CONSTANTS link, session, pending

Symmetry == Permutations(Conns)

\* A gateway at work, between two ticks: its link is up, a player has a session,
\* and a connection that had waited for more than ten seconds has just sent its
\* login.
AtWork ==
    /\ status = [c \in Conns |-> IF c \in {link, session, pending}
                                 THEN "connected" ELSE "closed"]
    /\ role = (link :> "link" @@ session :> "translate" @@ pending :> "authserver"
                 @@ [c \in Conns |-> "none"])
    /\ late = {pending}
    /\ starting = NIL
    /\ next = [c \in Conns |-> NIL]
    /\ inActive = [c \in Conns |-> FALSE]
    /\ events = [c \in Conns |-> IF status[c] = "connected" THEN {"in"} ELSE {}]
    /\ wbuf = [c \in Conns |-> FALSE]
    /\ active = NIL /\ closing = NIL
    /\ batch = {} /\ pc = "tick" /\ phase = "events"
    /\ cur = NIL /\ ev = {} /\ after = "events"

AtWorkSpec == AtWork /\ [][GNext]_gvars
=============================================================================
