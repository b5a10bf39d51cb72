--------------------------- MODULE GatewayNetwork ---------------------------
(***************************************************************************)
(* The event loop driven by the gateway: Network composed with the calls   *)
(* that the callbacks of src/gateway make.  What the calls are about, the  *)
(* sessions, is in module Gateway; here a connection only has the role its *)
(* handler gives it:                                                       *)
(*   auth        auth.c, not logged in                                     *)
(*   authserver  authserver.c, its login is being verified                 *)
(*   unsent      the same, and the request could not be sent               *)
(*   translate   translate.c, the session of a player                      *)
(*   link        the gateway's connection to another server                *)
(***************************************************************************)
EXTENDS Network

VARIABLES
    role,           \* the role of each connection
    late,           \* connections that have waited more than ten seconds
    starting        \* the connection a running start_auth is about

gvars == <<vars, role, late, starting>>

GInit ==
    /\ Init
    /\ role = [c \in Conns |-> "none"]
    /\ late = {}
    /\ starting = NIL

Become(c, r) ==
    /\ starting = NIL
    /\ role' = [role EXCEPT ![c] = r]
    /\ late' = late \ {c}
    /\ UNCHANGED starting

Stay == starting = NIL /\ UNCHANGED <<role, late, starting>>

Waiting == {c \in Conns : role[c] \in {"auth", "authserver", "unsent"}}
Sessions == {c \in Conns : role[c] = "translate"}
LinkUp == \E a \in Conns : role[a] = "link" /\ status[a] = "connected"

InMessage(r) == pc = "cb" /\ after = "read" /\ role[cur] = r
InClosed(r) == pc = "cb" /\ after = "close" /\ role[cur] = r
InTimer == pc = "cb" /\ cur = NIL
-----------------------------------------------------------------------------
\* Ten seconds pass before a tick.  No login is being verified that long.
GTickWait ==
    /\ TickWait
    /\ \/ UNCHANGED late
       \/ /\ \A c \in Waiting : role[c] = "auth"
          /\ late' = Waiting
    /\ UNCHANGED <<role, starting>>

\* start_auth: clean_waiting_client closes every connection that is late, also
\* one whose login is being verified; then the handler is set.
StartAuth(c) == starting = NIL /\ starting' = c /\ UNCHANGED <<vars, role, late>>

Reap(c) ==
    /\ starting # NIL
    /\ c \in late
    /\ IF status[c] = "closed" THEN UNCHANGED vars ELSE ApiClose(c)
    /\ late' = late \ {c}
    /\ UNCHANGED <<role, starting>>

StartedAuth ==
    /\ starting # NIL
    /\ late = {}
    /\ IF after = "accept" \/ status[starting] = "closed"
       THEN UNCHANGED vars
       ELSE ApiSetHandler(starting)
    /\ role' = [role EXCEPT ![starting] = "auth"]
    /\ starting' = NIL
    /\ UNCHANGED late

\* listener.c on_accept.  (AcceptOnce has set the handler.)
GAccept(c) ==
    /\ AcceptOnce(c)
    /\ starting' = c
    /\ late' = late \ {c}
    /\ UNCHANGED role

\* start_auth of a session whose player logged in again elsewhere (after_auth)
\* or whose login the world refused (translate_to_client).
BackToAuth(c) == InMessage("link") /\ c \in Sessions /\ StartAuth(c)

\* translate.c on_closed: send_logout, with its start_auth.
SessionClosed == InClosed("translate") /\ StartAuth(cur)

\* auth.c process_message: anything but a well-formed login closes.
BadMessage ==
    /\ InMessage("auth")
    /\ ApiClose(cur)
    /\ Stay

\* authserver_auth: start_authserver sets the handler, then the request is sent.
Login ==
    /\ InMessage("auth")
    /\ status[cur] = "connected"
    /\ ApiSetHandler(cur)
    /\ role' = [role EXCEPT ![cur] = IF LinkUp THEN "authserver" ELSE "unsent"]
    /\ UNCHANGED <<late, starting>>

\* do_amf_auth, when authserver_auth failed: respond_auth_fail_and_close.
LoginUnsent ==
    /\ InMessage("unsent")
    /\ status[cur] = "connected"
    /\ ApiClose(cur)
    /\ Stay

\* authserver.c on_message: after_auth and start_translate, or
\* respond_auth_fail_and_close, also of an rpc that timed out.  Neither asks
\* whether the connection of the rpc is still open.
AuthPass(c) ==
    /\ InMessage("link")
    /\ role[c] = "authserver"
    /\ ApiSetHandler(c)
    /\ Become(c, "translate")

AuthFail(c) ==
    /\ InMessage("link") \/ InTimer
    /\ role[c] = "authserver"
    /\ ApiClose(c)
    /\ Become(c, "none")

\* translate_to_client of C_LOGOUT_RESPOND.
Kicked(c) ==
    /\ InMessage("link")
    /\ c \in Sessions
    /\ ApiClose(c)
    /\ Become(c, "none")

\* module_authserver_update: reconnect.
ConnectLink(c) ==
    /\ InTimer
    /\ \A a \in Conns : role[a] = "link" => status[a] \in {"closed", "closing"}
    /\ ApiConnect(c)
    /\ Become(c, "link")

\* A callback returns when it has made its calls; on_closed_client clears the
\* connection of the rpc.
GReturn ==
    /\ ~(InMessage("unsent") /\ status[cur] = "connected")
    /\ ~InClosed("translate")
    /\ Return
    /\ IF InClosed("authserver") THEN Become(cur, "none") ELSE Stay
-----------------------------------------------------------------------------
Calls ==
    \/ BadMessage \/ Login \/ LoginUnsent \/ SessionClosed \/ StartedAuth
    \/ \E c \in Conns : \/ Reap(c) \/ AuthPass(c) \/ AuthFail(c)
                        \/ BackToAuth(c) \/ Kicked(c) \/ ConnectLink(c)

GLoop ==
    \/ GTickWait \/ GReturn
    \/ \E c \in Conns : GAccept(c) \/ (Event(c) /\ Stay)
    \/ /\ \/ TickDrain \/ DrainEnd \/ Drain
          \/ AcceptStart \/ AcceptEnd \/ CleanClient
          \/ ReadMessage \/ ReadClosed \/ ReadEnd \/ Write
       /\ Stay

GNext == Calls \/ GLoop

GSpec == GInit /\ [][GNext]_gvars
-----------------------------------------------------------------------------
(* assert(n != head) of _network_active (network.c:733): when a connection *)
(* has been activated, following the links from the head of active_list    *)
(* does not lead back to it.                                               *)
ActiveAssert ==
    [][\A c \in Conns : ApiSetHandler(c) => NoActiveCycle']_gvars
=============================================================================
