------------------------------ MODULE Gateway ------------------------------
(***************************************************************************)
(* The sessions of the gateway (src/gateway): a client connection is       *)
(* accepted (auth.c), its login is verified by the authentication server   *)
(* (authserver.c), and it becomes the session of a player (client.c,       *)
(* translate.c) whose messages go to the world server (world.c).           *)
(*                                                                         *)
(* Every callback of the event loop is one action: the gateway has one     *)
(* thread and its callbacks do not nest (module Network).  A connection is *)
(* named by its id; ids are not used again (module Lrm).  _agN_close calls *)
(* no handler, and a connection is released later: until then its id still *)
(* resolves, so a handler can still be set on it.                          *)
(*                                                                         *)
(* The world and the authentication server are external: they answer the   *)
(* requests of a link in order, or lose them with the link.                *)
(***************************************************************************)
EXTENDS Integers, Sequences, FiniteSetsExt, Dlist

CONSTANTS
    Conns,          \* connection ids
    Players,        \* player ids
    NoConn,         \* INVALID_ID, and no client
    NoPlayer,       \* no context
    RpcTimeout,     \* AUTH_SERVER_RPC_TIMEOUT
    WaitTimeout,    \* the seconds a connection may wait in wqueue
    MaxSn,          \* bound on the logins of a behaviour
    MaxWire,        \* bound on the requests under way to the world
    WorldRejects,   \* whether the world may answer a login with a failure
    Malformed       \* whether a session may send what does not parse

ASSUME GatewayAssumption ==
    /\ NoConn \notin Conns
    /\ NoPlayer \notin Players
    /\ RpcTimeout \in Nat \ {0}
    /\ WaitTimeout \in Nat \ {0}
    /\ MaxSn \in Nat
    /\ MaxWire \in Nat
    /\ WorldRejects \in BOOLEAN
    /\ Malformed \in BOOLEAN

VARIABLES
    conn,           \* state of a connection
    handler,        \* the handler set on it, with its context
    wqueue,         \* wqueue of auth.c; "mapped" marks the entry in wmap
    sn,             \* the counter of next_sn
    table,          \* the keys of g_rpc_data_table
    rpcs,           \* g_rpc_data_list
    rpcConn,        \* rpc->conn
    rpcAge,         \* seconds since rpc->create_time
    authLink,       \* the connection to the authentication server
    asked,          \* requests it has yet to answer
    client,         \* client_hash: the connection of each player's client
    worldLink,      \* the connection to the world
    wire,           \* what the gateway sent on it, not handled yet
    back,           \* what the world sent on it, not handled yet
    online          \* the players the world holds to be online

connVars == <<conn, handler>>
rpcVars == <<sn, table, rpcs, rpcConn, rpcAge>>
authVars == <<authLink, asked>>
worldVars == <<worldLink, wire, back, online>>
vars == <<connVars, wqueue, rpcVars, authVars, client, worldVars>>
-----------------------------------------------------------------------------
Sns == 1 .. MaxSn
Links == {"down", "connecting", "up"}

\* A handler and the context given with it: none, the rpc, the client.
Handlers == [of : {"none", "auth", "authserver", "translate"},
             rpc : Sns \cup {0}, pid : Players \cup {NoPlayer}]
NoHandler == [of |-> "none", rpc |-> 0, pid |-> NoPlayer]
AuthHandler == [of |-> "auth", rpc |-> 0, pid |-> NoPlayer]
RpcHandler(s) == [of |-> "authserver", rpc |-> s, pid |-> NoPlayer]
TranslateHandler(p) == [of |-> "translate", rpc |-> 0, pid |-> p]

Clients == {p \in Players : client[p] # NoConn}
Requests == [type : {"login", "logout"}, pid : Players]
               \cup [type : {"register"}, players : SUBSET Players]
Answers == [type : {"reject", "logout"}, pid : Players]

TypeOK ==
    /\ conn \in [Conns -> {"none", "open", "closing", "closed"}]
    /\ handler \in [Conns -> Handlers]
    /\ wqueue \in Seq([conn : Conns, age : 0 .. WaitTimeout + 1, mapped : BOOLEAN])
    /\ sn \in 0 .. MaxSn
    /\ table \in SUBSET Sns
    /\ rpcs \in Seq(Sns)
    /\ rpcConn \in [Sns -> Conns \cup {NoConn}]
    /\ rpcAge \in [Sns -> 0 .. RpcTimeout]
    /\ authLink \in Links
    /\ asked \in SUBSET Sns
    /\ client \in [Players -> Conns \cup {NoConn}]
    /\ worldLink \in Links
    /\ wire \in Seq(Requests)
    /\ back \in Seq(Answers)
    /\ online \in SUBSET Players

\* The modules are loaded: both links are connecting, no client is there.
Init ==
    /\ conn = [k \in Conns |-> "none"]
    /\ handler = [k \in Conns |-> NoHandler]
    /\ wqueue = <<>>
    /\ sn = 0
    /\ table = {}
    /\ rpcs = <<>>
    /\ rpcConn = [s \in Sns |-> NoConn]
    /\ rpcAge = [s \in Sns |-> 0]
    /\ authLink = "connecting"
    /\ asked = {}
    /\ client = [p \in Players |-> NoConn]
    /\ worldLink = "connecting"
    /\ wire = <<>>
    /\ back = <<>>
    /\ online = {}
-----------------------------------------------------------------------------
(* What the network layer does for the gateway.                            *)

\* Closing the connections S; the others, and those no longer there, stay.
Shut(S) == [k \in Conns |-> IF k \in S /\ conn[k] = "open" THEN "closing" ELSE conn[k]]

\* agN_set_handler succeeds as long as the id resolves.
Resolves(k) == k \in Conns /\ conn[k] \in {"open", "closing"}

SetHandler(k, h) ==
    handler' = IF Resolves(k) THEN [handler EXCEPT ![k] = h] ELSE handler

\* A message to the world is lost unless the link is up.
SendWorld(m) ==
    IF worldLink = "up"
    THEN wire' = Append(wire, m) /\ UNCHANGED <<worldLink, back, online>>
    ELSE UNCHANGED worldVars

\* Room for one more request to the world.
Room == worldLink = "up" => Len(wire) < MaxWire
-----------------------------------------------------------------------------
(* auth.c: connections that have not logged in.                            *)

\* clean_waiting_client takes the expired entries off the front of wqueue.
Reaps ==
    Max({0} \cup {n \in 1 .. Len(wqueue) :
                    \A i \in 1 .. n : wqueue[i].age > WaitTimeout})
Reaped == {wqueue[i].conn : i \in 1 .. Reaps}
Kept == SubSeq(wqueue, Reaps + 1, Len(wqueue))

\* _agMap_ip_set(wmap, k, 0) for k in S: the entries stay in the queue.
Unmap(q, S) ==
    [i \in 1 .. Len(q) |-> [q[i] EXCEPT !.mapped = @ /\ q[i].conn \notin S]]

\* Mutant: start_auth only sets the handler.
NewWaitingLost(k) == Unmap(Kept, Reaped \cup {k})

\* new_waiting_client; a second entry of k takes the first one's place in wmap.
NewWaiting(k) ==
    Append(Unmap(Kept, Reaped \cup {k}), [conn |-> k, age |-> 0, mapped |-> TRUE])

\* remove_waiting takes out the entry that wmap names for k.
RemoveWaiting(q, k) ==
    LET named == {i \in 1 .. Len(q) : q[i].mapped /\ q[i].conn = k}
    IN  IF named = {} THEN q ELSE RemoveNode(q, CHOOSE i \in named : TRUE)

\* listener.c on_accept, start_auth.
Accept(k) ==
    /\ conn[k] = "none"
    /\ conn' = [Shut(Reaped) EXCEPT ![k] = "open"]
    /\ handler' = [handler EXCEPT ![k] = AuthHandler]
    /\ wqueue' = NewWaiting(k)
    /\ UNCHANGED <<rpcVars, authVars, client, worldVars>>

\* process_message: anything but a well-formed login closes the connection.
BadFirst(k) ==
    /\ conn[k] = "open" /\ handler[k].of = "auth"
    /\ conn' = Shut({k})
    /\ UNCHANGED <<handler, wqueue, rpcVars, authVars, client, worldVars>>

\* Mutant: the rpc goes to the front of the list.
FileRpcAtFront(k) ==
    /\ sn' = sn + 1
    /\ table' = table \cup {sn'}
    /\ rpcs' = <<sn'>> \o rpcs
    /\ rpcConn' = [rpcConn EXCEPT ![sn'] = k]
    /\ rpcAge' = [rpcAge EXCEPT ![sn'] = 0]

\* authserver_auth: next_sn, then the rpc of k joins the table and the list.
FileRpc(k) ==
    /\ sn' = sn + 1
    /\ table' = table \cup {sn'}
    /\ rpcs' = Append(rpcs, sn')
    /\ rpcConn' = [rpcConn EXCEPT ![sn'] = k]
    /\ rpcAge' = [rpcAge EXCEPT ![sn'] = 0]

\* do_amf_auth and authserver_auth: the rpc is filed and the handler set before
\* the request is sent; if it cannot be sent the connection is closed.
LoginRequest(k) ==
    /\ conn[k] = "open" /\ handler[k].of = "auth"
    /\ sn < MaxSn
    /\ FileRpc(k)
    /\ handler' = [handler EXCEPT ![k] = RpcHandler(sn')]
    /\ IF authLink = "up"
       THEN asked' = asked \cup {sn'} /\ UNCHANGED conn
       ELSE conn' = Shut({k}) /\ UNCHANGED asked
    /\ UNCHANGED <<wqueue, authLink, client, worldVars>>
-----------------------------------------------------------------------------
(* authserver.c: the verdicts of the authentication server.                *)

\* The rpc leaves the table and the list, and its memory is released.
DropRpc(s) ==
    /\ table' = table \ {s}
    /\ rpcs' = Unlink(rpcs, s)
    /\ rpcConn' = [rpcConn EXCEPT ![s] = NoConn]
    /\ UNCHANGED <<sn, rpcAge>>

Answered(s) ==
    /\ authLink = "up"
    /\ s \in asked
    /\ asked' = asked \ {s}
    /\ UNCHANGED authLink

\* Mutant: the connection of a failed login stays open.
AuthFailKeepsOpen(s) ==
    /\ Answered(s)
    /\ s \in table
    /\ DropRpc(s)
    /\ UNCHANGED <<connVars, wqueue, client, worldVars>>

\* on_message, a failure, or a success whose account has no player.
AuthFail(s) ==
    /\ Answered(s)
    /\ s \in table
    /\ conn' = Shut({rpcConn[s]})
    /\ DropRpc(s)
    /\ UNCHANGED <<handler, wqueue, client, worldVars>>

\* on_message of a verdict that comes after the rpc has expired, or after its
\* connection was closed by the peer (after_auth of a success).
AuthIgnored(s) ==
    /\ Answered(s)
    /\ s \in table => rpcConn[s] = NoConn
    /\ DropRpc(s)
    /\ UNCHANGED <<connVars, wqueue, client, worldVars>>

\* The player has a client, on another connection than k.
Elsewhere(p, k) == client[p] \in Conns \ {k}

\* Mutant: an old connection keeps its handler.
TakeOverNewOnly(p, k) ==
    handler' = [j \in Conns |->
                  IF j = k /\ Resolves(j) THEN TranslateHandler(p) ELSE handler[j]]

\* start_auth on the old connection, start_translate on the new one.
TakeOver(p, k) ==
    handler' = [j \in Conns |->
                  CASE j = k /\ Resolves(j) -> TranslateHandler(p)
                    [] Elsewhere(p, k) /\ j = client[p] /\ Resolves(j) -> AuthHandler
                    [] OTHER -> handler[j]]

\* Mutant: a client stays where it was.
BindClientOnce(p, k) ==
    client' = IF client[p] = NoConn THEN [client EXCEPT ![p] = k] ELSE client

\* client_new, or the assignment to c->conn.
BindClient(p, k) == client' = [client EXCEPT ![p] = k]

\* after_auth: the player's client is made, or taken over from its old
\* connection, which goes back to start_auth; then start_translate sets the
\* handler and forwards the login.  Nothing checks that the rpc's connection
\* is still open.
AuthPass(s, p) ==
    /\ Answered(s)
    /\ s \in table
    /\ rpcConn[s] \in Conns
    /\ Room
    /\ LET k == rpcConn[s]
       IN  /\ conn' = IF Elsewhere(p, k) THEN Shut(Reaped) ELSE conn
           /\ wqueue' = RemoveWaiting(IF Elsewhere(p, k) THEN NewWaiting(client[p])
                                                         ELSE wqueue, k)
           /\ TakeOver(p, k)
           /\ BindClient(p, k)
    /\ SendWorld([type |-> "login", pid |-> p])
    /\ DropRpc(s)

\* on_connected and on_closed of the link; what was asked is lost with it.
AuthConnected ==
    /\ authLink = "connecting"
    /\ authLink' = "up"
    /\ UNCHANGED <<connVars, wqueue, rpcVars, asked, client, worldVars>>

AuthClosed ==
    /\ authLink # "down"
    /\ authLink' = "down"
    /\ asked' = {}
    /\ UNCHANGED <<connVars, wqueue, rpcVars, client, worldVars>>
-----------------------------------------------------------------------------
(* service_update: a second passes, and every module is updated.  Several  *)
(* seconds at once are several updates with nothing between them.          *)

Older(age, cap) == IF age < cap THEN age + 1 ELSE age

\* Mutant: nothing expires.
ExpiresNone == 0

\* module_authserver_update takes the expired rpcs off the front of the list.
Expires ==
    Max({0} \cup {n \in 1 .. Len(rpcs) : \A i \in 1 .. n : rpcAge'[rpcs[i]] >= RpcTimeout})
Expired == {rpcs[i] : i \in 1 .. Expires}

\* module_authserver_update and module_world_update connect a link that is down.
Reconnect(link) == IF link = "down" THEN "connecting" ELSE link

Update ==
    /\ rpcAge' = [s \in Sns |-> IF s \in table THEN Older(rpcAge[s], RpcTimeout) ELSE 0]
    /\ wqueue' = [i \in 1 .. Len(wqueue) |->
                    [wqueue[i] EXCEPT !.age = Older(@, WaitTimeout + 1)]]
    /\ table' = table \ Expired
    /\ rpcs' = SubSeq(rpcs, Expires + 1, Len(rpcs))
    /\ rpcConn' = [s \in Sns |-> IF s \in Expired THEN NoConn ELSE rpcConn[s]]
    /\ conn' = Shut({rpcConn[s] : s \in Expired})
    /\ authLink' = Reconnect(authLink)
    /\ worldLink' = Reconnect(worldLink)
    /\ UNCHANGED <<handler, sn, asked, client, wire, back, online>>
-----------------------------------------------------------------------------
(* translate.c: the session of a player.                                   *)

InSession(k) == conn[k] = "open" /\ handler[k].of = "translate"

\* process_message of a login or logout request of the client itself.
ClientForward(k, type) ==
    /\ InSession(k)
    /\ Room
    /\ SendWorld([type |-> type, pid |-> handler[k].pid])
    /\ UNCHANGED <<connVars, wqueue, rpcVars, authVars, client>>

\* process_message of what does not parse: the client goes without a logout.
ClientBad(k) ==
    /\ Malformed
    /\ InSession(k)
    /\ conn' = Shut({k})
    /\ client' = [client EXCEPT ![handler[k].pid] = NoConn]
    /\ UNCHANGED <<handler, wqueue, rpcVars, authVars, worldVars>>

\* send_logout of k's player, followed by the close of k: of a message with an
\* unknown flag, and of on_closed.
Logout(k) ==
    /\ Room
    /\ conn' = Shut(Reaped \cup {k})
    /\ handler' = [handler EXCEPT ![k] = AuthHandler]
    /\ wqueue' = NewWaiting(k)
    /\ client' = [client EXCEPT ![handler[k].pid] = NoConn]
    /\ SendWorld([type |-> "logout", pid |-> handler[k].pid])
    /\ UNCHANGED <<rpcVars, authVars>>

ClientBadFlag(k) == InSession(k) /\ Logout(k)

\* on_closed of each handler, then _agN_close.
PeerClose(k) ==
    /\ conn[k] = "open"
    /\ \/ /\ handler[k].of = "auth"
          /\ conn' = Shut({k})
          /\ UNCHANGED <<handler, wqueue, rpcVars, authVars, client, worldVars>>
       \/ /\ handler[k].of = "authserver"
          /\ conn' = Shut({k})
          /\ rpcConn' = [rpcConn EXCEPT ![handler[k].rpc] = NoConn]
          /\ UNCHANGED <<handler, wqueue, sn, table, rpcs, rpcAge,
                         authVars, client, worldVars>>
       \/ /\ handler[k].of = "translate"
          /\ IF client[handler[k].pid] = k
             THEN Logout(k)
             ELSE /\ conn' = Shut({k})
                  /\ UNCHANGED <<handler, wqueue, rpcVars, authVars,
                                 client, worldVars>>

\* cleanClient of the network layer.
Release ==
    /\ \E k \in Conns : conn[k] = "closing"
    /\ conn' = [k \in Conns |-> IF conn[k] = "closing" THEN "closed" ELSE conn[k]]
    /\ handler' = [k \in Conns |-> IF conn[k] = "closing" THEN NoHandler ELSE handler[k]]
    /\ UNCHANGED <<wqueue, rpcVars, authVars, client, worldVars>>
-----------------------------------------------------------------------------
(* world.c: the link to the world.                                         *)

\* Mutant: connections are registered for players.
RegistersConns ==
    /\ worldLink = "connecting"
    /\ worldLink' = "up"
    /\ wire' = <<[type |-> "register", players |-> {client[p] : p \in Clients}]>>
    /\ UNCHANGED <<connVars, wqueue, rpcVars, authVars, client, back, online>>

\* on_connected: every client is registered.
WorldConnected ==
    /\ worldLink = "connecting"
    /\ worldLink' = "up"
    /\ wire' = <<[type |-> "register", players |-> Clients]>>
    /\ UNCHANGED <<connVars, wqueue, rpcVars, authVars, client, back, online>>

WorldClosed ==
    /\ worldLink # "down"
    /\ worldLink' = "down"
    /\ wire' = <<>>
    /\ back' = <<>>
    /\ UNCHANGED <<connVars, wqueue, rpcVars, authVars, client, online>>

\* The world handles a request: a login makes the player online or is refused,
\* a logout is answered, a registration replaces what the world knew.
WorldHandles ==
    /\ wire # <<>>
    /\ Len(back) < MaxWire
    /\ wire' = Tail(wire)
    /\ LET m == Head(wire)
       IN  \/ /\ m.type = "register"
              /\ online' = m.players
              /\ UNCHANGED back
           \/ /\ m.type = "login"
              /\ online' = online \cup {m.pid}
              /\ UNCHANGED back
           \/ /\ m.type = "login"
              /\ WorldRejects
              /\ online' = online \ {m.pid}
              /\ back' = Append(back, [type |-> "reject", pid |-> m.pid])
           \/ /\ m.type = "logout"
              /\ online' = online \ {m.pid}
              /\ back' = Append(back, [type |-> "logout", pid |-> m.pid])
    /\ UNCHANGED <<connVars, wqueue, rpcVars, authVars, client, worldLink>>

Hears(m) == back # <<>> /\ Head(back) = m /\ back' = Tail(back)

\* translate_to_client for a player without a client.
HearNobody(p) ==
    /\ \E m \in Answers : Hears(m) /\ m.pid = p
    /\ client[p] = NoConn
    /\ UNCHANGED <<connVars, wqueue, rpcVars, authVars, client, worldLink, wire, online>>

\* Mutant: the session goes on after a login that failed.
HearRejectGoesOn(p) ==
    /\ Hears([type |-> "reject", pid |-> p])
    /\ client[p] \in Conns
    /\ UNCHANGED <<connVars, wqueue, rpcVars, authVars, client, worldLink, wire, online>>

\* translate_to_client, a login that failed: the connection goes back to
\* start_auth and the client stays.
HearReject(p) ==
    /\ Hears([type |-> "reject", pid |-> p])
    /\ client[p] \in Conns
    /\ conn' = Shut(Reaped)
    /\ wqueue' = NewWaiting(client[p])
    /\ SetHandler(client[p], AuthHandler)
    /\ UNCHANGED <<rpcVars, authVars, client, worldLink, wire, online>>

\* translate_to_client, C_LOGOUT_RESPOND.
HearLogout(p) ==
    /\ Hears([type |-> "logout", pid |-> p])
    /\ client[p] \in Conns
    /\ conn' = Shut({client[p]})
    /\ client' = [client EXCEPT ![p] = NoConn]
    /\ UNCHANGED <<handler, wqueue, rpcVars, authVars, worldLink, wire, online>>
-----------------------------------------------------------------------------
ConnStep(k) ==
    \/ Accept(k) \/ BadFirst(k) \/ LoginRequest(k) \/ PeerClose(k)
    \/ ClientForward(k, "login") \/ ClientForward(k, "logout")
    \/ ClientBad(k) \/ ClientBadFlag(k)

AuthStep(s) == AuthFail(s) \/ AuthIgnored(s) \/ \E p \in Players : AuthPass(s, p)

WorldStep(p) == HearNobody(p) \/ HearReject(p) \/ HearLogout(p)

Next ==
    \/ \E k \in Conns : ConnStep(k)
    \/ \E s \in Sns : AuthStep(s)
    \/ \E p \in Players : WorldStep(p)
    \/ AuthConnected \/ AuthClosed \/ WorldConnected \/ WorldClosed \/ WorldHandles
    \/ Release \/ Update

\* The timer callback runs at least once a second.
Spec == Init /\ [][Next]_vars /\ WF_vars(Update)
-----------------------------------------------------------------------------
(* A connection with translate.c's handler is the connection of its        *)
(* player's client, as process_message asserts (translate.c:125).  So the  *)
(* context never dangles, and on_closed never takes its else branch.       *)
TranslateCtx ==
    \A k \in Conns : InSession(k) =>
        handler[k].pid \in Players /\ client[handler[k].pid] = k

(* A connection whose login is being verified has a live rpc that names it:*)
(* on_closed_client (authserver.c:303) writes to an rpc that is still there.*)
RpcCtx ==
    \A k \in Conns : conn[k] = "open" /\ handler[k].of = "authserver" =>
        handler[k].rpc \in table /\ rpcConn[handler[k].rpc] = k

(* No rpc outlives AUTH_SERVER_RPC_TIMEOUT, though module_authserver_update*)
(* looks only at the front of the list (authserver.c:117).                 *)
RpcsTimely == \A s \in table : rpcAge[s] < RpcTimeout

(* Every open connection without a session is in wqueue, so that the next  *)
(* start_auth after ten seconds closes it (auth.c:42).                     *)
Watched ==
    \A k \in Conns : conn[k] = "open" /\ handler[k].of \in {"auth", "authserver"} =>
        \E i \in 1 .. Len(wqueue) : wqueue[i].conn = k

(* When the link is up and quiet the world knows of every session, by its  *)
(* login or by the registration that on_connected sent (world.c:107).      *)
SessionKnown ==
    worldLink = "up" /\ wire = <<>> /\ back = <<>> =>
        \A k \in Conns : InSession(k) => handler[k].pid \in online

(* While the world refuses no login: no two players have the same open     *)
(* connection, so that what a session does reaches its own player only,    *)
(* and no session is left in wqueue to be closed as idle (auth.c:42).      *)
ExclusiveBinding ==
    /\ \A p, q \in Clients : client[p] = client[q] /\ conn[client[p]] = "open" => p = q
    /\ \A i \in 1 .. Len(wqueue) : ~InSession(wqueue[i].conn)

(* A connection does not wait for the authentication server for ever:      *)
(* whatever becomes of the link, its rpc is answered or expires.           *)
AuthSettles ==
    \A k \in Conns : (conn[k] = "open" /\ handler[k].of = "authserver")
                        ~> ~(conn[k] = "open" /\ handler[k].of = "authserver")

(* "with the players online at present" (world.c:102): on_connected        *)
(* registers only players whose connection is open.                        *)
RegistersOnline ==
    [][WorldConnected => \A p \in Clients : conn[client[p]] = "open"]_vars

(* "the player has logged out" (world.c:575): a logout answer that closes  *)
(* a session is not the answer to a logout from before the last login.     *)
LogoutMeansOut ==
    [][\A p \in Players : HearLogout(p) =>
          p \notin online /\ ~ \E i \in 1 .. Len(wire) : wire[i] = [type |-> "login", pid |-> p]]_vars
=============================================================================
