------------------------------- MODULE World -------------------------------
(***************************************************************************)
(* Requests and players of the world server: process_message and           *)
(* process_next_request of src/world/dispatch.c, the player manager of     *)
(* src/world/player.c (agPM_*, the zombie list), the queue of requests of  *)
(* a player (src/world/modules/request_queue.c), login, logout and         *)
(* creation of a character (src/world/logic/aL.c).                         *)
(*                                                                         *)
(* A player is loaded into player_offline on first use and moves to        *)
(* player_online with the first message of a session.  Players that are    *)
(* loaded and offline are "zombies": they wait on a list, oldest first,    *)
(* and are released by the first message after ZombieTime.                 *)
(*                                                                         *)
(* One message is handled at a time.  A step is a message up to the point  *)
(* where the player's queue is worked off (pc = "drain"), then one request *)
(* of the queue at a time.  The limits on playing time are off             *)
(* (addictedConfig.enable is 0 without addicted.xml); they are the subject *)
(* of module Addicted.  A name belongs to one player, so player_name has   *)
(* the entries of the two maps and is left out.                            *)
(***************************************************************************)
EXTENDS Integers, Sequences, FiniteSets, FiniteSetsExt, Dlist

CONSTANTS
    Clients,        \* the low 32 bits of the ids of clients' players
    Ai,             \* ids of computer players, which have no server part
    ServerId,       \* translate_header.serverid of the gateway's messages
    Width,          \* 2^32
    Roles0,         \* the players that have a character at start-up
    Banned,         \* the players whose property has PLAYER_STATUS_BAN
    Conns,          \* connections of gateways and services
    INVALID,        \* INVALID_ID
    ZombieTime,     \* YQ_MAX_ZOMBIE_TIME
    AbsentTime,     \* how long a missing character is remembered
    MaxTime,        \* bound on the clock
    MaxQueue        \* bound on the requests waiting in one queue

\* NTOHL_PID_AND_SID: the id of a client's player carries the server id in its
\* high half.
Full(pid) == ServerId * Width + pid
Players == {Full(pid) : pid \in Clients}
Ids == Players \cup Ai

ASSUME WorldAssumption ==
    /\ Width \in Nat \ {0} /\ ServerId \in Nat \ {0}
    /\ Clients \subseteq 1 .. Width - 1 /\ Ai \subseteq 1 .. Width - 1
    /\ Roles0 \subseteq Ids /\ Banned \subseteq Players
    /\ INVALID \notin Conns
    /\ ZombieTime \in Nat /\ AbsentTime \in Nat

VARIABLES
    pm,         \* the player manager, see PlayerManager
    gateway,    \* gateway_conn
    open,       \* the connections that are open
    held,       \* what process_message left in the input of a connection
    dbUp,       \* whether the database answers
    downAt,     \* the last second in which it did not, or 0
    now,        \* agT_current()
    pc, cur     \* "drain" while the queue of player cur is worked off

vars == <<pm, gateway, open, held, dbUp, downAt, now, pc, cur>>
----------------------------------------------------------------------------
\* A message: the player it is for (0 for a service), the command, the player
\* the command is about, and whether its body can be decoded.
Direct == {"login", "create"}
Messages ==
    [id : Players, cmd : Direct \cup {"logout"}, target : {0}, ok : BOOLEAN]
        \cup [id : Players, cmd : {"query"}, target : Ids, ok : {TRUE}]
        \cup [id : {0}, cmd : {"query", "unload"}, target : Ids, ok : {TRUE}]
        \cup [id : Players, cmd : {"noServer"}, target : {0}, ok : {TRUE}]
Nothing == [id |-> 0, cmd |-> "none", target |-> 0, ok |-> TRUE]

\* player_online and player_offline, the connection of each player, the zombie
\* list with zombie_time, player_not_exist (0: no entry), the request queues,
\* the count of users online (realtime.c), and the characters in the database.
PlayerManager ==
    [online : SUBSET Ids, offline : SUBSET Ids,
     conn : [Ids -> Conns \cup {INVALID}],
     zombies : Seq(Ids), ztime : [Ids -> 0 .. MaxTime],
     absent : [Ids -> 0 .. MaxTime],
     queue : [Ids -> Seq(Messages)],
     realtime : SUBSET Ids, roles : SUBSET Ids]

Loaded(p) == p.online \cup p.offline

Init ==
    /\ pm = [online |-> {}, offline |-> {},
             conn |-> [i \in Ids |-> INVALID],
             zombies |-> <<>>, ztime |-> [i \in Ids |-> 0],
             absent |-> [i \in Ids |-> 0],
             queue |-> [i \in Ids |-> <<>>],
             realtime |-> {}, roles |-> Roles0]
    /\ gateway = INVALID
    /\ open = Conns
    /\ held = [c \in Conns |-> Nothing]
    /\ dbUp = TRUE /\ downAt = 0
    /\ now = 1
    /\ pc = "idle" /\ cur = 0
----------------------------------------------------------------------------
(* The player manager.                                                     *)

\* Mutant: a zombie that is used again keeps its place in the list.
AddZombieInPlace(p, i) ==
    [p EXCEPT !.zombies = IF i \in Range(@) THEN @ ELSE Append(@, i),
              !.ztime[i] = now]

\* try_add_player_to_zombie_list
AddZombie(p, i) ==
    [p EXCEPT !.zombies = Append(Unlink(@, i), i), !.ztime[i] = now]

\* try_remove_player_from_zombie_list (zombie_time means nothing off the list).
DropZombie(p, i) == [p EXCEPT !.zombies = Unlink(@, i), !.ztime[i] = 0]

\* Mutant: a player that connects stays on the zombie list.
SetOnlineZombie(p, i, c) ==
    [p EXCEPT !.online = @ \cup {i}, !.offline = @ \ {i}, !.conn[i] = c]

\* agPM_SetOnline
SetOnline(p, i, c) ==
    LET moved == IF p.conn[i] = INVALID
                 THEN [p EXCEPT !.online = @ \cup {i}, !.offline = @ \ {i}]
                 ELSE p
    IN DropZombie([moved EXCEPT !.conn[i] = c], i)

\* agPM_GetOnline, for its effect on the zombie list.
GetOnline(p, i) == IF i \in p.online THEN DropZombie(p, i) ELSE p

\* agPM_SetOffline: its parameter is an unsigned int, the caller's id is 64 bits
\* wide.
SetOffline(p, id) ==
    LET i == id % Width
    IN IF i \in p.online
       THEN AddZombie([p EXCEPT !.offline = @ \cup {i}, !.online = @ \ {i},
                                !.conn[i] = INVALID], i)
       ELSE p

\* Mutant: the player is taken out of player_offline only.
ReleaseOffline(p, i) ==
    DropZombie([p EXCEPT !.offline = @ \ {i}, !.conn[i] = INVALID,
                         !.queue[i] = <<>>], i)

\* agPM_Release.
Release(p, i) ==
    LET out == IF p.conn[i] = INVALID THEN [p EXCEPT !.offline = @ \ {i}]
                                      ELSE [p EXCEPT !.online = @ \ {i}]
    IN DropZombie([out EXCEPT !.conn[i] = INVALID, !.queue[i] = <<>>], i)

KnownAbsent(p, i) == p.absent[i] # 0 /\ p.absent[i] + AbsentTime >= now

\* Mutant: the entry is the time it expires.
GetExpiry(p, i) ==
    IF i \in Loaded(p) THEN p ELSE [p EXCEPT !.absent[i] = now + AbsentTime]

\* agPM_Get: from the maps, or from the database unless the character was found
\* missing a moment ago.  A query that fails counts as a missing character.
Get(p, i) ==
    CASE i \in p.online -> DropZombie(p, i)
      [] i \in p.offline -> AddZombie(p, i)
      [] i \notin Loaded(p) /\ KnownAbsent(p, i) -> p
      [] i \notin Loaded(p) /\ ~KnownAbsent(p, i) ->
            IF dbUp /\ i \in p.roles
            THEN AddZombie([p EXCEPT !.offline = @ \cup {i}, !.absent[i] = 0,
                                     !.conn[i] = INVALID], i)
            ELSE [p EXCEPT !.absent[i] = now]

\* The first n zombies are released, each as by Release.
ReleaseFirst(p, n) ==
    LET gone == {p.zombies[k] : k \in 1 .. n}
    IN [p EXCEPT !.zombies = SubSeq(@, n + 1, Len(@)),
                 !.online = @ \ gone, !.offline = @ \ gone,
                 !.conn = [i \in Ids |-> IF i \in gone THEN INVALID ELSE @[i]],
                 !.ztime = [i \in Ids |-> IF i \in gone THEN 0 ELSE @[i]],
                 !.queue = [i \in Ids |-> IF i \in gone THEN <<>> ELSE @[i]]]

\* Mutant: one message releases one zombie.
ReapOne(p) ==
    IF p.zombies # <<>> /\ now - p.ztime[Head(p.zombies)] > ZombieTime
    THEN Release(p, Head(p.zombies)) ELSE p

\* try_unload_player_from_zombie_list: from the head of the list, up to the
\* first zombie that is young enough.
Reap(p) ==
    LET Old(i) == now - p.ztime[i] > ZombieTime
    IN ReleaseFirst(p, Max({0} \cup {n \in 1 .. Len(p.zombies) :
                                       \A k \in 1 .. n : Old(p.zombies[k])}))

\* player_set_conn with a connection.
SetConn(p, i, c) ==
    LET q == Get(p, i)
    IN IF i \in Loaded(q) THEN SetOnline(q, i, c) ELSE q
----------------------------------------------------------------------------
(* What the handlers of process_request do with players.                   *)

\* aL_login: a banned player is unloaded.
Login(p, i) ==
    LET q == Get(p, i)
    IN IF i \in Loaded(q) \cap Banned THEN Release(q, i) ELSE q

\* Mutant: the remembered absence of a new character is kept.
CreateStaysAbsent(p, i) ==
    LET q == Get(p, i)
    IN IF i \in Loaded(q) \/ q.absent[i] = 0 \/ ~dbUp \/ i \in q.roles
       THEN q
       ELSE AddZombie([q EXCEPT !.offline = @ \cup {i}, !.conn[i] = INVALID,
                                !.roles = @ \cup {i}], i)

\* aL_create_player, player_create and agPM_Create: the row is inserted at once,
\* and the new player is offline until the next message.
Create(p, i) ==
    LET q == Get(p, i)
    IN IF i \in Loaded(q) \/ q.absent[i] = 0 \/ ~dbUp \/ i \in q.roles
       THEN q
       ELSE AddZombie([q EXCEPT !.offline = @ \cup {i}, !.conn[i] = INVALID,
                                !.absent[i] = 0, !.roles = @ \cup {i}], i)

\* aL_logout
Logout(p, i) ==
    LET q == GetOnline(p, i)
        out == IF i \in q.online THEN SetOffline(q, i) ELSE q
    IN [out EXCEPT !.realtime = @ \ {i}]

\* do_pbc_unload_player
Unload(p, i) ==
    LET q == Get(p, i) IN IF i \in Loaded(q) THEN Release(q, i) ELSE q

Handle(p, m) ==
    CASE m.cmd = "login" -> Login(p, m.id)
      [] m.cmd = "create" -> Create(p, m.id)
      [] m.cmd = "logout" -> Logout(p, m.id)
      [] m.cmd = "query" -> Get(p, m.target)
      [] m.cmd = "unload" -> Unload(p, m.target)
----------------------------------------------------------------------------
(* Messages.                                                               *)

\* The part of process_message common to all messages of a player.
Admit(p, i, c) ==
    LET q == Get(GetOnline(p, i), i)
        r == IF i \in Loaded(q) /\ i \notin Ai
             THEN [q EXCEPT !.realtime = @ \cup {i}] ELSE q
    IN SetConn(r, i, c)

\* Which messages go through the queue of their player.
Queued(m) == m.id # 0 /\ m.cmd \notin Direct

\* process_message on connection c: m is new, or what an earlier call left.
Receive(c, m) ==
    /\ pc = "idle"
    /\ c \in open
    /\ held[c] \in {Nothing, m}
    /\ m.id # 0 => Len(pm.queue[m.id]) < MaxQueue
    /\ UNCHANGED <<gateway, open, dbUp, downAt, now>>
    /\ LET p == IF m.id # 0 /\ m.cmd # "noServer"
                THEN Admit(Reap(pm), m.id, c) ELSE Reap(pm)
       IN CASE m.cmd = "noServer" ->
                 /\ pm' = p
                 /\ held' = [held EXCEPT ![c] = m]
                 /\ UNCHANGED <<pc, cur>>
            [] m.cmd # "noServer" /\ Queued(m) ->
                 /\ pm' = LET q == Get(p, m.id)
                          IN IF m.id \in Loaded(q)
                             THEN [q EXCEPT !.queue[m.id] = Append(@, m)]
                             ELSE q
                 /\ pc' = "drain" /\ cur' = m.id
                 /\ held' = [held EXCEPT ![c] = Nothing]
            [] m.cmd # "noServer" /\ ~Queued(m) ->
                 /\ pm' = IF m.ok THEN Handle(p, m) ELSE p
                 /\ held' = [held EXCEPT ![c] = IF m.ok THEN Nothing ELSE m]
                 /\ UNCHANGED <<pc, cur>>

\* do_pbc_service_register of a gateway with the players of its sessions.
Register(c, players) ==
    /\ pc = "idle"
    /\ c \in open
    /\ held[c] = Nothing
    /\ pm' = [Reap(pm) EXCEPT !.realtime = players]
    /\ gateway' = c
    /\ UNCHANGED <<open, held, dbUp, downAt, now, pc, cur>>

\* Mutant: the request is not taken off the queue.
NextNotPopped ==
    /\ pc = "drain"
    /\ pm' = IF cur \in pm.online /\ Head(pm.queue[cur]).ok
             THEN Handle(pm, Head(pm.queue[cur])) ELSE pm
    /\ pc' = "idle"
    /\ UNCHANGED <<gateway, open, held, dbUp, downAt, now, cur>>

\* process_next_request: a request that cannot be decoded stays at the front; a
\* player that was unloaded meanwhile has a new queue.
ProcessNext ==
    /\ pc = "drain"
    /\ UNCHANGED <<gateway, open, held, dbUp, downAt, now, cur>>
    /\ LET p == GetOnline(pm, cur)
           q == Get(p, cur)
           front == Head(q.queue[cur])
           r == Get(Handle(q, front), cur)
       IN CASE cur \notin p.online ->
                 pm' = p /\ pc' = "idle"
            [] cur \in p.online /\ (q.queue[cur] = <<>> \/ ~front.ok) ->
                 pm' = q /\ pc' = "idle"
            [] cur \in p.online /\ q.queue[cur] # <<>> /\ front.ok ->
                 /\ pm' = IF r.queue[cur] = <<>> THEN r
                          ELSE [r EXCEPT !.queue[cur] = Tail(@)]
                 /\ pc' = IF Len(r.queue[cur]) > 1 THEN "drain" ELSE "idle"
----------------------------------------------------------------------------
(* The environment.                                                        *)

\* A connection is lost.  on_closed of dispatch.c only writes a line to the log.
ConnClosed(c) ==
    /\ pc = "idle"
    /\ c \in open
    /\ open' = open \ {c}
    /\ UNCHANGED <<pm, gateway, held, dbUp, downAt, now, pc, cur>>

\* The database goes away or comes back (database.c reconnects).
Database ==
    /\ pc = "idle"
    /\ dbUp' = ~dbUp
    /\ downAt' = now
    /\ UNCHANGED <<pm, gateway, open, held, now, pc, cur>>

Tick ==
    /\ pc = "idle"
    /\ now < MaxTime
    /\ now' = now + 1
    /\ downAt' = IF dbUp THEN downAt ELSE now'
    /\ UNCHANGED <<pm, gateway, open, held, dbUp, pc, cur>>

Next ==
    \/ \E c \in Conns, m \in Messages : Receive(c, m)
    \/ \E c \in Conns, players \in SUBSET Players : Register(c, players)
    \/ ProcessNext
    \/ \E c \in Conns : ConnClosed(c)
    \/ Database
    \/ Tick

Spec == Init /\ [][Next]_vars
----------------------------------------------------------------------------
(* Properties.                                                             *)

TypeOK ==
    /\ DOMAIN pm = {"online", "offline", "conn", "zombies", "ztime", "absent",
                    "queue", "realtime", "roles"}
    /\ pm.online \subseteq Ids /\ pm.offline \subseteq Ids
    /\ pm.realtime \subseteq Ids /\ pm.roles \subseteq Ids
    /\ pm.conn \in [Ids -> Conns \cup {INVALID}]
    /\ pm.zombies \in Seq(Ids)
    /\ pm.ztime \in [Ids -> 0 .. MaxTime]
    /\ pm.absent \in [Ids -> 0 .. MaxTime]
    /\ \A i \in Ids : pm.queue[i] \in Seq(Messages) /\ Len(pm.queue[i]) <= MaxQueue
    /\ gateway \in Conns \cup {INVALID}
    /\ open \subseteq Conns
    /\ held \in [Conns -> Messages \cup {Nothing}]
    /\ dbUp \in BOOLEAN /\ downAt \in 0 .. MaxTime
    /\ now \in 1 .. MaxTime
    /\ pc \in {"idle", "drain"} /\ cur \in Players \cup {0}

\* A loaded player is in exactly one of player_online and player_offline, and its
\* conn tells in which: agPM_SetOnline and agPM_Release decide by conn which map
\* to change.  Requests wait for loaded players only: those of a player that was
\* released do not come back when the player is loaded again.
OneMap ==
    /\ pm.online \cap pm.offline = {}
    /\ \A i \in Ids : pm.conn[i] # INVALID <=> i \in pm.online
    /\ \A i \in Ids : pm.queue[i] # <<>> => i \in Loaded(pm)

\* The zombie list holds every player that is loaded and offline, once, oldest
\* first: releasing stops at the first young one, so a player out of order would
\* be kept too long or, if online, freed under its session.
ZombiesInOrder ==
    /\ Range(pm.zombies) = pm.offline
    /\ IsInjective(pm.zombies)
    /\ \A j, k \in 1 .. Len(pm.zombies) :
           j < k => pm.ztime[pm.zombies[j]] <= pm.ztime[pm.zombies[k]]

\* Between messages a request waits in a queue only if one that cannot be decoded
\* is at the front: the loop in process_message leaves nothing else behind, also
\* when a request logs its own player out.
WaitsBehindRejected ==
    pc = "idle" => \A i \in Ids : pm.queue[i] # <<>> => ~Head(pm.queue[i]).ok

\* An online player is released only by its own login when it is banned, or by a
\* service's request to unload it; never by the sweep of zombies on a message of
\* another player, nor by a lookup.
OnlineKept ==
    [][\A i \in pm.online : i \notin Loaded(pm') =>
           \E c \in Conns :
               \/ Receive(c, [id |-> 0, cmd |-> "unload", target |-> i, ok |-> TRUE])
               \/ /\ i \in Banned
                  /\ Receive(c, [id |-> i, cmd |-> "login", target |-> 0,
                                 ok |-> TRUE])]_vars

\* The sweep at the start of process_message leaves no zombie that is too old,
\* whatever the message then adds to the list.
SweptClean ==
    [][pc = "idle" /\ UNCHANGED <<open, dbUp, now>> =>
           \A i \in pm'.offline : now - pm'.ztime[i] <= ZombieTime]_vars

\* agPM_Get "5秒之内已知角色不存在": an entry of player_not_exist that is still
\* trusted names a player without a character, unless the database has failed since
\* it was made; a character created in the meantime does not stay hidden.
AbsentIsAbsent ==
    \A i \in Ids : KnownAbsent(pm, i) /\ i \in pm.roles => downAt >= pm.absent[i]
============================================================================
