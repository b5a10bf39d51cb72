---------------------------- MODULE World_proofs ----------------------------
(***************************************************************************)
(* Proofs about the player manager of the world server, for any number of  *)
(* players, connections and requests. First its two maps, which of them a  *)
(* player is in, and whose requests wait: each operation of the manager    *)
(* keeps Good, and the handlers are made of these operations; IInv says    *)
(* that of every state. Then the zombie list, the absences that are        *)
(* remembered and what waits in the queues: each operation keeps Sound,    *)
(* and SInv says of every state what these are, also in the middle of the  *)
(* loop of process_message.                                                *)
(***************************************************************************)
EXTENDS World, WellFoundedInduction, TLAPS

\* The fields of the player manager.
Fields == {"online", "offline", "conn", "zombies", "ztime", "absent", "queue",
           "realtime", "roles"}
Shape(p) == p = [f \in Fields |-> p[f]]

\* The messages that are handled: one without a server id gets no further than
\* the header.
Requests == {m \in Messages : m.cmd # "noServer"}
Waits == {m \in Requests : Queued(m)}

\* OneMap of a player manager, with the types it needs.
Good(p) ==
    /\ Shape(p)
    /\ p.online \subseteq Ids /\ p.offline \subseteq Ids
    /\ p.conn \in [Ids -> Conns \cup {INVALID}]
    /\ p.queue \in [Ids -> Seq(Waits)]
    /\ p.online \cap p.offline = {}
    /\ \A i \in Ids : p.conn[i] # INVALID <=> i \in p.online
    /\ \A i \in Ids : p.queue[i] # <<>> => i \in p.online \cup p.offline

IInv ==
    /\ Good(pm)
    /\ held \in [Conns -> Messages \cup {Nothing}]
    /\ pc = "drain" => cur \in Ids
-----------------------------------------------------------------------------
(* Sequences.                                                              *)

(* A nonempty set of natural numbers has a least element.                  *)
LEMMA LeastOf ==
    ASSUME NEW S, S \subseteq Nat, S # {}
    PROVE  \E m \in S : \A k \in S : m <= k
<1> DEFINE R == OpToRel(<, Nat)
<1>1. PICK m \in S : \A k \in S : ~(<<k, m>> \in R)
  BY Zenon, WFMin, NatLessThanWellFounded
<1>2. R = {ss \in Nat \X Nat : ss[1] < ss[2]}
  BY Zenon DEF OpToRel
<1> HIDE DEF R
<1>3. \A k, n \in Nat : k < n => <<k, n>> \in R
  <2> SUFFICES ASSUME NEW k \in Nat, NEW n \in Nat, k < n
               PROVE  <<k, n>> \in {ss \in Nat \X Nat : ss[1] < ss[2]}
    BY Zenon, <1>2
  <2> QED
    BY Zenon
<1>4. \A k \in S : ~(k < m)
  BY Zenon, <1>1, <1>3
<1>5. \A k \in S : m <= k
  <2> TAKE k \in S
  <2>1. k \in Nat /\ m \in Nat
    BY Zenon
  <2> QED
    BY <1>4, <2>1
<1> QED
  BY Zenon, <1>5

(* Max, where the set is bounded: the length of the part that is too old.  *)
LEMMA MaxOf ==
    ASSUME NEW n \in Nat, NEW S, S \subseteq 0 .. n, S # {}
    PROVE  Max(S) \in S /\ \A k \in S : k <= Max(S)
<1> DEFINE T == {k \in Nat : \E x \in S : k = n - x}
<1>1. T \subseteq Nat
  BY Zenon
<1>2. T # {}
  <2>1. PICK x \in S : TRUE
    BY Zenon
  <2>2. n - x \in T
    BY x \in 0 .. n
  <2> QED
    BY Zenon, <2>2
<1>3. PICK m \in T : \A k \in T : m <= k
  <2> HIDE DEF T
  <2> QED
    BY Zenon, <1>1, <1>2, LeastOf
<1>4. PICK x \in S : m = n - x
  BY Zenon, <1>3
<1>5. \A k \in S : x >= k
  <2> TAKE k \in S
  <2>1. n - k \in T
    BY k \in 0 .. n
  <2>2. m <= n - k
    BY Zenon, <1>3, <2>1
  <2> QED
    BY <1>4, <2>2, k \in 0 .. n, x \in 0 .. n
<1> QED
  BY Zenon, <1>5 DEF Max

(* Two sequences, one after the other.                                     *)
LEMMA ConcatSeq ==
    ASSUME NEW S, NEW a \in Seq(S), NEW b \in Seq(S)
    PROVE  /\ a \o b \in Seq(S) /\ Len(a \o b) = Len(a) + Len(b)
           /\ \A j \in 1 .. Len(a) + Len(b) :
                (a \o b)[j] = IF j <= Len(a) THEN a[j] ELSE b[j - Len(a)]
<1>1. a \o b \in Seq(S)
  OBVIOUS
<1>2. Len(a \o b) = Len(a) + Len(b)
  OBVIOUS
<1>3. ASSUME NEW j \in 1 .. Len(a) + Len(b)
      PROVE  (a \o b)[j] = IF j <= Len(a) THEN a[j] ELSE b[j - Len(a)]
  OBVIOUS
<1> QED
  BY Zenon, <1>1, <1>2, <1>3

(* A sequence without its i-th element.                                    *)
LEMMA RemoveNodeSeq ==
    ASSUME NEW S, NEW s \in Seq(S), NEW i \in 1 .. Len(s)
    PROVE  /\ RemoveNode(s, i) \in Seq(S)
           /\ Len(RemoveNode(s, i)) = Len(s) - 1
           /\ \A j \in 1 .. Len(s) - 1 :
                RemoveNode(s, i)[j] = IF j < i THEN s[j] ELSE s[j + 1]
<1> DEFINE a == SubSeq(s, 1, i - 1)
           b == SubSeq(s, i + 1, Len(s))
<1>1. a \in Seq(S) /\ Len(a) = i - 1 /\ \A j \in 1 .. i - 1 : a[j] = s[j]
  OBVIOUS
<1>2. b \in Seq(S) /\ Len(b) = Len(s) - i /\ \A j \in 1 .. Len(s) - i : b[j] = s[j + i]
  OBVIOUS
<1>3. RemoveNode(s, i) = a \o b
  BY Zenon DEF RemoveNode
<1> HIDE DEF a, b
<1>4. /\ a \o b \in Seq(S) /\ Len(a \o b) = Len(a) + Len(b)
      /\ \A j \in 1 .. Len(a) + Len(b) :
           (a \o b)[j] = IF j <= Len(a) THEN a[j] ELSE b[j - Len(a)]
  BY Zenon, <1>1, <1>2, ConcatSeq
<1>5. \A j \in 1 .. Len(s) - 1 : (a \o b)[j] = IF j < i THEN s[j] ELSE s[j + 1]
  <2> TAKE j \in 1 .. Len(s) - 1
  <2>1. (a \o b)[j] = IF j <= Len(a) THEN a[j] ELSE b[j - Len(a)]
    BY <1>1, <1>2, <1>4
  <2>2. CASE j < i
    BY <1>1, <2>1, <2>2
  <2>3. CASE ~(j < i)
    <3>1. j - (i - 1) \in 1 .. Len(s) - i
      BY <2>3
    <3> QED
      BY <1>1, <1>2, <2>1, <2>3, <3>1
  <2> QED
    BY Zenon, <2>2, <2>3
<1> QED
  BY <1>1, <1>2, <1>3, <1>4, <1>5

(* Taking out a value: the list loses one node, or none.                   *)
LEMMA UnlinkSeq ==
    ASSUME NEW S, NEW s \in Seq(S), NEW e
    PROVE  \/ Unlink(s, e) = s /\ \A i \in 1 .. Len(s) : s[i] # e
           \/ \E i \in 1 .. Len(s) : s[i] = e /\ Unlink(s, e) = RemoveNode(s, i)
  BY Zenon DEF Unlink
-----------------------------------------------------------------------------
(* The zombie list is apart from the maps.                                 *)
LEMMA ZombieKeeps ==
    ASSUME NEW p, Good(p), NEW i \in Ids
    PROVE  Good(AddZombie(p, i)) /\ Good(DropZombie(p, i))
  BY Zenon DEF Good, Shape, Fields, AddZombie, DropZombie

(* agPM_SetOnline moves a player that has no connection, and only that.    *)
LEMMA SetOnlineKeeps ==
    ASSUME NEW p, Good(p), NEW i \in Ids, NEW c \in Conns
    PROVE  Good(SetOnline(p, i, c))
<1> DEFINE moved == IF p.conn[i] = INVALID
                    THEN [p EXCEPT !.online = @ \cup {i}, !.offline = @ \ {i}]
                    ELSE p
           q == [moved EXCEPT !.conn[i] = c]
<1>1. Good(q)
  BY Zenon, WorldAssumption DEF Good, Shape, Fields
<1> HIDE DEF q
<1>2. Good(DropZombie(q, i))
  BY Zenon, <1>1, ZombieKeeps
<1> QED
  BY Zenon, <1>2 DEF SetOnline, q

(* agPM_SetOffline, with the id it makes of its argument.                  *)
LEMMA SetOfflineKeeps ==
    ASSUME NEW p, Good(p), NEW id \in Ids
    PROVE  Good(SetOffline(p, id))
<1> DEFINE i == id % Width
           q == [p EXCEPT !.offline = @ \cup {i}, !.online = @ \ {i}, !.conn[i] = INVALID]
<1> HIDE DEF i
<1>1. ASSUME i \in p.online PROVE Good(AddZombie(q, i))
  <2>1. i \in Ids /\ Good(q)
    BY <1>1, ZenonT(30) DEF Good, Shape, Fields
  <2> HIDE DEF q
  <2> QED
    BY Zenon, <2>1, ZombieKeeps
<1> QED
  BY Zenon, <1>1 DEF SetOffline, i

(* agPM_Release takes the player out of the map its conn tells.            *)
LEMMA ReleaseKeeps ==
    ASSUME NEW p, Good(p), NEW i \in Ids
    PROVE  Good(Release(p, i))
<1> DEFINE out == IF p.conn[i] = INVALID THEN [p EXCEPT !.offline = @ \ {i}]
                                         ELSE [p EXCEPT !.online = @ \ {i}]
           q == [out EXCEPT !.conn[i] = INVALID, !.queue[i] = <<>>]
<1>1. Good(q)
  <2>1. /\ Shape(q)
        /\ q.online = p.online \ {i}
        /\ q.offline = p.offline \ {i}
        /\ q.conn = [p.conn EXCEPT ![i] = INVALID]
        /\ q.queue = [p.queue EXCEPT ![i] = <<>>]
    <3>1. CASE p.conn[i] = INVALID
      BY Zenon, <3>1 DEF Good, Shape, Fields
    <3>2. CASE p.conn[i] # INVALID
      BY Zenon, <3>2 DEF Good, Shape, Fields
    <3> QED
      BY Zenon, <3>1, <3>2
  <2> HIDE DEF q
  <2> QED
    BY <2>1 DEF Good
<1> HIDE DEF q
<1>2. Good(DropZombie(q, i))
  BY Zenon, <1>1, ZombieKeeps
<1> QED
  BY Zenon, <1>2 DEF Release, q

(* The sweep releases players of either map.                               *)
LEMMA ReapKeeps ==
    ASSUME NEW p, Good(p)
    PROVE  Good(Reap(p))
<1>1. ASSUME NEW n PROVE Good(ReleaseFirst(p, n))
  <2> DEFINE gone == {p.zombies[k] : k \in 1 .. n}
             q == ReleaseFirst(p, n)
  <2> HIDE DEF gone
  <2>1. /\ Shape(q)
        /\ q.online = p.online \ gone
        /\ q.offline = p.offline \ gone
        /\ q.conn = [i \in Ids |-> IF i \in gone THEN INVALID ELSE p.conn[i]]
        /\ q.queue = [i \in Ids |-> IF i \in gone THEN <<>> ELSE p.queue[i]]
    BY Zenon DEF Good, Shape, Fields, ReleaseFirst, gone
  <2> HIDE DEF q
  <2>2. Good(q)
    BY <2>1 DEF Good
  <2> QED
    BY Zenon, <2>2 DEF q
<1> QED
  BY Zenon, <1>1 DEF Reap

(* agPM_Get loads a player into player_offline.                            *)
LEMMA GetKeeps ==
    ASSUME NEW p, Good(p), NEW i \in Ids
    PROVE  Good(Get(p, i))
<1> DEFINE q == [p EXCEPT !.offline = @ \cup {i}, !.absent[i] = 0, !.conn[i] = INVALID]
           r == [p EXCEPT !.absent[i] = now]
<1>1. i \notin Loaded(p) => Good(q) /\ Good(r)
  <2>1. /\ Shape(q)
        /\ q.online = p.online
        /\ q.offline = p.offline \cup {i}
        /\ q.conn = [p.conn EXCEPT ![i] = INVALID]
        /\ q.queue = p.queue
    BY Zenon DEF Good, Shape, Fields
  <2>2. Good(r)
    BY Zenon DEF Good, Shape, Fields
  <2> HIDE DEF q, r
  <2>3. i \notin Loaded(p) => Good(q)
    BY <2>1 DEF Good, Loaded
  <2> QED
    BY Zenon, <2>2, <2>3
<1> HIDE DEF q
<1>2. i \notin Loaded(p) => Good(AddZombie(q, i))
  BY Zenon, <1>1, ZombieKeeps
<1>3. Good(AddZombie(p, i)) /\ Good(DropZombie(p, i))
  BY Zenon, ZombieKeeps
<1> QED
  BY Zenon, <1>1, <1>2, <1>3 DEF Get, Loaded, q

(* agPM_GetOnline only touches the zombie list.                            *)
LEMMA GetOnlineKeeps ==
    ASSUME NEW p, Good(p), NEW i \in Ids
    PROVE  Good(GetOnline(p, i))
  BY Zenon, ZombieKeeps DEF GetOnline

(* aL_create_player adds a player that is in neither map.                  *)
LEMMA CreateKeeps ==
    ASSUME NEW p, Good(p), NEW i \in Ids
    PROVE  Good(Create(p, i))
<1> DEFINE q == Get(p, i)
           r == [q EXCEPT !.offline = @ \cup {i}, !.conn[i] = INVALID,
                          !.absent[i] = 0, !.roles = @ \cup {i}]
<1>1. Good(q)
  BY Zenon, GetKeeps
<1> HIDE DEF q
<1>2. i \notin Loaded(q) => Good(r)
  <2>1. /\ Shape(r)
        /\ r.online = q.online
        /\ r.offline = q.offline \cup {i}
        /\ r.conn = [q.conn EXCEPT ![i] = INVALID]
        /\ r.queue = q.queue
    BY Zenon, <1>1 DEF Good, Shape, Fields
  <2> HIDE DEF r
  <2> QED
    BY <1>1, <2>1 DEF Good, Loaded
<1> HIDE DEF r
<1>3. i \notin Loaded(q) => Good(AddZombie(r, i))
  BY Zenon, <1>2, ZombieKeeps
<1> QED
  BY Zenon, <1>1, <1>3 DEF Create, q, r

(* aL_logout.                                                              *)
LEMMA LogoutKeeps ==
    ASSUME NEW p, Good(p), NEW i \in Ids
    PROVE  Good(Logout(p, i))
<1> DEFINE q == GetOnline(p, i)
           out == IF i \in q.online THEN SetOffline(q, i) ELSE q
<1>1. Good(q)
  BY Zenon, GetOnlineKeeps
<1> HIDE DEF q
<1>2. Good(out)
  BY Zenon, <1>1, SetOfflineKeeps
<1> HIDE DEF out
<1>3. Good([out EXCEPT !.realtime = @ \ {i}])
  BY Zenon, <1>2 DEF Good, Shape, Fields
<1> QED
  BY Zenon, <1>3 DEF Logout, out, q

(* aL_login and do_pbc_unload_player release or do nothing.                *)
LEMMA LoginUnloadKeeps ==
    ASSUME NEW p, Good(p), NEW i \in Ids
    PROVE  Good(Login(p, i)) /\ Good(Unload(p, i))
  BY Zenon, GetKeeps, ReleaseKeeps DEF Login, Unload

(* Every request that is handled.                                          *)
LEMMA HandleKeeps ==
    ASSUME NEW p, Good(p), NEW m \in Requests
    PROVE  Good(Handle(p, m))
<1>1. /\ m.cmd \in {"login", "create", "logout"} => m.id \in Ids
      /\ m.cmd \in {"query", "unload"} => m.target \in Ids
      /\ m.cmd \in {"login", "create", "logout", "query", "unload"}
  BY Zenon DEF Requests, Messages, Direct, Ids
<1>2. CASE m.cmd = "login"
  BY Zenon, <1>1, <1>2, LoginUnloadKeeps DEF Handle
<1>3. CASE m.cmd = "create"
  BY Zenon, <1>1, <1>3, CreateKeeps DEF Handle
<1>4. CASE m.cmd = "logout"
  BY Zenon, <1>1, <1>4, LogoutKeeps DEF Handle
<1>5. CASE m.cmd = "query"
  BY <1>1, <1>5, GetKeeps, SMTT(30) DEF Handle
<1>6. CASE m.cmd = "unload"
  BY <1>1, <1>6, LoginUnloadKeeps, SMTT(30) DEF Handle
<1> QED
  BY Zenon, <1>1, <1>2, <1>3, <1>4, <1>5, <1>6
-----------------------------------------------------------------------------
(* The head of process_message: the player is loaded and brought online.   *)
LEMMA AdmitKeeps ==
    ASSUME NEW p, Good(p), NEW i \in Ids, NEW c \in Conns
    PROVE  Good(Admit(p, i, c))
<1> DEFINE q == Get(GetOnline(p, i), i)
           r == IF i \in Loaded(q) /\ i \notin Ai
                THEN [q EXCEPT !.realtime = @ \cup {i}] ELSE q
<1>1. Good(q)
  BY Zenon, GetKeeps, GetOnlineKeeps
<1> HIDE DEF q
<1>2. Good([q EXCEPT !.realtime = @ \cup {i}])
  BY Zenon, <1>1 DEF Good, Shape, Fields
<1>3. Good(r)
  BY Zenon, <1>1, <1>2
<1> HIDE DEF r
<1>4. Good(SetConn(r, i, c))
  BY Zenon, <1>3, GetKeeps, SetOnlineKeeps DEF SetConn
<1> QED
  BY Zenon, <1>4 DEF Admit, q, r

(* A request joins the queue of a player that is loaded.                   *)
LEMMA EnqueueKeeps ==
    ASSUME NEW p, Good(p), NEW i \in Loaded(p), NEW m \in Waits
    PROVE  Good([p EXCEPT !.queue[i] = Append(@, m)])
<1> DEFINE q == [p EXCEPT !.queue[i] = Append(@, m)]
<1>1. i \in Ids /\ p.queue[i] \in Seq(Waits)
  BY Zenon DEF Good, Loaded
<1>2. Append(p.queue[i], m) \in Seq(Waits)
  BY <1>1
<1>3. /\ Shape(q)
      /\ q.online = p.online /\ q.offline = p.offline /\ q.conn = p.conn
      /\ q.queue = [p.queue EXCEPT ![i] = Append(p.queue[i], m)]
  BY Zenon DEF Good, Shape, Fields
<1> HIDE DEF q
<1>4. Good(q)
  BY <1>1, <1>2, <1>3 DEF Good, Loaded
<1> QED
  BY Zenon, <1>4 DEF q

(* request_queue_pop: the queue gets shorter.                              *)
LEMMA DequeueKeeps ==
    ASSUME NEW p, Good(p), NEW i \in Ids, p.queue[i] # <<>>
    PROVE  Good([p EXCEPT !.queue[i] = Tail(@)])
<1> DEFINE q == [p EXCEPT !.queue[i] = Tail(@)]
<1>1. Tail(p.queue[i]) \in Seq(Waits)
  BY DEF Good
<1>2. /\ Shape(q)
      /\ q.online = p.online /\ q.offline = p.offline /\ q.conn = p.conn
      /\ q.queue = [p.queue EXCEPT ![i] = Tail(p.queue[i])]
  BY Zenon DEF Good, Shape, Fields
<1> HIDE DEF q
<1>3. Good(q)
  BY <1>1, <1>2 DEF Good
<1> QED
  BY Zenon, <1>3 DEF q

(* process_message, whichever way the message takes.                       *)
LEMMA ReceiveInv ==
    ASSUME IInv, NEW c \in Conns, NEW m \in Messages, Receive(c, m)
    PROVE  IInv'
<1> DEFINE p == IF m.id # 0 /\ m.cmd # "noServer"
                THEN Admit(Reap(pm), m.id, c) ELSE Reap(pm)
           q == Get(p, m.id)
<1>1. m.id # 0 => m.id \in Ids
  BY Zenon DEF Messages, Ids
<1>2. Good(p)
  BY Zenon, <1>1, ReapKeeps, AdmitKeeps DEF IInv
<1> HIDE DEF p
<1>3. CASE m.cmd = "noServer"
  <2>1. pm' = p /\ UNCHANGED <<pc, cur>>
    BY Zenon, <1>3 DEF Receive, p
  <2>2. held' = [held EXCEPT ![c] = m]
    BY Zenon, <1>3 DEF Receive
  <2> QED
    BY Zenon, <1>2, <2>1, <2>2 DEF IInv
<1>4. CASE m.cmd # "noServer" /\ Queued(m)
  <2>1. m.id \in Ids
    BY Zenon, <1>1, <1>4 DEF Queued
  <2>2. Good(q)
    BY <1>2, <2>1, GetKeeps, SMTT(30)
  <2>3. /\ pm' = IF m.id \in Loaded(q) THEN [q EXCEPT !.queue[m.id] = Append(@, m)] ELSE q
        /\ cur' = m.id
        /\ held' = [held EXCEPT ![c] = Nothing]
    BY Zenon, <1>4 DEF Receive, p
  <2> HIDE DEF q
  <2>4. m.id \in Loaded(q) => Good([q EXCEPT !.queue[m.id] = Append(@, m)])
    BY <1>4, <2>2, EnqueueKeeps, SMTT(30) DEF Requests, Waits
  <2>5. Good(pm')
    BY Zenon, <2>2, <2>3, <2>4
  <2> QED
    BY <2>1, <2>3, <2>5, SMTT(30) DEF IInv
<1>5. CASE m.cmd # "noServer" /\ ~Queued(m)
  <2>1. /\ pm' = IF m.ok THEN Handle(p, m) ELSE p
        /\ held' = [held EXCEPT ![c] = IF m.ok THEN Nothing ELSE m]
        /\ UNCHANGED <<pc, cur>>
    BY Zenon, <1>5 DEF Receive, p
  <2>2. Good(pm')
    BY Zenon, <1>2, <1>5, <2>1, HandleKeeps DEF Requests
  <2> QED
    BY Zenon, <2>1, <2>2 DEF IInv
<1> QED
  BY Zenon, <1>3, <1>4, <1>5

(* process_next_request: the front of the queue is handled.                *)
LEMMA ProcessNextInv ==
    ASSUME IInv, ProcessNext
    PROVE  IInv'
<1> DEFINE p == GetOnline(pm, cur)
           q == Get(p, cur)
           front == Head(q.queue[cur])
           r == Get(Handle(q, front), cur)
<1>1. cur \in Ids /\ UNCHANGED <<held, cur>>
  BY Zenon DEF IInv, ProcessNext
<1>2. Good(p)
  BY Zenon, <1>1, GetOnlineKeeps DEF IInv
<1>3. Good(q)
  BY <1>1, <1>2, GetKeeps, SMTT(30)
<1>4. \/ pm' = p
      \/ pm' = q
      \/ /\ q.queue[cur] # <<>>
         /\ pm' = IF r.queue[cur] = <<>> THEN r ELSE [r EXCEPT !.queue[cur] = Tail(@)]
  BY Zenon DEF ProcessNext
<1> HIDE DEF p, q
<1>5. ASSUME q.queue[cur] # <<>> PROVE Good(r)
  <2>1. front \in Waits
    BY <1>1, <1>3, <1>5, SMTT(30) DEF Good
  <2> HIDE DEF front
  <2>2. front \in Requests
    BY Zenon, <2>1 DEF Waits
  <2> QED
    BY <1>1, <1>3, <2>2, HandleKeeps, GetKeeps, SMTT(30)
<1> HIDE DEF r
<1>6. ASSUME Good(r), r.queue[cur] # <<>> PROVE Good([r EXCEPT !.queue[cur] = Tail(@)])
  BY Zenon, <1>1, <1>6, DequeueKeeps
<1> DEFINE next == [r EXCEPT !.queue[cur] = Tail(@)]
<1>7. \/ pm' = p
      \/ pm' = q
      \/ q.queue[cur] # <<>> /\ pm' = IF r.queue[cur] = <<>> THEN r ELSE next
  BY Zenon, <1>4
<1>8. Good(r) /\ r.queue[cur] # <<>> => Good(next)
  BY Zenon, <1>6
<1> HIDE DEF next
<1>9. Good(pm')
  BY Zenon, <1>2, <1>3, <1>5, <1>7, <1>8
<1> QED
  BY Zenon, <1>1, <1>9 DEF IInv

(* do_pbc_service_register replaces the users online.                      *)
LEMMA RegisterInv ==
    ASSUME IInv, NEW c \in Conns, NEW players \in SUBSET Players, Register(c, players)
    PROVE  IInv'
<1> DEFINE q == Reap(pm)
<1>1. Good(q)
  BY Zenon, ReapKeeps DEF IInv
<1>2. pm' = [q EXCEPT !.realtime = players] /\ UNCHANGED <<held, pc, cur>>
  BY Zenon DEF Register
<1> HIDE DEF q
<1>3. Good(pm')
  BY Zenon, <1>1, <1>2 DEF Good, Shape, Fields
<1> QED
  BY Zenon, <1>2, <1>3 DEF IInv

(* An empty player manager.                                                *)
LEMMA InitInv == Init => IInv
<1> SUFFICES ASSUME Init PROVE IInv
  BY Zenon
<1>1. /\ Shape(pm)
      /\ pm.online = {} /\ pm.offline = {}
      /\ pm.conn = [i \in Ids |-> INVALID]
      /\ pm.queue = [i \in Ids |-> <<>>]
  BY Zenon DEF Init, Shape, Fields
<1>2. Good(pm)
  BY <1>1 DEF Good
<1> QED
  BY Zenon, <1>2 DEF Init, IInv

(* The inductive invariant holds in every state that is reached.           *)
LEMMA InvHolds == Spec => []IInv
<1>1. ASSUME IInv, [Next]_vars PROVE IInv'
  <2>1. CASE UNCHANGED vars
    BY Zenon, <1>1, <2>1 DEF vars, IInv
  <2>2. CASE Next
    <3>1. CASE (\E c \in Conns : ConnClosed(c)) \/ Database \/ Tick
      BY Zenon, <1>1, <3>1 DEF ConnClosed, Database, Tick, IInv
    <3> QED
      BY <1>1, <2>2, <3>1, ReceiveInv, RegisterInv, ProcessNextInv, SMTT(30) DEF Next
  <2> QED
    BY Zenon, <1>1, <2>1, <2>2
<1> QED
  BY <1>1, InitInv, PTL DEF Spec

(* A loaded player is in one of player_online and player_offline, and its  *)
(* conn tells in which, through loads, logins, logouts, unloads and sweeps *)
(* in any order and while the database fails; no request waits for a       *)
(* player that was released.                                               *)
THEOREM PlayerInOneMap == Spec => []OneMap
<1>1. IInv => OneMap
  BY Zenon DEF IInv, Good, OneMap, Loaded
<1> QED
  BY <1>1, InvHolds, PTL
-----------------------------------------------------------------------------
(***************************************************************************)
(* The zombie list.  z is the list, t the zombie_time of each player, S    *)
(* the players on the list: each is there once, no zombie_time is earlier  *)
(* than that of a player before, and all are between b and now.  With b    *)
(* each step of process_message can say that what the sweep left is young. *)
(***************************************************************************)
Ordered(z, t, S, b) ==
    /\ z \in Seq(Ids) /\ t \in [Ids -> Nat]
    /\ S = {z[k] : k \in 1 .. Len(z)}
    /\ \A j, k \in 1 .. Len(z) : j < k => z[j] # z[k] /\ t[z[j]] <= t[z[k]]
    /\ \A i \in S : b <= t[i] /\ t[i] <= now

(* A player leaves the list, wherever it is; its time means nothing then.  *)
LEMMA TakenOut ==
    ASSUME NEW z, NEW t, NEW S, NEW b, Ordered(z, t, S, b), NEW i \in Ids,
           NEW u \in [Ids -> Nat], \A k \in Ids \ {i} : u[k] = t[k]
    PROVE  Ordered(Unlink(z, i), u, S \ {i}, b)
<1> DEFINE y == Unlink(z, i)
<1>1. z \in Seq(Ids) /\ Len(z) \in Nat /\ \A k \in 1 .. Len(z) : z[k] \in S /\ z[k] \in Ids
  BY DEF Ordered
<1>2. CASE y = z /\ \A k \in 1 .. Len(z) : z[k] # i
  <2>1. S \ {i} = S /\ \A k \in S : k \in Ids /\ u[k] = t[k]
    BY <1>1, <1>2 DEF Ordered
  <2>2. Ordered(z, u, S, b)
    <3>1. \A k \in 1 .. Len(z) : u[z[k]] = t[z[k]]
      BY Zenon, <1>1, <2>1
    <3>2. \A j, k \in 1 .. Len(z) : j < k => z[j] # z[k] /\ u[z[j]] <= u[z[k]]
      BY Zenon, <3>1 DEF Ordered
    <3> QED
      BY Zenon, <2>1, <3>2 DEF Ordered
  <2> HIDE DEF y
  <2>3. Ordered(y, u, S \ {i}, b)
    BY Zenon, <1>2, <2>1, <2>2
  <2> QED
    BY Zenon, <2>3 DEF y
<1>3. ASSUME NEW n \in 1 .. Len(z), z[n] = i, y = RemoveNode(z, n)
      PROVE  Ordered(y, u, S \ {i}, b)
  <2> DEFINE src(k) == IF k < n THEN k ELSE k + 1
  <2>1. /\ y \in Seq(Ids) /\ Len(y) = Len(z) - 1
        /\ \A k \in 1 .. Len(z) - 1 : y[k] = IF k < n THEN z[k] ELSE z[k + 1]
    <3>1. /\ RemoveNode(z, n) \in Seq(Ids)
          /\ Len(RemoveNode(z, n)) = Len(z) - 1
          /\ \A k \in 1 .. Len(z) - 1 :
               RemoveNode(z, n)[k] = IF k < n THEN z[k] ELSE z[k + 1]
      BY <1>1, RemoveNodeSeq, Zenon
    <3> HIDE DEF y
    <3> QED
      BY Zenon, <1>3, <3>1
  <2> HIDE DEF y
  <2>2. \A k \in 1 .. Len(y) :
          src(k) \in 1 .. Len(z) \ {n} /\ y[k] = z[src(k)]
    <3> TAKE k \in 1 .. Len(y)
    <3>1. CASE k < n
      <4>1. src(k) = k /\ k \in 1 .. Len(z) - 1 /\ k \in 1 .. Len(z) \ {n}
        BY <1>1, <2>1, <3>1
      <4>2. y[k] = z[k]
        BY Zenon, <2>1, <3>1, <4>1
      <4> QED
        BY Zenon, <4>1, <4>2
    <3>2. CASE ~(k < n)
      BY <1>1, <2>1, <3>2
    <3> QED
      BY Zenon, <3>1, <3>2
  <2>3. \A j, k \in 1 .. Len(y) : j < k => src(j) < src(k)
    BY <1>1, <2>1, SMTT(30)
  <2>4. \A k \in 1 .. Len(z) : k # n => z[k] # i
    <3> TAKE k \in 1 .. Len(z)
    <3>1. (k < n => z[k] # z[n]) /\ (n < k => z[n] # z[k])
      BY Zenon DEF Ordered
    <3> QED
      BY <1>1, <1>3, <3>1
  <2>5. \A k \in 1 .. Len(y) : y[k] \in S \ {i}
    <3> HIDE DEF src
    <3> QED
      BY Zenon, <1>1, <2>2, <2>4
  <2>6. ASSUME NEW x \in S \ {i}
        PROVE  \E k \in 1 .. Len(y) : x = y[k]
    <3>1. PICK k \in 1 .. Len(z) : x = z[k] /\ k # n
      BY Zenon, <1>3 DEF Ordered
    <3>2. CASE k < n
      <4>1. k \in 1 .. Len(y) /\ y[k] = x
        BY <1>1, <2>1, <3>1, <3>2
      <4> QED
        BY Zenon, <4>1
    <3>3. CASE k > n
      <4>1. k - 1 \in 1 .. Len(y) /\ ~(k - 1 < n) /\ (k - 1) + 1 = k
        BY <1>1, <2>1, <3>3
      <4>2. y[k - 1] = x
        BY Zenon, <1>1, <2>1, <3>1, <4>1
      <4> QED
        BY Zenon, <4>1, <4>2
    <3> QED
      BY <1>1, <3>1, <3>2, <3>3
  <2>7. S \ {i} = {y[k] : k \in 1 .. Len(y)}
    BY <2>5, <2>6
  <2>8. \A k \in S \ {i} : k \in Ids /\ u[k] = t[k]
    BY Zenon, <1>1 DEF Ordered
  <2>9. \A j, k \in 1 .. Len(y) : j < k => y[j] # y[k] /\ u[y[j]] <= u[y[k]]
    <3> HIDE DEF src
    <3>1. ASSUME NEW j \in 1 .. Len(y), NEW k \in 1 .. Len(y), j < k
          PROVE  y[j] # y[k] /\ t[y[j]] <= t[y[k]]
      <4>1. /\ src(j) \in 1 .. Len(z) /\ src(k) \in 1 .. Len(z) /\ src(j) < src(k)
            /\ y[j] = z[src(j)] /\ y[k] = z[src(k)]
        BY Zenon, <2>2, <2>3, <3>1
      <4>2. z[src(j)] # z[src(k)] /\ t[z[src(j)]] <= t[z[src(k)]]
        BY Zenon, <4>1 DEF Ordered
      <4> QED
        BY Zenon, <4>1, <4>2
    <3> QED
      BY Zenon, <2>5, <2>8, <3>1
  <2> QED
    BY Zenon, <2>1, <2>7, <2>8, <2>9 DEF Ordered
<1> QED
  BY Zenon, <1>1, <1>2, <1>3, UnlinkSeq

(* A player goes to the end of the list with the time it is now.           *)
LEMMA PutLast ==
    ASSUME NEW z, NEW t, NEW S, NEW b, Ordered(z, t, S, b), NEW i \in Ids \ S,
           t[i] = now, now \in Nat, b <= now
    PROVE  Ordered(Append(z, i), t, S \cup {i}, b)
<1> DEFINE y == Append(z, i)
<1>1. z \in Seq(Ids) /\ Len(z) \in Nat /\ \A k \in 1 .. Len(z) : z[k] \in S /\ z[k] \in Ids
  BY DEF Ordered
<1>2. /\ y \in Seq(Ids) /\ Len(y) = Len(z) + 1 /\ y[Len(z) + 1] = i
      /\ \A k \in 1 .. Len(z) : y[k] = z[k]
  BY <1>1
<1> HIDE DEF y
<1>3. S \cup {i} = {y[k] : k \in 1 .. Len(y)}
  <2>1. \A k \in 1 .. Len(y) : k \in 1 .. Len(z) \/ k = Len(z) + 1
    BY <1>1, <1>2
  <2>2. \A k \in 1 .. Len(y) : y[k] \in S \cup {i}
    BY Zenon, <1>1, <1>2, <2>1
  <2>3. Len(z) + 1 \in 1 .. Len(y) /\ \A k \in 1 .. Len(z) : k \in 1 .. Len(y)
    BY <1>1, <1>2
  <2>4. \A x \in S : \E k \in 1 .. Len(z) : x = z[k]
    BY Zenon DEF Ordered
  <2>5. \A x \in S \cup {i} : \E k \in 1 .. Len(y) : x = y[k]
    BY Zenon, <1>2, <2>3, <2>4
  <2> QED
    BY Zenon, <2>2, <2>5
<1>4. ASSUME NEW j \in 1 .. Len(y), NEW k \in 1 .. Len(y), j < k
      PROVE  y[j] # y[k] /\ t[y[j]] <= t[y[k]]
  <2>1. j \in 1 .. Len(z) /\ y[j] = z[j] /\ z[j] \in S
    BY <1>1, <1>2, <1>4
  <2>2. CASE k \in 1 .. Len(z)
    BY Zenon, <1>2, <1>4, <2>1, <2>2 DEF Ordered
  <2>3. CASE k = Len(z) + 1
    BY Zenon, <1>2, <2>1, <2>3 DEF Ordered
  <2> QED
    BY <1>1, <1>2, <2>2, <2>3
<1>5. t \in [Ids -> Nat] /\ \A k \in S \cup {i} : b <= t[k] /\ t[k] <= now
  BY DEF Ordered
<1>6. Ordered(y, t, S \cup {i}, b)
  BY Zenon, <1>2, <1>3, <1>4, <1>5 DEF Ordered
<1> QED
  BY Zenon, <1>6 DEF y

\* y is what is left of z when the first n are taken off.
Suffix(y, z, n, I) ==
    /\ y \in Seq(I) /\ Len(y) = Len(z) - n
    /\ \A k \in 1 .. Len(y) :
         k + n \in 1 .. Len(z) /\ n < k + n /\ y[k] = z[k + n]
    /\ \A k \in 1 .. Len(z) : n < k =>
         k - n \in 1 .. Len(y) /\ y[k - n] = z[k]

(* What is left of a list when the first n are taken off.                  *)
LEMMA SuffixSeq ==
    ASSUME NEW I, NEW z \in Seq(I), NEW n \in 0 .. Len(z)
    PROVE  Suffix(SubSeq(z, n + 1, Len(z)), z, n, I)
<1> DEFINE y == SubSeq(z, n + 1, Len(z))
<1>1. /\ y \in Seq(I) /\ Len(y) = Len(z) - n /\ Len(z) \in Nat
      /\ \A k \in 1 .. Len(z) - n : y[k] = z[k + n]
  OBVIOUS
<1> HIDE DEF y
<1>2. ASSUME NEW k \in 1 .. Len(y)
      PROVE  k + n \in 1 .. Len(z) /\ n < k + n /\ y[k] = z[k + n]
  BY <1>1
<1>3. ASSUME NEW k \in 1 .. Len(z), n < k
      PROVE  k - n \in 1 .. Len(y) /\ y[k - n] = z[k]
  <2>1. k - n \in 1 .. Len(z) - n /\ (k - n) + n = k
    BY <1>1, <1>3
  <2> QED
    BY Zenon, <1>1, <2>1
<1>4. Suffix(y, z, n, I)
  BY Zenon, <1>1, <1>2, <1>3 DEF Suffix
<1> QED
  BY Zenon, <1>4 DEF y

\* The players on the list up to the n-th.
FirstOf(z, n) == {z[k] : k \in 1 .. n}
SameBut(u, t, gone) == u \in [Ids -> Nat] /\ \A k \in Ids \ gone : u[k] = t[k]
NoOlder(z, t, n, d) == n < Len(z) => d <= t[z[n + 1]]

(* The first n leave the list together: what is left is no older than the  *)
(* first that stays.                                                       *)
LEMMA SweptOff ==
    ASSUME NEW z, NEW t, NEW S, NEW b, Ordered(z, t, S, b),
           NEW n \in 0 .. Len(z), NEW d \in Int, NoOlder(z, t, n, d),
           NEW u, SameBut(u, t, FirstOf(z, n))
    PROVE  Ordered(SubSeq(z, n + 1, Len(z)), u, S \ FirstOf(z, n), d)
<1> DEFINE y == SubSeq(z, n + 1, Len(z))
           T == S \ FirstOf(z, n)
<1>1. /\ z \in Seq(Ids) /\ Len(z) \in Nat /\ t \in [Ids -> Nat]
      /\ \A k \in 1 .. Len(z) : z[k] \in S /\ z[k] \in Ids
      /\ \A x \in S : \E k \in 1 .. Len(z) : x = z[k]
  BY DEF Ordered
<1>2. /\ y \in Seq(Ids) /\ Len(y) = Len(z) - n
      /\ \A k \in 1 .. Len(y) :
           k + n \in 1 .. Len(z) /\ n < k + n /\ y[k] = z[k + n]
      /\ \A k \in 1 .. Len(z) : n < k =>
           k - n \in 1 .. Len(y) /\ y[k - n] = z[k]
  <2>1. Suffix(y, z, n, Ids)
    BY Zenon, <1>1, SuffixSeq
  <2> HIDE DEF y
  <2> QED
    BY Zenon, <2>1 DEF Suffix
<1> HIDE DEF y
<1>3. \A j, k \in 1 .. Len(z) : j < k => z[j] # z[k] /\ t[z[j]] <= t[z[k]]
  BY Zenon DEF Ordered
<1>4. ASSUME NEW k \in 1 .. Len(y)
      PROVE  y[k] \in T
  <2>1. k + n \in 1 .. Len(z) /\ y[k] = z[k + n] /\ n < k + n
    BY Zenon, <1>2
  <2>2. \A j \in 1 .. n : j \in 1 .. Len(z) /\ j < k + n
    BY <1>1, <2>1
  <2>3. \A j \in 1 .. n : z[j] # z[k + n]
    BY Zenon, <1>3, <2>1, <2>2
  <2> QED
    BY Zenon, <1>1, <2>1, <2>3 DEF FirstOf
<1>5. ASSUME NEW x \in T
      PROVE  \E k \in 1 .. Len(y) : x = y[k]
  <2>1. PICK k \in 1 .. Len(z) : x = z[k] /\ k \notin 1 .. n
    BY Zenon, <1>1 DEF FirstOf
  <2>2. n < k
    BY <1>1, <2>1
  <2> QED
    BY Zenon, <1>2, <2>1, <2>2
<1>6. T = {y[k] : k \in 1 .. Len(y)}
  BY Zenon, <1>4, <1>5
<1>7. u \in [Ids -> Nat] /\ \A k \in T : k \in Ids /\ u[k] = t[k]
  <2>1. \A x \in S : x \in Ids
    BY <1>1, Zenon
  <2> QED
    BY <2>1, Zenon DEF SameBut
<1> HIDE DEF T
<1>8. ASSUME NEW j \in 1 .. Len(y), NEW k \in 1 .. Len(y), j < k
      PROVE  y[j] # y[k] /\ u[y[j]] <= u[y[k]]
  <2>1. j + n < k + n
    BY <1>1, <1>8
  <2>2. /\ j + n \in 1 .. Len(z) /\ k + n \in 1 .. Len(z)
        /\ y[j] = z[j + n] /\ y[k] = z[k + n]
    BY Zenon, <1>2
  <2>3. y[j] # y[k] /\ t[y[j]] <= t[y[k]]
    BY Zenon, <1>3, <2>1, <2>2
  <2> QED
    BY Zenon, <1>4, <1>7, <2>3
<1>9. ASSUME NEW x \in T
      PROVE  d <= u[x] /\ u[x] <= now
  <2>1. PICK k \in 1 .. Len(y) : x = y[k]
    BY Zenon, <1>5
  <2>2. k + n \in 1 .. Len(z) /\ n < k + n /\ x = z[k + n]
    BY Zenon, <1>2, <2>1
  <2>3. n < Len(z) /\ n + 1 \in 1 .. Len(z) /\ (n + 1 = k + n \/ n + 1 < k + n)
    BY <1>1, <2>2
  <2>4. t[z[n + 1]] \in Nat /\ t[x] \in Nat
    BY <1>1, <2>2, <2>3, SMTT(30)
  <2>5. t[z[n + 1]] <= t[x]
    <3>1. CASE n + 1 = k + n
      BY <2>2, <2>4, <3>1
    <3>2. CASE n + 1 < k + n
      BY Zenon, <1>3, <2>2, <2>3, <3>2
    <3> QED
      BY Zenon, <2>3, <3>1, <3>2
  <2>6. d <= t[x]
    BY <2>3, <2>4, <2>5 DEF NoOlder
  <2>7. t[x] <= now
    BY Zenon, <1>1, <2>2 DEF Ordered
  <2> QED
    BY Zenon, <1>7, <2>6, <2>7
<1>10. Ordered(y, u, T, d)
  BY Zenon, <1>2, <1>6, <1>7, <1>8, <1>9 DEF Ordered
<1> QED
  BY Zenon, <1>10 DEF y, T
-----------------------------------------------------------------------------
(***************************************************************************)
(* What every operation of the player manager keeps: the maps, the zombie  *)
(* list, with no zombie_time before b, and player_not_exist, whose entries *)
(* are wrong about a character only if the database has failed since.      *)
(***************************************************************************)
Absences(p) ==
    /\ p.absent \in [Ids -> Nat]
    /\ \A i \in Ids : /\ p.absent[i] <= now
                      /\ p.absent[i] # 0 /\ i \in p.roles => downAt >= p.absent[i]

Sound(p, b) ==
    Good(p) /\ Ordered(p.zombies, p.ztime, p.offline, b) /\ Absences(p)

Clock(b) ==
    /\ now \in Nat \ {0} /\ downAt \in Nat /\ downAt <= now
    /\ dbUp \in BOOLEAN /\ (~dbUp => downAt = now)
    /\ b \in Int /\ b <= now

\* The parts of the manager that the zombie list is not.
SameMaps(p, q) ==
    /\ q.online = p.online /\ q.offline = p.offline /\ q.queue = p.queue
    /\ q.absent = p.absent /\ q.roles = p.roles

(* try_add_player_to_zombie_list and try_remove_player_from_zombie_list.   *)
LEMMA ZombieFields ==
    ASSUME NEW p, Good(p), NEW i \in Ids
    PROVE  /\ SameMaps(p, AddZombie(p, i)) /\ SameMaps(p, DropZombie(p, i))
           /\ AddZombie(p, i).zombies = Append(Unlink(p.zombies, i), i)
           /\ AddZombie(p, i).ztime = [p.ztime EXCEPT ![i] = now]
           /\ DropZombie(p, i).zombies = Unlink(p.zombies, i)
           /\ DropZombie(p, i).ztime = [p.ztime EXCEPT ![i] = 0]
  BY Zenon DEF Good, Shape, Fields, AddZombie, DropZombie, SameMaps

(* A zombie that is used again goes to the end of the list.                *)
LEMMA AddZombieSound ==
    ASSUME NEW b, Clock(b), NEW p, Good(p), Absences(p), NEW i \in p.offline,
           NEW S, Ordered(p.zombies, p.ztime, S, b), S \cup {i} = p.offline
    PROVE  Sound(AddZombie(p, i), b) /\ SameMaps(p, AddZombie(p, i))
<1> DEFINE q == AddZombie(p, i)
           t == [p.ztime EXCEPT ![i] = now]
<1>1. i \in Ids
  BY Zenon DEF Good
<1>2. /\ Good(q) /\ SameMaps(p, q)
      /\ q.zombies = Append(Unlink(p.zombies, i), i) /\ q.ztime = t
  BY Zenon, <1>1, ZombieKeeps, ZombieFields
<1>3. t \in [Ids -> Nat] /\ t[i] = now /\ \A k \in Ids \ {i} : t[k] = p.ztime[k]
  BY Zenon, <1>1 DEF Clock, Ordered
<1> HIDE DEF q, t
<1>4. Ordered(Unlink(p.zombies, i), t, S \ {i}, b)
  BY Zenon, <1>1, <1>3, TakenOut
<1>5. Ordered(Append(Unlink(p.zombies, i), i), t, (S \ {i}) \cup {i}, b)
  BY Zenon, <1>1, <1>3, <1>4, PutLast DEF Clock
<1>6. (S \ {i}) \cup {i} = q.offline
  BY Zenon, <1>2 DEF SameMaps
<1>7. Ordered(q.zombies, q.ztime, q.offline, b)
  BY Zenon, <1>2, <1>5, <1>6
<1>8. Absences(q)
  BY Zenon, <1>2 DEF Absences, SameMaps
<1> QED
  BY Zenon, <1>2, <1>7, <1>8 DEF Sound, q

(* A player that is no zombie any more leaves the list.                    *)
LEMMA DropZombieSound ==
    ASSUME NEW b, Clock(b), NEW p, Good(p), Absences(p), NEW i \in Ids,
           NEW S, Ordered(p.zombies, p.ztime, S, b), S \ {i} = p.offline
    PROVE  Sound(DropZombie(p, i), b) /\ SameMaps(p, DropZombie(p, i))
<1> DEFINE q == DropZombie(p, i)
           t == [p.ztime EXCEPT ![i] = 0]
<1>1. /\ Good(q) /\ SameMaps(p, q)
      /\ q.zombies = Unlink(p.zombies, i) /\ q.ztime = t
  BY Zenon, ZombieKeeps, ZombieFields
<1>2. t \in [Ids -> Nat] /\ \A k \in Ids \ {i} : t[k] = p.ztime[k]
  BY Zenon DEF Ordered
<1> HIDE DEF q, t
<1>3. Ordered(Unlink(p.zombies, i), t, S \ {i}, b)
  BY Zenon, <1>2, TakenOut
<1>4. Ordered(q.zombies, q.ztime, q.offline, b)
  BY Zenon, <1>1, <1>3 DEF SameMaps
<1>5. Absences(q)
  BY Zenon, <1>1 DEF Absences, SameMaps
<1> QED
  BY Zenon, <1>1, <1>4, <1>5 DEF Sound, q

\* Nobody is released between p and q, and no queue changes.
Kept(p, q) == Loaded(p) \subseteq Loaded(q) /\ q.queue = p.queue

(* A lookup: agPM_Get, with or without the database.                       *)
LEMMA GetSound ==
    ASSUME NEW b, Clock(b), NEW p, Sound(p, b), NEW i \in Ids
    PROVE  /\ Sound(Get(p, i), b) /\ Kept(p, Get(p, i))
           /\ Get(p, i).online = p.online
<1> DEFINE q == [p EXCEPT !.offline = @ \cup {i}, !.absent[i] = 0, !.conn[i] = INVALID]
           r == [p EXCEPT !.absent[i] = now]
<1>1. /\ Good(p) /\ Absences(p) /\ Ordered(p.zombies, p.ztime, p.offline, b)
      /\ p.online \cap p.offline = {}
  BY Zenon DEF Sound, Good
<1>2. CASE i \in p.online
  <2>1. Get(p, i) = DropZombie(p, i)
    BY Zenon, <1>1, <1>2 DEF Get, Loaded
  <2>2. p.offline \ {i} = p.offline
    BY Zenon, <1>1, <1>2
  <2> QED
    BY <1>1, <2>1, <2>2, DropZombieSound DEF SameMaps, Kept, Loaded
<1>3. CASE i \in p.offline
  <2>1. Get(p, i) = AddZombie(p, i)
    BY Zenon, <1>1, <1>3 DEF Get, Loaded
  <2>2. p.offline \cup {i} = p.offline
    BY Zenon, <1>3
  <2> QED
    BY <1>1, <1>3, <2>1, <2>2, AddZombieSound DEF SameMaps, Kept, Loaded
<1>4. CASE i \notin Loaded(p) /\ KnownAbsent(p, i)
  <2>1. Get(p, i) = p
    BY Zenon, <1>4 DEF Get, Loaded
  <2> QED
    BY Zenon, <2>1 DEF Kept
<1>5. CASE i \notin Loaded(p) /\ ~KnownAbsent(p, i) /\ dbUp /\ i \in p.roles
  <2>1. Get(p, i) = AddZombie(q, i)
    BY Zenon, <1>5 DEF Get, Loaded
  <2>2. /\ Shape(q) /\ q.online = p.online /\ q.offline = p.offline \cup {i}
        /\ q.conn = [p.conn EXCEPT ![i] = INVALID] /\ q.queue = p.queue
        /\ q.zombies = p.zombies /\ q.ztime = p.ztime /\ q.roles = p.roles
        /\ q.absent = [p.absent EXCEPT ![i] = 0]
    BY Zenon, <1>1 DEF Good, Shape, Fields
  <2> HIDE DEF q
  <2>3. Good(q)
    BY <1>1, <1>5, <2>2 DEF Good, Loaded
  <2>4. Absences(q)
    BY <1>1, <2>2 DEF Absences, Clock
  <2>5. Sound(AddZombie(q, i), b) /\ SameMaps(q, AddZombie(q, i))
    BY Zenon, <1>1, <2>2, <2>3, <2>4, AddZombieSound
  <2> QED
    BY Zenon, <2>1, <2>2, <2>5 DEF SameMaps, Kept, Loaded
<1>6. CASE i \notin Loaded(p) /\ ~KnownAbsent(p, i) /\ ~(dbUp /\ i \in p.roles)
  <2>1. Get(p, i) = r
    BY Zenon, <1>6 DEF Get, Loaded
  <2>2. /\ Shape(r) /\ r.online = p.online /\ r.offline = p.offline
        /\ r.conn = p.conn /\ r.queue = p.queue
        /\ r.zombies = p.zombies /\ r.ztime = p.ztime /\ r.roles = p.roles
        /\ r.absent = [p.absent EXCEPT ![i] = now]
    BY Zenon, <1>1 DEF Good, Shape, Fields
  <2> HIDE DEF r
  <2>3. Good(r)
    BY Zenon, <1>1, <2>2 DEF Good
  <2>4. Absences(r)
    BY <1>1, <1>6, <2>2 DEF Absences, Clock
  <2> QED
    BY Zenon, <1>1, <2>1, <2>2, <2>3, <2>4 DEF Sound, Kept, Loaded
<1> QED
  BY Zenon, <1>2, <1>3, <1>4, <1>5, <1>6 DEF Loaded

(* A player that a lookup does not find is remembered as absent, and the   *)
(* lookups that follow in the same message do not find it either.          *)
LEMMA GetSettles ==
    ASSUME NEW b, Clock(b), NEW p, Sound(p, b), NEW i \in Ids,
           i \notin Loaded(Get(p, i))
    PROVE  Get(Get(p, i), i) = Get(p, i)
<1> DEFINE q == Get(p, i)
           r == [p EXCEPT !.absent[i] = now]
<1>1. Loaded(p) \subseteq Loaded(q)
  BY Zenon, GetSound DEF Kept
<1>2. i \notin Loaded(p)
  BY Zenon, <1>1
<1>3. KnownAbsent(q, i)
  <2>1. CASE KnownAbsent(p, i)
    BY Zenon, <1>2, <2>1 DEF Get, Loaded
  <2>2. CASE ~KnownAbsent(p, i) /\ dbUp /\ i \in p.roles
    <3> DEFINE l == [p EXCEPT !.offline = @ \cup {i}, !.absent[i] = 0, !.conn[i] = INVALID]
    <3>1. q = AddZombie(l, i)
      BY Zenon, <1>2, <2>2 DEF Get, Loaded
    <3>2. i \in AddZombie(l, i).offline
      BY Zenon DEF AddZombie, Sound, Good, Shape, Fields
    <3> QED
      BY Zenon, <3>1, <3>2 DEF Loaded
  <2>3. CASE ~KnownAbsent(p, i) /\ ~(dbUp /\ i \in p.roles)
    <3>1. q = r
      BY Zenon, <1>2, <2>3 DEF Get, Loaded
    <3>2. r.absent[i] = now
      BY SMTT(30) DEF Sound, Good, Shape, Fields, Absences
    <3> QED
      BY <3>1, <3>2, WorldAssumption DEF KnownAbsent, Clock
  <2> QED
    BY Zenon, <2>1, <2>2, <2>3
<1> HIDE DEF q
<1>4. Get(q, i) = q
  BY Zenon, <1>3 DEF Get, Loaded, q
<1> QED
  BY Zenon, <1>4 DEF q

(* agPM_GetOnline: a player that is online is not on the list anyway.      *)
LEMMA GetOnlineSound ==
    ASSUME NEW b, Clock(b), NEW p, Sound(p, b), NEW i \in Ids
    PROVE  /\ Sound(GetOnline(p, i), b) /\ Kept(p, GetOnline(p, i))
           /\ GetOnline(p, i).online = p.online
<1>1. /\ Good(p) /\ Absences(p) /\ Ordered(p.zombies, p.ztime, p.offline, b)
      /\ p.online \cap p.offline = {}
  BY Zenon DEF Sound, Good
<1>2. CASE i \in p.online
  <2>1. GetOnline(p, i) = DropZombie(p, i) /\ p.offline \ {i} = p.offline
    BY Zenon, <1>1, <1>2 DEF GetOnline
  <2> QED
    BY <1>1, <2>1, DropZombieSound DEF SameMaps, Kept, Loaded
<1>3. CASE i \notin p.online
  BY Zenon, <1>3 DEF GetOnline, Kept
<1> QED
  BY Zenon, <1>2, <1>3

(* agPM_SetOnline: the player leaves player_offline and the list.          *)
LEMMA SetOnlineSound ==
    ASSUME NEW b, Clock(b), NEW p, Sound(p, b), NEW i \in Ids, NEW c \in Conns
    PROVE  /\ Sound(SetOnline(p, i, c), b) /\ Kept(p, SetOnline(p, i, c))
           /\ SetOnline(p, i, c).online = p.online \cup {i}
<1> DEFINE moved == IF p.conn[i] = INVALID
                    THEN [p EXCEPT !.online = @ \cup {i}, !.offline = @ \ {i}]
                    ELSE p
           q == [moved EXCEPT !.conn[i] = c]
<1>1. /\ Good(p) /\ Absences(p) /\ Ordered(p.zombies, p.ztime, p.offline, b)
      /\ p.online \cap p.offline = {} /\ (p.conn[i] # INVALID <=> i \in p.online)
  BY Zenon DEF Sound, Good
<1>2. /\ Shape(q) /\ q.online = p.online \cup {i} /\ q.offline = p.offline \ {i}
      /\ q.conn = [p.conn EXCEPT ![i] = c] /\ q.queue = p.queue
      /\ q.zombies = p.zombies /\ q.ztime = p.ztime /\ q.roles = p.roles
      /\ q.absent = p.absent
  <2>1. CASE p.conn[i] = INVALID
    BY Zenon, <1>1, <2>1 DEF Good, Shape, Fields
  <2>2. CASE p.conn[i] # INVALID
    <3>1. p.online \cup {i} = p.online /\ p.offline \ {i} = p.offline
      BY Zenon, <1>1, <2>2
    <3> QED
      BY Zenon, <1>1, <2>2, <3>1 DEF Good, Shape, Fields
  <2> QED
    BY Zenon, <2>1, <2>2
<1>3. SetOnline(p, i, c) = DropZombie(q, i)
  BY Zenon DEF SetOnline
<1> HIDE DEF q
<1>4. Good(q)
  BY <1>1, <1>2, WorldAssumption DEF Good
<1>5. Absences(q)
  BY Zenon, <1>1, <1>2 DEF Absences
<1>6. Sound(DropZombie(q, i), b) /\ SameMaps(q, DropZombie(q, i))
  BY Zenon, <1>1, <1>2, <1>4, <1>5, DropZombieSound
<1> QED
  BY Zenon, <1>2, <1>3, <1>6 DEF SameMaps, Kept, Loaded

(* agPM_SetOffline, of the player that is left of its argument: that id    *)
(* has no server part, so it is not a client's player.                     *)
LEMMA SetOfflineSound ==
    ASSUME NEW b, Clock(b), NEW p, Sound(p, b), NEW id \in Ids
    PROVE  /\ Sound(SetOffline(p, id), b) /\ Kept(p, SetOffline(p, id))
           /\ p.online \cap Players \subseteq SetOffline(p, id).online
<1> DEFINE i == id % Width
           q == [p EXCEPT !.offline = @ \cup {i}, !.online = @ \ {i}, !.conn[i] = INVALID]
<1>1. /\ Good(p) /\ Absences(p) /\ Ordered(p.zombies, p.ztime, p.offline, b)
      /\ p.online \cap p.offline = {} /\ p.online \subseteq Ids
  BY Zenon DEF Sound, Good
<1>2. i \notin Players
  <2>1. \A pid \in Clients : pid \in Nat
    BY WorldAssumption
  <2>2. id \in Nat
    <3>1. ASSUME NEW pid \in Clients PROVE Full(pid) \in Nat
      BY <2>1, WorldAssumption DEF Full
    <3>2. \A a \in Ai : a \in Nat
      BY WorldAssumption
    <3> QED
      BY Zenon, <3>1, <3>2 DEF Ids, Players
  <2>3. i \in 0 .. Width - 1
    BY <2>2, WorldAssumption
  <2> HIDE DEF i
  <2>4. ASSUME NEW pid \in Clients PROVE i # Full(pid)
    <3>1. ServerId * Width >= Width
      BY WorldAssumption
    <3> QED
      BY <2>1, <2>3, <3>1, WorldAssumption DEF Full
  <2> QED
    BY Zenon, <2>4 DEF Players
<1> HIDE DEF i
<1>3. CASE i \in p.online
  <2>1. SetOffline(p, id) = AddZombie(q, i)
    BY Zenon, <1>3 DEF SetOffline, i
  <2>2. /\ Shape(q) /\ q.online = p.online \ {i} /\ q.offline = p.offline \cup {i}
        /\ q.conn = [p.conn EXCEPT ![i] = INVALID] /\ q.queue = p.queue
        /\ q.zombies = p.zombies /\ q.ztime = p.ztime /\ q.roles = p.roles
        /\ q.absent = p.absent
    BY Zenon, <1>1 DEF Good, Shape, Fields
  <2> HIDE DEF q
  <2>3. Good(q)
    BY <1>1, <1>3, <2>2 DEF Good
  <2>4. Absences(q)
    BY Zenon, <1>1, <2>2 DEF Absences
  <2>5. Sound(AddZombie(q, i), b) /\ SameMaps(q, AddZombie(q, i))
    BY Zenon, <1>1, <2>2, <2>3, <2>4, AddZombieSound
  <2> QED
    BY Zenon, <1>2, <2>1, <2>2, <2>5 DEF SameMaps, Kept, Loaded
<1>4. CASE i \notin p.online
  BY Zenon, <1>4 DEF SetOffline, i, Kept
<1> QED
  BY Zenon, <1>3, <1>4

(* agPM_Release: the player leaves its map and the list, and its requests  *)
(* are gone.                                                               *)
LEMMA ReleaseSound ==
    ASSUME NEW b, Clock(b), NEW p, Sound(p, b), NEW i \in Ids
    PROVE  /\ Sound(Release(p, i), b)
           /\ Loaded(Release(p, i)) = Loaded(p) \ {i}
           /\ Release(p, i).queue = [p.queue EXCEPT ![i] = <<>>]
<1> DEFINE out == IF p.conn[i] = INVALID THEN [p EXCEPT !.offline = @ \ {i}]
                                         ELSE [p EXCEPT !.online = @ \ {i}]
           q == [out EXCEPT !.conn[i] = INVALID, !.queue[i] = <<>>]
<1>1. /\ Good(p) /\ Absences(p) /\ Ordered(p.zombies, p.ztime, p.offline, b)
      /\ p.online \cap p.offline = {} /\ (p.conn[i] # INVALID <=> i \in p.online)
  BY Zenon DEF Sound, Good
<1>2. /\ Shape(q) /\ q.online = p.online \ {i} /\ q.offline = p.offline \ {i}
      /\ q.conn = [p.conn EXCEPT ![i] = INVALID]
      /\ q.queue = [p.queue EXCEPT ![i] = <<>>]
      /\ q.zombies = p.zombies /\ q.ztime = p.ztime /\ q.roles = p.roles
      /\ q.absent = p.absent
  <2>1. CASE p.conn[i] = INVALID
    <3>1. p.online \ {i} = p.online
      BY Zenon, <1>1, <2>1
    <3> QED
      BY Zenon, <1>1, <2>1, <3>1 DEF Good, Shape, Fields
  <2>2. CASE p.conn[i] # INVALID
    <3>1. p.offline \ {i} = p.offline
      BY Zenon, <1>1, <2>2
    <3> QED
      BY <1>1, <2>2, <3>1, ZenonT(30) DEF Good, Shape, Fields
  <2> QED
    BY Zenon, <2>1, <2>2
<1>3. Release(p, i) = DropZombie(q, i)
  BY Zenon DEF Release
<1> HIDE DEF q
<1>4. Good(q)
  BY <1>1, <1>2 DEF Good
<1>5. Absences(q)
  BY Zenon, <1>1, <1>2 DEF Absences
<1>6. Sound(DropZombie(q, i), b) /\ SameMaps(q, DropZombie(q, i))
  BY Zenon, <1>1, <1>2, <1>4, <1>5, DropZombieSound
<1> QED
  BY <1>2, <1>3, <1>6 DEF SameMaps, Loaded

(* try_unload_player_from_zombie_list releases zombies only, so nobody who *)
(* is online, and leaves no zombie that is older than ZombieTime.          *)
LEMMA ReapSound ==
    ASSUME Clock(0), NEW p, Sound(p, 0)
    PROVE  /\ Sound(Reap(p), now - ZombieTime) /\ Reap(p).online = p.online
           /\ \A i \in Ids : Reap(p).queue[i] \in {p.queue[i], <<>>}
<1> DEFINE z == p.zombies
           t == p.ztime
           old(k) == now - t[z[k]] > ZombieTime
           N == {0} \cup {m \in 1 .. Len(z) : \A k \in 1 .. m : old(k)}
           n == Max(N)
           q == ReleaseFirst(p, n)
           gone == FirstOf(z, n)
           u == [i \in Ids |-> IF i \in gone THEN 0 ELSE t[i]]
<1>1. Good(p) /\ Absences(p) /\ Ordered(z, t, p.offline, 0)
  BY Zenon DEF Sound
<1>2. /\ z \in Seq(Ids) /\ Len(z) \in Nat /\ t \in [Ids -> Nat]
      /\ \A k \in 1 .. Len(z) : z[k] \in p.offline /\ z[k] \in Ids
  BY <1>1 DEF Ordered
<1>3. n \in N /\ \A m \in N : m <= n
  <2>1. N \subseteq 0 .. Len(z) /\ N # {}
    BY <1>2
  <2> HIDE DEF N
  <2> QED
    BY Zenon, <1>2, <2>1, MaxOf
<1>4. Reap(p) = q
  BY Zenon DEF Reap
<1>5. /\ Shape(q) /\ q.online = p.online \ gone /\ q.offline = p.offline \ gone
      /\ q.queue = [i \in Ids |-> IF i \in gone THEN <<>> ELSE p.queue[i]]
      /\ q.zombies = SubSeq(z, n + 1, Len(z)) /\ q.ztime = u
      /\ q.absent = p.absent /\ q.roles = p.roles
  <2> HIDE DEF n
  <2> QED
    BY Zenon, <1>1 DEF Good, Shape, Fields, ReleaseFirst, FirstOf
<1>6. Good(q)
  BY Zenon, <1>1, <1>4, ReapKeeps
<1> HIDE DEF n, q
<1>7. n \in 0 .. Len(z)
  BY <1>2, <1>3
<1>8. NoOlder(z, t, n, now - ZombieTime)
  <2> SUFFICES ASSUME n < Len(z), ~(now - ZombieTime <= t[z[n + 1]])
               PROVE  FALSE
    BY Zenon DEF NoOlder
  <2>1. n + 1 \in 1 .. Len(z) /\ t[z[n + 1]] \in Nat
    BY <1>2, <1>7
  <2>2. old(n + 1)
    BY <2>1, WorldAssumption DEF Clock
  <2>3. \A k \in 1 .. n : old(k)
    BY <1>3, <1>7
  <2> HIDE DEF old
  <2>4. \A k \in 1 .. n + 1 : old(k)
    BY <1>7, <2>2, <2>3
  <2>5. n + 1 <= n
    BY Zenon, <1>3, <2>1, <2>4
  <2> QED
    BY <1>7, <2>5
<1>9. gone \subseteq p.offline
  BY <1>2, <1>7 DEF FirstOf
<1> HIDE DEF z, t, N, gone
<1>10. SameBut(u, t, gone)
  BY Zenon, <1>2 DEF SameBut
<1> HIDE DEF u
<1>11. Ordered(q.zombies, q.ztime, q.offline, now - ZombieTime)
  <2>1. now - ZombieTime \in Int
    BY WorldAssumption DEF Clock
  <2>2. Ordered(SubSeq(z, n + 1, Len(z)), u, p.offline \ FirstOf(z, n), now - ZombieTime)
    BY Zenon, <1>1, <1>7, <1>8, <1>10, <2>1, SweptOff DEF gone
  <2> QED
    BY Zenon, <1>5, <2>2 DEF gone
<1>12. Absences(q)
  BY Zenon, <1>1, <1>5 DEF Absences
<1>13. q.online = p.online
  BY Zenon, <1>1, <1>5, <1>9 DEF Good
<1> QED
  BY Zenon, <1>4, <1>5, <1>6, <1>11, <1>12, <1>13 DEF Sound

(* aL_create_player: the entry of player_not_exist goes with the character *)
(* that is created.                                                        *)
LEMMA CreateSound ==
    ASSUME NEW b, Clock(b), NEW p, Sound(p, b), NEW i \in Ids
    PROVE  Sound(Create(p, i), b) /\ Kept(p, Create(p, i))
<1> DEFINE q == Get(p, i)
           r == [q EXCEPT !.offline = @ \cup {i}, !.conn[i] = INVALID,
                          !.absent[i] = 0, !.roles = @ \cup {i}]
<1>1. Sound(q, b) /\ Kept(p, q)
  BY Zenon, GetSound
<1> HIDE DEF q
<1>2. Good(q) /\ Absences(q) /\ Ordered(q.zombies, q.ztime, q.offline, b)
  BY Zenon, <1>1 DEF Sound
<1>3. CASE i \in Loaded(q) \/ q.absent[i] = 0 \/ ~dbUp \/ i \in q.roles
  BY Zenon, <1>1, <1>3 DEF Create, q
<1>4. CASE ~(i \in Loaded(q) \/ q.absent[i] = 0 \/ ~dbUp \/ i \in q.roles)
  <2>1. Create(p, i) = AddZombie(r, i)
    BY Zenon, <1>4 DEF Create, q
  <2>2. /\ Shape(r) /\ r.online = q.online /\ r.offline = q.offline \cup {i}
        /\ r.conn = [q.conn EXCEPT ![i] = INVALID] /\ r.queue = q.queue
        /\ r.zombies = q.zombies /\ r.ztime = q.ztime
        /\ r.roles = q.roles \cup {i} /\ r.absent = [q.absent EXCEPT ![i] = 0]
    BY Zenon, <1>2 DEF Good, Shape, Fields
  <2> HIDE DEF r
  <2>3. Good(r)
    BY <1>2, <1>4, <2>2 DEF Good, Loaded
  <2>4. Absences(r)
    BY <1>2, <2>2 DEF Absences, Clock
  <2>5. Sound(AddZombie(r, i), b) /\ SameMaps(r, AddZombie(r, i))
    BY Zenon, <1>2, <2>2, <2>3, <2>4, AddZombieSound
  <2>6. Kept(q, AddZombie(r, i))
    BY Zenon, <2>2, <2>5 DEF SameMaps, Kept, Loaded
  <2> QED
    BY Zenon, <1>1, <2>1, <2>5, <2>6 DEF Kept
<1> QED
  BY Zenon, <1>3, <1>4

(* The count of users online is apart from the rest.                       *)
LEMMA RealtimeSound ==
    ASSUME NEW b, NEW p, Sound(p, b), NEW users
    PROVE  /\ Sound([p EXCEPT !.realtime = users], b)
           /\ SameMaps(p, [p EXCEPT !.realtime = users])
<1> DEFINE q == [p EXCEPT !.realtime = users]
<1>1. Good(p) /\ Absences(p) /\ Ordered(p.zombies, p.ztime, p.offline, b)
  BY Zenon DEF Sound
<1>2. /\ Shape(q) /\ SameMaps(p, q) /\ q.conn = p.conn
      /\ q.zombies = p.zombies /\ q.ztime = p.ztime
  BY <1>1, SMTT(30) DEF Good, Shape, Fields, SameMaps
<1> HIDE DEF q
<1>3. Good(q) /\ Absences(q) /\ Ordered(q.zombies, q.ztime, q.offline, b)
  BY Zenon, <1>1, <1>2 DEF Good, Absences, SameMaps
<1> QED
  BY Zenon, <1>2, <1>3 DEF Sound, q

(* aL_logout takes no client's player offline.                             *)
LEMMA LogoutSound ==
    ASSUME NEW b, Clock(b), NEW p, Sound(p, b), NEW i \in Ids
    PROVE  /\ Sound(Logout(p, i), b) /\ Kept(p, Logout(p, i))
           /\ p.online \cap Players \subseteq Logout(p, i).online
<1> DEFINE q == GetOnline(p, i)
           out == IF i \in q.online THEN SetOffline(q, i) ELSE q
           r == [out EXCEPT !.realtime = @ \ {i}]
<1>1. Sound(q, b) /\ Kept(p, q) /\ q.online = p.online
  BY Zenon, GetOnlineSound
<1> HIDE DEF q
<1>2. Sound(out, b) /\ Kept(q, out) /\ q.online \cap Players \subseteq out.online
  BY Zenon, <1>1, SetOfflineSound DEF Kept
<1>3. Logout(p, i) = r
  BY Zenon DEF Logout, q
<1> HIDE DEF out
<1>4. Sound(r, b) /\ SameMaps(out, r)
  BY Zenon, <1>2, RealtimeSound
<1> HIDE DEF r
<1> QED
  BY Zenon, <1>1, <1>2, <1>3, <1>4 DEF Kept, SameMaps, Loaded

\* Nobody but i is released between p and q, and queues only go with players.
Spared(p, q, i) ==
    /\ Loaded(p) \ {i} \subseteq Loaded(q)
    /\ \A j \in Ids : q.queue[j] \in {p.queue[j], <<>>}

(* aL_login releases a banned player, do_pbc_unload_player any.            *)
LEMMA LoginUnloadSound ==
    ASSUME NEW b, Clock(b), NEW p, Sound(p, b), NEW i \in Ids
    PROVE  /\ Sound(Login(p, i), b) /\ Spared(p, Login(p, i), i)
           /\ Sound(Unload(p, i), b) /\ Spared(p, Unload(p, i), i)
           /\ i \notin Banned => Kept(p, Login(p, i))
<1> DEFINE q == Get(p, i)
<1>1. Sound(q, b) /\ Kept(p, q) /\ q.queue \in [Ids -> Seq(Waits)]
  BY GetSound DEF Sound, Good
<1>2. /\ Login(p, i) = IF i \in Loaded(q) \cap Banned THEN Release(q, i) ELSE q
      /\ Unload(p, i) = IF i \in Loaded(q) THEN Release(q, i) ELSE q
  BY Zenon DEF Login, Unload
<1> HIDE DEF q
<1>3. /\ Sound(Release(q, i), b) /\ Loaded(Release(q, i)) = Loaded(q) \ {i}
      /\ Release(q, i).queue = [q.queue EXCEPT ![i] = <<>>]
  BY Zenon, <1>1, ReleaseSound
<1>4. Spared(p, Release(q, i), i) /\ Spared(p, q, i)
  BY <1>1, <1>3, SMTT(30) DEF Spared, Kept
<1> QED
  BY <1>1, <1>2, <1>3, <1>4, SMTT(30)

(* Every request.  Only an unload and the login of a banned player release *)
(* anybody, and they release the player they name.                         *)
LEMMA HandleSound ==
    ASSUME NEW b, Clock(b), NEW p, Sound(p, b), NEW m \in Requests
    PROVE  /\ Sound(Handle(p, m), b)
           /\ m.cmd = "unload" => Spared(p, Handle(p, m), m.target)
           /\ m.cmd = "login" => Spared(p, Handle(p, m), m.id)
           /\ ~(m.cmd = "unload" \/ (m.cmd = "login" /\ m.id \in Banned)) =>
                Kept(p, Handle(p, m))
           /\ m \in Waits => p.online \cap Players \subseteq Handle(p, m).online
<1>1. /\ m.cmd \in {"login", "create", "logout"} => m.id \in Ids
      /\ m.cmd \in {"query", "unload"} => m.target \in Ids
      /\ m.cmd \in {"login", "create", "logout", "query", "unload"}
  BY Zenon DEF Requests, Messages, Direct, Ids
<1>2. m \in Waits => m.cmd \in {"logout", "query"}
  BY Zenon DEF Waits, Requests, Messages, Direct, Queued
<1>3. CASE m.cmd = "login"
  <2>1. Handle(p, m) = Login(p, m.id)
    BY Zenon, <1>3 DEF Handle
  <2> QED
    BY Zenon, <1>1, <1>2, <1>3, <2>1, LoginUnloadSound
<1>4. CASE m.cmd = "create"
  <2>1. Handle(p, m) = Create(p, m.id)
    BY Zenon, <1>4 DEF Handle
  <2> QED
    BY <1>1, <1>2, <1>4, <2>1, CreateSound
<1>5. CASE m.cmd = "logout"
  <2>1. Handle(p, m) = Logout(p, m.id)
    BY Zenon, <1>5 DEF Handle
  <2> QED
    BY <1>1, <1>2, <1>5, <2>1, LogoutSound
<1>6. CASE m.cmd = "query"
  <2>1. Handle(p, m) = Get(p, m.target)
    BY Zenon, <1>6 DEF Handle
  <2> QED
    BY <1>1, <1>2, <1>6, <2>1, GetSound
<1>7. CASE m.cmd = "unload"
  <2>1. Handle(p, m) = Unload(p, m.target)
    BY Zenon, <1>7 DEF Handle
  <2> QED
    BY Zenon, <1>1, <1>2, <1>7, <2>1, LoginUnloadSound
<1> QED
  BY <1>1, <1>3, <1>4, <1>5, <1>6, <1>7

(* The head of process_message: a player that can be loaded is online when *)
(* it is done, and one that cannot be is not found again before the next   *)
(* message.                                                                *)
LEMMA AdmitSound ==
    ASSUME NEW b, Clock(b), NEW p, Sound(p, b), NEW i \in Ids, NEW c \in Conns
    PROVE  /\ Sound(Admit(p, i, c), b) /\ Kept(p, Admit(p, i, c))
           /\ p.online \subseteq Admit(p, i, c).online
           /\ i \in Loaded(Get(Admit(p, i, c), i)) => i \in Admit(p, i, c).online
<1> DEFINE o == GetOnline(p, i)
           q == Get(o, i)
           users == q.realtime \cup {i}
           s == [q EXCEPT !.realtime = users]
           r == IF i \in Loaded(q) /\ i \notin Ai THEN s ELSE q
           g == Get(r, i)
<1>1. Sound(o, b) /\ Kept(p, o) /\ o.online = p.online
  BY Zenon, GetOnlineSound
<1> HIDE DEF o
<1>2. Sound(q, b) /\ Kept(o, q) /\ q.online = o.online
  BY Zenon, <1>1, GetSound
<1>3. Admit(p, i, c) = IF i \in Loaded(g) THEN SetOnline(g, i, c) ELSE g
  BY Zenon DEF Admit, SetConn, o
<1> HIDE DEF q, users
<1>4. Sound(s, b) /\ SameMaps(q, s)
  BY Zenon, <1>2, RealtimeSound
<1>5. Sound(r, b) /\ SameMaps(q, r)
  BY Zenon, <1>2, <1>4 DEF SameMaps
<1> HIDE DEF r
<1>6. Sound(g, b) /\ Kept(r, g) /\ g.online = r.online
  BY Zenon, <1>5, GetSound
<1>7. i \notin Loaded(g) => Get(g, i) = g
  BY Zenon, <1>5, GetSettles
<1> HIDE DEF g
<1>8. Kept(p, g) /\ g.online = p.online
  BY Zenon, <1>1, <1>2, <1>5, <1>6 DEF Kept, SameMaps, Loaded
<1>9. CASE i \in Loaded(g)
  <2> DEFINE a == SetOnline(g, i, c)
  <2>1. Sound(a, b) /\ Kept(g, a) /\ a.online = g.online \cup {i}
    BY <1>6, SetOnlineSound
  <2>2. Admit(p, i, c) = a
    BY Zenon, <1>3, <1>9
  <2> HIDE DEF a
  <2> QED
    BY Zenon, <1>8, <2>1, <2>2 DEF Kept
<1>10. CASE i \notin Loaded(g)
  BY Zenon, <1>3, <1>6, <1>7, <1>8, <1>10
<1> QED
  BY Zenon, <1>9, <1>10

(* A request joins the queue of a loaded player.                           *)
LEMMA EnqueueSound ==
    ASSUME NEW b, NEW p, Sound(p, b), NEW i \in Loaded(p), NEW m \in Waits,
           NEW q, q = [p EXCEPT !.queue[i] = Append(@, m)]
    PROVE  /\ Sound(q, b) /\ q.online = p.online /\ Loaded(q) = Loaded(p)
           /\ \A j \in Ids \ {i} : q.queue[j] = p.queue[j]
<1>1. Good(p) /\ Absences(p) /\ Ordered(p.zombies, p.ztime, p.offline, b)
  BY Zenon DEF Sound
<1>2. Good(q)
  BY Zenon, <1>1, EnqueueKeeps
<1>3. /\ q.online = p.online /\ q.offline = p.offline
      /\ q.zombies = p.zombies /\ q.ztime = p.ztime
      /\ q.absent = p.absent /\ q.roles = p.roles
      /\ q.queue = [p.queue EXCEPT ![i] = Append(p.queue[i], m)]
  BY Zenon, <1>1 DEF Good, Shape, Fields
<1>4. Absences(q)
  BY Zenon, <1>1, <1>3 DEF Absences
<1>5. \A j \in Ids \ {i} : q.queue[j] = p.queue[j]
  BY <1>1, <1>3 DEF Good
<1> QED
  BY Zenon, <1>1, <1>2, <1>3, <1>4, <1>5 DEF Sound, Loaded

\* request_queue_pop.
Popped(p, i) == [p EXCEPT !.queue[i] = Tail(@)]

(* The front of a queue is taken off.                                      *)
LEMMA DequeueSound ==
    ASSUME NEW b, NEW p, Sound(p, b), NEW i \in Ids, p.queue[i] # <<>>
    PROVE  /\ Sound(Popped(p, i), b) /\ Popped(p, i).online = p.online
           /\ Loaded(Popped(p, i)) = Loaded(p)
           /\ \A j \in Ids \ {i} : Popped(p, i).queue[j] = p.queue[j]
           /\ Len(Popped(p, i).queue[i]) = Len(p.queue[i]) - 1
<1> DEFINE q == Popped(p, i)
<1>1. Good(p) /\ Absences(p) /\ Ordered(p.zombies, p.ztime, p.offline, b)
  BY Zenon DEF Sound
<1>2. Good(q)
  BY Zenon, <1>1, DequeueKeeps DEF Popped
<1>3. /\ q.online = p.online /\ q.offline = p.offline
      /\ q.zombies = p.zombies /\ q.ztime = p.ztime
      /\ q.absent = p.absent /\ q.roles = p.roles
      /\ q.queue = [p.queue EXCEPT ![i] = Tail(p.queue[i])]
  BY Zenon, <1>1 DEF Good, Shape, Fields, Popped
<1> HIDE DEF q
<1>4. Absences(q)
  BY Zenon, <1>1, <1>3 DEF Absences
<1>5. p.queue \in [Ids -> Seq(Waits)]
  BY Zenon, <1>1 DEF Good
<1>6. Len(Tail(p.queue[i])) = Len(p.queue[i]) - 1
  BY <1>5
<1>7. (\A j \in Ids \ {i} : q.queue[j] = p.queue[j]) /\ q.queue[i] = Tail(p.queue[i])
  BY Zenon, <1>3, <1>5
<1> QED
  BY Zenon, <1>1, <1>2, <1>3, <1>4, <1>6, <1>7 DEF Sound, Loaded, q
-----------------------------------------------------------------------------
(***************************************************************************)
(* The states between two messages, and inside the loop that works off a   *)
(* queue.  Only the player whose queue is worked off may have a request at *)
(* the front that can be decoded, and that player is online until its      *)
(* queue is empty: logging out does not take it offline, because           *)
(* agPM_SetOffline is given half of its id.                                *)
(***************************************************************************)
Rejected(p, i) == p.queue[i] # <<>> => ~Head(p.queue[i]).ok

SInv ==
    /\ Clock(0) /\ Sound(pm, 0)
    /\ pc \in {"idle", "drain"}
    /\ pc = "drain" => cur \in Players /\ (pm.queue[cur] # <<>> => cur \in pm.online)
    /\ \A i \in Ids : pc = "idle" \/ i # cur => Rejected(pm, i)

\* Who may be released, and the state of the list, after a message.
ReleasedBy(m, i) ==
    \/ m.cmd = "unload" /\ m.target = i
    \/ m.cmd = "login" /\ m.id = i /\ i \in Banned

(* The bound on the age of zombies can be given up.                        *)
LEMMA SoundWeaker ==
    ASSUME NEW p, NEW b, Sound(p, b)
    PROVE  Sound(p, 0)
<1>1. \A i \in p.offline : p.ztime[i] \in Nat
  BY Zenon DEF Sound, Good, Ordered
<1> QED
  BY <1>1 DEF Sound, Ordered

(* The start of process_message: the sweep, then the sender's player.      *)
LEMMA ReceiveStart ==
    ASSUME SInv, NEW c \in Conns, NEW m \in Messages, NEW p,
           p = IF m.id # 0 /\ m.cmd # "noServer"
               THEN Admit(Reap(pm), m.id, c) ELSE Reap(pm)
    PROVE  /\ Clock(now - ZombieTime) /\ Sound(p, now - ZombieTime)
           /\ pm.online \subseteq p.online
           /\ \A i \in Ids : p.queue[i] \in {pm.queue[i], <<>>}
           /\ m.id # 0 /\ m.cmd # "noServer" =>
                (m.id \in Loaded(Get(p, m.id)) => m.id \in p.online)
<1> DEFINE b == now - ZombieTime
           q == Reap(pm)
<1>1. Clock(b)
  BY WorldAssumption DEF SInv, Clock
<1>2. /\ Sound(q, b) /\ q.online = pm.online
      /\ \A i \in Ids : q.queue[i] \in {pm.queue[i], <<>>}
  BY Zenon, ReapSound DEF SInv
<1>3. m.id # 0 => m.id \in Ids
  BY ZenonT(30) DEF Messages, Ids
<1> HIDE DEF q, b
<1>4. CASE m.id # 0 /\ m.cmd # "noServer"
  <2>1. p = Admit(q, m.id, c)
    BY Zenon, <1>4 DEF q
  <2>2. /\ Sound(p, b) /\ Kept(q, p) /\ q.online \subseteq p.online
        /\ m.id \in Loaded(Get(p, m.id)) => m.id \in p.online
    BY <1>1, <1>2, <1>3, <1>4, <2>1, AdmitSound
  <2> QED
    BY Zenon, <1>1, <1>2, <2>2 DEF Kept, b
<1>5. CASE ~(m.id # 0 /\ m.cmd # "noServer")
  <2>1. p = q
    BY Zenon, <1>5 DEF q
  <2> QED
    BY Zenon, <1>1, <1>2, <1>5, <2>1 DEF b
<1> QED
  BY Zenon, <1>4, <1>5

(* A queue that was emptied or left alone has no new request at its front. *)
LEMMA StaysRejected ==
    ASSUME NEW p, NEW q, NEW i, Rejected(p, i), q.queue[i] \in {p.queue[i], <<>>}
    PROVE  Rejected(q, i)
  BY Zenon DEF Rejected

(* process_message.                                                        *)
LEMMA ReceiveStep ==
    ASSUME SInv, NEW c \in Conns, NEW m \in Messages, Receive(c, m)
    PROVE  /\ SInv' /\ Sound(pm', now - ZombieTime)
           /\ \A i \in pm.online : i \notin Loaded(pm') => m.ok /\ ReleasedBy(m, i)
<1> DEFINE b == now - ZombieTime
           p == IF m.id # 0 /\ m.cmd # "noServer"
                THEN Admit(Reap(pm), m.id, c) ELSE Reap(pm)
           q == Get(p, m.id)
<1>1. /\ Clock(b) /\ Sound(p, b) /\ pm.online \subseteq p.online
      /\ \A i \in Ids : p.queue[i] \in {pm.queue[i], <<>>}
      /\ m.id # 0 /\ m.cmd # "noServer" => (m.id \in Loaded(q) => m.id \in p.online)
  BY Zenon, ReceiveStart
<1>2. /\ pc = "idle" /\ UNCHANGED <<dbUp, downAt, now>>
      /\ \A i \in Ids : Rejected(pm, i)
  BY Zenon DEF Receive, SInv
<1>3. /\ pm.online \subseteq Ids
      /\ m.id # 0 => m.id \in Players /\ m.id \in Ids
  BY Zenon DEF SInv, Sound, Good, Messages, Ids
<1>4. ASSUME Sound(pm', b) PROVE Clock(0)' /\ Sound(pm, 0)'
  <2>1. Sound(pm', 0)
    BY <1>4, SoundWeaker, SMTT(30)
  <2> QED
    BY Zenon, <1>2, <2>1 DEF Sound, Ordered, Absences, Clock, Good, SInv
<1>5. \A i \in Ids : Rejected(p, i)
  BY <1>1, <1>2, StaysRejected, SMTT(30)
<1>6. CASE m.cmd = "noServer"
  <2>1. pm' = p /\ pc' = pc
    BY Zenon, <1>6 DEF Receive
  <2> HIDE DEF p
  <2>2. Clock(0)' /\ Sound(pm, 0)'
    BY Zenon, <1>1, <1>4, <2>1
  <2>3. \A i \in Ids : Rejected(pm', i)
    BY Zenon, <1>5, <2>1
  <2> QED
    BY Zenon, <1>1, <1>2, <2>1, <2>2, <2>3 DEF SInv, Loaded, Rejected
<1>7. CASE m.cmd # "noServer" /\ Queued(m)
  <2> DEFINE a == [q EXCEPT !.queue[m.id] = Append(@, m)]
  <2>1. /\ pm' = IF m.id \in Loaded(q) THEN a ELSE q
        /\ pc' = "drain" /\ cur' = m.id
    BY Zenon, <1>7 DEF Receive
  <2>2. m.id \in Ids /\ m.id \in Players /\ m \in Waits
    BY Zenon, <1>3, <1>7 DEF Queued, Waits, Requests
  <2> HIDE DEF p
  <2>3. Sound(q, b) /\ Kept(p, q) /\ q.online = p.online
    BY Zenon, <1>1, <2>2, GetSound
  <2> HIDE DEF q
  <2>4. /\ Sound(pm', b) /\ pm'.online = p.online /\ Loaded(p) \subseteq Loaded(pm')
        /\ \A j \in Ids \ {m.id} : pm'.queue[j] = p.queue[j]
        /\ pm'.queue[m.id] # <<>> => m.id \in Loaded(q)
    <3>1. CASE m.id \in Loaded(q)
      <4>1. pm' = a
        BY Zenon, <2>1, <3>1
      <4>2. /\ Sound(a, b) /\ a.online = q.online /\ Loaded(a) = Loaded(q)
            /\ \A j \in Ids \ {m.id} : a.queue[j] = q.queue[j]
        BY <2>2, <2>3, <3>1, EnqueueSound
      <4> HIDE DEF a
      <4> QED
        BY Zenon, <2>3, <3>1, <4>1, <4>2 DEF Kept
    <3>2. CASE m.id \notin Loaded(q)
      <4>1. pm' = q
        BY Zenon, <2>1, <3>2
      <4>2. q.queue[m.id] = <<>>
        BY Zenon, <2>2, <2>3, <3>2 DEF Sound, Good, Loaded
      <4> QED
        BY Zenon, <2>3, <4>1, <4>2 DEF Kept
    <3> QED
      BY Zenon, <3>1, <3>2
  <2>5. Clock(0)' /\ Sound(pm, 0)'
    BY Zenon, <1>4, <2>4
  <2>6. pm'.queue[m.id] # <<>> => m.id \in pm'.online
    BY <1>1, <1>7, <2>4 DEF Queued
  <2>7. \A i \in Ids \ {m.id} : Rejected(pm', i)
    BY <1>5, <2>4 DEF Rejected
  <2>8. SInv'
    BY <2>1, <2>2, <2>5, <2>6, <2>7, SMTT(30) DEF SInv, Rejected
  <2> QED
    BY Zenon, <1>1, <2>4, <2>8 DEF Loaded
<1>8. CASE m.cmd # "noServer" /\ ~Queued(m)
  <2>1. pm' = (IF m.ok THEN Handle(p, m) ELSE p) /\ pc' = pc
    BY <1>8, ZenonT(30) DEF Receive
  <2>2. m \in Requests
    BY Zenon, <1>8 DEF Requests
  <2> HIDE DEF p
  <2>3. /\ Sound(pm', b)
        /\ \A i \in Ids : pm'.queue[i] \in {p.queue[i], <<>>}
        /\ \A i \in p.online : i \notin Loaded(pm') => m.ok /\ ReleasedBy(m, i)
    <3>1. CASE ~m.ok
      BY Zenon, <1>1, <2>1, <3>1 DEF Loaded
    <3>2. CASE m.ok
      <4>1. pm' = Handle(p, m)
        BY <2>1, <3>2, SMTT(30)
      <4>2. /\ Sound(pm', b)
            /\ m.cmd = "unload" => Spared(p, pm', m.target)
            /\ m.cmd = "login" => Spared(p, pm', m.id)
            /\ ~(m.cmd = "unload" \/ (m.cmd = "login" /\ m.id \in Banned)) => Kept(p, pm')
        BY <1>1, <2>2, <4>1, HandleSound, SMTT(30)
      <4> QED
        BY Zenon, <3>2, <4>2 DEF Spared, Kept, Loaded, ReleasedBy
    <3> QED
      BY Zenon, <3>1, <3>2
  <2>4. Clock(0)' /\ Sound(pm, 0)'
    BY Zenon, <1>4, <2>3
  <2>5. \A i \in Ids : Rejected(pm', i)
    BY <1>5, <2>3, StaysRejected
  <2>6. SInv'
    BY <1>2, <2>1, <2>4, <2>5, SMTT(30) DEF SInv, Rejected
  <2> QED
    BY Zenon, <1>1, <2>3, <2>6
<1> QED
  BY <1>6, <1>7, <1>8, SMTT(30)

(* process_next_request: the request at the front leaves its player online *)
(* and the queues alone, whatever it does to other players.                *)
LEMMA ProcessNextStep ==
    ASSUME SInv, ProcessNext
    PROVE  SInv' /\ Loaded(pm) \subseteq Loaded(pm')
<1> DEFINE p == GetOnline(pm, cur)
           q == Get(p, cur)
           front == Head(q.queue[cur])
           h == Handle(q, front)
           r == Get(h, cur)
           next == Popped(r, cur)
<1>1. /\ pc = "drain" /\ UNCHANGED <<cur, dbUp, downAt, now>>
      /\ cur \in Players /\ cur \in Ids /\ Clock(0) /\ Sound(pm, 0)
      /\ pm.queue[cur] # <<>> => cur \in pm.online
      /\ \A i \in Ids \ {cur} : Rejected(pm, i)
  BY ZenonT(30) DEF ProcessNext, SInv, Ids
<1>2. \/ cur \notin p.online /\ pm' = p /\ pc' = "idle"
      \/ (q.queue[cur] = <<>> \/ ~front.ok) /\ pm' = q /\ pc' = "idle"
      \/ /\ cur \in p.online /\ q.queue[cur] # <<>>
         /\ pm' = IF r.queue[cur] = <<>> THEN r ELSE next
         /\ pc' = IF Len(r.queue[cur]) > 1 THEN "drain" ELSE "idle"
  BY Zenon DEF ProcessNext, Popped
<1>3. Sound(p, 0) /\ Kept(pm, p) /\ p.online = pm.online
  BY Zenon, <1>1, GetOnlineSound
<1> HIDE DEF p
<1>4. Sound(q, 0) /\ Kept(p, q) /\ q.online = p.online
  BY Zenon, <1>1, <1>3, GetSound
<1> HIDE DEF q
<1>5. q.queue = pm.queue /\ p.queue = pm.queue /\ Loaded(pm) \subseteq Loaded(q)
  BY <1>3, <1>4, SMTT(30) DEF Kept
<1>6. ASSUME Sound(pm', 0) PROVE Clock(0)' /\ Sound(pm, 0)'
  BY <1>1, <1>6 DEF Sound, Ordered, Absences, Clock, Good
<1>7. CASE cur \notin p.online /\ pm' = p /\ pc' = "idle"
  <2>1. Clock(0)' /\ Sound(pm, 0)'
    BY <1>3, <1>6, <1>7
  <2>2. \A i \in Ids : Rejected(pm', i)
    BY <1>1, <1>3, <1>5, <1>7 DEF Rejected
  <2> QED
    BY <1>3, <1>7, <2>1, <2>2 DEF SInv, Rejected, Kept
<1>8. CASE (q.queue[cur] = <<>> \/ ~front.ok) /\ pm' = q /\ pc' = "idle"
  <2>1. Clock(0)' /\ Sound(pm, 0)'
    BY <1>4, <1>6, <1>8
  <2>2. \A i \in Ids : Rejected(pm', i)
    BY Zenon, <1>1, <1>5, <1>8 DEF Rejected
  <2> QED
    BY <1>5, <1>8, <2>1, <2>2 DEF SInv, Rejected
<1>9. CASE /\ cur \in p.online /\ q.queue[cur] # <<>>
           /\ pm' = IF r.queue[cur] = <<>> THEN r ELSE next
           /\ pc' = IF Len(r.queue[cur]) > 1 THEN "drain" ELSE "idle"
  <2>1. front \in Waits
    <3>1. q.queue[cur] \in Seq(Waits)
      BY Zenon, <1>1, <1>4 DEF Sound, Good
    <3> QED
      BY <1>9, <3>1
  <2> HIDE DEF front
  <2>2. front \in Requests /\ front.cmd \notin {"unload", "login"}
    BY Zenon, <2>1 DEF Waits, Queued, Requests, Messages, Direct
  <2>3. Sound(h, 0) /\ Kept(q, h) /\ q.online \cap Players \subseteq h.online
    BY <1>1, <1>4, <2>1, <2>2, HandleSound
  <2> HIDE DEF h
  <2>4. Sound(r, 0) /\ Kept(h, r) /\ r.online = h.online
    BY <1>1, <2>3, GetSound
  <2> HIDE DEF r
  <2>5. /\ r.queue = pm.queue /\ r.queue[cur] # <<>> /\ cur \in r.online
        /\ Loaded(pm) \subseteq Loaded(r)
    BY <1>1, <1>4, <1>5, <1>9, <2>3, <2>4, SMTT(30) DEF Kept
  <2>6. /\ Sound(next, 0) /\ next.online = r.online /\ Loaded(next) = Loaded(r)
        /\ \A j \in Ids \ {cur} : next.queue[j] = r.queue[j]
        /\ Len(next.queue[cur]) = Len(r.queue[cur]) - 1
    BY <1>1, <2>4, <2>5, DequeueSound, SMTT(30)
  <2>7. next.queue[cur] \in Seq(Waits) /\ r.queue[cur] \in Seq(Waits)
    BY <1>1, <2>4, <2>6 DEF Sound, Good
  <2> HIDE DEF next
  <2>8. pm' = next
    BY Zenon, <1>9, <2>5
  <2>9. Clock(0)' /\ Sound(pm, 0)'
    BY Zenon, <1>6, <2>6, <2>8
  <2>10. ~(Len(r.queue[cur]) > 1) => next.queue[cur] = <<>>
    <3>1. ~(Len(r.queue[cur]) > 1) => Len(next.queue[cur]) <= 0
      BY <2>6, <2>7
    <3> QED
      BY <2>7, <3>1
  <2>11. \A i \in Ids \ {cur} : Rejected(pm', i)
    BY <1>1, <2>5, <2>6, <2>8 DEF Rejected
  <2>12. pc' = "idle" => Rejected(pm', cur)
    BY <1>9, <2>8, <2>10 DEF Rejected
  <2>13. SInv'
    BY <1>1, <1>9, <2>5, <2>6, <2>8, <2>9, <2>11, <2>12, SMTT(30) DEF SInv, Rejected
  <2> QED
    BY <2>5, <2>6, <2>8, <2>13, SMTT(30)
<1> QED
  BY <1>2, <1>7, <1>8, <1>9, SMTT(30)

(* do_pbc_service_register is a message too: the sweep comes first.        *)
LEMMA RegisterStep ==
    ASSUME SInv, NEW c \in Conns, NEW players \in SUBSET Players, Register(c, players)
    PROVE  SInv' /\ Sound(pm', now - ZombieTime) /\ pm'.online = pm.online
<1> DEFINE q == Reap(pm)
           s == [q EXCEPT !.realtime = players]
<1>1. /\ Sound(q, now - ZombieTime) /\ q.online = pm.online
      /\ \A i \in Ids : q.queue[i] \in {pm.queue[i], <<>>}
  BY Zenon, ReapSound DEF SInv
<1>2. pm' = s /\ pc = "idle" /\ UNCHANGED <<pc, dbUp, downAt, now>>
  BY Zenon DEF Register
<1> HIDE DEF q
<1>3. Sound(s, now - ZombieTime) /\ SameMaps(q, s)
  BY <1>1, RealtimeSound, SMTT(30)
<1> HIDE DEF s
<1>4. Sound(pm', 0)
  BY Zenon, <1>2, <1>3, SoundWeaker
<1>5. Clock(0)' /\ Sound(pm, 0)'
  BY Zenon, <1>2, <1>4 DEF Sound, Ordered, Absences, Clock, Good, SInv
<1>6. \A i \in Ids : Rejected(q, i)
  BY Zenon, <1>1, <1>2, StaysRejected DEF SInv
<1>7. \A i \in Ids : Rejected(pm', i)
  BY Zenon, <1>2, <1>3, <1>6 DEF Rejected, SameMaps
<1> QED
  BY <1>1, <1>2, <1>3, <1>5, <1>7 DEF SInv, Rejected, SameMaps

(* A step that leaves the players alone: the list and the queues are as    *)
(* they were, and the clock does not go back.                              *)
LEMMA PlayersAlone ==
    ASSUME SInv, pm' = pm, pc' = pc, cur' = cur, Clock(0)', Absences(pm)', now <= now'
    PROVE  SInv'
<1>1. Clock(0) /\ Good(pm) /\ Ordered(pm.zombies, pm.ztime, pm.offline, 0)
  BY Zenon DEF SInv, Sound
<1>2. Good(pm)'
  BY Zenon, <1>1 DEF Good
<1>3. Ordered(pm.zombies, pm.ztime, pm.offline, 0)'
  <2>1. \A i \in pm.offline : pm.ztime[i] \in Nat /\ 0 <= pm.ztime[i] /\ pm.ztime[i] <= now
    BY Zenon, <1>1 DEF Good, Ordered
  <2>2. \A i \in pm.offline : 0 <= pm.ztime[i] /\ pm.ztime[i] <= now'
    BY <1>1, <2>1 DEF Clock
  <2> QED
    BY <1>1, <2>2 DEF Ordered
<1>4. Sound(pm, 0)'
  BY <1>2, <1>3 DEF Sound
<1> QED
  BY Zenon, <1>4 DEF SInv, Rejected

(* A second passes, or the database fails or comes back, between messages. *)
LEMMA EnvironmentStep ==
    ASSUME SInv, (\E c \in Conns : ConnClosed(c)) \/ Database \/ Tick
    PROVE  SInv' /\ pm' = pm /\ ~UNCHANGED <<open, dbUp, now>>
<1>1. pm' = pm /\ pc' = pc /\ cur' = cur
  BY Zenon DEF ConnClosed, Database, Tick
<1>2. Clock(0) /\ Absences(pm)
  BY Zenon DEF SInv, Sound
<1>3. CASE \E c \in Conns : ConnClosed(c)
  <2>1. UNCHANGED <<now, downAt, dbUp>> /\ ~UNCHANGED open
    BY <1>3 DEF ConnClosed
  <2>2. Clock(0)' /\ Absences(pm)' /\ now <= now'
    BY <1>1, <1>2, <2>1 DEF Clock, Absences
  <2> QED
    BY <1>1, <2>1, <2>2, PlayersAlone
<1>4. CASE Database
  <2>1. now' = now /\ downAt' = now /\ dbUp' = ~dbUp
    BY Zenon, <1>4 DEF Database
  <2>2. Clock(0)' /\ ~UNCHANGED dbUp /\ now <= now'
    BY <1>2, <2>1 DEF Clock
  <2>3. Absences(pm)'
    BY Zenon, <1>1, <1>2, <2>1 DEF Absences, Clock
  <2> QED
    BY <1>1, <2>2, <2>3, PlayersAlone
<1>5. CASE Tick
  <2>1. now' = now + 1 /\ dbUp' = dbUp /\ downAt' = IF dbUp THEN downAt ELSE now'
    BY Zenon, <1>5 DEF Tick
  <2>2. Clock(0)' /\ downAt' >= downAt /\ ~UNCHANGED now /\ now <= now'
    BY <1>2, <2>1 DEF Clock
  <2>3. Absences(pm)'
    BY <1>1, <1>2, <2>1, <2>2 DEF Absences, Clock
  <2> QED
    BY <1>1, <2>2, <2>3, PlayersAlone
<1> QED
  BY Zenon, <1>3, <1>4, <1>5

(* The start of the world server.                                          *)
LEMMA InitSound == Init => SInv
<1> SUFFICES ASSUME Init PROVE SInv
  BY Zenon
<1>1. /\ pm.offline = {} /\ pm.zombies = <<>> /\ pm.ztime = [i \in Ids |-> 0]
      /\ pm.absent = [i \in Ids |-> 0] /\ pm.queue = [i \in Ids |-> <<>>]
  BY Zenon DEF Init
<1>2. Good(pm)
  BY Zenon, InitInv DEF IInv
<1>3. Clock(0)
  BY DEF Init, Clock
<1>4. Ordered(pm.zombies, pm.ztime, pm.offline, 0)
  <2>1. <<>> \in Seq(Ids) /\ Len(<<>>) = 0
    OBVIOUS
  <2> QED
    BY <1>1, <2>1 DEF Ordered
<1>5. Absences(pm)
  BY <1>1, <1>3, SMTT(30) DEF Absences, Clock
<1> QED
  BY <1>1, <1>2, <1>3, <1>4, <1>5 DEF SInv, Sound, Rejected, Init

(* The inductive invariant of the list, the absences and the queues.       *)
LEMMA SoundHolds == Spec => []SInv
<1>1. ASSUME SInv, [Next]_vars PROVE SInv'
  <2>1. CASE UNCHANGED vars
    <3>1. UNCHANGED <<pm, pc, cur, now, downAt, dbUp>>
      BY Zenon, <2>1 DEF vars
    <3>2. Clock(0)' /\ Absences(pm)' /\ now <= now'
      BY <1>1, <3>1 DEF SInv, Sound, Clock, Absences
    <3> QED
      BY Zenon, <1>1, <3>1, <3>2, PlayersAlone
  <2>2. CASE Next
    BY <1>1, <2>2, ReceiveStep, RegisterStep, ProcessNextStep, EnvironmentStep DEF Next
  <2> QED
    BY Zenon, <1>1, <2>1, <2>2
<1> QED
  BY <1>1, InitSound, PTL DEF Spec

(* The zombie list holds the players that are loaded and offline, each     *)
(* once, in the order in which they were last used, through lookups,       *)
(* logins, logouts, unloads and sweeps in any order: the sweep of          *)
(* try_unload_player_from_zombie_list may stop at the first young one, and *)
(* meets nobody who is online.                                             *)
THEOREM ZombiesInOrderHolds == Spec => []ZombiesInOrder
<1>1. ASSUME SInv PROVE ZombiesInOrder
  <2> DEFINE z == pm.zombies
  <2>1. Ordered(z, pm.ztime, pm.offline, 0)
    BY Zenon, <1>1 DEF SInv, Sound
  <2>2. /\ z \in Seq(Ids) /\ Len(z) \in Nat
        /\ pm.offline = {z[k] : k \in 1 .. Len(z)}
        /\ \A j, k \in 1 .. Len(z) : j < k => z[j] # z[k]
        /\ \A j, k \in 1 .. Len(z) : j < k => pm.ztime[z[j]] <= pm.ztime[z[k]]
    BY <2>1 DEF Ordered
  <2>3. Range(z) = pm.offline
    BY <2>2 DEF Range
  <2>4. IsInjective(z)
    BY <2>2 DEF IsInjective
  <2> QED
    BY <2>2, <2>3, <2>4 DEF ZombiesInOrder
<1> QED
  BY <1>1, SoundHolds, PTL

(* When process_message returns, the only requests that wait are behind    *)
(* one that cannot be decoded.                                             *)
THEOREM WaitsBehindRejectedHolds == Spec => []WaitsBehindRejected
<1>1. SInv => WaitsBehindRejected
  BY Zenon DEF SInv, WaitsBehindRejected, Rejected
<1> QED
  BY <1>1, SoundHolds, PTL

(* An entry of player_not_exist is wrong about a character only if the     *)
(* database has failed since it was made, whenever characters are created  *)
(* and however the failures fall.                                          *)
THEOREM AbsentIsAbsentHolds == Spec => []AbsentIsAbsent
<1>1. SInv => AbsentIsAbsent
  BY Zenon DEF SInv, Sound, Absences, AbsentIsAbsent, KnownAbsent
<1> QED
  BY <1>1, SoundHolds, PTL

(* Nobody who is online is released but by a service's unload or by the    *)
(* own login of a banned player.                                           *)
THEOREM OnlineKeptHolds == Spec => OnlineKept
<1> DEFINE unload(i) == [id |-> 0, cmd |-> "unload", target |-> i, ok |-> TRUE]
           login(i) == [id |-> i, cmd |-> "login", target |-> 0, ok |-> TRUE]
           A == \A i \in pm.online : i \notin Loaded(pm') =>
                  \E c \in Conns : \/ Receive(c, unload(i))
                                   \/ /\ i \in Banned
                                      /\ Receive(c, login(i))
<1>1. ASSUME SInv, [Next]_vars PROVE [A]_vars
  <2> SUFFICES ASSUME Next, NEW i \in pm.online, i \notin Loaded(pm')
               PROVE  \E c \in Conns : \/ Receive(c, unload(i))
                                       \/ i \in Banned /\ Receive(c, login(i))
    BY Zenon, <1>1
  <2>1. i \in Loaded(pm)
    BY Zenon DEF Loaded
  <2>2. ASSUME NEW c \in Conns, NEW m \in Messages, Receive(c, m)
        PROVE  Receive(c, unload(i)) \/ (i \in Banned /\ Receive(c, login(i)))
    <3>1. m.ok /\ ReleasedBy(m, i)
      BY Zenon, <1>1, <2>2, ReceiveStep
    <3>2. m.cmd = "unload" /\ m.target = i => m = unload(i)
      BY Zenon DEF Messages, Direct
    <3>3. m.cmd = "login" /\ m.id = i => m.target = 0
      BY Zenon DEF Messages, Direct
    <3>4. m.ok /\ m.cmd = "login" /\ m.id = i => m = login(i)
      BY Zenon, <3>3 DEF Messages, Direct
    <3> HIDE DEF unload, login
    <3> QED
      BY <2>2, <3>1, <3>2, <3>4 DEF ReleasedBy
  <2>3. ~ProcessNext
    BY Zenon, <1>1, <2>1, ProcessNextStep
  <2>4. ~\E c \in Conns, players \in SUBSET Players : Register(c, players)
    BY Zenon, <1>1, RegisterStep DEF Loaded
  <2>5. ~((\E c \in Conns : ConnClosed(c)) \/ Database \/ Tick)
    BY Zenon, <1>1, <2>1, EnvironmentStep
  <2> HIDE DEF unload, login
  <2> QED
    BY <2>2, <2>3, <2>4, <2>5, SMTT(30) DEF Next
<1>2. OnlineKept <=> [][A]_vars
  BY Zenon DEF OnlineKept
<1> HIDE DEF A
<1> QED
  BY <1>1, <1>2, SoundHolds, PTL DEF Spec

(* After any message no zombie is older than ZombieTime, whatever the      *)
(* message added to the list.                                              *)
THEOREM SweptCleanHolds == Spec => SweptClean
<1> DEFINE A == pc = "idle" /\ UNCHANGED <<open, dbUp, now>> =>
                  \A i \in pm'.offline : now - pm'.ztime[i] <= ZombieTime
<1>1. ASSUME SInv, [Next]_vars PROVE [A]_vars
  <2> SUFFICES ASSUME Next, pc = "idle", UNCHANGED <<open, dbUp, now>>,
                      NEW i \in pm'.offline
               PROVE  now - pm'.ztime[i] <= ZombieTime
    BY Zenon, <1>1
  <2>1. ~ProcessNext
    BY Zenon DEF ProcessNext
  <2>2. ~((\E c \in Conns : ConnClosed(c)) \/ Database \/ Tick)
    BY <1>1, EnvironmentStep, SMTT(30)
  <2>3. Sound(pm', now - ZombieTime)
    BY <1>1, <2>1, <2>2, ReceiveStep, RegisterStep DEF Next
  <2>4. now - ZombieTime <= pm'.ztime[i] /\ pm'.ztime[i] \in Nat
    BY Zenon, <2>3 DEF Sound, Ordered, Good
  <2> QED
    BY <1>1, <2>4, WorldAssumption DEF SInv, Clock
<1>2. SweptClean <=> [][A]_vars
  BY Zenon DEF SweptClean
<1> HIDE DEF A
<1> QED
  BY <1>1, <1>2, SoundHolds, PTL DEF Spec
=============================================================================
