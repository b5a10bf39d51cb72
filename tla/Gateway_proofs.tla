--------------------------- MODULE Gateway_proofs ---------------------------
(***************************************************************************)
(* Proofs about the connections of the gateway, for any number of          *)
(* connections, players and logins, and for any timeouts.                  *)
(*                                                                         *)
(* TranslateCtx and RpcCtx together, with the types of the variables they  *)
(* are about, are inductive (IInv): a verdict turns the rpc context of a   *)
(* connection into a client context, so neither can do without the other.  *)
(* On top of it come the list of rpcs (ListInv: it holds the table, oldest *)
(* first, which is why the sweep may stop at the first young one), the     *)
(* queue of connections before login (WatchInv), and what is under way on  *)
(* the links to the two servers (LinkTyped).                               *)
(* The sessions come last: a player is bound to one connection (BoundInv), *)
(* and the world knows whom it serves (KnownInv).                          *)
(***************************************************************************)
EXTENDS Gateway, WellFoundedInduction, TLAPS

\* Types, and the fact that next_sn has not given out a number yet to come.
Typed ==
    /\ conn \in [Conns -> {"none", "open", "closing", "closed"}]
    /\ handler \in [Conns -> Handlers]
    /\ sn \in 0 .. MaxSn
    /\ table \in SUBSET Sns
    /\ \A s \in table : s <= sn
    /\ rpcConn \in [Sns -> Conns \cup {NoConn}]
    /\ client \in [Players -> Conns \cup {NoConn}]

\* The inductive invariant.
IInv == Typed /\ TranslateCtx /\ RpcCtx

\* The connection is open, and its handler has a context.
HasContext(k) == conn[k] = "open" /\ handler[k].of \in {"authserver", "translate"}
-----------------------------------------------------------------------------
(* _agN_close opens nothing, and leaves none of the given connections open.*)
LEMMA ShutCloses ==
    ASSUME Typed, NEW S
    PROVE  /\ Shut(S) \in [Conns -> {"none", "open", "closing", "closed"}]
           /\ \A k \in Conns : Shut(S)[k] = "open" => conn[k] = "open" /\ k \notin S
BY Zenon DEF Typed, Shut

(* The handlers that start_auth, start_authserver and start_translate set. *)
LEMMA HandlersTyped ==
    /\ NoHandler \in Handlers
    /\ AuthHandler \in Handlers
    /\ \A s \in Sns : RpcHandler(s) \in Handlers
    /\ \A p \in Players : TranslateHandler(p) \in Handlers
BY Zenon DEF Handlers, NoHandler, AuthHandler, RpcHandler, TranslateHandler

(* A step that gives no connection a context, and changes neither the rpcs *)
(* nor the clients, keeps the contexts right.                              *)
LEMMA ContextsKept ==
    ASSUME IInv, Typed', UNCHANGED <<table, rpcConn, client>>,
           \A k \in Conns : HasContext(k)' => conn[k] = "open" /\ handler'[k] = handler[k]
    PROVE  IInv'
BY Zenon DEF IInv, TranslateCtx, RpcCtx, HasContext, InSession

(* When the modules are loaded no connection has a context.                *)
LEMMA InitIInv == Init => IInv
BY HandlersTyped, GatewayAssumption
   DEF Init, IInv, Typed, TranslateCtx, RpcCtx, InSession, NoHandler, Sns
-----------------------------------------------------------------------------
(* The steps of a connection: its acceptance and its requests.             *)
LEMMA ConnStepIInv ==
    ASSUME IInv, NEW k \in Conns, ConnStep(k)
    PROVE  IInv'
<1> USE DEF IInv
<1>1. CASE Accept(k)
  <2>1. Typed'
    BY Zenon, <1>1, ShutCloses, HandlersTyped DEF Accept, Typed, rpcVars
  <2>2. \A j \in Conns : HasContext(j)' => conn[j] = "open" /\ handler'[j] = handler[j]
    BY <1>1, ShutCloses DEF Accept, Typed, HasContext, AuthHandler
  <2> QED
    BY Zenon, <1>1, <2>1, <2>2, ContextsKept DEF Accept, rpcVars
<1>2. CASE BadFirst(k)
  <2>1. Typed'
    BY Zenon, <1>2, ShutCloses DEF BadFirst, Typed, rpcVars
  <2> QED
    BY Zenon, <1>2, <2>1, ShutCloses, ContextsKept DEF BadFirst, HasContext, rpcVars
<1>3. CASE LoginRequest(k)
  <2>1. sn' = sn + 1 /\ sn' \in Sns /\ sn' \notin table
    BY <1>3, GatewayAssumption DEF LoginRequest, FileRpc, Typed, Sns
  <2>2. conn' \in [Conns -> {"none", "open", "closing", "closed"}]
        /\ \A j \in Conns : conn'[j] = "open" => conn[j] = "open"
    BY <1>3, ShutCloses DEF LoginRequest, Typed
  <2>3. handler' = [handler EXCEPT ![k] = RpcHandler(sn')]
        /\ table' = table \cup {sn'} /\ rpcConn' = [rpcConn EXCEPT ![sn'] = k]
        /\ client' = client
    BY Zenon, <1>3 DEF LoginRequest, FileRpc
  <2>4. Typed'
    <3>1. sn' \in 0 .. MaxSn /\ \A s \in table' : s <= sn'
      BY <2>1, <2>3, GatewayAssumption DEF Typed, Sns
    <3> QED
      BY Zenon, <2>1, <2>2, <2>3, <3>1, HandlersTyped DEF Typed
  <2>5. TranslateCtx'
    BY Zenon, <2>2, <2>3 DEF TranslateCtx, InSession, Typed, RpcHandler
  <2>6. RpcCtx'
    BY <2>1, <2>2, <2>3 DEF RpcCtx, Typed, RpcHandler
  <2> QED
    BY Zenon, <2>4, <2>5, <2>6
<1>4. ASSUME NEW type \in {"login", "logout"}, ClientForward(k, type)
      PROVE  IInv'
  <2>1. UNCHANGED <<conn, handler, sn, table, rpcConn, client>>
    BY Zenon, <1>4 DEF ClientForward, connVars, rpcVars
  <2> QED
    BY Zenon, <2>1, ContextsKept DEF Typed, HasContext
<1>5. CASE ClientBad(k)
  <2>1. Typed'
    BY Zenon, <1>5, ShutCloses DEF ClientBad, Typed, rpcVars
  <2>2. TranslateCtx'
    BY <1>5, ShutCloses DEF ClientBad, TranslateCtx, InSession, Typed
  <2>3. RpcCtx'
    BY <1>5, ShutCloses DEF ClientBad, RpcCtx, rpcVars
  <2> QED
    BY Zenon, <2>1, <2>2, <2>3
<1>6. ASSUME Logout(k), InSession(k)
      PROVE  IInv'
  <2>1. Typed'
    BY Zenon, <1>6, ShutCloses, HandlersTyped DEF Logout, Typed, rpcVars
  <2>2. TranslateCtx'
    BY <1>6, ShutCloses DEF Logout, TranslateCtx, InSession, Typed
  <2>3. RpcCtx'
    BY <1>6, ShutCloses DEF Logout, RpcCtx, Typed, rpcVars
  <2> QED
    BY Zenon, <2>1, <2>2, <2>3
<1>7. CASE PeerClose(k)
  <2>1. CASE handler[k].of = "auth"
    <3>1. UNCHANGED <<handler, sn, table, rpcConn, client>> /\ conn' = Shut({k})
      BY Zenon, <1>7, <2>1 DEF PeerClose, rpcVars
    <3>2. Typed'
      BY Zenon, <3>1, ShutCloses DEF Typed
    <3> QED
      BY Zenon, <3>1, <3>2, ShutCloses, ContextsKept DEF HasContext
  <2>2. CASE handler[k].of = "authserver"
    <3>1. UNCHANGED <<handler, sn, table, client>> /\ conn' = Shut({k})
          /\ rpcConn' = [rpcConn EXCEPT ![handler[k].rpc] = NoConn]
      BY Zenon, <1>7, <2>2 DEF PeerClose
    <3>2. handler[k].rpc \in table /\ rpcConn[handler[k].rpc] = k
      BY Zenon, <1>7, <2>2 DEF PeerClose, RpcCtx
    <3>3. Typed'
      BY Zenon, <3>1, ShutCloses DEF Typed
    <3>4. TranslateCtx'
      BY <3>1, ShutCloses DEF TranslateCtx, InSession
    <3>5. RpcCtx'
      BY <3>1, <3>2, ShutCloses DEF RpcCtx, Typed
    <3> QED
      BY Zenon, <3>3, <3>4, <3>5
  <2>3. CASE handler[k].of = "translate"
    BY Zenon, <1>6, <1>7, <2>3 DEF PeerClose, TranslateCtx, InSession
  <2> QED
    BY Zenon, <1>7, <2>1, <2>2, <2>3 DEF PeerClose
<1> QED
  BY Zenon, <1>1, <1>2, <1>3, <1>4, <1>5, <1>6, <1>7 DEF ConnStep, ClientBadFlag
-----------------------------------------------------------------------------
(* The verdicts of the authentication server.                              *)
LEMMA AuthStepIInv ==
    ASSUME IInv, NEW s \in Sns, AuthStep(s)
    PROVE  IInv'
<1> USE DEF IInv
<1>1. ASSUME DropRpc(s)
      PROVE  /\ sn' = sn /\ table' = table \ {s}
             /\ rpcConn' \in [Sns -> Conns \cup {NoConn}]
             /\ \A t \in Sns \ {s} : rpcConn'[t] = rpcConn[t]
  BY Zenon, <1>1 DEF DropRpc, Typed
<1>2. CASE AuthFail(s)
  <2>1. DropRpc(s) /\ conn' = Shut({rpcConn[s]}) /\ UNCHANGED <<handler, client>>
    BY Zenon, <1>2 DEF AuthFail
  <2>2. Typed'
    BY <1>1, <2>1, ShutCloses DEF Typed
  <2>3. TranslateCtx'
    BY <2>1, ShutCloses DEF TranslateCtx, InSession
  <2>4. RpcCtx'
    BY <1>1, <2>1, ShutCloses DEF RpcCtx, Typed
  <2> QED
    BY Zenon, <2>2, <2>3, <2>4
<1>3. CASE AuthIgnored(s)
  <2>1. DropRpc(s) /\ UNCHANGED <<conn, handler, client>>
    BY Zenon, <1>3 DEF AuthIgnored, connVars
  <2>2. Typed'
    BY Zenon, <1>1, <2>1 DEF Typed
  <2>3. TranslateCtx'
    BY Zenon, <2>1 DEF TranslateCtx, InSession
  <2>4. \A k \in Conns : conn[k] = "open" /\ handler[k].of = "authserver"
                            => handler[k].rpc # s
    BY <1>3, GatewayAssumption DEF AuthIgnored, RpcCtx
  <2>5. RpcCtx'
    BY Zenon, <1>1, <2>1, <2>4 DEF RpcCtx, Typed
  <2> QED
    BY Zenon, <2>2, <2>3, <2>5
<1>4. ASSUME NEW p \in Players, AuthPass(s, p)
      PROVE  IInv'
  <2> DEFINE k == rpcConn[s]
  <2>1. /\ k \in Conns /\ DropRpc(s)
        /\ client' = [client EXCEPT ![p] = k]
        /\ handler' = [j \in Conns |->
                         CASE j = k /\ Resolves(j) -> TranslateHandler(p)
                           [] Elsewhere(p, k) /\ j = client[p] /\ Resolves(j) -> AuthHandler
                           [] OTHER -> handler[j]]
    BY Zenon, <1>4 DEF AuthPass, TakeOver, BindClient
  <2>2. conn' \in [Conns -> {"none", "open", "closing", "closed"}]
        /\ \A j \in Conns : conn'[j] = "open" => conn[j] = "open"
    BY Zenon, <1>4, ShutCloses DEF AuthPass, Typed
  <2> HIDE DEF k
  <2>3. handler' \in [Conns -> Handlers]
    BY Zenon, <2>1, HandlersTyped DEF Typed
  <2>4. Typed'
    BY Zenon, <1>1, <2>1, <2>2, <2>3 DEF Typed
  <2>5. \A j \in Conns : conn'[j] = "open" =>
          \/ j = k /\ handler'[j] = TranslateHandler(p)
          \/ handler'[j] = AuthHandler
          \/ j # k /\ ~(j = client[p]) /\ handler'[j] = handler[j]
    BY Zenon, <2>1, <2>2 DEF Elsewhere, Resolves
  <2>6. TranslateCtx'
    BY <2>1, <2>2, <2>5 DEF TranslateCtx, InSession, Typed, TranslateHandler, AuthHandler
  <2>7. \A j \in Conns : conn'[j] = "open" /\ handler'[j].of = "authserver" =>
          conn[j] = "open" /\ handler'[j] = handler[j] /\ handler[j].rpc # s
    BY <2>2, <2>5 DEF RpcCtx, TranslateHandler, AuthHandler, k
  <2>8. RpcCtx'
    BY <1>1, <2>1, <2>7 DEF RpcCtx, Typed
  <2> QED
    BY Zenon, <2>4, <2>6, <2>8
<1> QED
  BY Zenon, <1>2, <1>3, <1>4 DEF AuthStep
-----------------------------------------------------------------------------
(* The answers of the world.                                               *)
LEMMA WorldStepIInv ==
    ASSUME IInv, NEW p \in Players, WorldStep(p)
    PROVE  IInv'
<1> USE DEF IInv
<1>1. CASE HearNobody(p)
  <2>1. UNCHANGED <<conn, handler, sn, table, rpcConn, client>>
    BY Zenon, <1>1 DEF HearNobody, connVars, rpcVars
  <2> QED
    BY Zenon, <2>1, ContextsKept DEF Typed, HasContext
<1>2. CASE HearReject(p)
  <2>1. /\ conn' = Shut(Reaped) /\ SetHandler(client[p], AuthHandler)
        /\ UNCHANGED <<sn, table, rpcConn, client>>
    BY Zenon, <1>2 DEF HearReject, rpcVars
  <2>2. handler' \in [Conns -> Handlers]
        /\ \A k \in Conns : handler'[k] = handler[k] \/ handler'[k] = AuthHandler
    BY Zenon, <2>1, HandlersTyped DEF SetHandler, Typed
  <2>3. Typed'
    BY Zenon, <2>1, <2>2, ShutCloses DEF Typed
  <2> QED
    BY <2>1, <2>2, <2>3, ShutCloses, ContextsKept DEF HasContext, AuthHandler
<1>3. CASE HearLogout(p)
  <2>1. /\ conn' = Shut({client[p]}) /\ client' = [client EXCEPT ![p] = NoConn]
        /\ UNCHANGED <<handler, sn, table, rpcConn>>
    BY Zenon, <1>3 DEF HearLogout, rpcVars
  <2>2. Typed'
    BY Zenon, <2>1, ShutCloses DEF Typed
  <2>3. TranslateCtx'
    BY <2>1, ShutCloses DEF TranslateCtx, InSession, Typed
  <2>4. RpcCtx'
    BY <2>1, ShutCloses DEF RpcCtx
  <2> QED
    BY Zenon, <2>2, <2>3, <2>4
<1> QED
  BY Zenon, <1>1, <1>2, <1>3 DEF WorldStep

(* The links, the release of connections, and service_update.              *)
LEMMA LoopStepIInv ==
    ASSUME IInv,
           \/ AuthConnected \/ AuthClosed \/ WorldConnected \/ WorldClosed
           \/ WorldHandles \/ Release \/ Update
    PROVE  IInv'
<1> USE DEF IInv
<1>1. CASE AuthConnected \/ AuthClosed \/ WorldConnected \/ WorldClosed \/ WorldHandles
  <2>1. UNCHANGED <<conn, handler, sn, table, rpcConn, client>>
    BY Zenon, <1>1
       DEF AuthConnected, AuthClosed, WorldConnected, WorldClosed, WorldHandles,
                connVars, rpcVars
  <2> QED
    BY Zenon, <2>1, ContextsKept DEF Typed, HasContext
<1>2. CASE Release
  <2>1. Typed'
    BY Zenon, <1>2, HandlersTyped DEF Release, Typed, rpcVars
  <2> QED
    BY Zenon, <1>2, <2>1, ContextsKept DEF Release, HasContext, rpcVars
<1>3. CASE Update
  <2>1. /\ table' = table \ Expired
        /\ rpcConn' = [s \in Sns |-> IF s \in Expired THEN NoConn ELSE rpcConn[s]]
        /\ conn' = Shut({rpcConn[s] : s \in Expired})
        /\ UNCHANGED <<handler, sn, client>>
    BY Zenon, <1>3 DEF Update
  <2>2. Typed'
    BY Zenon, <2>1, ShutCloses DEF Typed
  <2>3. TranslateCtx'
    BY <2>1, ShutCloses DEF TranslateCtx, InSession
  <2>4. \A k \in Conns : conn'[k] = "open" /\ handler[k].of = "authserver" =>
          conn[k] = "open" /\ handler[k].rpc \notin Expired
    BY <2>1, ShutCloses DEF RpcCtx
  <2>5. RpcCtx'
    BY Zenon, <2>1, <2>4 DEF RpcCtx, Typed
  <2> QED
    BY Zenon, <2>2, <2>3, <2>5
<1> QED
  BY Zenon, <1>1, <1>2, <1>3
-----------------------------------------------------------------------------
(* The invariant holds throughout: every context of an open connection is  *)
(* the right one, in whatever order the callbacks of clients, servers and  *)
(* timer come, and whenever links break.                                   *)
THEOREM ContextsInductive == Spec => []IInv
<1>1. IInv /\ [Next]_vars => IInv'
  <2> SUFFICES ASSUME IInv, [Next]_vars
               PROVE  IInv'
    BY Zenon
  <2>1. CASE UNCHANGED vars
    BY Zenon, <2>1, ContextsKept DEF vars, connVars, rpcVars, IInv, Typed, HasContext
  <2> QED
    BY Zenon, <2>1, ConnStepIInv, AuthStepIInv, WorldStepIInv, LoopStepIInv DEF Next
<1> QED
  BY <1>1, InitIInv, PTL DEF Spec

(* assert(c && c->conn == conn) of process_message                         *)
(* (translate.c:125) never fires, and on_closed finds the client that the  *)
(* connection is the session of.                                           *)
THEOREM SessionContextRight == Spec => []TranslateCtx
BY ContextsInductive, PTL DEF IInv

(* on_closed_client (authserver.c:303) never writes to an rpc that has been*)
(* answered or has expired, nor to that of another connection.             *)
THEOREM RpcContextRight == Spec => []RpcCtx
BY ContextsInductive, PTL DEF IInv
-----------------------------------------------------------------------------
(* The operators on finite sets and sequences that the queues are built    *)
(* from.                                                                   *)

(* A nonempty set of natural numbers has a least element.                  *)
LEMMA LeastOf ==
    ASSUME NEW S, S \subseteq Nat, S # {}
    PROVE  \E m \in S : \A k \in S : m <= k
<1> DEFINE R == OpToRel(<, Nat)
<1>1. PICK m \in S : \A k \in S : ~(<<k, m>> \in R)
  BY Zenon, WFMin, NatLessThanWellFounded
<1>2. R = {ss \in Nat \X Nat : ss[1] < ss[2]}
  BY Zenon DEF OpToRel
<1> HIDE DEF R
<1>3. \A k, n \in Nat : k < n => <<k, n>> \in R
  <2> SUFFICES ASSUME NEW k \in Nat, NEW n \in Nat, k < n
               PROVE  <<k, n>> \in {ss \in Nat \X Nat : ss[1] < ss[2]}
    BY Zenon, <1>2
  <2> QED
    BY Zenon
<1>4. \A k \in S : ~(k < m)
  BY Zenon, <1>1, <1>3
<1>5. \A k \in S : m <= k
  <2> TAKE k \in S
  <2>1. k \in Nat /\ m \in Nat
    BY Zenon
  <2> QED
    BY <1>4, <2>1
<1> QED
  BY Zenon, <1>5

(* Max, where the set is bounded: the length of an expired prefix.         *)
LEMMA MaxOf ==
    ASSUME NEW n \in Nat, NEW S, S \subseteq 0 .. n, S # {}
    PROVE  Max(S) \in S /\ \A k \in S : k <= Max(S)
<1> DEFINE T == {k \in Nat : \E x \in S : k = n - x}
<1>1. T \subseteq Nat
  BY Zenon
<1>2. T # {}
  <2>1. PICK x \in S : TRUE
    BY Zenon
  <2>2. n - x \in T
    BY x \in 0 .. n
  <2> QED
    BY Zenon, <2>2
<1>3. PICK m \in T : \A k \in T : m <= k
  <2> HIDE DEF T
  <2> QED
    BY Zenon, <1>1, <1>2, LeastOf
<1>4. PICK x \in S : m = n - x
  BY Zenon, <1>3
<1>5. \A k \in S : x >= k
  <2> TAKE k \in S
  <2>1. n - k \in T
    BY k \in 0 .. n
  <2>2. m <= n - k
    BY Zenon, <1>3, <2>1
  <2> QED
    BY <1>4, <2>2, k \in 0 .. n, x \in 0 .. n
<1> QED
  BY Zenon, <1>5 DEF Max

(* Two sequences, one after the other.                                     *)
LEMMA ConcatSeq ==
    ASSUME NEW S, NEW a \in Seq(S), NEW b \in Seq(S)
    PROVE  /\ a \o b \in Seq(S) /\ Len(a \o b) = Len(a) + Len(b)
           /\ \A j \in 1 .. Len(a) + Len(b) :
                (a \o b)[j] = IF j <= Len(a) THEN a[j] ELSE b[j - Len(a)]
<1>1. a \o b \in Seq(S)
  OBVIOUS
<1>2. Len(a \o b) = Len(a) + Len(b)
  OBVIOUS
<1>3. ASSUME NEW j \in 1 .. Len(a) + Len(b)
      PROVE  (a \o b)[j] = IF j <= Len(a) THEN a[j] ELSE b[j - Len(a)]
  OBVIOUS
<1> QED
  BY Zenon, <1>1, <1>2, <1>3

(* A sequence without its i-th element.                                    *)
LEMMA RemoveNodeSeq ==
    ASSUME NEW S, NEW s \in Seq(S), NEW i \in 1 .. Len(s)
    PROVE  /\ RemoveNode(s, i) \in Seq(S)
           /\ Len(RemoveNode(s, i)) = Len(s) - 1
           /\ \A j \in 1 .. Len(s) - 1 :
                RemoveNode(s, i)[j] = IF j < i THEN s[j] ELSE s[j + 1]
<1> DEFINE a == SubSeq(s, 1, i - 1)
           b == SubSeq(s, i + 1, Len(s))
<1>1. a \in Seq(S) /\ Len(a) = i - 1 /\ \A j \in 1 .. i - 1 : a[j] = s[j]
  OBVIOUS
<1>2. b \in Seq(S) /\ Len(b) = Len(s) - i /\ \A j \in 1 .. Len(s) - i : b[j] = s[j + i]
  OBVIOUS
<1>3. RemoveNode(s, i) = a \o b
  BY Zenon DEF RemoveNode
<1> HIDE DEF a, b
<1>4. /\ a \o b \in Seq(S) /\ Len(a \o b) = Len(a) + Len(b)
      /\ \A j \in 1 .. Len(a) + Len(b) :
           (a \o b)[j] = IF j <= Len(a) THEN a[j] ELSE b[j - Len(a)]
  BY Zenon, <1>1, <1>2, ConcatSeq
<1>5. \A j \in 1 .. Len(s) - 1 : (a \o b)[j] = IF j < i THEN s[j] ELSE s[j + 1]
  <2> TAKE j \in 1 .. Len(s) - 1
  <2>1. (a \o b)[j] = IF j <= Len(a) THEN a[j] ELSE b[j - Len(a)]
    BY <1>1, <1>2, <1>4
  <2>2. CASE j < i
    BY <1>1, <2>1, <2>2
  <2>3. CASE ~(j < i)
    <3>1. j - (i - 1) \in 1 .. Len(s) - i
      BY <2>3
    <3> QED
      BY <1>1, <1>2, <2>1, <2>3, <3>1
  <2> QED
    BY Zenon, <2>2, <2>3
<1> QED
  BY <1>1, <1>2, <1>3, <1>4, <1>5

(* Taking out a value: g_rpc_data_list loses one node, or none.            *)
LEMMA UnlinkSeq ==
    ASSUME NEW S, NEW s \in Seq(S), NEW e
    PROVE  \/ Unlink(s, e) = s /\ \A i \in 1 .. Len(s) : s[i] # e
           \/ \E i \in 1 .. Len(s) : s[i] = e /\ Unlink(s, e) = RemoveNode(s, i)
  BY Zenon DEF Unlink
-----------------------------------------------------------------------------
(***************************************************************************)
(* The rpcs of authserver.c.  module_authserver_update looks only at the   *)
(* front of g_rpc_data_list.  That is enough because the list is in the    *)
(* order of next_sn, no rpc is older than one before it, and the table     *)
(* holds the rpcs of the list and no others: three facts that no property  *)
(* states and every step keeps.                                            *)
(***************************************************************************)
ListInv ==
    /\ rpcs \in Seq(Sns)
    /\ rpcAge \in [Sns -> 0 .. RpcTimeout]
    /\ table = {rpcs[i] : i \in 1 .. Len(rpcs)}
    /\ \A i, j \in 1 .. Len(rpcs) : i < j =>
         rpcs[i] < rpcs[j] /\ rpcAge[rpcs[i]] >= rpcAge[rpcs[j]]
    /\ RpcsTimely

(* next_sn gives the new rpc the largest number, and it is the youngest.   *)
LEMMA FileRpcListed ==
    ASSUME IInv, ListInv, NEW k \in Conns, sn < MaxSn, FileRpc(k)
    PROVE  ListInv'
<1>1. /\ sn' = sn + 1 /\ sn' \in Sns /\ rpcs' = Append(rpcs, sn')
      /\ table' = table \cup {sn'} /\ rpcAge' = [rpcAge EXCEPT ![sn'] = 0]
  BY GatewayAssumption DEF FileRpc, IInv, Typed, Sns
<1>2. \A i \in 1 .. Len(rpcs) : rpcs[i] \in Sns /\ rpcs[i] < sn'
  <2> TAKE i \in 1 .. Len(rpcs)
  <2>1. rpcs[i] \in table /\ rpcs[i] \in Sns
    BY DEF ListInv
  <2>2. rpcs[i] <= sn /\ sn \in Nat
    BY <2>1 DEF IInv, Typed
  <2> QED
    BY <1>1, <2>1, <2>2 DEF Sns
<1>3. /\ rpcs' \in Seq(Sns) /\ Len(rpcs') = Len(rpcs) + 1 /\ Len(rpcs) \in Nat
      /\ \A i \in 1 .. Len(rpcs) : rpcs'[i] = rpcs[i]
      /\ rpcs'[Len(rpcs) + 1] = sn'
  BY <1>1 DEF ListInv
<1>4. rpcAge' \in [Sns -> 0 .. RpcTimeout] /\ rpcAge'[sn'] = 0
      /\ \A s \in Sns \ {sn'} : rpcAge'[s] = rpcAge[s]
  BY <1>1, GatewayAssumption DEF ListInv
<1>5. table' = {rpcs'[i] : i \in 1 .. Len(rpcs')}
  BY <1>1, <1>3 DEF ListInv
<1>6. ASSUME NEW i \in 1 .. Len(rpcs'), NEW j \in 1 .. Len(rpcs'), i < j
      PROVE  rpcs'[i] < rpcs'[j] /\ rpcAge'[rpcs'[i]] >= rpcAge'[rpcs'[j]]
  <2>1. i \in 1 .. Len(rpcs) /\ rpcs'[i] = rpcs[i] /\ rpcs[i] # sn'
    BY <1>2, <1>3, <1>6 DEF Sns
  <2>2. CASE j \in 1 .. Len(rpcs)
    <3>1. rpcs'[j] = rpcs[j] /\ rpcs[j] # sn' /\ rpcs[i] \in Sns /\ rpcs[j] \in Sns
      BY <1>2, <1>3, <1>6, <2>1, <2>2 DEF Sns
    <3>2. rpcs[i] < rpcs[j] /\ rpcAge[rpcs[i]] >= rpcAge[rpcs[j]]
      BY Zenon, <1>6, <2>1, <2>2 DEF ListInv
    <3> QED
      BY Zenon, <1>4, <2>1, <3>1, <3>2
  <2>3. CASE j = Len(rpcs) + 1
    <3>1. rpcAge[rpcs[i]] \in 0 .. RpcTimeout
      BY Zenon, <1>2, <2>1 DEF ListInv
    <3> QED
      BY <1>2, <1>3, <1>4, <2>1, <2>3, <3>1
  <2> QED
    BY <1>3, <2>2, <2>3
<1>7. RpcsTimely'
  <2> SUFFICES ASSUME NEW s \in table'
               PROVE  rpcAge'[s] < RpcTimeout
    BY Zenon DEF RpcsTimely
  <2>1. CASE s = sn'
    BY <1>4, <2>1, GatewayAssumption
  <2>2. CASE s # sn'
    <3>1. s \in table /\ s \in Sns
      BY Zenon, <1>1, <1>2, <2>2 DEF ListInv
    <3>2. rpcAge'[s] = rpcAge[s]
      BY Zenon, <1>4, <2>2, <3>1
    <3> QED
      BY Zenon, <3>1, <3>2 DEF ListInv, RpcsTimely
  <2> QED
    BY Zenon, <2>1, <2>2
<1> QED
  BY Zenon, <1>3, <1>4, <1>5, <1>6, <1>7 DEF ListInv

(* A verdict takes its rpc out of the middle of the list.                  *)
LEMMA DropRpcListed ==
    ASSUME ListInv, NEW s \in Sns, DropRpc(s)
    PROVE  ListInv'
<1>1. table' = table \ {s} /\ rpcs' = Unlink(rpcs, s) /\ rpcAge' = rpcAge
  BY Zenon DEF DropRpc
<1>2. CASE rpcs' = rpcs /\ \A i \in 1 .. Len(rpcs) : rpcs[i] # s
  BY Zenon, <1>1, <1>2 DEF ListInv, RpcsTimely
<1>3. ASSUME NEW n \in 1 .. Len(rpcs), rpcs[n] = s, rpcs' = RemoveNode(rpcs, n)
      PROVE  ListInv'
  <2> DEFINE src(i) == IF i < n THEN i ELSE i + 1
  <2>1. /\ rpcs \in Seq(Sns) /\ Len(rpcs) \in Nat
        /\ rpcs' \in Seq(Sns) /\ Len(rpcs') = Len(rpcs) - 1
        /\ \A i \in 1 .. Len(rpcs) - 1 : rpcs'[i] = IF i < n THEN rpcs[i] ELSE rpcs[i + 1]
    <3>1. rpcs \in Seq(Sns)
      BY Zenon DEF ListInv
    <3>2. /\ RemoveNode(rpcs, n) \in Seq(Sns)
          /\ Len(RemoveNode(rpcs, n)) = Len(rpcs) - 1
          /\ \A i \in 1 .. Len(rpcs) - 1 :
               RemoveNode(rpcs, n)[i] = IF i < n THEN rpcs[i] ELSE rpcs[i + 1]
      BY <3>1, RemoveNodeSeq, Zenon
    <3> QED
      BY <1>3, <3>1, <3>2
  <2>2. \A i \in 1 .. Len(rpcs') :
          src(i) \in 1 .. Len(rpcs) \ {n} /\ rpcs'[i] = rpcs[src(i)]
    BY <2>1
  <2>3. \A i, j \in 1 .. Len(rpcs') : i < j => src(i) < src(j)
    BY <2>1
  <2>4. \A i \in 1 .. Len(rpcs) : i # n => rpcs[i] # s
    <3> TAKE i \in 1 .. Len(rpcs)
    <3>1. rpcs[i] \in Sns /\ (i < n => rpcs[i] < rpcs[n]) /\ (n < i => rpcs[n] < rpcs[i])
      BY DEF ListInv
    <3> QED
      BY <1>3, <3>1 DEF Sns
  <2>5. \A i \in 1 .. Len(rpcs') : rpcs'[i] \in table'
    <3> HIDE DEF src
    <3> QED
      BY Zenon, <1>1, <2>2, <2>4 DEF ListInv
  <2>6. ASSUME NEW t \in table'
        PROVE  \E i \in 1 .. Len(rpcs') : t = rpcs'[i]
    <3>1. PICK i \in 1 .. Len(rpcs) : t = rpcs[i] /\ i # n
      BY Zenon, <1>1, <1>3 DEF ListInv
    <3>2. CASE i < n
      BY <2>1, <3>1, <3>2
    <3>3. CASE i > n
      <4>1. i - 1 \in 1 .. Len(rpcs') /\ ~(i - 1 < n) /\ (i - 1) + 1 = i
        BY <2>1, <3>3
      <4>2. rpcs'[i - 1] = t
        BY Zenon, <2>1, <3>1, <4>1
      <4> QED
        BY Zenon, <4>1, <4>2
    <3> QED
      BY <3>1, <3>2, <3>3
  <2>7. table' = {rpcs'[i] : i \in 1 .. Len(rpcs')}
    BY Zenon, <2>5, <2>6
  <2>8. \A i, j \in 1 .. Len(rpcs') : i < j =>
          rpcs'[i] < rpcs'[j] /\ rpcAge'[rpcs'[i]] >= rpcAge'[rpcs'[j]]
    <3> HIDE DEF src
    <3> QED
      BY Zenon, <1>1, <2>2, <2>3 DEF ListInv
  <2> QED
    BY <1>1, <2>1, <2>7, <2>8, SMTT(30) DEF ListInv, RpcsTimely
<1> QED
  BY <1>1, <1>2, <1>3, UnlinkSeq, ZenonT(30) DEF ListInv

(* What module_authserver_update takes off the list is a prefix: all of it *)
(* has expired, and the rpc after it has not.                              *)
LEMMA ExpiredPrefix ==
    ASSUME ListInv
    PROVE  /\ Expires \in 0 .. Len(rpcs)
           /\ \A i \in 1 .. Expires : rpcAge'[rpcs[i]] >= RpcTimeout
           /\ Expires < Len(rpcs) => ~(rpcAge'[rpcs[Expires + 1]] >= RpcTimeout)
<1> DEFINE Late(i) == rpcAge'[rpcs[i]] >= RpcTimeout
           S == {0} \cup {n \in 1 .. Len(rpcs) : \A i \in 1 .. n : Late(i)}
<1>1. Len(rpcs) \in Nat
  BY DEF ListInv
<1>2. S \subseteq 0 .. Len(rpcs) /\ S # {}
  BY <1>1
<1>3. Expires = Max(S)
  BY Zenon DEF Expires
<1>4. Expires \in S /\ \A n \in S : n <= Expires
  <2> HIDE DEF S
  <2> QED
    BY Zenon, <1>1, <1>2, <1>3, MaxOf
<1>5. Expires \in 0 .. Len(rpcs) /\ \A i \in 1 .. Expires : Late(i)
  BY <1>1, <1>4
<1>6. ASSUME Expires < Len(rpcs), Late(Expires + 1)
      PROVE  FALSE
  <2> HIDE DEF Late
  <2>1. Expires + 1 \in S
    BY <1>1, <1>5, <1>6
  <2>2. Expires + 1 <= Expires
    BY Zenon, <1>4, <2>1
  <2> QED
    BY <1>5, <2>2
<1> QED
  BY Zenon, <1>5, <1>6

(* A second more keeps the order of the ages, and the rpcs that are left   *)
(* have not expired: the first of them has not, and the others are younger.*)
LEMMA UpdateListed ==
    ASSUME ListInv, Update
    PROVE  ListInv'
<1> DEFINE n == Expires
<1>1. /\ rpcAge' = [s \in Sns |-> IF s \in table THEN Older(rpcAge[s], RpcTimeout) ELSE 0]
      /\ table' = table \ {rpcs[i] : i \in 1 .. n}
      /\ rpcs' = SubSeq(rpcs, n + 1, Len(rpcs))
  BY Zenon DEF Update, Expired
<1>2. /\ n \in 0 .. Len(rpcs)
      /\ n < Len(rpcs) => ~(rpcAge'[rpcs[n + 1]] >= RpcTimeout)
  BY Zenon, ExpiredPrefix
<1> HIDE DEF n
<1>3. rpcs \in Seq(Sns) /\ Len(rpcs) \in Nat
      /\ \A i \in 1 .. Len(rpcs) : rpcs[i] \in table /\ rpcs[i] \in Sns
  BY DEF ListInv
<1>4. /\ rpcs' \in Seq(Sns) /\ Len(rpcs') = Len(rpcs) - n
      /\ \A i \in 1 .. Len(rpcs) - n : rpcs'[i] = rpcs[i + n]
  BY <1>1, <1>2, <1>3
<1>5. rpcAge' \in [Sns -> 0 .. RpcTimeout]
  BY <1>1, GatewayAssumption DEF ListInv, Older
<1>6. ASSUME NEW i \in 1 .. Len(rpcs), NEW j \in 1 .. Len(rpcs), i < j
      PROVE  /\ rpcs[i] < rpcs[j]
             /\ rpcAge'[rpcs[i]] >= rpcAge'[rpcs[j]]
             /\ rpcAge'[rpcs[i]] \in Nat /\ rpcAge'[rpcs[j]] \in Nat
  <2>1. /\ rpcs[i] < rpcs[j] /\ rpcAge[rpcs[i]] >= rpcAge[rpcs[j]]
        /\ rpcAge[rpcs[i]] \in 0 .. RpcTimeout /\ rpcAge[rpcs[j]] \in 0 .. RpcTimeout
    BY Zenon, <1>3, <1>6 DEF ListInv
  <2>2. /\ rpcAge'[rpcs[i]] = Older(rpcAge[rpcs[i]], RpcTimeout)
        /\ rpcAge'[rpcs[j]] = Older(rpcAge[rpcs[j]], RpcTimeout)
    BY Zenon, <1>1, <1>3
  <2> QED
    BY <2>1, <2>2, GatewayAssumption, SMTT(30) DEF Older
<1>7. \A i \in 1 .. Len(rpcs') :
        i + n \in n + 1 .. Len(rpcs) /\ rpcs'[i] = rpcs[i + n]
  BY <1>2, <1>3, <1>4
<1>8. table' = {rpcs'[i] : i \in 1 .. Len(rpcs')}
  <2>1. ASSUME NEW i \in 1 .. Len(rpcs')
        PROVE  rpcs'[i] \in table'
    <3>1. i + n \in 1 .. Len(rpcs) /\ \A m \in 1 .. n : m < i + n
      BY <1>2, <1>3, <1>7
    <3>2. \A m \in 1 .. n : rpcs[m] < rpcs[i + n]
      BY <1>2, <1>6, <3>1
    <3>3. \A m \in 1 .. n : rpcs[m] # rpcs[i + n]
      BY <1>2, <1>3, <3>1, <3>2 DEF Sns
    <3> QED
      BY Zenon, <1>1, <1>3, <1>7, <3>1, <3>3
  <2>2. ASSUME NEW t \in table'
        PROVE  \E i \in 1 .. Len(rpcs') : t = rpcs'[i]
    <3>1. PICK m \in 1 .. Len(rpcs) : t = rpcs[m] /\ m \notin 1 .. n
      BY Zenon, <1>1 DEF ListInv
    <3>2. m - n \in 1 .. Len(rpcs') /\ (m - n) + n = m
      BY <1>2, <1>4, <3>1
    <3>3. rpcs'[m - n] = t
      BY Zenon, <1>7, <3>1, <3>2
    <3> QED
      BY Zenon, <3>2, <3>3
  <2> QED
    BY Zenon, <2>1, <2>2
<1>9. \A i, j \in 1 .. Len(rpcs') : i < j =>
        rpcs'[i] < rpcs'[j] /\ rpcAge'[rpcs'[i]] >= rpcAge'[rpcs'[j]]
  BY <1>2, <1>3, <1>6, <1>7
<1>10. RpcsTimely'
  <2> SUFFICES ASSUME NEW i \in 1 .. Len(rpcs')
               PROVE  rpcAge'[rpcs'[i]] < RpcTimeout
    BY Zenon, <1>8 DEF RpcsTimely
  <2>1. i + n \in n + 1 .. Len(rpcs) /\ rpcs'[i] = rpcs[i + n] /\ n + 1 \in 1 .. Len(rpcs)
    BY <1>2, <1>3, <1>7
  <2>2. rpcAge'[rpcs[n + 1]] \in Nat /\ rpcAge'[rpcs[n + 1]] < RpcTimeout
    <3>1. rpcAge'[rpcs[n + 1]] \in 0 .. RpcTimeout
      BY Zenon, <1>3, <1>5, <2>1
    <3> QED
      BY <1>2, <1>3, <2>1, <3>1, GatewayAssumption
  <2>3. CASE i = 1
    BY <2>1, <2>2, <2>3, <1>2
  <2>4. CASE i > 1
    <3>1. n + 1 < i + n
      BY <2>4, <1>2
    <3>2. rpcAge'[rpcs[n + 1]] >= rpcAge'[rpcs[i + n]] /\ rpcAge'[rpcs[i + n]] \in Nat
      BY <1>2, <1>6, <2>1, <3>1
    <3> QED
      BY <2>1, <2>2, <3>2, GatewayAssumption
  <2> QED
    BY <2>3, <2>4
<1> QED
  BY Zenon, <1>4, <1>5, <1>8, <1>9, <1>10 DEF ListInv

(* Every step keeps the list: the three lemmas above, and the steps that   *)
(* do not touch it.                                                        *)
LEMMA StepListed ==
    ASSUME IInv, ListInv, [Next]_vars
    PROVE  ListInv'
<1>1. CASE UNCHANGED <<table, rpcs, rpcAge>>
  BY Zenon, <1>1 DEF ListInv, RpcsTimely
<1>2. ASSUME NEW k \in Conns, ConnStep(k)
      PROVE  ListInv'
  <2>1. CASE LoginRequest(k)
    BY Zenon, <2>1, FileRpcListed DEF LoginRequest
  <2>2. CASE ~LoginRequest(k)
    BY Zenon, <1>1, <1>2, <2>2 DEF ConnStep, Accept, BadFirst, PeerClose, ClientForward,
                            ClientBad, ClientBadFlag, Logout, rpcVars
  <2> QED
    BY Zenon, <2>1, <2>2
<1>3. ASSUME NEW s \in Sns, AuthStep(s)
      PROVE  ListInv'
  BY Zenon, <1>3, DropRpcListed DEF AuthStep, AuthFail, AuthIgnored, AuthPass
<1>4. ASSUME NEW p \in Players, WorldStep(p)
      PROVE  ListInv'
  BY Zenon, <1>1, <1>4 DEF WorldStep, HearNobody, HearReject, HearLogout, rpcVars
<1>5. CASE AuthConnected \/ AuthClosed \/ WorldConnected \/ WorldClosed
            \/ WorldHandles \/ Release
  BY Zenon, <1>1, <1>5 DEF AuthConnected, AuthClosed, WorldConnected, WorldClosed,
                    WorldHandles, Release, rpcVars
<1>6. CASE Update
  BY Zenon, <1>6, UpdateListed
<1>7. CASE UNCHANGED vars
  BY Zenon, <1>1, <1>7 DEF vars, rpcVars
<1> QED
  BY Zenon, <1>2, <1>3, <1>4, <1>5, <1>6, <1>7 DEF Next

(* When the modules are loaded there is no rpc.                            *)
LEMMA InitListed == Init => ListInv
<1> SUFFICES ASSUME Init
             PROVE  ListInv
  BY Zenon
<1>1. rpcs = <<>> /\ table = {} /\ rpcAge = [s \in Sns |-> 0]
  BY Zenon DEF Init
<1>2. rpcAge \in [Sns -> 0 .. RpcTimeout]
  <2>1. 0 \in 0 .. RpcTimeout
    BY GatewayAssumption
  <2> QED
    BY Zenon, <1>1, <2>1
<1> QED
  BY <1>1, <1>2 DEF ListInv, RpcsTimely

(* The list stays in order, whatever verdicts come out of turn, late or    *)
(* never.                                                                  *)
THEOREM RpcListOrdered == Spec => []ListInv
<1>1. IInv /\ ListInv /\ [Next]_vars => ListInv'
  BY Zenon, StepListed
<1> QED
  BY <1>1, InitListed, ContextsInductive, PTL DEF Spec

(* No rpc outlives AUTH_SERVER_RPC_TIMEOUT, for any number of logins under *)
(* way: a scan that stops at the first rpc that has not expired            *)
(* (authserver.c:117) misses none.                                         *)
THEOREM RpcsTimelyHolds == Spec => []RpcsTimely
<1>1. ListInv => RpcsTimely
  BY Zenon DEF ListInv
<1> QED
  BY <1>1, RpcListOrdered, PTL
-----------------------------------------------------------------------------
(***************************************************************************)
(* The waiting connections of auth.c.  A queue matters to the sessions by  *)
(* the connections that are in it, and by whether wmap still leads to the  *)
(* entry of each.                                                          *)
(***************************************************************************)
Waits == [conn : Conns, age : 0 .. WaitTimeout + 1, mapped : BOOLEAN]

InQueue(q, k) == \E i \in 1 .. Len(q) : q[i].conn = k

\* k has at most one entry, and wmap names it.
OneMapped(q, k) ==
    \A i, j \in 1 .. Len(q) : q[i].conn = k /\ q[j].conn = k => i = j /\ q[i].mapped

(* clean_waiting_client takes a prefix.                                    *)
LEMMA ReapsPrefix ==
    ASSUME wqueue \in Seq(Waits)
    PROVE  Len(wqueue) \in Nat /\ Reaps \in 0 .. Len(wqueue)
<1> DEFINE S == {0} \cup {n \in 1 .. Len(wqueue) :
                            \A i \in 1 .. n : wqueue[i].age > WaitTimeout}
<1>1. Len(wqueue) \in Nat
  OBVIOUS
<1>2. S \subseteq 0 .. Len(wqueue) /\ S # {}
  BY <1>1
<1>3. Reaps = Max(S)
  BY Zenon DEF Reaps
<1>4. Reaps \in S
  <2> HIDE DEF S
  <2> QED
    BY Zenon, <1>1, <1>2, <1>3, MaxOf
<1> QED
  BY Zenon, <1>1, <1>2, <1>4

(* Taking entries out of wmap leaves the queue as it is otherwise.         *)
LEMMA UnmapSeq ==
    ASSUME NEW q \in Seq(Waits), NEW S
    PROVE  /\ Unmap(q, S) \in Seq(Waits)
           /\ Len(Unmap(q, S)) = Len(q)
           /\ \A i \in 1 .. Len(q) :
                /\ Unmap(q, S)[i].conn = q[i].conn
                /\ q[i].mapped /\ q[i].conn \notin S => Unmap(q, S)[i].mapped
<1> DEFINE e(i) == [q[i] EXCEPT !.mapped = @ /\ q[i].conn \notin S]
<1>1. Unmap(q, S) = [i \in 1 .. Len(q) |-> e(i)]
  BY Zenon DEF Unmap
<1>2. ASSUME NEW i \in 1 .. Len(q)
      PROVE  /\ e(i) \in Waits /\ e(i).conn = q[i].conn
             /\ q[i].mapped /\ q[i].conn \notin S => e(i).mapped
  <2>1. q[i] \in Waits
    OBVIOUS
  <2>2. \A b \in BOOLEAN : [q[i] EXCEPT !.mapped = b] \in Waits
                           /\ [q[i] EXCEPT !.mapped = b].conn = q[i].conn
                           /\ [q[i] EXCEPT !.mapped = b].mapped = b
    BY Zenon, <2>1 DEF Waits
  <2>3. e(i) = [q[i] EXCEPT !.mapped = (q[i].mapped /\ q[i].conn \notin S)]
    BY Zenon, <2>1 DEF Waits
  <2>4. (q[i].mapped /\ q[i].conn \notin S) \in BOOLEAN
    BY Zenon
  <2> HIDE DEF e
  <2> QED
    BY <2>2, <2>3, <2>4, Zenon
<1> HIDE DEF e
<1>3. Len(q) \in Nat
  OBVIOUS
<1> QED
  BY <1>1, <1>2, <1>3

(* new_waiting_client: what is left of the queue, and an entry for k.      *)
LEMMA NewWaitingSeq ==
    ASSUME wqueue \in Seq(Waits), NEW k \in Conns
    PROVE  LET q == NewWaiting(k)
               m == Len(wqueue) - Reaps
           IN  /\ q \in Seq(Waits)
               /\ Len(q) = m + 1
               /\ \A i \in 1 .. m :
                    /\ q[i].conn = wqueue[i + Reaps].conn
                    /\ wqueue[i + Reaps].mapped
                         /\ wqueue[i + Reaps].conn \notin Reaped \cup {k} => q[i].mapped
               /\ q[m + 1].conn = k /\ q[m + 1].mapped
<1> DEFINE m == Len(wqueue) - Reaps
           S == Reaped \cup {k}
           u == Unmap(Kept, S)
           e == [conn |-> k, age |-> 0, mapped |-> TRUE]
<1>1. Len(wqueue) \in Nat /\ Reaps \in 0 .. Len(wqueue)
  BY Zenon, ReapsPrefix
<1>2. /\ Kept \in Seq(Waits) /\ Len(Kept) = m
      /\ \A i \in 1 .. m : Kept[i] = wqueue[i + Reaps]
  BY <1>1 DEF Kept
<1> HIDE DEF S
<1>3. /\ u \in Seq(Waits) /\ Len(u) = m
      /\ \A i \in 1 .. m : /\ u[i].conn = Kept[i].conn
                           /\ Kept[i].mapped /\ Kept[i].conn \notin S => u[i].mapped
  BY Zenon, <1>2, UnmapSeq
<1>4. e \in Waits /\ e.conn = k /\ e.mapped
  BY GatewayAssumption DEF Waits
<1>5. NewWaiting(k) = Append(u, e)
  BY Zenon DEF NewWaiting, S
<1> HIDE DEF u, e
<1>6. /\ NewWaiting(k) \in Seq(Waits) /\ Len(NewWaiting(k)) = m + 1
      /\ \A i \in 1 .. m : NewWaiting(k)[i] = u[i]
      /\ NewWaiting(k)[m + 1] = e
  BY <1>1, <1>3, <1>4, <1>5
<1> HIDE DEF m
<1> QED
  BY <1>2, <1>3, <1>4, <1>6, Zenon DEF S, m

(* After new_waiting_client(k): k is in the queue, the connections that    *)
(* were not closed as idle are still in it, and no others.                 *)
LEMMA NewWaitingMembers ==
    ASSUME wqueue \in Seq(Waits), NEW k \in Conns
    PROVE  /\ NewWaiting(k) \in Seq(Waits)
           /\ InQueue(NewWaiting(k), k)
           /\ \A j \in Conns : InQueue(wqueue, j) /\ j \notin Reaped => InQueue(NewWaiting(k), j)
           /\ \A j \in Conns : InQueue(NewWaiting(k), j) => j = k \/ InQueue(wqueue, j)
           /\ \A j \in Conns : OneMapped(wqueue, j) /\ j \notin Reaped \cup {k}
                                 => OneMapped(NewWaiting(k), j)
           /\ ~InQueue(wqueue, k) => OneMapped(NewWaiting(k), k)
<1> DEFINE q == NewWaiting(k)
           r == Reaps
           m == Len(wqueue) - r
<1>1. Len(wqueue) \in Nat /\ r \in 0 .. Len(wqueue)
  BY Zenon, ReapsPrefix
<1>2. /\ q \in Seq(Waits)
      /\ Len(q) = m + 1
      /\ \A i \in 1 .. m :
           /\ q[i].conn = wqueue[i + r].conn
           /\ wqueue[i + r].mapped /\ wqueue[i + r].conn \notin Reaped \cup {k} => q[i].mapped
      /\ q[m + 1].conn = k /\ q[m + 1].mapped
  BY Zenon, NewWaitingSeq
<1>3. \A i \in 1 .. r : wqueue[i].conn \in Reaped
  BY Zenon DEF Reaped
<1> HIDE DEF q, r
<1>4. /\ \A i \in 1 .. m : i + r \in 1 .. Len(wqueue)
      /\ m + 1 \in 1 .. Len(q)
      /\ \A i \in 1 .. Len(q) : i \in 1 .. m \/ i = m + 1
  BY <1>1, <1>2
<1>5. InQueue(q, k)
  BY Zenon, <1>2, <1>4 DEF InQueue
<1>6. ASSUME NEW j \in Conns, InQueue(wqueue, j), j \notin Reaped
      PROVE  InQueue(q, j)
  <2>1. PICK i \in 1 .. Len(wqueue) : wqueue[i].conn = j
    BY Zenon, <1>6 DEF InQueue
  <2>2. i - r \in 1 .. m /\ (i - r) + r = i
    BY <1>1, <1>3, <1>6, <2>1
  <2>3. q[i - r].conn = j /\ i - r \in 1 .. Len(q)
    BY <1>1, <1>2, <2>1, <2>2
  <2> QED
    BY Zenon, <2>3 DEF InQueue
<1>7. ASSUME NEW j \in Conns, InQueue(q, j)
      PROVE  j = k \/ InQueue(wqueue, j)
  BY Zenon, <1>2, <1>4, <1>7 DEF InQueue
<1>8. ASSUME NEW j \in Conns, OneMapped(wqueue, j), j \notin Reaped \cup {k}
      PROVE  OneMapped(q, j)
  <2> SUFFICES ASSUME NEW a \in 1 .. Len(q), NEW b \in 1 .. Len(q),
                      q[a].conn = j, q[b].conn = j
               PROVE  a = b /\ q[a].mapped
    BY Zenon DEF OneMapped
  <2>1. a \in 1 .. m /\ b \in 1 .. m
    BY Zenon, <1>2, <1>4, <1>8
  <2>2. wqueue[a + r].conn = j /\ wqueue[b + r].conn = j
        /\ a + r \in 1 .. Len(wqueue) /\ b + r \in 1 .. Len(wqueue)
    BY Zenon, <1>2, <1>4, <2>1
  <2>3. a + r = b + r /\ wqueue[a + r].mapped
    BY Zenon, <1>8, <2>2 DEF OneMapped
  <2>4. a = b
    BY <1>1, <2>1, <2>3
  <2> QED
    BY Zenon, <1>2, <1>8, <2>1, <2>2, <2>3, <2>4
<1>9. ASSUME ~InQueue(wqueue, k)
      PROVE  OneMapped(q, k)
  <2>1. \A i \in 1 .. m : q[i].conn # k
    BY Zenon, <1>2, <1>4, <1>9 DEF InQueue
  <2> QED
    BY Zenon, <1>2, <1>4, <2>1 DEF OneMapped
<1> QED
  BY Zenon, <1>2, <1>5, <1>6, <1>7, <1>8, <1>9 DEF q

(* remove_waiting(k) concerns no connection but k, and takes k out of the  *)
(* queue when wmap names its only entry.                                   *)
LEMMA RemoveWaitingMembers ==
    ASSUME NEW q \in Seq(Waits), NEW k \in Conns
    PROVE  /\ RemoveWaiting(q, k) \in Seq(Waits)
           /\ \A j \in Conns : InQueue(RemoveWaiting(q, k), j) => InQueue(q, j)
           /\ \A j \in Conns \ {k} : InQueue(q, j) => InQueue(RemoveWaiting(q, k), j)
           /\ \A j \in Conns : OneMapped(q, j) => OneMapped(RemoveWaiting(q, k), j)
           /\ OneMapped(q, k) => ~InQueue(RemoveWaiting(q, k), k)
<1> DEFINE I == {i \in 1 .. Len(q) : q[i].mapped /\ q[i].conn = k}
           r == RemoveWaiting(q, k)
<1>1. CASE I = {}
  <2>1. r = q
    BY Zenon, <1>1 DEF RemoveWaiting
  <2>2. ASSUME OneMapped(q, k)
        PROVE  ~InQueue(q, k)
    BY Zenon, <1>1, <2>2 DEF OneMapped, InQueue
  <2> HIDE DEF r
  <2> QED
    BY Zenon, <2>1, <2>2 DEF r
<1>2. CASE I # {}
  <2>2. PICK n \in I : r = RemoveNode(q, n)
    BY Zenon, <1>2 DEF RemoveWaiting
  <2>3. n \in 1 .. Len(q) /\ q[n].conn = k /\ Len(q) \in Nat
    OBVIOUS
  <2> HIDE DEF I, r
  <2> DEFINE src(i) == IF i < n THEN i ELSE i + 1
  <2>4. /\ r \in Seq(Waits) /\ Len(r) = Len(q) - 1
        /\ \A i \in 1 .. Len(q) - 1 : r[i] = IF i < n THEN q[i] ELSE q[i + 1]
    <3>1. /\ RemoveNode(q, n) \in Seq(Waits) /\ Len(RemoveNode(q, n)) = Len(q) - 1
          /\ \A i \in 1 .. Len(q) - 1 :
               RemoveNode(q, n)[i] = IF i < n THEN q[i] ELSE q[i + 1]
      BY <2>3, RemoveNodeSeq, Zenon
    <3> QED
      BY Zenon, <2>2, <3>1
  <2>5. \A i \in 1 .. Len(r) : src(i) \in 1 .. Len(q) \ {n} /\ r[i] = q[src(i)]
    BY <2>3, <2>4
  <2>6. \A a, b \in 1 .. Len(r) : src(a) = src(b) => a = b
    BY <2>3, <2>4
  <2>7. \A i \in 1 .. Len(q) \ {n} : \E a \in 1 .. Len(r) : src(a) = i
    <3> TAKE i \in 1 .. Len(q) \ {n}
    <3>1. CASE i < n
      BY <2>3, <2>4, <3>1
    <3>2. CASE i > n
      <4>1. i - 1 \in 1 .. Len(r) /\ src(i - 1) = i
        BY <2>3, <2>4, <3>2
      <4> QED
        BY Zenon, <4>1
    <3> QED
      BY <2>3, <3>1, <3>2
  <2> HIDE DEF src
  <2>8. \A j \in Conns : InQueue(r, j) => InQueue(q, j)
    BY Zenon, <2>5 DEF InQueue
  <2>9. \A j \in Conns \ {k} : InQueue(q, j) => InQueue(r, j)
    BY <2>3, <2>5, <2>7 DEF InQueue
  <2>10. \A j \in Conns : OneMapped(q, j) => OneMapped(r, j)
    BY <2>5, <2>6 DEF OneMapped
  <2>11. OneMapped(q, k) => ~InQueue(r, k)
    BY Zenon, <2>3, <2>5 DEF OneMapped, InQueue
  <2> QED
    BY Zenon, <2>4, <2>8, <2>9, <2>10, <2>11 DEF r
<1> QED
  BY Zenon, <1>1, <1>2

(* A second more changes ages only.                                        *)
LEMMA UpdateMembers ==
    ASSUME wqueue \in Seq(Waits), Update
    PROVE  /\ wqueue' \in Seq(Waits)
           /\ \A k \in Conns : InQueue(wqueue', k) <=> InQueue(wqueue, k)
           /\ \A k \in Conns : OneMapped(wqueue, k) => OneMapped(wqueue', k)
<1> DEFINE e(i) == [wqueue[i] EXCEPT !.age = Older(@, WaitTimeout + 1)]
<1>1. wqueue' = [i \in 1 .. Len(wqueue) |-> e(i)]
  BY Zenon DEF Update
<1>2. ASSUME NEW i \in 1 .. Len(wqueue)
      PROVE  e(i) \in Waits /\ e(i).conn = wqueue[i].conn /\ e(i).mapped = wqueue[i].mapped
  <2>1. wqueue[i] \in Waits
    OBVIOUS
  <2>2. Older(wqueue[i].age, WaitTimeout + 1) \in 0 .. WaitTimeout + 1
    BY <2>1, GatewayAssumption DEF Waits, Older
  <2> QED
    BY Zenon, <2>1, <2>2 DEF Waits
<1> HIDE DEF e
<1>3. wqueue' \in Seq(Waits) /\ Len(wqueue') = Len(wqueue)
      /\ \A i \in 1 .. Len(wqueue) : wqueue'[i] = e(i)
  <2>1. Len(wqueue) \in Nat
    OBVIOUS
  <2> QED
    BY <1>1, <1>2, <2>1
<1>4. \A k \in Conns : InQueue(wqueue', k) <=> InQueue(wqueue, k)
  BY Zenon, <1>2, <1>3 DEF InQueue
<1>5. \A k \in Conns : OneMapped(wqueue, k) => OneMapped(wqueue', k)
  BY <1>2, <1>3 DEF OneMapped
<1> QED
  BY Zenon, <1>3, <1>4, <1>5
-----------------------------------------------------------------------------
(* The queue has its type, and every open connection without a session is  *)
(* in it.                                                                  *)
WatchInv == wqueue \in Seq(Waits) /\ Watched

\* k is open, and waits for its login or for the verdict on it.
Waiting(k) == conn[k] = "open" /\ handler[k].of \in {"auth", "authserver"}

(* What a step has to show: whoever waits after it is in the queue.        *)
LEMMA WatchedIf ==
    ASSUME wqueue' \in Seq(Waits),
           \A k \in Conns : Waiting(k)' => InQueue(wqueue', k)
    PROVE  WatchInv'
BY Zenon DEF WatchInv, Watched, Waiting, InQueue

(* A step that leaves the queue alone, and makes nobody wait.              *)
LEMMA WatchKept ==
    ASSUME WatchInv, wqueue' = wqueue,
           \A k \in Conns : Waiting(k)' => Waiting(k)
    PROVE  WatchInv'
BY Zenon DEF WatchInv, Watched, Waiting

(* A step that runs start_auth on j: clean_waiting_client closes whomever  *)
(* it takes off the queue, and j joins it.                                 *)
LEMMA StartAuthWatched ==
    ASSUME Typed, WatchInv, NEW j \in Conns, wqueue' = NewWaiting(j),
           \A k \in Conns \ {j} : Waiting(k)' => Waiting(k) /\ k \notin Reaped
    PROVE  WatchInv'
<1>1. \A k \in Conns : Waiting(k) => InQueue(wqueue, k)
  BY Zenon DEF WatchInv, Watched, Waiting, InQueue
<1>2. wqueue \in Seq(Waits)
  BY Zenon DEF WatchInv
<1>3. \A k \in Conns : Waiting(k)' => InQueue(wqueue', k)
  BY Zenon, <1>1, <1>2, NewWaitingMembers
<1> QED
  BY Zenon, <1>2, <1>3, NewWaitingMembers, WatchedIf

(* Every callback keeps the queue complete.                                *)
LEMMA StepWatched ==
    ASSUME IInv, WatchInv, [Next]_vars
    PROVE  WatchInv'
<1> USE DEF IInv
<1>1. ASSUME NEW k \in Conns, Logout(k)
      PROVE  WatchInv'
  <2>1. conn' = Shut(Reaped \cup {k}) /\ handler' = [handler EXCEPT ![k] = AuthHandler]
        /\ wqueue' = NewWaiting(k)
    BY Zenon, <1>1 DEF Logout
  <2>2. \A j \in Conns \ {k} : Waiting(j)' => Waiting(j) /\ j \notin Reaped
    BY <2>1, ShutCloses DEF Waiting, Typed
  <2> QED
    BY Zenon, <2>1, <2>2, StartAuthWatched
<1>2. ASSUME NEW k \in Conns, ConnStep(k)
      PROVE  WatchInv'
  <2>1. CASE Accept(k)
    <3>1. conn' = [Shut(Reaped) EXCEPT ![k] = "open"] /\ wqueue' = NewWaiting(k)
          /\ handler' = [handler EXCEPT ![k] = AuthHandler]
      BY Zenon, <2>1 DEF Accept
    <3>2. \A j \in Conns \ {k} : Waiting(j)' => Waiting(j) /\ j \notin Reaped
      BY <3>1, ShutCloses DEF Waiting, Typed
    <3> QED
      BY Zenon, <3>1, <3>2, StartAuthWatched
  <2>2. CASE LoginRequest(k)
    <3>1. wqueue' = wqueue /\ handler' = [handler EXCEPT ![k] = RpcHandler(sn')]
          /\ Waiting(k)
      BY Zenon, <2>2 DEF LoginRequest, Waiting
    <3>2. \A j \in Conns : conn'[j] = "open" => conn[j] = "open"
      BY <2>2, ShutCloses DEF LoginRequest
    <3>3. \A j \in Conns : Waiting(j)' => Waiting(j)
      BY Zenon, <3>1, <3>2 DEF Waiting, Typed
    <3> QED
      BY Zenon, <3>1, <3>3, WatchKept
  <2>3. CASE Logout(k)
    BY Zenon, <1>1, <2>3
  <2>4. CASE ~Logout(k) /\ ~Accept(k) /\ ~LoginRequest(k)
    <3>1. wqueue' = wqueue /\ handler' = handler /\ (conn' = conn \/ conn' = Shut({k}))
      BY Zenon, <1>2, <2>4 DEF ConnStep, BadFirst, PeerClose, ClientForward, ClientBad,
                        ClientBadFlag, connVars
    <3>2. \A j \in Conns : Waiting(j)' => Waiting(j)
      BY <3>1, ShutCloses DEF Waiting
    <3> QED
      BY Zenon, <3>1, <3>2, WatchKept
  <2> QED
    BY Zenon, <2>1, <2>2, <2>3, <2>4
<1>3. ASSUME NEW s \in Sns, NEW p \in Players, AuthPass(s, p)
      PROVE  WatchInv'
  <2> DEFINE k == rpcConn[s]
             q == IF Elsewhere(p, k) THEN NewWaiting(client[p]) ELSE wqueue
  <2>1. k \in Conns /\ TakeOver(p, k) /\ wqueue' = RemoveWaiting(q, k)
        /\ conn' = IF Elsewhere(p, k) THEN Shut(Reaped) ELSE conn
    BY Zenon, <1>3 DEF AuthPass
  <2>2. wqueue \in Seq(Waits) /\ \A j \in Conns : Waiting(j) => InQueue(wqueue, j)
    BY Zenon DEF WatchInv, Watched, Waiting, InQueue
  <2> HIDE DEF k
  <2>3. Elsewhere(p, k) => client[p] \in Conns
    BY Zenon DEF Elsewhere
  <2>4. /\ q \in Seq(Waits)
        /\ Elsewhere(p, k) => q = NewWaiting(client[p])
        /\ ~Elsewhere(p, k) => q = wqueue
    BY Zenon, <2>2, <2>3, NewWaitingMembers
  <2> HIDE DEF q
  <2>5. ASSUME NEW j \in Conns, Waiting(j)'
        PROVE  j # k /\ InQueue(q, j)
    <3>1. conn[j] = "open" /\ (Elsewhere(p, k) => j \notin Reaped)
      BY Zenon, <2>1, <2>5, ShutCloses DEF Waiting
    <3>2. j # k
      <4>1. conn[k] = "open" => handler'[k] = TranslateHandler(p)
        BY Zenon, <2>1 DEF TakeOver, Resolves, Elsewhere
      <4> QED
        BY <2>5, <3>1, <4>1 DEF Waiting, TranslateHandler
    <3>3. CASE Elsewhere(p, k) /\ j = client[p]
      BY Zenon, <2>2, <2>3, <2>4, <3>2, <3>3, NewWaitingMembers
    <3>4. CASE ~(Elsewhere(p, k) /\ j = client[p])
      <4>1. Waiting(j)
        BY Zenon, <2>1, <2>5, <3>1, <3>2, <3>4 DEF TakeOver, Waiting
      <4> QED
        BY Zenon, <2>2, <2>3, <2>4, <3>1, <3>2, <4>1, NewWaitingMembers
    <3> QED
      BY Zenon, <3>3, <3>4
  <2> QED
    BY Zenon, <2>1, <2>4, <2>5, RemoveWaitingMembers, WatchedIf
<1>4. ASSUME NEW s \in Sns, AuthStep(s)
      PROVE  WatchInv'
  <2>1. CASE \E p \in Players : AuthPass(s, p)
    BY Zenon, <1>3, <2>1
  <2>2. CASE AuthFail(s) \/ AuthIgnored(s)
    BY <2>2, ShutCloses, WatchKept DEF AuthFail, AuthIgnored, connVars, Waiting
  <2> QED
    BY Zenon, <1>4, <2>1, <2>2 DEF AuthStep
<1>5. ASSUME NEW p \in Players, WorldStep(p)
      PROVE  WatchInv'
  <2>1. CASE HearReject(p)
    <3>1. /\ client[p] \in Conns /\ conn' = Shut(Reaped)
          /\ wqueue' = NewWaiting(client[p]) /\ SetHandler(client[p], AuthHandler)
      BY Zenon, <2>1 DEF HearReject
    <3>2. \A k \in Conns \ {client[p]} : Waiting(k)' => Waiting(k) /\ k \notin Reaped
      BY <3>1, ShutCloses DEF Waiting, SetHandler, Typed
    <3> QED
      BY Zenon, <3>1, <3>2, StartAuthWatched
  <2>2. CASE HearNobody(p) \/ HearLogout(p)
    BY <2>2, ShutCloses, WatchKept DEF HearNobody, HearLogout, connVars, Waiting
  <2> QED
    BY Zenon, <1>5, <2>1, <2>2 DEF WorldStep
<1>6. CASE AuthConnected \/ AuthClosed \/ WorldConnected \/ WorldClosed
            \/ WorldHandles \/ Release
  BY Zenon, <1>6, WatchKept DEF AuthConnected, AuthClosed, WorldConnected, WorldClosed,
                         WorldHandles, Release, connVars, Waiting
<1>7. CASE Update
  <2>1. wqueue \in Seq(Waits) /\ \A j \in Conns : Waiting(j) => InQueue(wqueue, j)
    BY Zenon DEF WatchInv, Watched, Waiting, InQueue
  <2>2. \A j \in Conns : Waiting(j)' => Waiting(j)
    BY <1>7, ShutCloses DEF Update, Waiting
  <2> QED
    BY Zenon, <1>7, <2>1, <2>2, UpdateMembers, WatchedIf
<1>8. CASE UNCHANGED vars
  BY Zenon, <1>8, WatchKept DEF vars, connVars, Waiting
<1> QED
  BY Zenon, <1>2, <1>4, <1>5, <1>6, <1>7, <1>8 DEF Next

(* The queue is complete throughout, whatever is reaped, however often a   *)
(* connection is taken over, refused or logged out.                        *)
THEOREM QueueComplete == Spec => []WatchInv
<1>1. Init => WatchInv
  BY DEF Init, WatchInv, Watched, NoHandler
<1>2. IInv /\ WatchInv /\ [Next]_vars => WatchInv'
  BY Zenon, StepWatched
<1> QED
  BY <1>1, <1>2, ContextsInductive, PTL DEF Spec

(* No connection without a session is forgotten by clean_waiting_client    *)
(* (auth.c:42).                                                            *)
THEOREM WatchedHolds == Spec => []Watched
<1>1. WatchInv => Watched
  BY Zenon DEF WatchInv
<1> QED
  BY <1>1, QueueComplete, PTL
-----------------------------------------------------------------------------
(* The links to the two servers: what is under way on them has its type.   *)
LinkTyped ==
    /\ authLink \in Links
    /\ asked \in SUBSET Sns
    /\ worldLink \in Links
    /\ wire \in Seq(Requests)
    /\ back \in Seq(Answers)
    /\ online \in SUBSET Players

(* What the gateway sends, and what the world makes of it.                 *)
LEMMA MessagesTyped ==
    /\ \A t \in {"login", "logout"} : \A p \in Players :
         [type |-> t, pid |-> p] \in Requests
    /\ \A S \in SUBSET Players : [type |-> "register", players |-> S] \in Requests
    /\ \A t \in {"reject", "logout"} : \A p \in Players :
         [type |-> t, pid |-> p] \in Answers
    /\ \A m \in Requests : m.type = "register" => m.players \in SUBSET Players
    /\ \A m \in Requests : m.type \in {"login", "logout"} => m.pid \in Players
BY Zenon DEF Requests, Answers

(* A message to the world, sent or lost.                                   *)
LEMMA SendTyped ==
    ASSUME LinkTyped, NEW m \in Requests, SendWorld(m)
    PROVE  /\ worldLink' \in Links /\ wire' \in Seq(Requests)
           /\ back' \in Seq(Answers) /\ online' \in SUBSET Players
BY SMTT(30) DEF LinkTyped, SendWorld, worldVars

(* Every step keeps the types of the links.                                *)
LEMMA StepLinkTyped ==
    ASSUME IInv, LinkTyped, [Next]_vars
    PROVE  LinkTyped'
<1> USE DEF IInv
<1>1. CASE UNCHANGED <<authVars, worldVars>>
  BY Zenon, <1>1 DEF LinkTyped, authVars, worldVars
<1>2. ASSUME NEW k \in Conns, NEW t \in {"login", "logout"}, InSession(k),
             SendWorld([type |-> t, pid |-> handler[k].pid]), UNCHANGED authVars
      PROVE  LinkTyped'
  <2>1. handler[k].pid \in Players
    BY Zenon, <1>2 DEF TranslateCtx
  <2>2. [type |-> t, pid |-> handler[k].pid] \in Requests
    BY Zenon, <2>1, MessagesTyped
  <2> QED
    BY Zenon, <1>2, <2>2, SendTyped DEF LinkTyped, authVars
<1>3. ASSUME NEW k \in Conns, ConnStep(k)
      PROVE  LinkTyped'
  <2>1. CASE LoginRequest(k)
    <3>1. sn' \in Sns
      BY <2>1, GatewayAssumption DEF LoginRequest, FileRpc, Typed, Sns
    <3> QED
      BY Zenon, <2>1, <3>1 DEF LoginRequest, LinkTyped, worldVars
  <2>2. CASE ClientForward(k, "login") \/ ClientForward(k, "logout")
    BY Zenon, <1>2, <2>2 DEF ClientForward
  <2>3. CASE ClientBadFlag(k)
    BY Zenon, <1>2, <2>3 DEF ClientBadFlag, Logout
  <2>4. CASE PeerClose(k)
    <3>1. CASE handler[k].of = "translate" /\ client[handler[k].pid] = k
      BY Zenon, <1>2, <2>4, <3>1 DEF PeerClose, Logout, InSession
    <3>2. CASE ~(handler[k].of = "translate" /\ client[handler[k].pid] = k)
      BY Zenon, <1>1, <2>4, <3>2 DEF PeerClose
    <3> QED
      BY Zenon, <3>1, <3>2
  <2>5. CASE Accept(k) \/ BadFirst(k) \/ ClientBad(k)
    BY Zenon, <1>1, <2>5 DEF Accept, BadFirst, ClientBad
  <2> QED
    BY Zenon, <1>3, <2>1, <2>2, <2>3, <2>4, <2>5 DEF ConnStep
<1>4. ASSUME NEW s \in Sns, AuthStep(s)
      PROVE  LinkTyped'
  <2>1. authLink' = authLink /\ asked' = asked \ {s}
    BY Zenon, <1>4 DEF AuthStep, AuthFail, AuthIgnored, AuthPass, Answered
  <2>2. CASE UNCHANGED worldVars
    BY Zenon, <2>1, <2>2 DEF LinkTyped, worldVars
  <2>3. ASSUME NEW p \in Players, SendWorld([type |-> "login", pid |-> p])
        PROVE  LinkTyped'
    BY Zenon, <2>1, <2>3, MessagesTyped, SendTyped DEF LinkTyped
  <2> QED
    BY Zenon, <1>4, <2>2, <2>3 DEF AuthStep, AuthFail, AuthIgnored, AuthPass
<1>5. ASSUME NEW p \in Players, WorldStep(p)
      PROVE  LinkTyped'
  <2>1. back # <<>> /\ back' = Tail(back)
        /\ UNCHANGED <<authVars, worldLink, wire, online>>
    BY Zenon, <1>5 DEF WorldStep, HearNobody, HearReject, HearLogout, Hears
  <2> QED
    BY <2>1 DEF LinkTyped, authVars
<1>6. CASE AuthConnected \/ AuthClosed \/ WorldClosed \/ Release \/ Update
  <2>1. CASE AuthConnected \/ AuthClosed \/ WorldClosed
    <3>1. CASE AuthConnected
      BY Zenon, <3>1 DEF AuthConnected, LinkTyped, Links, worldVars
    <3>2. CASE AuthClosed
      BY Zenon, <3>2 DEF AuthClosed, LinkTyped, Links, worldVars
    <3>3. CASE WorldClosed
      BY <3>3 DEF WorldClosed, LinkTyped, Links, authVars
    <3> QED
      BY Zenon, <2>1, <3>1, <3>2, <3>3
  <2>2. CASE Release
    BY Zenon, <1>1, <2>2 DEF Release
  <2>3. CASE Update
    <3>1. authLink' = Reconnect(authLink) /\ worldLink' = Reconnect(worldLink)
          /\ UNCHANGED <<asked, wire, back, online>>
      BY Zenon, <2>3 DEF Update
    <3> QED
      BY Zenon, <3>1 DEF LinkTyped, Links, Reconnect
  <2> QED
    BY Zenon, <1>6, <2>1, <2>2, <2>3
<1>7. CASE WorldConnected
  <2>1. [type |-> "register", players |-> Clients] \in Requests
    BY Zenon, MessagesTyped DEF Clients
  <2> QED
    BY <1>7, <2>1 DEF WorldConnected, LinkTyped, Links, authVars
<1>8. CASE WorldHandles
  <2> DEFINE m == Head(wire)
  <2>1. wire # <<>> /\ wire' = Tail(wire) /\ UNCHANGED <<authVars, worldLink>>
    BY Zenon, <1>8 DEF WorldHandles
  <2>2. m \in Requests /\ wire' \in Seq(Requests)
    BY <2>1 DEF LinkTyped
  <2>3. online' \in SUBSET Players /\ back' \in Seq(Answers)
    <3>1. \/ m.type = "register" /\ online' = m.players /\ back' = back
          \/ m.type = "login" /\ online' = online \cup {m.pid} /\ back' = back
          \/ /\ m.type = "login" /\ online' = online \ {m.pid}
             /\ back' = Append(back, [type |-> "reject", pid |-> m.pid])
          \/ /\ m.type = "logout" /\ online' = online \ {m.pid}
             /\ back' = Append(back, [type |-> "logout", pid |-> m.pid])
      BY Zenon, <1>8 DEF WorldHandles
    <3> HIDE DEF m
    <3>2. m.type = "register" => m.players \in SUBSET Players
      BY Zenon, <2>2, MessagesTyped
    <3>3. m.type \in {"login", "logout"} =>
            /\ m.pid \in Players
            /\ [type |-> "reject", pid |-> m.pid] \in Answers
            /\ [type |-> "logout", pid |-> m.pid] \in Answers
      BY Zenon, <2>2, MessagesTyped
    <3>4. online' \in SUBSET Players
      BY Zenon, <3>1, <3>2, <3>3 DEF LinkTyped
    <3>5. back' = back \/ \E a \in Answers : back' = Append(back, a)
      BY <3>1, <3>3, Zenon
    <3>6. back' \in Seq(Answers)
      BY <3>5 DEF LinkTyped
    <3> QED
      BY Zenon, <3>4, <3>6
  <2> QED
    BY Zenon, <2>1, <2>2, <2>3 DEF LinkTyped, authVars
<1>9. CASE UNCHANGED vars
  BY Zenon, <1>1, <1>9 DEF vars
<1> QED
  BY Zenon, <1>3, <1>4, <1>5, <1>6, <1>7, <1>8, <1>9 DEF Next

(* What is under way on the links has its type throughout.                 *)
THEOREM LinksTyped == Spec => []LinkTyped
<1>1. Init => LinkTyped
  BY DEF Init, LinkTyped, Links
<1>2. IInv /\ LinkTyped /\ [Next]_vars => LinkTyped'
  BY Zenon, StepLinkTyped
<1> QED
  BY <1>1, <1>2, ContextsInductive, PTL DEF Spec

(* The types of all the gateway's state, for every number of connections,  *)
(* players and logins.                                                     *)
THEOREM TypeOKHolds == Spec => []TypeOK
<1>1. IInv /\ ListInv /\ WatchInv /\ LinkTyped => TypeOK
  BY Zenon DEF IInv, Typed, ListInv, WatchInv, Waits, LinkTyped, TypeOK
<1> QED
  BY <1>1, ContextsInductive, RpcListOrdered, QueueComplete, LinksTyped, PTL
-----------------------------------------------------------------------------
(***************************************************************************)
(* While the world refuses no login.  TranslateCtx and RpcCtx lead from a  *)
(* handler to its client or rpc; here is the way back: the connection of a *)
(* client, or of an rpc, has the handler for it as long as it is open.  A  *)
(* refusal breaks it, because the client stays when the connection goes    *)
(* back to start_auth.                                                     *)
(***************************************************************************)
Serves(k, h) == conn[k] # "none" /\ (conn[k] = "open" => handler[k] = h)

BoundInv ==
    /\ \A p \in Players, k \in Conns : client[p] = k => Serves(k, TranslateHandler(p))
    /\ \A s \in table, k \in Conns : rpcConn[s] = k => Serves(k, RpcHandler(s))
    /\ \A k \in Conns : InQueue(wqueue, k) => conn[k] # "none" /\ ~InSession(k)
    /\ \A k \in Conns : conn[k] = "open" => OneMapped(wqueue, k)

RejectFree == \A i \in 1 .. Len(back) : back[i].type # "reject"

(* No handler is the handler for two things.                               *)
LEMMA HandlersDiffer ==
    /\ \A p, q : TranslateHandler(p) = TranslateHandler(q) => p = q
    /\ \A s, t : RpcHandler(s) = RpcHandler(t) => s = t
    /\ \A p, s : TranslateHandler(p) # RpcHandler(s)
    /\ \A p : /\ TranslateHandler(p) # AuthHandler
              /\ TranslateHandler(p).of = "translate" /\ TranslateHandler(p).pid = p
    /\ \A s : RpcHandler(s) # AuthHandler /\ RpcHandler(s).of = "authserver"
    /\ AuthHandler.of = "auth"
BY Zenon DEF TranslateHandler, RpcHandler, AuthHandler

(* The world sends no refusal.                                             *)
LEMMA StepRejectFree ==
    ASSUME WorldRejects = FALSE, LinkTyped, RejectFree, [Next]_vars
    PROVE  RejectFree'
<1>1. CASE back' = back
  BY Zenon, <1>1 DEF RejectFree
<1>2. ASSUME NEW m, SendWorld(m)
      PROVE  RejectFree'
  BY Zenon, <1>1, <1>2 DEF SendWorld, worldVars
<1>3. ASSUME NEW k \in Conns, ConnStep(k)
      PROVE  RejectFree'
  <2>1. CASE back' = back
    BY Zenon, <1>1, <2>1
  <2>2. CASE \E m : SendWorld(m)
    BY Zenon, <1>2, <2>2
  <2> QED
    BY Zenon, <1>3, <2>1, <2>2 DEF ConnStep, Accept, BadFirst, LoginRequest, PeerClose,
         ClientForward, ClientBad, ClientBadFlag, Logout, worldVars
<1>4. ASSUME NEW s \in Sns, AuthStep(s)
      PROVE  RejectFree'
  BY Zenon, <1>1, <1>2, <1>4 DEF AuthStep, AuthFail, AuthIgnored, AuthPass, worldVars
<1>5. ASSUME NEW p \in Players, WorldStep(p)
      PROVE  RejectFree'
  <2>1. back # <<>> /\ back' = Tail(back)
    BY Zenon, <1>5 DEF WorldStep, HearNobody, HearReject, HearLogout, Hears
  <2>2. \A i \in 1 .. Len(back') : i + 1 \in 1 .. Len(back) /\ back'[i] = back[i + 1]
    BY <2>1 DEF LinkTyped
  <2> QED
    BY Zenon, <2>2 DEF RejectFree
<1>6. CASE WorldHandles
  <2> DEFINE a == [type |-> "logout", pid |-> Head(wire).pid]
  <2>1. back' = back \/ back' = Append(back, a)
    BY Zenon, <1>6 DEF WorldHandles
  <2>2. a.type = "logout"
    BY Zenon
  <2> HIDE DEF a
  <2>3. CASE back' = Append(back, a)
    <3>1. \A i \in 1 .. Len(back') :
            back'[i] = a \/ (i \in 1 .. Len(back) /\ back'[i] = back[i])
      BY <2>3 DEF LinkTyped
    <3> QED
      BY Zenon, <2>2, <3>1 DEF RejectFree
  <2> QED
    BY Zenon, <1>1, <2>1, <2>3
<1>7. CASE WorldClosed
  BY <1>7 DEF WorldClosed, RejectFree
<1>8. CASE AuthConnected \/ AuthClosed \/ WorldConnected \/ Release \/ Update
            \/ UNCHANGED vars
  BY Zenon, <1>1, <1>8 DEF AuthConnected, AuthClosed, WorldConnected, Release, Update,
                    vars, worldVars
<1> QED
  BY Zenon, <1>3, <1>4, <1>5, <1>6, <1>7, <1>8 DEF Next

(* A step that binds nothing: connections may be closed, clients and rpcs  *)
(* may go, and nobody joins the queue.                                     *)
LEMMA BoundKept ==
    ASSUME BoundInv,
           \A k \in Conns : InQueue(wqueue', k) => InQueue(wqueue, k),
           \A k \in Conns : OneMapped(wqueue, k) => OneMapped(wqueue', k),
           \A k \in Conns : conn'[k] = "open" => conn[k] = "open" /\ handler'[k] = handler[k],
           \A k \in Conns : conn[k] # "none" => conn'[k] # "none",
           \A p \in Players : client'[p] = client[p] \/ client'[p] = NoConn,
           table' \subseteq table,
           \A s \in table' : rpcConn'[s] = rpcConn[s] \/ rpcConn'[s] = NoConn
    PROVE  BoundInv'
<1>1. \A k \in Conns : \A h : Serves(k, h) => Serves(k, h)'
  BY Zenon DEF Serves
<1>2. \A p \in Players, k \in Conns : client'[p] = k => Serves(k, TranslateHandler(p))'
  BY Zenon, <1>1, GatewayAssumption DEF BoundInv
<1>3. \A s \in table', k \in Conns : rpcConn'[s] = k => Serves(k, RpcHandler(s))'
  BY Zenon, <1>1, GatewayAssumption DEF BoundInv
<1>4. \A k \in Conns : InQueue(wqueue', k) => conn'[k] # "none" /\ ~InSession(k)'
  BY Zenon DEF BoundInv, InSession
<1> QED
  BY Zenon, <1>2, <1>3, <1>4 DEF BoundInv

(* start_auth on j, for a connection that is new or closing: the rest of   *)
(* the queue keeps its entries.                                            *)
LEMMA StartAuthQueue ==
    ASSUME wqueue \in Seq(Waits), BoundInv, NEW j \in Conns, wqueue' = NewWaiting(j),
           \A k \in Conns \ {j} : conn'[k] = "open" =>
               conn[k] = "open" /\ handler'[k] = handler[k] /\ k \notin Reaped,
           \A k \in Conns : conn[k] # "none" => conn'[k] # "none",
           conn'[j] # "none", ~InSession(j)',
           conn'[j] = "open" => ~InQueue(wqueue, j)
    PROVE  /\ \A k \in Conns : InQueue(wqueue', k) => conn'[k] # "none" /\ ~InSession(k)'
           /\ \A k \in Conns : conn'[k] = "open" => OneMapped(wqueue', k)
<1>1. \A k \in Conns : InQueue(wqueue', k) => k = j \/ InQueue(wqueue, k)
  BY Zenon, NewWaitingMembers
<1>2. \A k \in Conns : InQueue(wqueue', k) => conn'[k] # "none" /\ ~InSession(k)'
  BY Zenon, <1>1 DEF BoundInv, InSession
<1>3. \A k \in Conns \ {j} : conn'[k] = "open" => OneMapped(wqueue', k)
  BY Zenon, NewWaitingMembers DEF BoundInv
<1>4. conn'[j] = "open" => OneMapped(wqueue', j)
  BY Zenon, NewWaitingMembers
<1> QED
  BY Zenon, <1>2, <1>3, <1>4

(* An accepted connection has no client, no rpc and no entry yet.          *)
LEMMA AcceptBound ==
    ASSUME IInv, wqueue \in Seq(Waits), BoundInv, NEW k \in Conns, Accept(k)
    PROVE  BoundInv'
<1>1. /\ conn[k] = "none" /\ conn' = [Shut(Reaped) EXCEPT ![k] = "open"]
      /\ handler' = [handler EXCEPT ![k] = AuthHandler] /\ wqueue' = NewWaiting(k)
      /\ UNCHANGED <<table, rpcConn, client>>
  BY Zenon DEF Accept, rpcVars
<1>2. \A j \in Conns \ {k} : conn'[j] = "open" =>
        conn[j] = "open" /\ handler'[j] = handler[j] /\ j \notin Reaped
  BY <1>1, ShutCloses DEF IInv, Typed
<1>3. \A j \in Conns : conn[j] # "none" => conn'[j] # "none" /\ j # k
  BY Zenon, <1>1 DEF IInv, Typed, Shut
<1>4. conn'[k] = "open" /\ ~InSession(k)' /\ ~InQueue(wqueue, k)
  BY Zenon, <1>1 DEF IInv, Typed, InSession, AuthHandler, BoundInv, Shut
<1>5. /\ \A j \in Conns : InQueue(wqueue', j) => conn'[j] # "none" /\ ~InSession(j)'
      /\ \A j \in Conns : conn'[j] = "open" => OneMapped(wqueue', j)
  BY Zenon, <1>1, <1>2, <1>3, <1>4, StartAuthQueue
<1>6. \A j \in Conns : \A h : Serves(j, h) => Serves(j, h)'
  BY Zenon, <1>2, <1>3 DEF Serves
<1> QED
  BY Zenon, <1>1, <1>5, <1>6 DEF BoundInv

(* A login comes from a connection that has neither client nor rpc.        *)
LEMMA LoginRequestBound ==
    ASSUME IInv, BoundInv, NEW k \in Conns, LoginRequest(k)
    PROVE  BoundInv'
<1>1. /\ conn[k] = "open" /\ handler[k].of = "auth" /\ client' = client /\ wqueue' = wqueue
      /\ handler' = [handler EXCEPT ![k] = RpcHandler(sn')]
      /\ table' = table \cup {sn'} /\ rpcConn' = [rpcConn EXCEPT ![sn'] = k]
  BY Zenon DEF LoginRequest, FileRpc
<1>2. sn' \in Sns /\ sn' \notin table
  BY GatewayAssumption DEF LoginRequest, FileRpc, IInv, Typed, Sns
<1>3. \A j \in Conns : /\ conn'[j] = "open" => conn[j] = "open"
                       /\ conn[j] # "none" => conn'[j] # "none"
  BY ShutCloses DEF LoginRequest, IInv, Typed, Shut
<1>4. handler'[k] = RpcHandler(sn') /\ \A j \in Conns \ {k} : handler'[j] = handler[j]
  BY Zenon, <1>1 DEF IInv, Typed
<1>5. \A j \in Conns : \A h : Serves(j, h) /\ h.of # "auth" => j # k
  BY Zenon, <1>1 DEF Serves
<1>6. \A j \in Conns : \A h : Serves(j, h) /\ j # k => Serves(j, h)'
  BY Zenon, <1>3, <1>4 DEF Serves
<1>7. \A p \in Players, j \in Conns : client'[p] = j => Serves(j, TranslateHandler(p))'
  BY Zenon, <1>1, <1>5, <1>6, HandlersDiffer DEF BoundInv
<1>8. \A s \in table', j \in Conns : rpcConn'[s] = j => Serves(j, RpcHandler(s))'
  <2> SUFFICES ASSUME NEW s \in table', NEW j \in Conns, rpcConn'[s] = j
               PROVE  Serves(j, RpcHandler(s))'
    BY Zenon
  <2>1. CASE s = sn'
    BY Zenon, <1>1, <1>2, <1>3, <1>4, <2>1 DEF IInv, Typed, Serves
  <2>2. CASE s # sn'
    <3>1. s \in table /\ rpcConn[s] = j
      BY Zenon, <1>1, <2>2 DEF IInv, Typed
    <3> QED
      BY Zenon, <1>5, <1>6, <3>1, HandlersDiffer DEF BoundInv
  <2> QED
    BY Zenon, <2>1, <2>2
<1>9. \A j \in Conns : InQueue(wqueue', j) => conn'[j] # "none" /\ ~InSession(j)'
  BY <1>1, <1>3, <1>4, HandlersDiffer DEF BoundInv, InSession
<1>10. \A j \in Conns : conn'[j] = "open" => OneMapped(wqueue', j)
  BY Zenon, <1>1, <1>3 DEF BoundInv
<1> QED
  BY Zenon, <1>7, <1>8, <1>9, <1>10 DEF BoundInv

(* send_logout ends the session of k and closes k.                         *)
LEMMA LogoutBound ==
    ASSUME IInv, wqueue \in Seq(Waits), BoundInv, NEW k \in Conns, InSession(k), Logout(k)
    PROVE  BoundInv'
<1>1. /\ conn' = Shut(Reaped \cup {k}) /\ handler' = [handler EXCEPT ![k] = AuthHandler]
      /\ wqueue' = NewWaiting(k) /\ client' = [client EXCEPT ![handler[k].pid] = NoConn]
      /\ UNCHANGED <<table, rpcConn>>
  BY Zenon DEF Logout, rpcVars
<1>2. \A j \in Conns : conn'[j] = "open" =>
        j # k /\ conn[j] = "open" /\ handler'[j] = handler[j] /\ j \notin Reaped
  BY <1>1, ShutCloses DEF IInv, Typed
<1>3. \A j \in Conns : conn[j] # "none" => conn'[j] # "none"
  BY Zenon, <1>1 DEF IInv, Typed, Shut
<1>4. conn'[k] # "none" /\ conn'[k] # "open" /\ ~InSession(k)'
  BY Zenon, <1>2, <1>3 DEF InSession
<1>5. /\ \A j \in Conns : InQueue(wqueue', j) => conn'[j] # "none" /\ ~InSession(j)'
      /\ \A j \in Conns : conn'[j] = "open" => OneMapped(wqueue', j)
  BY <1>1, <1>2, <1>3, <1>4, StartAuthQueue, ZenonT(30)
<1>6. \A j \in Conns : \A h : Serves(j, h) => Serves(j, h)'
  BY Zenon, <1>2, <1>3 DEF Serves
<1>7. \A p \in Players : client'[p] = client[p] \/ client'[p] = NoConn
  BY Zenon, <1>1 DEF IInv, Typed
<1> QED
  BY Zenon, <1>1, <1>5, <1>6, <1>7, GatewayAssumption DEF BoundInv

(* after_auth binds the player's client to the connection of the rpc.      *)
(* That connection has no other client, because its handler is the rpc's;  *)
(* an old connection of the player goes back to the queue, where it is not *)
(* yet, because it had a session.                                          *)
LEMMA AuthPassBound ==
    ASSUME IInv, wqueue \in Seq(Waits), BoundInv,
           NEW s \in Sns, NEW p \in Players, AuthPass(s, p)
    PROVE  BoundInv'
<1> DEFINE k == rpcConn[s]
           c == client[p]
           q == IF Elsewhere(p, k) THEN NewWaiting(c) ELSE wqueue
<1>1. /\ s \in table /\ k \in Conns
      /\ conn' = IF Elsewhere(p, k) THEN Shut(Reaped) ELSE conn
      /\ wqueue' = RemoveWaiting(q, k)
      /\ TakeOver(p, k) /\ client' = [client EXCEPT ![p] = k] /\ DropRpc(s)
  BY Zenon DEF AuthPass, BindClient
<1>2. table' = table \ {s} /\ \A t \in table' : rpcConn'[t] = rpcConn[t]
  BY Zenon, <1>1 DEF DropRpc, IInv, Typed
<1>3. Serves(k, RpcHandler(s)) /\ (Elsewhere(p, k) => c \in Conns \ {k})
      /\ (c \in Conns => Serves(c, TranslateHandler(p)))
  BY Zenon, <1>1 DEF BoundInv, Elsewhere
<1>4. /\ q \in Seq(Waits)
      /\ Elsewhere(p, k) => q = NewWaiting(c)
      /\ ~Elsewhere(p, k) => q = wqueue
  BY Zenon, <1>3, NewWaitingMembers
<1> HIDE DEF k, q
<1>5. \A j \in Conns : /\ conn'[j] = "open" => conn[j] = "open" /\
                            (Elsewhere(p, k) => j \notin Reaped)
                       /\ conn[j] # "none" => conn'[j] # "none"
  BY Zenon, <1>1, ShutCloses DEF IInv, Typed, Shut
<1>6. \A j \in Conns : conn[j] = "open" =>
        /\ j = k => handler'[j] = TranslateHandler(p)
        /\ j # k /\ j = c => handler'[j] = AuthHandler
        /\ j # k /\ j # c => handler'[j] = handler[j]
  BY Zenon, <1>1 DEF TakeOver, Resolves, Elsewhere
<1> HIDE DEF c
<1>7. \A j \in Conns : \A h : Serves(j, h) /\ h # RpcHandler(s) /\ h # TranslateHandler(p)
                                => Serves(j, h)'
  BY Zenon, <1>3, <1>5, <1>6 DEF Serves
<1>8. \A r \in Players, j \in Conns : client'[r] = j => Serves(j, TranslateHandler(r))'
  <2> SUFFICES ASSUME NEW r \in Players, NEW j \in Conns, client'[r] = j
               PROVE  Serves(j, TranslateHandler(r))'
    BY Zenon
  <2>1. CASE r = p
    <3>1. j = k
      BY Zenon, <1>1, <2>1 DEF IInv, Typed
    <3> QED
      BY Zenon, <1>1, <1>3, <1>5, <1>6, <2>1, <3>1 DEF Serves
  <2>2. CASE r # p
    <3>1. client[r] = j
      BY Zenon, <1>1, <2>2 DEF IInv, Typed
    <3>2. Serves(j, TranslateHandler(r))
      BY Zenon, <3>1 DEF BoundInv
    <3> QED
      BY Zenon, <1>7, <2>2, <3>2, HandlersDiffer
  <2> QED
    BY Zenon, <2>1, <2>2
<1>9. \A t \in table', j \in Conns : rpcConn'[t] = j => Serves(j, RpcHandler(t))'
  BY <1>2, <1>7, HandlersDiffer DEF BoundInv
<1>10. ASSUME NEW j \in Conns, conn'[j] = "open"
       PROVE  OneMapped(q, j)
  <2>1. OneMapped(wqueue, j)
    BY Zenon, <1>5, <1>10 DEF BoundInv
  <2>2. CASE ~Elsewhere(p, k)
    BY Zenon, <1>4, <2>1, <2>2
  <2>3. CASE Elsewhere(p, k) /\ j # c
    <3>1. j \notin Reaped \cup {c}
      BY Zenon, <1>5, <1>10, <2>3
    <3> QED
      BY Zenon, <1>3, <1>4, <2>1, <2>3, <3>1, NewWaitingMembers
  <2>4. CASE Elsewhere(p, k) /\ j = c
    <3>1. InSession(c)
      BY Zenon, <1>3, <1>5, <1>10, <2>4, HandlersDiffer DEF Serves, InSession
    <3>2. ~InQueue(wqueue, c)
      BY Zenon, <1>3, <2>4, <3>1 DEF BoundInv
    <3> QED
      BY Zenon, <1>3, <1>4, <2>4, <3>2, NewWaitingMembers
  <2> QED
    BY Zenon, <2>2, <2>3, <2>4
<1>11. \A j \in Conns : conn'[j] = "open" => OneMapped(wqueue', j)
  BY <1>1, <1>4, <1>10, RemoveWaitingMembers, ZenonT(30)
<1>12. \A j \in Conns : InQueue(wqueue', j) => conn'[j] # "none" /\ ~InSession(j)'
  <2> SUFFICES ASSUME NEW j \in Conns, InQueue(wqueue', j)
               PROVE  conn'[j] # "none" /\ ~InSession(j)'
    BY Zenon
  <2>1. InQueue(q, j)
    BY Zenon, <1>1, <1>4, RemoveWaitingMembers
  <2>2. InQueue(wqueue, j) \/ (Elsewhere(p, k) /\ j = c)
    BY Zenon, <1>3, <1>4, <2>1, NewWaitingMembers
  <2>3. conn'[j] # "none"
    BY Zenon, <1>3, <1>5, <2>2 DEF BoundInv, Serves
  <2>4. ASSUME conn'[j] = "open"
        PROVE  j # k
    BY Zenon, <1>1, <1>4, <1>10, <2>4, RemoveWaitingMembers
  <2>5. ASSUME conn'[j] = "open"
        PROVE  handler'[j].of # "translate"
    <3>1. conn[j] = "open" /\ j # k
      BY Zenon, <1>5, <2>4, <2>5
    <3>2. CASE j = c
      BY Zenon, <1>6, <3>1, <3>2, HandlersDiffer
    <3>3. CASE j # c
      <4>1. handler'[j] = handler[j] /\ InQueue(wqueue, j)
        BY Zenon, <1>6, <2>2, <3>1, <3>3
      <4> QED
        BY Zenon, <3>1, <4>1 DEF BoundInv, InSession
    <3> QED
      BY Zenon, <3>2, <3>3
  <2> QED
    BY Zenon, <2>3, <2>5 DEF InSession
<1> QED
  BY Zenon, <1>8, <1>9, <1>11, <1>12 DEF BoundInv

(* Every step keeps the bindings, as long as no refusal is under way.      *)
LEMMA StepBound ==
    ASSUME IInv, WatchInv, LinkTyped, RejectFree, BoundInv, [Next]_vars
    PROVE  BoundInv'
<1>1. wqueue \in Seq(Waits) /\ Typed
  BY Zenon DEF WatchInv, IInv
<1>2. \A S : /\ \A k \in Conns : Shut(S)[k] = "open" => conn[k] = "open"
             /\ \A k \in Conns : conn[k] # "none" => Shut(S)[k] # "none"
  BY Zenon, <1>1, ShutCloses DEF Typed, Shut
<1>3. ASSUME wqueue' = wqueue, handler' = handler,
             conn' = conn \/ (\E S : conn' = Shut(S)),
             \A p \in Players : client'[p] = client[p] \/ client'[p] = NoConn,
             table' \subseteq table,
             \A s \in table' : rpcConn'[s] = rpcConn[s] \/ rpcConn'[s] = NoConn
      PROVE  BoundInv'
  <2>1. /\ \A k \in Conns : conn'[k] = "open" => conn[k] = "open" /\ handler'[k] = handler[k]
        /\ \A k \in Conns : conn[k] # "none" => conn'[k] # "none"
    BY Zenon, <1>2, <1>3
  <2> QED
    BY Zenon, <1>3, <2>1, BoundKept
<1>4. ASSUME NEW k \in Conns, ConnStep(k)
      PROVE  BoundInv'
  <2>1. CASE Accept(k)
    BY Zenon, <1>1, <2>1, AcceptBound
  <2>2. CASE LoginRequest(k)
    BY Zenon, <2>2, LoginRequestBound
  <2>3. CASE ClientBadFlag(k)
    BY Zenon, <1>1, <2>3, LogoutBound DEF ClientBadFlag
  <2>4. CASE BadFirst(k) \/ ClientForward(k, "login") \/ ClientForward(k, "logout")
    BY Zenon, <1>3, <2>4 DEF BadFirst, ClientForward, connVars, rpcVars
  <2>5. CASE ClientBad(k)
    <3>1. \A p \in Players : client'[p] = client[p] \/ client'[p] = NoConn
      BY Zenon, <1>1, <2>5 DEF ClientBad, Typed
    <3> QED
      BY Zenon, <1>3, <2>5, <3>1 DEF ClientBad, rpcVars
  <2>6. CASE PeerClose(k)
    <3>1. CASE handler[k].of = "auth"
      BY Zenon, <1>3, <2>6, <3>1 DEF PeerClose, rpcVars
    <3>2. CASE handler[k].of = "authserver"
      <4>1. /\ conn' = Shut({k}) /\ UNCHANGED <<handler, wqueue, table, client>>
            /\ rpcConn' = [rpcConn EXCEPT ![handler[k].rpc] = NoConn]
        BY Zenon, <2>6, <3>2 DEF PeerClose
      <4>2. \A s \in table' : rpcConn'[s] = rpcConn[s] \/ rpcConn'[s] = NoConn
        BY Zenon, <1>1, <4>1 DEF Typed
      <4> QED
        BY Zenon, <1>3, <4>1, <4>2
    <3>3. CASE handler[k].of = "translate"
      BY Zenon, <1>1, <2>6, <3>3, LogoutBound DEF PeerClose, IInv, TranslateCtx, InSession
    <3> QED
      BY Zenon, <2>6, <3>1, <3>2, <3>3 DEF PeerClose
  <2> QED
    BY Zenon, <1>4, <2>1, <2>2, <2>3, <2>4, <2>5, <2>6 DEF ConnStep
<1>5. ASSUME NEW s \in Sns, AuthStep(s)
      PROVE  BoundInv'
  <2>1. CASE \E p \in Players : AuthPass(s, p)
    BY Zenon, <1>1, <2>1, AuthPassBound
  <2>2. CASE AuthFail(s) \/ AuthIgnored(s)
    <3>1. /\ wqueue' = wqueue /\ handler' = handler /\ client' = client
          /\ conn' = conn \/ (\E S : conn' = Shut(S))
          /\ DropRpc(s)
      BY Zenon, <2>2 DEF AuthFail, AuthIgnored, connVars
    <3>2. table' \subseteq table /\ \A t \in table' : rpcConn'[t] = rpcConn[t]
      BY Zenon, <1>1, <3>1 DEF DropRpc, Typed
    <3> QED
      BY Zenon, <1>3, <3>1, <3>2
  <2> QED
    BY Zenon, <1>5, <2>1, <2>2 DEF AuthStep
<1>6. ASSUME NEW p \in Players, WorldStep(p)
      PROVE  BoundInv'
  <2>1. CASE HearNobody(p)
    BY Zenon, <1>3, <2>1 DEF HearNobody, connVars, rpcVars
  <2>2. CASE HearLogout(p)
    <3>1. \A r \in Players : client'[r] = client[r] \/ client'[r] = NoConn
      BY Zenon, <1>1, <2>2 DEF HearLogout, Typed
    <3> QED
      BY Zenon, <1>3, <2>2, <3>1 DEF HearLogout, rpcVars
  <2>3. CASE HearReject(p)
    <3>1. back # <<>> /\ Head(back) = [type |-> "reject", pid |-> p]
      BY Zenon, <2>3 DEF HearReject, Hears
    <3>2. 1 \in 1 .. Len(back) /\ back[1] = [type |-> "reject", pid |-> p]
      BY <3>1 DEF LinkTyped
    <3> QED
      BY <3>2 DEF RejectFree
  <2> QED
    BY Zenon, <1>6, <2>1, <2>2, <2>3 DEF WorldStep
<1>7. CASE AuthConnected \/ AuthClosed \/ WorldConnected \/ WorldClosed \/ WorldHandles
            \/ UNCHANGED vars
  BY Zenon, <1>3, <1>7
     DEF AuthConnected, AuthClosed, WorldConnected, WorldClosed, WorldHandles,
                    vars, connVars, rpcVars
<1>8. CASE Release
  <2>1. /\ \A k \in Conns : conn'[k] = "open" => conn[k] = "open" /\ handler'[k] = handler[k]
        /\ \A k \in Conns : conn[k] # "none" => conn'[k] # "none"
    BY Zenon, <1>1, <1>8 DEF Release, Typed
  <2> QED
    BY Zenon, <1>8, <2>1, BoundKept DEF Release, rpcVars
<1>9. CASE Update
  <2>1. /\ table' \subseteq table
        /\ conn' = Shut({rpcConn[s] : s \in Expired})
        /\ rpcConn' = [s \in Sns |-> IF s \in Expired THEN NoConn ELSE rpcConn[s]]
        /\ UNCHANGED <<handler, client>>
    BY Zenon, <1>9 DEF Update
  <2>2. \A s \in table' : rpcConn'[s] = rpcConn[s] \/ rpcConn'[s] = NoConn
    BY Zenon, <1>1, <2>1 DEF Typed
  <2>3. /\ \A k \in Conns : conn'[k] = "open" => conn[k] = "open" /\ handler'[k] = handler[k]
        /\ \A k \in Conns : conn[k] # "none" => conn'[k] # "none"
    BY Zenon, <1>2, <2>1
  <2>4. /\ \A k \in Conns : InQueue(wqueue', k) => InQueue(wqueue, k)
        /\ \A k \in Conns : OneMapped(wqueue, k) => OneMapped(wqueue', k)
    BY Zenon, <1>1, <1>9, UpdateMembers
  <2> QED
    BY Zenon, <2>1, <2>2, <2>3, <2>4, BoundKept
<1> QED
  BY Zenon, <1>4, <1>5, <1>6, <1>7, <1>8, <1>9 DEF Next

(* When the modules are loaded nothing is bound.                           *)
LEMMA InitBound == Init => BoundInv /\ RejectFree
<1> SUFFICES ASSUME Init
             PROVE  BoundInv /\ RejectFree
  BY Zenon
<1>1. /\ conn = [k \in Conns |-> "none"] /\ wqueue = <<>> /\ table = {} /\ back = <<>>
      /\ client = [p \in Players |-> NoConn]
  BY Zenon DEF Init
<1> QED
  BY <1>1, GatewayAssumption DEF BoundInv, RejectFree, InQueue, OneMapped

(* While the world refuses no login: an open connection is the client of   *)
(* one player only, and no session is in wqueue, where it would be closed  *)
(* as idle; under take-overs, late verdicts and broken links.              *)
THEOREM ExclusiveBindingHolds ==
    ASSUME WorldRejects = FALSE
    PROVE  Spec => []ExclusiveBinding
<1>1. LinkTyped /\ RejectFree /\ [Next]_vars => RejectFree'
  BY StepRejectFree, ZenonT(30)
<1>2. IInv /\ WatchInv /\ LinkTyped /\ RejectFree /\ BoundInv /\ [Next]_vars => BoundInv'
  BY Zenon, StepBound
<1>3. IInv /\ WatchInv /\ BoundInv => ExclusiveBinding
  <2> SUFFICES ASSUME IInv, WatchInv, BoundInv
               PROVE  ExclusiveBinding
    BY Zenon
  <2>1. \A p, q \in Clients : client[p] = client[q] /\ conn[client[p]] = "open" => p = q
    <3> SUFFICES ASSUME NEW p \in Clients, NEW q \in Clients, client[p] = client[q],
                        conn[client[p]] = "open"
                 PROVE  p = q
      BY Zenon
    <3>1. p \in Players /\ q \in Players /\ client[p] \in Conns
      BY Zenon DEF Clients, IInv, Typed
    <3>2. Serves(client[p], TranslateHandler(p)) /\ Serves(client[p], TranslateHandler(q))
      BY Zenon, <3>1 DEF BoundInv
    <3> QED
      BY Zenon, <3>2, HandlersDiffer DEF Serves
  <2>2. \A i \in 1 .. Len(wqueue) : wqueue[i].conn \in Conns /\ InQueue(wqueue, wqueue[i].conn)
    <3> TAKE i \in 1 .. Len(wqueue)
    <3>1. wqueue[i] \in Waits
      BY DEF WatchInv
    <3>2. wqueue[i].conn \in Conns
      BY Zenon, <3>1 DEF Waits
    <3> QED
      BY Zenon, <3>2 DEF InQueue
  <2> QED
    BY Zenon, <2>1, <2>2 DEF ExclusiveBinding, BoundInv
<1> QED
  BY <1>1, <1>2, <1>3, InitBound, ContextsInductive, QueueComplete, LinksTyped, PTL
     DEF Spec
-----------------------------------------------------------------------------
(***************************************************************************)
(* What the world knows.  SessionKnown speaks of a quiet link; the         *)
(* invariant says what is under way on a busy one.  For the player of a    *)
(* session: an answer is on its way that will end the session, or a logout *)
(* that will be answered so, or an announcement of the player, or the      *)
(* world knows the player and nothing under way replaces what it knows.    *)
(* Only the first message of a link is a registration.                     *)
(***************************************************************************)
Announces(m, p) ==
    \/ m.type = "login" /\ m.pid = p
    \/ m.type = "register" /\ p \in m.players

Known(p) ==
    \/ \E i \in 1 .. Len(back) : back[i].pid = p
    \/ \E i \in 1 .. Len(wire) : wire[i].type = "logout" /\ wire[i].pid = p
    \/ \E i \in 1 .. Len(wire) : Announces(wire[i], p)
    \/ p \in online /\ \A i \in 1 .. Len(wire) : wire[i].type # "register"

KnownInv ==
    /\ \A i \in 2 .. Len(wire) : wire[i].type # "register"
    /\ worldLink = "up" => \A k \in Conns : InSession(k) => Known(handler[k].pid)

(* A step that starts no session and leaves the link to the world alone.   *)
LEMMA KnownKept ==
    ASSUME KnownInv, UNCHANGED <<wire, back, online>>,
           worldLink' = "up" => worldLink = "up",
           \A k \in Conns : InSession(k)' => InSession(k) /\ handler'[k] = handler[k]
    PROVE  KnownInv'
<1>1. \A p : Known(p)' <=> Known(p)
  BY Zenon DEF Known, Announces
<1> QED
  BY Zenon, <1>1 DEF KnownInv

(* A login or a logout sent on the link: nobody is forgotten, and who logs *)
(* in is announced.                                                        *)
LEMMA SendKnown ==
    ASSUME LinkTyped, \A i \in 2 .. Len(wire) : wire[i].type # "register",
           NEW t \in {"login", "logout"}, NEW p \in Players,
           SendWorld([type |-> t, pid |-> p])
    PROVE  /\ worldLink' = worldLink
           /\ \A i \in 2 .. Len(wire') : wire'[i].type # "register"
           /\ \A r : Known(r) => Known(r)'
           /\ worldLink = "up" /\ t = "login" => Known(p)'
<1> DEFINE m == [type |-> t, pid |-> p]
<1>1. CASE worldLink # "up"
  <2>1. UNCHANGED <<worldLink, wire, back, online>>
    BY Zenon, <1>1 DEF SendWorld, worldVars
  <2> QED
    BY Zenon, <1>1, <2>1 DEF Known, Announces
<1>2. CASE worldLink = "up"
  <2>1. wire' = Append(wire, m) /\ UNCHANGED <<worldLink, back, online>>
    BY Zenon, <1>2 DEF SendWorld
  <2>2. m \in Requests /\ m.type = t /\ m.pid = p
    BY Zenon, MessagesTyped
  <2> HIDE DEF m
  <2>3. /\ Len(wire) \in Nat /\ Len(wire') = Len(wire) + 1
        /\ \A i \in 1 .. Len(wire) : wire'[i] = wire[i]
        /\ wire'[Len(wire) + 1] = m
    BY <2>1, <2>2 DEF LinkTyped
  <2>4. /\ \A i \in 1 .. Len(wire) : i \in 1 .. Len(wire')
        /\ Len(wire) + 1 \in 1 .. Len(wire')
        /\ \A i \in 1 .. Len(wire') : i \in 1 .. Len(wire) \/ i = Len(wire) + 1
        /\ \A i \in 2 .. Len(wire') : i \in 2 .. Len(wire) \/ i = Len(wire) + 1
    BY <2>3
  <2>5. \A i \in 2 .. Len(wire') : wire'[i].type # "register"
    BY <2>2, <2>3, <2>4
  <2>6. ASSUME NEW r, Known(r)
        PROVE  Known(r)'
    BY Zenon, <2>1, <2>2, <2>3, <2>4, <2>6 DEF Known, Announces
  <2>7. t = "login" => Known(p)'
    BY Zenon, <2>2, <2>3, <2>4 DEF Known, Announces
  <2> QED
    BY Zenon, <2>1, <2>5, <2>6, <2>7
<1> QED
  BY Zenon, <1>1, <1>2

(* The world handles the first message: what it leaves is the rest of the  *)
(* wire, none of it a registration.                                        *)
LEMMA HandlesKnown ==
    ASSUME LinkTyped, KnownInv, WorldHandles, NEW p \in Players, Known(p)
    PROVE  Known(p)'
<1> DEFINE m == Head(wire)
           a(t) == [type |-> t, pid |-> m.pid]
<1>1. wire # <<>> /\ wire' = Tail(wire)
  BY Zenon DEF WorldHandles
<1>2. \/ m.type = "register" /\ online' = m.players /\ back' = back
      \/ m.type = "login" /\ online' = online \cup {m.pid} /\ back' = back
      \/ m.type = "login" /\ online' = online \ {m.pid} /\ back' = Append(back, a("reject"))
      \/ m.type = "logout" /\ online' = online \ {m.pid} /\ back' = Append(back, a("logout"))
  BY Zenon DEF WorldHandles
<1>3. /\ Len(wire) \in Nat \ {0} /\ m = wire[1] /\ m \in Requests
      /\ Len(wire') = Len(wire) - 1
      /\ \A i \in 1 .. Len(wire) - 1 : wire'[i] = wire[i + 1]
  BY <1>1 DEF LinkTyped
<1> HIDE DEF m
<1>4. \A i \in 1 .. Len(wire') : wire'[i].type # "register"
  BY <1>3 DEF KnownInv
<1>5. ASSUME NEW i \in 1 .. Len(wire), i # 1
      PROVE  i - 1 \in 1 .. Len(wire') /\ wire'[i - 1] = wire[i]
  BY <1>3, <1>5
<1>6. CASE \E i \in 1 .. Len(back) : back[i].pid = p
  <2>1. PICK i \in 1 .. Len(back) : back[i].pid = p
    BY Zenon, <1>6
  <2>2. back' = back \/ \E b \in Answers : back' = Append(back, b)
    <3>1. m.type \in {"login", "logout"} => a("reject") \in Answers /\ a("logout") \in Answers
      BY Zenon, <1>3, MessagesTyped
    <3> HIDE DEF a
    <3> QED
      BY Zenon, <1>2, <3>1
  <2>3. i \in 1 .. Len(back') /\ back'[i] = back[i]
    BY <2>1, <2>2 DEF LinkTyped
  <2> QED
    BY Zenon, <2>1, <2>3 DEF Known
<1>7. ASSUME NEW t \in {"reject", "logout"}, m.pid = p, m.type \in {"login", "logout"},
             back' = Append(back, a(t))
      PROVE  Known(p)'
  <2>1. a(t) \in Answers /\ a(t).pid = p
    BY Zenon, <1>3, <1>7, MessagesTyped
  <2> HIDE DEF a
  <2>2. Len(back) + 1 \in 1 .. Len(back') /\ back'[Len(back) + 1] = a(t)
    BY <1>7, <2>1 DEF LinkTyped
  <2> QED
    BY Zenon, <2>1, <2>2 DEF Known
<1> HIDE DEF a
<1>8. CASE \E i \in 1 .. Len(wire) : wire[i].type = "logout" /\ wire[i].pid = p
  <2>1. PICK i \in 1 .. Len(wire) : wire[i].type = "logout" /\ wire[i].pid = p
    BY Zenon, <1>8
  <2>2. CASE i = 1
    BY Zenon, <1>2, <1>3, <1>7, <2>1, <2>2
  <2>3. CASE i # 1
    BY Zenon, <1>5, <2>1, <2>3 DEF Known
  <2> QED
    BY Zenon, <2>2, <2>3
<1>9. CASE \E i \in 1 .. Len(wire) : Announces(wire[i], p)
  <2>1. PICK i \in 1 .. Len(wire) : Announces(wire[i], p)
    BY Zenon, <1>9
  <2>2. CASE i = 1
    <3>1. CASE m.type = "register"
      BY Zenon, <1>2, <1>3, <1>4, <2>1, <2>2, <3>1 DEF Known, Announces
    <3>2. CASE m.type = "login" /\ m.pid = p
      BY Zenon, <1>2, <1>4, <1>7, <3>2 DEF Known
    <3> QED
      BY Zenon, <1>3, <2>1, <2>2, <3>1, <3>2 DEF Announces
  <2>3. CASE i # 1
    BY Zenon, <1>5, <2>1, <2>3 DEF Known, Announces
  <2> QED
    BY Zenon, <2>2, <2>3
<1>10. CASE p \in online /\ \A i \in 1 .. Len(wire) : wire[i].type # "register"
  <2>1. m.type # "register"
    BY <1>3, <1>10
  <2>2. CASE m.pid = p
    BY Zenon, <1>2, <1>4, <1>7, <1>10, <2>1, <2>2 DEF Known
  <2>3. CASE m.pid # p
    BY Zenon, <1>2, <1>4, <1>10, <2>1, <2>3 DEF Known
  <2> QED
    BY Zenon, <2>2, <2>3
<1> QED
  BY Zenon, <1>6, <1>8, <1>9, <1>10 DEF Known

(* An answer to the player p is heard: the session of p is over, and the   *)
(* answers to the players of the other sessions are still there.           *)
LEMMA HearKnown ==
    ASSUME IInv, LinkTyped, KnownInv, NEW p \in Players, WorldStep(p)
    PROVE  KnownInv'
<1>1. /\ back # <<>> /\ back' = Tail(back) /\ Head(back).pid = p
      /\ UNCHANGED <<worldLink, wire, online>>
  BY DEF WorldStep, HearNobody, HearReject, HearLogout, Hears
<1>2. ASSUME NEW k \in Conns, InSession(k)'
      PROVE  InSession(k) /\ handler'[k] = handler[k] /\ client[p] # k
  <2>1. CASE HearNobody(p)
    BY Zenon, <1>2, <2>1, GatewayAssumption DEF HearNobody, connVars, InSession
  <2>2. CASE HearReject(p)
    <3>1. conn[k] = "open"
      BY Zenon, <1>2, <2>2, ShutCloses DEF HearReject, InSession, IInv
    <3>2. handler' = [handler EXCEPT ![client[p]] = AuthHandler] \/ client[p] # k
      BY Zenon, <2>2, <3>1 DEF HearReject, SetHandler, Resolves
    <3>3. client[p] # k
      BY Zenon, <1>2, <3>2, HandlersDiffer DEF InSession, IInv, Typed
    <3>4. handler'[k] = handler[k]
      BY Zenon, <2>2, <3>3 DEF HearReject, SetHandler, IInv, Typed
    <3> QED
      BY Zenon, <1>2, <3>1, <3>3, <3>4 DEF InSession
  <2>3. CASE HearLogout(p)
    BY Zenon, <1>2, <2>3, ShutCloses DEF HearLogout, InSession, IInv
  <2> QED
    BY Zenon, <2>1, <2>2, <2>3 DEF WorldStep
<1>3. ASSUME NEW r, r # p, Known(r)
      PROVE  Known(r)'
  <2>1. /\ Len(back) \in Nat \ {0} /\ Head(back) = back[1] /\ Len(back') = Len(back) - 1
        /\ \A i \in 1 .. Len(back) - 1 : back'[i] = back[i + 1]
    BY <1>1 DEF LinkTyped
  <2>2. CASE \E i \in 1 .. Len(back) : back[i].pid = r
    <3>1. PICK i \in 1 .. Len(back) : back[i].pid = r
      BY Zenon, <2>2
    <3>2. i # 1
      BY Zenon, <1>1, <1>3, <2>1, <3>1
    <3>3. i - 1 \in 1 .. Len(back') /\ back'[i - 1] = back[i]
      BY <2>1, <3>2
    <3> QED
      BY Zenon, <3>1, <3>3 DEF Known
  <2>3. CASE ~(\E i \in 1 .. Len(back) : back[i].pid = r)
    BY Zenon, <1>1, <1>3, <2>3 DEF Known, Announces
  <2> QED
    BY Zenon, <2>2, <2>3
<1>4. ASSUME NEW k \in Conns, worldLink' = "up", InSession(k)'
      PROVE  Known(handler[k].pid)' /\ handler'[k] = handler[k]
  <2>1. InSession(k) /\ handler'[k] = handler[k] /\ client[p] # k
    BY Zenon, <1>2, <1>4
  <2>2. client[handler[k].pid] = k /\ Known(handler[k].pid)
    BY Zenon, <1>1, <1>4, <2>1 DEF IInv, TranslateCtx, KnownInv
  <2>3. handler[k].pid # p
    BY Zenon, <2>1, <2>2
  <2> HIDE DEF Known
  <2>4. PICK r : r = handler[k].pid
    BY Zenon
  <2>5. Known(r)'
    BY Zenon, <1>3, <2>2, <2>3, <2>4
  <2> QED
    BY Zenon, <2>1, <2>4, <2>5
<1> QED
  BY Zenon, <1>1, <1>4 DEF KnownInv

(* Every step keeps what the world knows, or is about to know.             *)
LEMMA StepKnown ==
    ASSUME IInv, LinkTyped, KnownInv, [Next]_vars
    PROVE  KnownInv'
<1>1. \A S : \A k \in Conns : Shut(S)[k] = "open" => conn[k] = "open" /\ k \notin S
  BY Zenon, ShutCloses DEF IInv
<1>2. \A i \in 2 .. Len(wire) : wire[i].type # "register"
  BY Zenon DEF KnownInv
<1>3. ASSUME NEW k \in Conns, InSession(k), NEW t \in {"login", "logout"},
             SendWorld([type |-> t, pid |-> handler[k].pid]),
             \A j \in Conns : InSession(j)' => InSession(j) /\ handler'[j] = handler[j]
      PROVE  KnownInv'
  <2>1. handler[k].pid \in Players
    BY Zenon, <1>3 DEF IInv, TranslateCtx
  <2>2. /\ worldLink' = worldLink
        /\ \A i \in 2 .. Len(wire') : wire'[i].type # "register"
        /\ \A r : Known(r) => Known(r)'
    BY Zenon, <1>2, <1>3, <2>1, SendKnown
  <2> QED
    BY Zenon, <1>3, <2>2 DEF KnownInv
<1>4. ASSUME NEW k \in Conns, InSession(k), Logout(k)
      PROVE  KnownInv'
  <2>1. conn' = Shut(Reaped \cup {k}) /\ handler' = [handler EXCEPT ![k] = AuthHandler]
        /\ SendWorld([type |-> "logout", pid |-> handler[k].pid])
    BY Zenon, <1>4 DEF Logout
  <2>2. \A j \in Conns : InSession(j)' => InSession(j) /\ handler'[j] = handler[j]
    BY <1>1, <2>1 DEF InSession, IInv, Typed
  <2> QED
    BY Zenon, <1>3, <1>4, <2>1, <2>2
<1>5. ASSUME NEW k \in Conns, ConnStep(k)
      PROVE  KnownInv'
  <2>1. CASE Accept(k)
    <3>1. \A j \in Conns : InSession(j)' => InSession(j) /\ handler'[j] = handler[j]
      BY <1>1, <2>1, HandlersDiffer DEF Accept, InSession, IInv, Typed
    <3> QED
      BY Zenon, <2>1, <3>1, KnownKept DEF Accept, worldVars
  <2>2. CASE LoginRequest(k)
    <3>1. \A j \in Conns : conn'[j] = "open" => conn[j] = "open"
      BY Zenon, <1>1, <2>2 DEF LoginRequest
    <3>2. \A j \in Conns : InSession(j)' => InSession(j) /\ handler'[j] = handler[j]
      BY Zenon, <2>2, <3>1, HandlersDiffer DEF LoginRequest, InSession, IInv, Typed
    <3> QED
      BY Zenon, <2>2, <3>2, KnownKept DEF LoginRequest, worldVars
  <2>3. ASSUME NEW t \in {"login", "logout"}, ClientForward(k, t)
        PROVE  KnownInv'
    BY Zenon, <1>3, <2>3 DEF ClientForward, connVars, InSession
  <2>4. CASE BadFirst(k) \/ ClientBad(k)
    BY <1>1, <2>4, KnownKept DEF BadFirst, ClientBad, InSession, worldVars
  <2>5. CASE ClientBadFlag(k)
    BY Zenon, <1>4, <2>5 DEF ClientBadFlag
  <2>6. CASE PeerClose(k)
    <3>1. CASE conn' = Shut({k}) /\ UNCHANGED <<handler, worldVars>>
      <4>1. UNCHANGED <<handler, wire, back, online, worldLink>>
        BY Zenon, <3>1 DEF worldVars
      <4>2. \A j \in Conns : InSession(j)' => InSession(j)
        BY Zenon, <1>1, <3>1, <4>1 DEF InSession
      <4> QED
        BY Zenon, <4>1, <4>2, KnownKept
    <3>2. CASE InSession(k) /\ Logout(k)
      BY Zenon, <1>4, <3>2
    <3> QED
      BY Zenon, <2>6, <3>1, <3>2 DEF PeerClose, InSession
  <2> QED
    BY Zenon, <1>5, <2>1, <2>2, <2>3, <2>4, <2>5, <2>6 DEF ConnStep
<1>6. ASSUME NEW s \in Sns, NEW p \in Players, AuthPass(s, p)
      PROVE  KnownInv'
  <2> DEFINE k == rpcConn[s]
  <2>1. k \in Conns /\ TakeOver(p, k) /\ SendWorld([type |-> "login", pid |-> p])
        /\ conn' = IF Elsewhere(p, k) THEN Shut(Reaped) ELSE conn
    BY Zenon, <1>6 DEF AuthPass
  <2> HIDE DEF k
  <2>2. /\ worldLink' = worldLink
        /\ \A i \in 2 .. Len(wire') : wire'[i].type # "register"
        /\ \A r : Known(r) => Known(r)'
        /\ worldLink = "up" => Known(p)'
    BY Zenon, <1>2, <2>1, SendKnown
  <2>3. \A j \in Conns : conn'[j] = "open" => conn[j] = "open"
    BY Zenon, <1>1, <2>1
  <2>4. \A j \in Conns :
          \/ handler'[j] = TranslateHandler(p) \/ handler'[j] = AuthHandler
          \/ handler'[j] = handler[j]
    BY <2>1 DEF TakeOver
  <2>5. \A j \in Conns : InSession(j)' =>
          handler'[j].pid = p \/ (InSession(j) /\ handler'[j] = handler[j])
    BY <2>3, <2>4, HandlersDiffer, Zenon DEF InSession
  <2>6. ASSUME NEW j \in Conns, worldLink' = "up", InSession(j)'
        PROVE  Known(handler[j].pid)'
    BY Zenon, <2>2, <2>5, <2>6 DEF KnownInv
  <2> QED
    BY Zenon, <2>2, <2>6 DEF KnownInv
<1>7. ASSUME NEW s \in Sns, AuthStep(s)
      PROVE  KnownInv'
  <2>1. CASE \E p \in Players : AuthPass(s, p)
    BY Zenon, <1>6, <2>1
  <2>2. CASE AuthFail(s) \/ AuthIgnored(s)
    BY Zenon, <1>1, <2>2, KnownKept
       DEF AuthFail, AuthIgnored, connVars, worldVars, InSession
  <2> QED
    BY Zenon, <1>7, <2>1, <2>2 DEF AuthStep
<1>8. CASE WorldConnected
  <2> DEFINE m == [type |-> "register", players |-> Clients]
  <2>1. wire' = <<m>> /\ UNCHANGED <<conn, handler, client>>
    BY Zenon, <1>8 DEF WorldConnected, connVars
  <2>2. m.type = "register" /\ m.players = Clients
    BY Zenon
  <2> HIDE DEF m
  <2>3. Len(wire') = 1 /\ wire'[1] = m
    BY Zenon, <2>1
  <2>4. ASSUME NEW k \in Conns, InSession(k)'
        PROVE  Known(handler[k].pid)'
    <3>1. handler[k].pid \in Clients /\ handler'[k] = handler[k]
      BY Zenon, <2>1, <2>4, GatewayAssumption DEF InSession, IInv, TranslateCtx, Clients
    <3>2. 1 \in 1 .. Len(wire') /\ Announces(wire'[1], handler'[k].pid)
      BY <2>2, <2>3, <3>1 DEF Announces
    <3> QED
      BY Zenon, <3>2 DEF Known, Announces
  <2> QED
    BY <2>3, <2>4 DEF KnownInv
<1>9. CASE WorldClosed
  BY <1>9 DEF WorldClosed, KnownInv
<1>10. CASE WorldHandles
  <2>1. wire # <<>> /\ wire' = Tail(wire) /\ UNCHANGED <<conn, handler, worldLink>>
    BY Zenon, <1>10 DEF WorldHandles, connVars
  <2>2. \A i \in 2 .. Len(wire') : i + 1 \in 2 .. Len(wire) /\ wire'[i] = wire[i + 1]
    BY <2>1 DEF LinkTyped
  <2>3. \A k \in Conns : InSession(k)' => InSession(k) /\ handler[k].pid \in Players
    BY Zenon, <2>1 DEF InSession, IInv, TranslateCtx
  <2>4. \A p \in Players : Known(p) => Known(p)'
    BY Zenon, <1>10, HandlesKnown
  <2> QED
    BY Zenon, <1>2, <2>1, <2>2, <2>3, <2>4 DEF KnownInv
<1>11. CASE AuthConnected \/ AuthClosed \/ Release \/ UNCHANGED vars
  BY Zenon, <1>11, KnownKept
     DEF AuthConnected, AuthClosed, Release, vars, connVars, worldVars,
                          InSession
<1>12. CASE Update
  <2>1. /\ \E S : conn' = Shut(S)
        /\ worldLink' = Reconnect(worldLink) /\ UNCHANGED <<handler, wire, back, online>>
    BY Zenon, <1>12 DEF Update
  <2> QED
    BY Zenon, <1>1, <2>1, KnownKept DEF Reconnect, InSession
<1> QED
  BY Zenon, <1>5, <1>7, <1>8, <1>9, <1>10, <1>11, <1>12, HearKnown DEF Next

(* When the link to the world is up and quiet, every session's player is   *)
(* online for the world: a login lost with the link is made up for by the  *)
(* registration of world.c:107, in whatever order the links break, players *)
(* log in and answers come; whether or not the world refuses logins.       *)
THEOREM SessionKnownHolds == Spec => []SessionKnown
<1>1. Init => KnownInv
  BY DEF Init, KnownInv
<1>2. IInv /\ LinkTyped /\ KnownInv /\ [Next]_vars => KnownInv'
  BY Zenon, StepKnown
<1>3. KnownInv => SessionKnown
  BY DEF KnownInv, SessionKnown, Known
<1> QED
  BY <1>1, <1>2, <1>3, ContextsInductive, LinksTyped, PTL DEF Spec
=============================================================================
