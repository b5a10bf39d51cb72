--------------------------- MODULE Network_proofs ---------------------------
(***************************************************************************)
(* Proofs about the event loop, for any number of connections: for any use *)
(* of its API that no output is forgotten and no handler called after a    *)
(* close, and for plain use that its two lists stay apart.                 *)
(***************************************************************************)
EXTENDS MCNetwork, FiniteSetTheorems, TLAPS

(* What _agN_close changes.                                                *)
LEMMA CloseConnTyped ==
    ASSUME TypeOK, NEW c \in Conns \cup {NIL}, CloseConn(c), c \in Conns
    PROVE  /\ status' \in [Conns -> Statuses]
           /\ next' \in [Conns -> Conns \cup {NIL}]
           /\ events' \in [Conns -> SUBSET Bits]
           /\ closing' \in Conns \cup {NIL}
           /\ UNCHANGED <<inActive, wbuf, active>>
           /\ \A d \in Conns : status'[d] = "connected" =>
                status[d] = "connected" /\ events'[d] = events[d]
BY DEF TypeOK, CloseConn, Statuses, Bits, connVars, listVars

\* do_conn_read and do_conn_write, and what they call, are about a connection.
CurOpen ==
    pc \in {"read", "write"} \/ (pc = "cb" /\ after \in {"read", "close"}) => cur \in Conns

\* The inductive invariant: TypeOK, in particular that the heads and links of the
\* two lists are connections or null however the lists are mixed up, and with it
\* IoArmed.
LoopInv == TypeOK /\ CurOpen /\ IoArmed

(* The loop starts with every slot closed.                                 *)
LEMMA LoopInit == Init => LoopInv
BY Zenon, NetworkAssumption
   DEF Init, LoopInv, TypeOK, CurOpen, IoArmed, Statuses, Bits

(* The calls of the API.                                                   *)
LEMMA LoopApi ==
    ASSUME LoopInv, Api
    PROVE  LoopInv'
<1> USE DEF LoopInv
<1>0. PICK c \in Conns : ApiClose(c) \/ ApiSetHandler(c) \/ ApiSend(c) \/ ApiConnect(c)
  BY Zenon DEF Api
<1>1. CASE ApiClose(c)
  <2>1. CloseConn(c) /\ UNCHANGED loopVars
    BY Zenon, <1>1 DEF ApiClose
  <2> QED
    BY Zenon, <2>1, CloseConnTyped DEF loopVars, TypeOK, CurOpen, IoArmed
<1>2. CASE ApiSetHandler(c)
  <2>1. /\ events' = [events EXCEPT ![c] = IF wbuf[c] THEN Bits ELSE {"in"}]
        /\ UNCHANGED <<status, wbuf, closing, loopVars>>
    BY Zenon, <1>2 DEF ApiSetHandler
  <2>2. /\ next' \in [Conns -> Conns \cup {NIL}]
        /\ active' \in Conns \cup {NIL}
        /\ inActive' \in [Conns -> BOOLEAN]
    BY Zenon, <1>2 DEF ApiSetHandler, Activate, TypeOK
  <2>3. TypeOK'
    BY Zenon, <2>1, <2>2 DEF TypeOK, loopVars, Bits
  <2>4. CASE wbuf[c]
    <3>1. events' = [events EXCEPT ![c] = Bits]
      BY Zenon, <2>1, <2>4
    <3> QED
      BY <2>1, <2>3, <3>1 DEF TypeOK, IoArmed, CurOpen, loopVars, Bits
  <2>5. CASE ~wbuf[c]
    <3>1. events' = [events EXCEPT ![c] = {"in"}] /\ UNCHANGED <<status, wbuf>>
      BY Zenon, <2>1, <2>5
    <3>2. ASSUME NEW d \in Conns, status'[d] = "connected"
          PROVE  "in" \in events'[d] /\ (wbuf'[d] => "out" \in events'[d])
      <4>1. CASE d = c
        BY Zenon, <2>5, <3>1, <4>1 DEF TypeOK
      <4>2. CASE d # c
        BY Zenon, <3>1, <3>2, <4>2 DEF TypeOK, IoArmed
      <4> QED
        BY Zenon, <4>1, <4>2
    <3>3. IoArmed'
      BY Zenon, <3>2 DEF IoArmed
    <3> QED
      BY Zenon, <2>1, <2>3, <3>3 DEF CurOpen, loopVars
  <2> QED
    BY Zenon, <2>4, <2>5
<1>3. CASE ApiSend(c)
  BY Zenon, <1>3
     DEF ApiSend, TypeOK, IoArmed, CurOpen, loopVars, listVars, Bits
<1>4. CASE ApiConnect(c)
  <2>1. TypeOK'
    <3>1. wbuf' \in [Conns -> BOOLEAN] /\ inActive' \in [Conns -> BOOLEAN]
      BY Zenon, <1>4 DEF ApiConnect, TypeOK
    <3>2. /\ status' \in [Conns -> Statuses]
          /\ next' \in [Conns -> Conns \cup {NIL}]
          /\ events' \in [Conns -> SUBSET Bits]
          /\ active' \in Conns \cup {NIL}
      BY <1>4 DEF ApiConnect, TypeOK, Statuses, Bits
    <3> QED
      BY Zenon, <1>4, <3>1, <3>2 DEF ApiConnect, TypeOK, loopVars
  <2>2. IoArmed' /\ CurOpen'
    BY <1>4 DEF ApiConnect, TypeOK, IoArmed, CurOpen, loopVars
  <2> QED
    BY Zenon, <2>1, <2>2
<1> QED
  BY Zenon, <1>0, <1>1, <1>2, <1>3, <1>4

(* The steps of the loop that look at no connection.                       *)
LEMMA LoopQuiet ==
    ASSUME LoopInv,
           \/ TickDrain \/ DrainEnd \/ TickWait \/ AcceptStart \/ AcceptEnd
           \/ ReadMessage \/ ReadClosed \/ ReadEnd
    PROVE  LoopInv'
<1> USE DEF LoopInv, connVars, listVars
<1>1. UNCHANGED <<status, events, wbuf, next, inActive, active, closing>>
  BY Zenon
     DEF TickDrain, DrainEnd, TickWait, AcceptStart, AcceptEnd, ReadMessage,
         ReadClosed, ReadEnd
<1>2. IoArmed'
  BY Zenon, <1>1 DEF IoArmed
<1>3. TypeOK'
  <2>1. CASE TickDrain \/ DrainEnd \/ AcceptStart \/ AcceptEnd \/ ReadEnd
    BY Zenon, <1>1, <2>1
       DEF TypeOK, TickDrain, DrainEnd, AcceptStart, AcceptEnd, ReadEnd
  <2>2. CASE TickWait
    BY Zenon, <1>1, <2>2 DEF TypeOK, TickWait, Call
  <2>3. CASE ReadMessage \/ ReadClosed
    BY Zenon, <1>1, <2>3 DEF TypeOK, ReadMessage, ReadClosed, Call
  <2> QED
    BY Zenon, <2>1, <2>2, <2>3
<1>4. CurOpen'
  BY Zenon
     DEF CurOpen, TypeOK, TickDrain, DrainEnd, TickWait, AcceptStart, AcceptEnd,
         ReadMessage, ReadClosed, ReadEnd, Call
<1> QED
  BY Zenon, <1>2, <1>3, <1>4

(* finish_connecting and check_connecting, in either loop of a pc.       *)
LEMMA CheckConnectingArms ==
    ASSUME LoopInv, NEW c \in Conns, CheckConnecting(c) \/ FinishConnecting(c),
           phase' \in {"drain", "events"}, wbuf' = wbuf
    PROVE  /\ status' \in [Conns -> Statuses]
           /\ events' \in [Conns -> SUBSET Bits]
           /\ pc' = "cb" /\ cur' = c /\ after' \in {"drain", "events", "close"}
           /\ IoArmed'
<1> USE DEF LoopInv
<1>1. CASE FinishConnecting(c)
  <2>1. /\ status' = [status EXCEPT ![c] = "connected"]
        /\ events' = [events EXCEPT ![c] = IF wbuf[c] THEN Bits ELSE {"in"}]
        /\ pc' = "cb" /\ cur' = c /\ after' = phase'
    BY Zenon, <1>1 DEF FinishConnecting, Call
  <2>2. /\ status' \in [Conns -> Statuses]
        /\ events' \in [Conns -> SUBSET Bits]
    BY Zenon, <2>1 DEF TypeOK, Statuses, Bits
  <2>3. ASSUME NEW d \in Conns, status'[d] = "connected"
        PROVE  "in" \in events'[d] /\ (wbuf'[d] => "out" \in events'[d])
    <3>1. CASE d # c
      BY Zenon, <2>1, <2>3, <3>1 DEF TypeOK, IoArmed
    <3>2. CASE d = c /\ wbuf[c]
      <4>1. events'[d] = Bits
        BY Zenon, <2>1, <3>2 DEF TypeOK
      <4> QED
        BY Zenon, <4>1 DEF Bits
    <3>3. CASE d = c /\ ~wbuf[c]
      <4>1. events'[d] = {"in"}
        BY Zenon, <2>1, <3>3 DEF TypeOK
      <4> QED
        BY Zenon, <3>3, <4>1
    <3> QED
      BY Zenon, <3>1, <3>2, <3>3
  <2> QED
    BY Zenon, <2>1, <2>2, <2>3 DEF IoArmed
<1>2. CASE Call(c, "close") /\ UNCHANGED <<status, events>>
  BY Zenon, <1>2 DEF Call, TypeOK, IoArmed
<1> QED
  BY Zenon, <1>1, <1>2 DEF CheckConnecting

(* The steps that look at a connection.                                    *)
LEMMA LoopConn ==
    ASSUME LoopInv,
           \/ Drain \/ Write \/ Return \/ CleanClient
           \/ \E c \in Conns : Event(c) \/ AcceptOnce(c)
    PROVE  LoopInv'
<1> USE DEF LoopInv
<1>1. CASE Drain
  <2>1. /\ active \in Conns
        /\ phase' = "drain" /\ UNCHANGED <<wbuf, closing, batch>>
        /\ next' \in [Conns -> Conns \cup {NIL}]
        /\ active' \in Conns \cup {NIL}
        /\ inActive' \in [Conns -> BOOLEAN]
    BY Zenon, <1>1 DEF Drain, TypeOK
  <2>2. CASE status[active] \in {"connecting", "wait_cb"}
    <3>1. CheckConnecting(active) \/ FinishConnecting(active)
      BY Zenon, <1>1, <2>2 DEF Drain
    <3>2. UNCHANGED ev
      BY Zenon, <1>1, <2>2 DEF Drain
    <3>3. TypeOK'
      BY Zenon, <2>1, <3>1, <3>2, CheckConnectingArms DEF TypeOK
    <3> QED
      BY Zenon, <2>1, <3>1, <3>3, CheckConnectingArms DEF CurOpen
  <2>3. CASE status[active] \notin {"connecting", "wait_cb"}
    <3>1. UNCHANGED <<status, events, after>>
          /\ \/ pc' = "read" /\ cur' = active /\ ev' = Bits
             \/ pc = "drain" /\ UNCHANGED <<pc, cur, ev>>
      BY Zenon, <1>1, <2>3 DEF Drain
    <3>2. TypeOK'
      BY Zenon, <2>1, <3>1 DEF TypeOK
    <3>3. IoArmed' /\ CurOpen'
      BY Zenon, <2>1, <3>1 DEF IoArmed, CurOpen
    <3> QED
      BY Zenon, <3>2, <3>3
  <2> QED
    BY Zenon, <2>2, <2>3
<1>2. CASE Write
  <2>1. /\ UNCHANGED <<status, next, inActive, active, closing, batch, phase, cur, ev, after>>
        /\ pc' = phase
    BY Zenon, <1>2 DEF Write, listVars
  <2>2. CASE UNCHANGED <<wbuf, events>>
    BY Zenon, <2>1, <2>2 DEF TypeOK, IoArmed, CurOpen
  <2>3. ASSUME NEW left \in {FALSE, wbuf[cur]}, status[cur] = "connected", cur \in Conns,
               wbuf' = [wbuf EXCEPT ![cur] = left],
               events' = IF left THEN events ELSE [events EXCEPT ![cur] = {"in"}]
        PROVE  LoopInv'
    <3>1. CASE left
      <4>1. wbuf' = wbuf /\ events' = events
        BY Zenon, <2>3, <3>1 DEF TypeOK
      <4> QED
        BY Zenon, <2>1, <2>2, <4>1
    <3>2. CASE ~left
      <4>1. /\ wbuf' = [wbuf EXCEPT ![cur] = FALSE]
            /\ events' = [events EXCEPT ![cur] = {"in"}]
        BY Zenon, <2>3, <3>2 DEF TypeOK
      <4>2. wbuf' \in [Conns -> BOOLEAN] /\ events' \in [Conns -> SUBSET Bits]
        BY Zenon, <4>1 DEF TypeOK, Bits
      <4>3. ~wbuf'[cur] /\ "in" \in events'[cur]
            /\ \A d \in Conns \ {cur} : wbuf'[d] = wbuf[d] /\ events'[d] = events[d]
        BY <2>3, <4>1 DEF TypeOK
      <4>4. IoArmed'
        BY Zenon, <2>1, <4>3 DEF IoArmed
      <4> QED
        BY Zenon, <2>1, <4>2, <4>4 DEF TypeOK, CurOpen
    <3> QED
      BY Zenon, <3>1, <3>2
  <2> QED
    BY Zenon, <1>2, <2>2, <2>3 DEF Write, CurOpen
<1>3. CASE Return
  <2>1. CASE after = "close"
    <3>1. cur \in Conns /\ CloseConn(cur) /\ pc' = phase
          /\ UNCHANGED <<batch, phase, cur, ev, after>>
      BY Zenon, <1>3, <2>1 DEF Return, CurOpen
    <3> QED
      BY Zenon, <3>1, CloseConnTyped DEF TypeOK, IoArmed, CurOpen
  <2>2. CASE after # "close"
    BY Zenon, <1>3, <2>2
       DEF Return, TypeOK, IoArmed, CurOpen, connVars, listVars
  <2> QED
    BY Zenon, <2>1, <2>2
<1>4. CASE CleanClient
  <2>1. TypeOK'
    BY Zenon, <1>4, NetworkAssumption DEF CleanClient, TypeOK, Statuses, Bits
  <2>2. IoArmed'
    BY Zenon, <1>4 DEF CleanClient, TypeOK, IoArmed
  <2> QED
    BY Zenon, <1>4, <2>1, <2>2 DEF CleanClient, CurOpen
<1>5. ASSUME NEW c \in Conns, Event(c)
      PROVE  LoopInv'
  <2>1. /\ phase' = "events" /\ batch' = batch \ {c}
        /\ UNCHANGED <<next, inActive, wbuf, active, closing>>
    BY Zenon, <1>5 DEF Event, listVars
  <2>2. CASE CheckConnecting(c) /\ UNCHANGED ev
    <3>1. TypeOK'
      BY Zenon, <2>1, <2>2, CheckConnectingArms DEF TypeOK
    <3> QED
      BY Zenon, <2>1, <2>2, <3>1, CheckConnectingArms DEF CurOpen
  <2>3. ASSUME UNCHANGED <<status, events>>,
               \/ Call(c, "close") /\ UNCHANGED ev
               \/ ev' \in SUBSET Bits /\ pc' = "read" /\ cur' = c /\ UNCHANGED after
        PROVE  LoopInv'
    <3>1. TypeOK'
      BY Zenon, <2>1, <2>3 DEF TypeOK, Call
    <3> QED
      BY Zenon, <2>1, <2>3, <3>1 DEF IoArmed, CurOpen, Call
  <2>4. CASE UNCHANGED <<status, events, pc, cur, ev, after>>
    BY <2>1, <2>4 DEF TypeOK, IoArmed, CurOpen
  <2> QED
    BY Zenon, <1>5, <2>2, <2>3, <2>4 DEF Event
<1>6. ASSUME NEW c \in Conns, AcceptOnce(c)
      PROVE  LoopInv'
  <2>1. wbuf' \in [Conns -> BOOLEAN] /\ inActive' \in [Conns -> BOOLEAN]
    BY Zenon, <1>6 DEF AcceptOnce, TypeOK
  <2>2. /\ status' \in [Conns -> Statuses]
        /\ next' \in [Conns -> Conns \cup {NIL}]
        /\ events' \in [Conns -> SUBSET Bits]
        /\ active' \in Conns \cup {NIL}
    BY Zenon, <1>6 DEF AcceptOnce, TypeOK, Statuses, Bits
  <2>3. TypeOK'
    BY Zenon, <1>6, <2>1, <2>2 DEF AcceptOnce, Call, TypeOK
  <2>4. IoArmed' /\ CurOpen'
    BY Zenon, <1>6 DEF AcceptOnce, Call, TypeOK, IoArmed, CurOpen
  <2> QED
    BY Zenon, <2>3, <2>4
<1> QED
  BY Zenon, <1>1, <1>2, <1>3, <1>4, <1>5, <1>6

(* A step of the loop, or of a callback.                                   *)
LEMMA LoopStep == LoopInv /\ [Next]_(vars) => LoopInv'
<1> SUFFICES ASSUME LoopInv, [Next]_(vars)
             PROVE  LoopInv'
  BY Zenon
<1>1. CASE UNCHANGED vars
  BY <1>1
     DEF vars, connVars, listVars, loopVars, LoopInv, TypeOK,
         IoArmed, CurOpen
<1> QED
  BY Zenon, <1>1, LoopApi, LoopQuiet, LoopConn DEF Next, Loop
-----------------------------------------------------------------------------
(* The invariant holds throughout, for every use of the API.               *)
THEOREM LoopInductive == Spec => []LoopInv
  BY LoopInit, LoopStep, PTL DEF Spec

(* The state of the loop stays in its types.                               *)
THEOREM LoopTyped == Spec => []TypeOK
BY LoopInductive, PTL DEF LoopInv

(* No output is stranded: a connection with bytes in wbuf is registered for*)
(* EPOLLOUT, and every open connection for EPOLLIN.                        *)
THEOREM OutputArmed == Spec => []IoArmed
BY LoopInductive, PTL DEF LoopInv, IoArmed

(* No handler of a connection runs once the connection is closing.         *)
THEOREM ClosedIsSilent == Spec => NoCallbackAfterClose
<1>1. LoopInv /\ [Next]_(vars) =>
        [(pc # "cb" /\ pc' = "cb" /\ cur' # NIL) =>
            status[cur'] \notin {"closing"}
            /\ (after' # "accept" => status[cur'] # "closed")]_(vars)
  <2> SUFFICES ASSUME LoopInv, Next, pc # "cb", pc' = "cb", cur' # NIL
               PROVE  status[cur'] \notin {"closing"}
                      /\ (after' # "accept" => status[cur'] # "closed")
    BY Zenon DEF vars, loopVars
  <2>1. ~Api /\ ~Return
    BY Zenon
       DEF Api, ApiClose, ApiSetHandler, ApiSend, ApiConnect, Return
  <2>2. CASE Drain
    BY Zenon, <2>2 DEF Drain, CheckConnecting, FinishConnecting, Call
  <2>3. CASE ReadMessage \/ ReadClosed
    BY Zenon, <2>3 DEF ReadMessage, ReadClosed, Call
  <2>4. ASSUME NEW c \in Conns, Event(c) \/ AcceptOnce(c)
        PROVE  status[cur'] \notin {"closing"}
               /\ (after' # "accept" => status[cur'] # "closed")
    BY Zenon, <2>4
       DEF Event, AcceptOnce, CheckConnecting, FinishConnecting, Call, Idle
  <2>5. ~(TickDrain \/ DrainEnd \/ TickWait \/ AcceptStart \/ AcceptEnd
          \/ CleanClient \/ ReadEnd \/ Write)
    BY Zenon
       DEF TickDrain, DrainEnd, TickWait, AcceptStart, AcceptEnd, CleanClient,
           ReadEnd, Write, Call, LoopInv, TypeOK
  <2> QED
    BY Zenon, <2>1, <2>2, <2>3, <2>4, <2>5 DEF Next, Loop
<1> QED
  BY <1>1, LoopInductive, PTL DEF Spec, NoCallbackAfterClose
-----------------------------------------------------------------------------
(***************************************************************************)
(* The two lists.  A list is a chain: the connections q[1] to q[m], all    *)
(* different, where q[m] is the head and each has a link to the one before *)
(* it; a connection is put on a list as q[m + 1], and q[m] is taken off.   *)
(* hd is the head, nx the links, S the connections on the list.            *)
(***************************************************************************)
Chained(m, q, hd, S, nx) ==
    /\ \A j, k \in 1 .. m : q[j] = q[k] => j = k
    /\ S = {q[k] : k \in 1 .. m}
    /\ hd = IF m = 0 THEN NIL ELSE q[m]
    /\ \A k \in 1 .. m : nx[q[k]] = IF k = 1 THEN NIL ELSE q[k - 1]

Chain(hd, S, nx) == \E m \in Nat : \E q \in [1 .. m -> Conns] : Chained(m, q, hd, S, nx)

(* No connection is on a list whose head is null.                          *)
LEMMA ChainOfNil ==
    ASSUME NEW nx
    PROVE  Chain(NIL, {}, nx) /\ \A S : Chain(NIL, S, nx) => S = {}
<1>1. Chain(NIL, {}, nx)
  <2> DEFINE q == [k \in 1 .. 0 |-> NIL]
  <2>1. 1 .. 0 = {} /\ 0 \in Nat
    OBVIOUS
  <2>2. q \in [1 .. 0 -> Conns] /\ Chained(0, q, NIL, {}, nx)
    BY Zenon, <2>1 DEF Chained
  <2> QED
    BY Zenon, <2>1, <2>2 DEF Chain
<1>2. ASSUME NEW S, Chain(NIL, S, nx) PROVE S = {}
  <2>0. PICK m \in Nat : \E q \in [1 .. m -> Conns] : Chained(m, q, NIL, S, nx)
    BY Zenon, <1>2 DEF Chain
  <2>1. PICK q \in [1 .. m -> Conns] : Chained(m, q, NIL, S, nx)
    BY Zenon, <2>0
  <2>2. m = 0
    <3> SUFFICES ASSUME m # 0 PROVE FALSE
      BY Zenon
    <3>1. m \in 1 .. m
      OBVIOUS
    <3>2. q[m] \in Conns /\ q[m] = NIL
      BY Zenon, <2>1, <3>1 DEF Chained
    <3> QED
      BY Zenon, <3>2, NetworkAssumption
  <2>3. 1 .. m = {}
    BY <2>2
  <2> QED
    BY Zenon, <2>1, <2>3 DEF Chained
<1> QED
  BY Zenon, <1>1, <1>2

(* Links of connections that are not on the list do not matter to it.      *)
LEMMA ChainKept ==
    ASSUME NEW hd, NEW S, NEW nx, NEW ny, Chain(hd, S, nx), \A d \in S : ny[d] = nx[d]
    PROVE  Chain(hd, S, ny)
<1>0. PICK m \in Nat : \E q \in [1 .. m -> Conns] : Chained(m, q, hd, S, nx)
  BY Zenon DEF Chain
<1>1. PICK q \in [1 .. m -> Conns] : Chained(m, q, hd, S, nx)
  BY Zenon, <1>0
<1>2. \A k \in 1 .. m : q[k] \in S
  BY Zenon, <1>1 DEF Chained
<1>3. Chained(m, q, hd, S, ny)
  BY Zenon, <1>1, <1>2 DEF Chained
<1> QED
  BY Zenon, <1>3 DEF Chain

(* A connection is put at the head.                                        *)
LEMMA ChainPush ==
    ASSUME NEW hd, NEW S, NEW nx, NEW ny, NEW c \in Conns,
           Chain(hd, S, nx), c \notin S, ny[c] = hd, \A d \in S : ny[d] = nx[d]
    PROVE  Chain(c, S \cup {c}, ny)
<1>0. PICK m \in Nat : \E q \in [1 .. m -> Conns] : Chained(m, q, hd, S, nx)
  BY Zenon DEF Chain
<1>1. PICK q \in [1 .. m -> Conns] : Chained(m, q, hd, S, nx)
  BY Zenon, <1>0
<1> DEFINE p == [k \in 1 .. m + 1 |-> IF k = m + 1 THEN c ELSE q[k]]
<1>2. /\ m + 1 \in Nat /\ m + 1 # 0 /\ (m + 1) - 1 = m /\ (m + 1 = 1 <=> m = 0)
      /\ \A k : k \in 1 .. m + 1 <=> k \in 1 .. m \/ k = m + 1
      /\ \A k \in 1 .. m : k # m + 1 /\ (k # 1 => k - 1 \in 1 .. m)
      /\ m # 0 => m \in 1 .. m
  OBVIOUS
<1>3. p[m + 1] = c /\ \A k \in 1 .. m : p[k] = q[k]
  BY Zenon, <1>2
<1>4. p \in [1 .. m + 1 -> Conns]
  BY Zenon, <1>2
<1> HIDE DEF p
<1>5. \A k \in 1 .. m : q[k] \in S /\ q[k] # c
  BY <1>1 DEF Chained
<1>6. \A j, k \in 1 .. m + 1 : p[j] = p[k] => j = k
  BY <1>1, <1>2, <1>3, <1>5 DEF Chained
<1>7. S \cup {c} = {p[k] : k \in 1 .. m + 1}
  BY <1>1, <1>2, <1>3 DEF Chained
<1>8. \A k \in 1 .. m + 1 : ny[p[k]] = IF k = 1 THEN NIL ELSE p[k - 1]
  <2> TAKE k \in 1 .. m + 1
  <2>1. CASE k = m + 1
    BY Zenon, <1>1, <1>2, <1>3, <2>1 DEF Chained
  <2>2. CASE k \in 1 .. m
    BY <1>1, <1>2, <1>3, <1>5, <2>2 DEF Chained
  <2> QED
    BY Zenon, <1>2, <2>1, <2>2
<1>9. Chained(m + 1, p, c, S \cup {c}, ny)
  BY Zenon, <1>2, <1>3, <1>6, <1>7, <1>8 DEF Chained
<1> QED
  BY Zenon, <1>2, <1>4, <1>9 DEF Chain

(* The head is taken off.                                                  *)
LEMMA ChainPop ==
    ASSUME NEW hd, NEW S, NEW nx, NEW ny, Chain(hd, S, nx), hd # NIL,
           \A d \in S \ {hd} : ny[d] = nx[d]
    PROVE  hd \in S /\ Chain(nx[hd], S \ {hd}, ny)
<1>0. PICK m \in Nat : \E q \in [1 .. m -> Conns] : Chained(m, q, hd, S, nx)
  BY Zenon DEF Chain
<1>1. PICK q \in [1 .. m -> Conns] : Chained(m, q, hd, S, nx)
  BY Zenon, <1>0
<1>2. m # 0 /\ hd = q[m]
  BY Zenon, <1>1 DEF Chained
<1> DEFINE p == [k \in 1 .. m - 1 |-> q[k]]
<1>3. /\ m - 1 \in Nat /\ (m - 1 = 0 <=> m = 1) /\ m \in 1 .. m
      /\ \A k : k \in 1 .. m <=> k \in 1 .. m - 1 \/ k = m
      /\ \A k \in 1 .. m - 1 : k \in 1 .. m /\ k # m /\ (k # 1 => k - 1 \in 1 .. m - 1)
      /\ m # 1 => m - 1 \in 1 .. m - 1
  BY <1>2
<1>4. p \in [1 .. m - 1 -> Conns] /\ \A k \in 1 .. m - 1 : p[k] = q[k]
  BY Zenon, <1>3
<1> HIDE DEF p
<1>5. \A k \in 1 .. m - 1 : q[k] \in S /\ q[k] # hd
  BY <1>1, <1>2, <1>3 DEF Chained
<1>6. hd \in S /\ S \ {hd} = {p[k] : k \in 1 .. m - 1}
  BY <1>1, <1>2, <1>3, <1>4, <1>5 DEF Chained
<1>7. \A j, k \in 1 .. m - 1 : p[j] = p[k] => j = k
  BY <1>1, <1>3, <1>4 DEF Chained
<1>8. nx[hd] = IF m - 1 = 0 THEN NIL ELSE p[m - 1]
  BY Zenon, <1>1, <1>2, <1>3, <1>4 DEF Chained
<1>9. \A k \in 1 .. m - 1 : ny[p[k]] = IF k = 1 THEN NIL ELSE p[k - 1]
  BY <1>1, <1>3, <1>4, <1>5 DEF Chained
<1>10. Chained(m - 1, p, nx[hd], S \ {hd}, ny)
  BY Zenon, <1>6, <1>7, <1>8, <1>9 DEF Chained
<1> QED
  BY Zenon, <1>3, <1>4, <1>6, <1>10 DEF Chain

(* A nonempty set of natural numbers has a least element.                  *)
LEMMA LeastOf ==
    ASSUME NEW S, S \subseteq Nat, S # {}
    PROVE  \E m \in S : \A k \in S : m <= k
<1> DEFINE R == OpToRel(<, Nat)
<1>1. PICK m \in S : \A k \in S : ~(<<k, m>> \in R)
  BY Zenon, WFMin, NatLessThanWellFounded
<1>2. R = {ss \in Nat \X Nat : ss[1] < ss[2]}
  BY Zenon DEF OpToRel
<1> HIDE DEF R
<1>3. \A k, n \in Nat : k < n => <<k, n>> \in R
  <2> SUFFICES ASSUME NEW k \in Nat, NEW n \in Nat, k < n
               PROVE  <<k, n>> \in {ss \in Nat \X Nat : ss[1] < ss[2]}
    BY Zenon, <1>2
  <2> QED
    BY Zenon
<1>4. \A k \in S : ~(k < m)
  BY Zenon, <1>1, <1>3
<1>5. \A k \in S : m <= k
  <2> TAKE k \in S
  <2>1. k \in Nat /\ m \in Nat
    BY Zenon
  <2> QED
    BY <1>4, <2>1
<1> QED
  BY Zenon, <1>5

\* The number of connections there may be.
Slots == Cardinality(Conns)

(* Conns is the pool, a finite set.                                        *)
LEMMA SlotsType == Slots \in Nat
  BY Zenon, NetworkAssumption, FS_CardinalityType DEF Slots

(* The connection n links on is what the recursion says.                   *)
LEMMA NthStep ==
    \A n \in 0 .. Slots :
        Nth[n] = [c \in Conns \cup {NIL} |->
                     IF n = 0 \/ c = NIL THEN c ELSE Nth[n - 1][next[c]]]
<1> DEFINE C == Conns \cup {NIL}
           Nths(m, f) ==
              f = [n \in 0 .. m |->
                     [c \in C |-> IF n = 0 \/ c = NIL THEN c ELSE f[n - 1][next[c]]]]
           Without == {m \in Nat : ~\E f : Nths(m, f)}
<1>1. \E f : Nths(0, f)
  <2> DEFINE f == [n \in 0 .. 0 |-> [c \in C |-> c]]
  <2>1. \A n \in 0 .. 0 : n = 0
    OBVIOUS
  <2>2. Nths(0, f)
    BY Zenon, <2>1
  <2> QED
    BY Zenon, <2>2
<1>2. ASSUME NEW m \in Nat, NEW f, Nths(m, f)
      PROVE  \E g : Nths(m + 1, g)
  <2> DEFINE g == [n \in 0 .. m + 1 |->
                     IF n = m + 1
                     THEN [c \in C |-> IF c = NIL THEN c ELSE f[m][next[c]]]
                     ELSE f[n]]
             h == [n \in 0 .. m + 1 |->
                     [c \in C |-> IF n = 0 \/ c = NIL THEN c ELSE g[n - 1][next[c]]]]
  <2>1. \A n \in 0 .. m :
          f[n] = [c \in C |-> IF n = 0 \/ c = NIL THEN c ELSE f[n - 1][next[c]]]
    BY Zenon, <1>2
  <2>2. ASSUME NEW n \in 0 .. m + 1 PROVE g[n] = h[n]
    <3>1. CASE n = m + 1
      <4>1. n # 0 /\ n - 1 = m /\ m \in 0 .. m + 1 /\ m # m + 1
        BY <3>1
      <4>2. g[m] = f[m]
        BY Zenon, <4>1
      <4> QED
        BY Zenon, <3>1, <4>1, <4>2
    <3>2. CASE n # m + 1
      <4>1. n \in 0 .. m
        BY <3>2
      <4>2. n # 0 => n - 1 \in 0 .. m + 1 /\ n - 1 # m + 1
        BY <3>2
      <4>3. g[n] = f[n] /\ (n # 0 => g[n - 1] = f[n - 1])
        BY Zenon, <3>2, <4>1, <4>2
      <4>4. CASE n = 0
        BY Zenon, <2>1, <4>1, <4>3, <4>4
      <4>5. CASE n # 0
        BY Zenon, <2>1, <4>1, <4>3, <4>5
      <4> QED
        BY Zenon, <4>4, <4>5
    <3> QED
      BY Zenon, <3>1, <3>2
  <2>3. g = h
    BY Zenon, <2>2
  <2>4. Nths(m + 1, g)
    BY Zenon, <2>3
  <2> QED
    BY Zenon, <2>4
<1>3. Without = {}
  <2> SUFFICES ASSUME Without # {} PROVE FALSE
    BY Zenon
  <2>1. PICK m \in Without : \A k \in Without : m <= k
    <3>1. Without \subseteq Nat
      BY Zenon
    <3> HIDE DEF Without
    <3> QED
      BY Zenon, <3>1, LeastOf
  <2>2. m \in Nat /\ m # 0 /\ ~\E g : Nths(m, g)
    BY Zenon, <1>1
  <2>3. m - 1 \in Nat /\ ~(m <= m - 1) /\ (m - 1) + 1 = m
    BY <2>2
  <2>4. PICK f : Nths(m - 1, f)
    BY Zenon, <2>1, <2>3
  <2>5. \E g : Nths((m - 1) + 1, g)
    <3> HIDE DEF Nths
    <3> QED
      BY Zenon, <1>2, <2>3, <2>4
  <2> HIDE DEF Nths
  <2> QED
    BY Zenon, <2>2, <2>3, <2>5
<1>4. \E f : Nths(Slots, f)
  BY Zenon, <1>3, SlotsType
<1>5. Nths(Slots, Nth)
  BY Zenon, <1>4 DEF Nth, Slots
<1> QED
  BY Zenon, <1>5

(* Following the links of a chain from its head finds all of it, and ends. *)
LEMMA ChainFound ==
    ASSUME NEW hd, NEW S, Chain(hd, S, next)
    PROVE  OnList(hd) = S /\ Finite(hd)
<1>0. PICK m \in Nat : \E q \in [1 .. m -> Conns] : Chained(m, q, hd, S, next)
  BY Zenon DEF Chain
<1>1. PICK q \in [1 .. m -> Conns] : Chained(m, q, hd, S, next)
  BY Zenon, <1>0
<1>2. m <= Slots
  <2>1. IsFiniteSet(1 .. m) /\ Cardinality(1 .. m) = m
    <3>1. /\ IsFiniteSet(1 .. m)
          /\ Cardinality(1 .. m) = IF 1 > m THEN 0 ELSE m - 1 + 1
      <4>1. 1 \in Int /\ m \in Int
        OBVIOUS
      <4> QED
        BY Zenon, <4>1, FS_Interval
    <3> QED
      BY <3>1
  <2>2. q \in Injection(1 .. m, Conns)
    BY Zenon, <1>1 DEF Chained, Injection, IsInjective
  <2>3. Cardinality(1 .. m) <= Cardinality(Conns)
    BY Zenon, <2>2, NetworkAssumption, FS_Injection
  <2> QED
    BY Zenon, <2>1, <2>3 DEF Slots
<1>3. \A n \in 0 .. Slots : Nth[n][NIL] = NIL
  BY Zenon, NthStep
<1> DEFINE Right(n) == \A k \in 1 .. m : Nth[n][q[k]] = IF n < k THEN q[k - n] ELSE NIL
           Wrong == {n \in 0 .. Slots : ~Right(n)}
<1>4. Right(0)
  <2>1. 0 \in 0 .. Slots /\ \A k \in 1 .. m : 0 < k /\ k - 0 = k
    BY SlotsType
  <2>2. \A c \in Conns : Nth[0][c] = c
    <3>1. Nth[0] = [c \in Conns \cup {NIL} |->
                      IF 0 = 0 \/ c = NIL THEN c ELSE Nth[0 - 1][next[c]]]
      BY Zenon, <2>1, NthStep
    <3> QED
      BY Zenon, <3>1
  <2> QED
    BY Zenon, <2>1, <2>2
<1>5. ASSUME NEW n \in Nat, n + 1 \in 0 .. Slots, Right(n) PROVE Right(n + 1)
  <2> SUFFICES ASSUME NEW k \in 1 .. m
               PROVE  Nth[n + 1][q[k]] = IF n + 1 < k THEN q[k - (n + 1)] ELSE NIL
    BY Zenon
  <2>1. n + 1 # 0 /\ (n + 1) - 1 = n /\ n \in 0 .. Slots
    BY <1>5, SlotsType
  <2>2. q[k] \in Conns /\ q[k] # NIL
    BY Zenon, NetworkAssumption
  <2>3. Nth[n + 1][q[k]] = Nth[n][next[q[k]]]
    <3>1. Nth[n + 1] = [c \in Conns \cup {NIL} |->
             IF n + 1 = 0 \/ c = NIL THEN c ELSE Nth[(n + 1) - 1][next[c]]]
      BY Zenon, <1>5, NthStep
    <3> QED
      BY Zenon, <2>1, <2>2, <3>1
  <2>4. CASE k = 1
    <3>1. next[q[k]] = NIL /\ ~(n + 1 < k)
      BY <1>1, <2>4 DEF Chained
    <3> QED
      BY Zenon, <1>3, <2>1, <2>3, <3>1
  <2>5. CASE k # 1
    <3>1. k - 1 \in 1 .. m /\ (n < k - 1 <=> n + 1 < k) /\ k - 1 - n = k - (n + 1)
      BY <2>5
    <3>2. next[q[k]] = q[k - 1]
      BY Zenon, <1>1, <2>5 DEF Chained
    <3> HIDE DEF Right
    <3>3. Nth[n][q[k - 1]] = IF n < k - 1 THEN q[k - 1 - n] ELSE NIL
      BY Zenon, <1>5, <3>1 DEF Right
    <3> QED
      BY Zenon, <2>3, <3>1, <3>2, <3>3
  <2> QED
    BY Zenon, <2>4, <2>5
<1>6. Wrong = {}
  <2> SUFFICES ASSUME Wrong # {} PROVE FALSE
    BY Zenon
  <2> HIDE DEF Right
  <2>1. PICK n \in Wrong : \A k \in Wrong : n <= k
    <3>1. Wrong \subseteq Nat
      BY SlotsType
    <3> HIDE DEF Wrong
    <3> QED
      BY Zenon, <3>1, LeastOf
  <2>2. n \in 0 .. Slots /\ ~Right(n) /\ n # 0
    BY Zenon, <1>4
  <2>3. n - 1 \in Nat /\ n - 1 \in 0 .. Slots /\ ~(n <= n - 1) /\ (n - 1) + 1 = n
    BY <2>2, SlotsType
  <2>4. Right(n - 1)
    BY Zenon, <2>1, <2>3
  <2>5. Right((n - 1) + 1)
    BY Zenon, <1>5, <2>2, <2>3, <2>4
  <2> QED
    BY Zenon, <2>2, <2>3, <2>5
<1>7. \A n \in 0 .. Slots : Right(n)
  BY Zenon, <1>6
<1>8. CASE m = 0
  <2>1. hd = NIL /\ S = {}
    BY <1>1, <1>8 DEF Chained
  <2>2. Slots \in 0 .. Slots
    BY SlotsType
  <2> QED
    BY Zenon, <1>3, <2>1, <2>2 DEF OnList, Finite, Slots
<1>9. CASE m # 0
  <2>1. hd = q[m] /\ m \in 1 .. m
    BY <1>1, <1>9 DEF Chained
  <2>2. \A n \in 0 .. Slots : Nth[n][hd] = IF n < m THEN q[m - n] ELSE NIL
    BY Zenon, <1>7, <2>1
  <2>3. Slots \in 0 .. Slots /\ ~(Slots < m)
    BY <1>2, SlotsType
  <2>4. ASSUME NEW c \in S PROVE c \in OnList(hd)
    <3>1. PICK k \in 1 .. m : c = q[k]
      BY Zenon, <1>1 DEF Chained
    <3>2. m - k \in 0 .. Slots /\ m - k < m /\ m - (m - k) = k
      BY <1>2, SlotsType
    <3>3. Nth[m - k][hd] = c
      BY Zenon, <2>2, <3>1, <3>2
    <3>4. c # NIL
      BY Zenon, <3>1, NetworkAssumption
    <3> QED
      BY Zenon, <3>2, <3>3, <3>4 DEF OnList, Slots
  <2>5. ASSUME NEW c \in OnList(hd) PROVE c \in S
    <3>1. PICK n \in 0 .. Slots : c = Nth[n][hd] /\ c # NIL
      BY Zenon DEF OnList, Slots
    <3>2. n < m /\ c = q[m - n]
      BY Zenon, <2>2, <3>1
    <3>3. m - n \in 1 .. m
      BY <3>2, SlotsType
    <3> QED
      BY Zenon, <1>1, <3>2, <3>3 DEF Chained
  <2>6. OnList(hd) = S
    BY Zenon, <2>4, <2>5
  <2> QED
    BY Zenon, <2>2, <2>3, <2>6 DEF Finite, Slots
<1> QED
  BY Zenon, <1>8, <1>9
-----------------------------------------------------------------------------
(* Plain use of the API: no handler is set outside on_accept, and no       *)
(* connection is closed while it is on active_list.                        *)
PlainStep ==
    \/ \E c \in Conns : (ApiClose(c) /\ ~inActive[c]) \/ ApiSend(c) \/ ApiConnect(c)
    \/ Loop

(* The instance with no uses takes these steps.                            *)
LEMMA PlainSteps == Plain!Next => PlainStep
<1> SUFFICES ASSUME Plain!Next PROVE PlainStep
  BY Zenon
<1>1. ASSUME NEW c \in Conns
      PROVE  /\ Plain!ApiClose(c) => ApiClose(c) /\ ~inActive[c]
             /\ ~Plain!ApiSetHandler(c)
             /\ Plain!ApiSend(c) => ApiSend(c)
             /\ Plain!ApiConnect(c) => ApiConnect(c)
  <2>1. Plain!ApiClose(c) => ApiClose(c) /\ ~inActive[c]
    BY Zenon DEF Plain!ApiClose, ApiClose, Plain!CloseConn, CloseConn, Plain!connVars,
       connVars, Plain!listVars, listVars, Plain!loopVars, loopVars
  <2>2. ~Plain!ApiSetHandler(c)
    BY Zenon DEF Plain!ApiSetHandler
  <2>3. Plain!ApiSend(c) => ApiSend(c)
    BY Zenon DEF Plain!ApiSend, ApiSend, Plain!Bits, Bits, Plain!listVars, listVars,
       Plain!loopVars, loopVars
  <2>4. Plain!ApiConnect(c) => ApiConnect(c)
    BY Zenon DEF Plain!ApiConnect, ApiConnect, Plain!Idle, Idle, Plain!loopVars, loopVars
  <2> QED
    BY Zenon, <2>1, <2>2, <2>3, <2>4
<1>2. Plain!Loop => Loop
  <2>1. /\ Plain!TickDrain => TickDrain
        /\ Plain!DrainEnd => DrainEnd
        /\ Plain!TickWait => TickWait
        /\ Plain!AcceptStart => AcceptStart
        /\ Plain!AcceptEnd => AcceptEnd
        /\ Plain!ReadMessage => ReadMessage
        /\ Plain!ReadClosed => ReadClosed
        /\ Plain!ReadEnd => ReadEnd
    BY Zenon DEF Plain!TickDrain, TickDrain, Plain!DrainEnd, DrainEnd, Plain!TickWait,
       TickWait, Plain!AcceptStart, AcceptStart, Plain!AcceptEnd, AcceptEnd,
       Plain!ReadMessage, ReadMessage, Plain!ReadClosed, ReadClosed, Plain!ReadEnd, ReadEnd,
       Plain!Call, Call, Plain!connVars, connVars, Plain!listVars, listVars
  <2>2. Plain!Drain => Drain
    BY Zenon DEF Plain!Drain, Drain, Plain!CheckConnecting, CheckConnecting,
       Plain!FinishConnecting, FinishConnecting, Plain!Call, Call, Plain!Bits, Bits
  <2>3. Plain!CleanClient => CleanClient
    <3>1. Plain!Nth = Nth
      BY Zenon DEF Plain!Nth, Nth, Plain!Cardinality, Cardinality
    <3>2. Plain!Cardinality(Conns) = Cardinality(Conns)
      BY Zenon DEF Plain!Cardinality, Cardinality
    <3>3. Plain!OnList(closing) = OnList(closing)
      BY Zenon, <3>1, <3>2 DEF Plain!OnList, OnList
    <3> QED
      BY ZenonT(60), <3>3 DEF Plain!CleanClient, CleanClient, Plain!Released, Released
  <2>4. Plain!Write => Write
    BY Zenon DEF Plain!Write, Write, Plain!listVars, listVars
  <2>5. Plain!Return => Return
    BY Zenon DEF Plain!Return, Return, Plain!CloseConn, CloseConn, Plain!connVars, connVars,
       Plain!listVars, listVars
  <2>6. ASSUME NEW c \in Conns
        PROVE  /\ Plain!Event(c) => Event(c)
               /\ Plain!AcceptOnce(c) => AcceptOnce(c)
    BY Zenon DEF Plain!Event, Event, Plain!AcceptOnce, AcceptOnce, Plain!CheckConnecting,
       CheckConnecting, Plain!FinishConnecting, FinishConnecting, Plain!Call, Call,
       Plain!Bits, Bits, Plain!Idle, Idle, Plain!listVars, listVars
  <2> QED
    BY Zenon, <2>1, <2>2, <2>3, <2>4, <2>5, <2>6 DEF Plain!Loop, Loop
<1> QED
  BY Zenon, <1>1, <1>2 DEF Plain!Next, Plain!Api, PlainStep

\* The connections that belong on the two lists.
Actives == {c \in Conns : inActive[c]}
Closings == {c \in Conns : status[c] = "closing"}

\* do_conn_event or the end of on_closed is about cur.
Handled == pc \in {"read", "write"} \/ (pc = "cb" /\ after \in {"read", "close"})

\* No connection belongs on both lists.  An idle slot is on none, and waits for no
\* event; what epoll_wait reported, and what is being handled, is not activated and
\* its slot is not reused until cleanClient.
Apart ==
    /\ \A c \in Conns : inActive[c] => status[c] \notin {"closing", "closed"}
    /\ \A c \in Conns : status[c] = "closed" => events[c] = {}
    /\ \A c \in batch \cap Conns : ~inActive[c] /\ status[c] # "closed"
    /\ Handled => ~inActive[cur] /\ status[cur] # "closed"

\* The inductive invariant of plain use.
PlainInv ==
    /\ Chain(active, Actives, next)
    /\ Chain(closing, Closings, next)
    /\ Apart

(* Steps that leave the links and the two sets alone.                      *)
LEMMA ChainsKept ==
    ASSUME PlainInv, UNCHANGED <<next, inActive, active, closing>>,
           \A c \in Conns : status'[c] = "closing" <=> status[c] = "closing"
    PROVE  Chain(active', Actives', next') /\ Chain(closing', Closings', next')
<1>1. Actives' = Actives /\ Closings' = Closings
  BY Zenon DEF Actives, Closings
<1> QED
  BY Zenon, <1>1 DEF PlainInv

(* _agN_close of a connection that is not on active_list.                  *)
LEMMA ClosePlain ==
    ASSUME LoopInv, PlainInv, NEW c \in Conns, CloseConn(c), ~inActive[c], status[c] # "closed"
    PROVE  /\ Chain(active', Actives', next') /\ Chain(closing', Closings', next')
           /\ \A d \in Conns : inActive'[d] => status'[d] \notin {"closing", "closed"}
           /\ \A d \in Conns : status'[d] = "closed" => events'[d] = {}
           /\ inActive' = inActive
           /\ \A d \in Conns : status'[d] = "closed" => status[d] = "closed"
<1>1. CASE status[c] = "closing"
  <2>1. UNCHANGED <<status, next, inActive, events, active, closing>>
    BY Zenon, <1>1 DEF CloseConn, connVars, listVars
  <2>2. Chain(active', Actives', next') /\ Chain(closing', Closings', next')
    BY Zenon, <2>1, ChainsKept
  <2> QED
    BY Zenon, <2>1, <2>2 DEF PlainInv, Apart
<1>2. CASE status[c] # "closing"
  <2>1. /\ status' = [status EXCEPT ![c] = "closing"] /\ events' = [events EXCEPT ![c] = {}]
        /\ next' = [next EXCEPT ![c] = closing] /\ closing' = c
        /\ inActive' = inActive /\ active' = active
    BY Zenon, <1>2 DEF CloseConn
  <2>2. /\ status \in [Conns -> Statuses] /\ events \in [Conns -> SUBSET Bits]
        /\ next \in [Conns -> Conns \cup {NIL}]
    BY Zenon DEF LoopInv, TypeOK
  <2>3. /\ Actives' = Actives /\ Closings' = Closings \cup {c}
        /\ c \notin Actives /\ c \notin Closings
    BY Zenon, <1>2, <2>1, <2>2 DEF Actives, Closings
  <2>4. next'[c] = closing /\ \A d \in Conns : d # c => next'[d] = next[d]
    BY Zenon, <2>1, <2>2
  <2>5. \A d \in Actives : next'[d] = next[d]
    BY Zenon, <2>3, <2>4 DEF Actives
  <2>6. \A d \in Closings : next'[d] = next[d]
    BY Zenon, <2>3, <2>4 DEF Closings
  <2>7. Chain(active', Actives', next')
    BY Zenon, <2>1, <2>3, <2>5, ChainKept DEF PlainInv
  <2>8. Chain(closing', Closings', next')
    BY Zenon, <2>1, <2>3, <2>4, <2>6, ChainPush DEF PlainInv
  <2>9. /\ \A d \in Conns : inActive'[d] => status'[d] \notin {"closing", "closed"}
        /\ \A d \in Conns : status'[d] = "closed" => events'[d] = {}
        /\ \A d \in Conns : status'[d] = "closed" => status[d] = "closed"
    BY <2>1, <2>2 DEF PlainInv, Apart
  <2> QED
    BY Zenon, <2>1, <2>7, <2>8, <2>9
<1> QED
  BY Zenon, <1>1, <1>2

(* A slot that was idle is put on active_list.                             *)
LEMMA ActivatePlain ==
    ASSUME LoopInv, PlainInv, NEW c \in Conns, status[c] = "closed",
           NEW st \in {"wait_cb", "connected"},
           status' = [status EXCEPT ![c] = st], next' = [next EXCEPT ![c] = active],
           active' = c, inActive' = [inActive EXCEPT ![c] = TRUE], closing' = closing
    PROVE  Chain(active', Actives', next') /\ Chain(closing', Closings', next')
<1>1. /\ status \in [Conns -> Statuses] /\ inActive \in [Conns -> BOOLEAN]
      /\ next \in [Conns -> Conns \cup {NIL}]
  BY Zenon DEF LoopInv, TypeOK
<1>2. c \notin Actives /\ c \notin Closings
  BY Zenon DEF PlainInv, Apart, Actives, Closings
<1>3. Actives' = Actives \cup {c}
  BY Zenon, <1>1 DEF Actives
<1>4. Closings' = Closings
  BY <1>1 DEF Closings
<1>5. next'[c] = active /\ \A d \in Conns : d # c => next'[d] = next[d]
  BY Zenon, <1>1
<1>6. \A d \in Actives : next'[d] = next[d]
  BY Zenon, <1>2, <1>5 DEF Actives
<1>7. \A d \in Closings : next'[d] = next[d]
  BY Zenon, <1>2, <1>5 DEF Closings
<1>8. Chain(active', Actives', next')
  BY Zenon, <1>2, <1>3, <1>5, <1>6, ChainPush DEF PlainInv
<1>9. Chain(closing', Closings', next')
  BY Zenon, <1>4, <1>7, ChainKept DEF PlainInv
<1> QED
  BY Zenon, <1>8, <1>9

(* The calls of the API.                                                   *)
LEMMA PlainApi ==
    ASSUME LoopInv, PlainInv, NEW c \in Conns,
           (ApiClose(c) /\ ~inActive[c]) \/ ApiSend(c) \/ ApiConnect(c)
    PROVE  PlainInv'
<1>0. /\ status \in [Conns -> Statuses] /\ inActive \in [Conns -> BOOLEAN]
      /\ next \in [Conns -> Conns \cup {NIL}] /\ events \in [Conns -> SUBSET Bits]
      /\ Handled => cur \in Conns
  BY Zenon DEF LoopInv, TypeOK, CurOpen, Handled
<1>1. CASE ApiClose(c) /\ ~inActive[c]
  <2>1. CloseConn(c) /\ status[c] # "closed" /\ ~inActive[c] /\ UNCHANGED loopVars
    BY Zenon, <1>1 DEF ApiClose
  <2>2. /\ Chain(active', Actives', next') /\ Chain(closing', Closings', next')
        /\ \A d \in Conns : inActive'[d] => status'[d] \notin {"closing", "closed"}
        /\ \A d \in Conns : status'[d] = "closed" => events'[d] = {}
        /\ inActive' = inActive
        /\ \A d \in Conns : status'[d] = "closed" => status[d] = "closed"
    BY Zenon, <2>1, ClosePlain
  <2>3. Apart'
    BY Zenon, <1>0, <2>1, <2>2 DEF PlainInv, Apart, Handled, loopVars
  <2> QED
    BY Zenon, <2>2, <2>3 DEF PlainInv
<1>2. CASE ApiSend(c)
  <2>1. /\ status[c] = "connected" /\ events' = [events EXCEPT ![c] = Bits]
        /\ UNCHANGED <<status, next, inActive, active, closing, batch, pc, cur, after>>
    BY Zenon, <1>2 DEF ApiSend, listVars, loopVars
  <2>2. Chain(active', Actives', next') /\ Chain(closing', Closings', next')
    BY Zenon, <2>1, ChainsKept
  <2>3. \A d \in Conns : status'[d] = "closed" => events'[d] = {}
    BY <1>0, <2>1 DEF PlainInv, Apart
  <2>4. Apart'
    BY Zenon, <2>1, <2>3 DEF PlainInv, Apart, Handled
  <2> QED
    BY Zenon, <2>2, <2>4 DEF PlainInv
<1>3. CASE ApiConnect(c)
  <2>1. status[c] = "closed" /\ UNCHANGED <<closing, batch, pc, cur, after>>
    BY Zenon, <1>3 DEF ApiConnect, Idle, loopVars
  <2>2. c \notin batch /\ (Handled => cur # c) /\ ~inActive[c]
    BY Zenon, <2>1 DEF PlainInv, Apart
  <2>3. CASE /\ status' = [status EXCEPT ![c] = "wait_cb"]
             /\ next' = [next EXCEPT ![c] = active] /\ active' = c
             /\ inActive' = [inActive EXCEPT ![c] = TRUE]
             /\ events' = [events EXCEPT ![c] = {}]
    <3>1. Chain(active', Actives', next') /\ Chain(closing', Closings', next')
      BY Zenon, <2>1, <2>3, ActivatePlain
    <3>2. /\ status'[c] = "wait_cb"
          /\ \A d \in Conns : d # c => status'[d] = status[d] /\ inActive'[d] = inActive[d]
                                       /\ events'[d] = events[d]
      BY Zenon, <1>0, <2>3
    <3>3. Apart'
      BY <1>0, <2>1, <2>2, <3>2 DEF PlainInv, Apart, Handled
    <3> QED
      BY Zenon, <3>1, <3>3 DEF PlainInv
  <2>4. CASE /\ status' = [status EXCEPT ![c] = "connecting"]
             /\ next' = [next EXCEPT ![c] = NIL]
             /\ inActive' = [inActive EXCEPT ![c] = FALSE]
             /\ events' = [events EXCEPT ![c] = {"out"}]
             /\ UNCHANGED active
    <3>1. /\ status'[c] = "connecting" /\ ~inActive'[c]
          /\ \A d \in Conns : d # c => status'[d] = status[d] /\ inActive'[d] = inActive[d]
                                       /\ events'[d] = events[d] /\ next'[d] = next[d]
      BY Zenon, <1>0, <2>4
    <3>2. Actives' = Actives /\ Closings' = Closings /\ c \notin Actives /\ c \notin Closings
      BY <2>1, <2>2, <3>1 DEF Actives, Closings
    <3>3. (\A d \in Actives : next'[d] = next[d]) /\ \A d \in Closings : next'[d] = next[d]
      BY Zenon, <3>1, <3>2 DEF Actives, Closings
    <3>4. Chain(active', Actives', next') /\ Chain(closing', Closings', next')
      BY Zenon, <2>1, <2>4, <3>2, <3>3, ChainKept DEF PlainInv
    <3>5. Apart'
      BY <1>0, <2>1, <2>2, <3>1 DEF PlainInv, Apart, Handled
    <3> QED
      BY Zenon, <3>4, <3>5 DEF PlainInv
  <2> QED
    BY Zenon, <1>3, <2>3, <2>4 DEF ApiConnect
<1> QED
  BY Zenon, <1>1, <1>2, <1>3

(* The steps that leave the connections and the lists alone, a write, and  *)
(* the return of a callback.                                               *)
LEMMA PlainQuiet ==
    ASSUME LoopInv, PlainInv,
           \/ TickDrain \/ DrainEnd \/ TickWait \/ AcceptStart \/ AcceptEnd
           \/ ReadMessage \/ ReadClosed \/ ReadEnd \/ Write \/ Return
    PROVE  PlainInv'
<1>0. /\ status \in [Conns -> Statuses] /\ events \in [Conns -> SUBSET Bits]
      /\ phase \in {"drain", "events"} /\ (Handled => cur \in Conns)
  BY Zenon DEF LoopInv, TypeOK, CurOpen, Handled
<1>1. CASE \/ TickDrain \/ DrainEnd \/ AcceptStart \/ AcceptEnd
           \/ ReadMessage \/ ReadClosed \/ ReadEnd
  <2>1. UNCHANGED <<status, next, inActive, events, active, closing>>
    BY Zenon, <1>1 DEF TickDrain, DrainEnd, AcceptStart, AcceptEnd, ReadMessage, ReadClosed,
       ReadEnd, connVars, listVars
  <2>2. batch' \subseteq batch
    BY Zenon, <1>1 DEF TickDrain, DrainEnd, AcceptStart, AcceptEnd, ReadMessage, ReadClosed,
       ReadEnd
  <2>3. Handled' => Handled /\ cur' = cur
    BY Zenon, <1>1 DEF TickDrain, DrainEnd, AcceptStart, AcceptEnd, ReadMessage, ReadClosed,
       ReadEnd, Call, Handled
  <2>4. Chain(active', Actives', next') /\ Chain(closing', Closings', next')
    BY Zenon, <2>1, ChainsKept
  <2>5. Apart'
    BY Zenon, <2>1, <2>2, <2>3 DEF PlainInv, Apart
  <2> QED
    BY Zenon, <2>4, <2>5 DEF PlainInv
<1>2. CASE TickWait
  <2>1. /\ UNCHANGED <<status, next, inActive, events, active, closing>>
        /\ active = NIL /\ pc' = "cb" /\ after' = "events"
        /\ \A d \in batch' \cap Conns : d # Listener => events[d] # {}
    BY Zenon, <1>2 DEF TickWait, Call, connVars, listVars
  <2>2. Chain(active', Actives', next') /\ Chain(closing', Closings', next')
    BY Zenon, <2>1, ChainsKept
  <2>3. \A d \in Conns : ~inActive[d]
    BY Zenon, <2>1, ChainOfNil DEF PlainInv, Actives
  <2>4. ~Handled'
    BY Zenon, <2>1 DEF Handled
  <2>5. Apart'
    BY Zenon, <2>1, <2>3, <2>4, NetworkAssumption DEF PlainInv, Apart
  <2> QED
    BY Zenon, <2>2, <2>5 DEF PlainInv
<1>3. CASE Write
  <2>1. /\ UNCHANGED <<status, next, inActive, active, closing, batch>>
        /\ pc' = phase
        /\ \A d \in Conns : status[d] # "connected" => events'[d] = events[d]
    BY Zenon, <1>0, <1>3 DEF Write, listVars
  <2>2. Chain(active', Actives', next') /\ Chain(closing', Closings', next')
    BY Zenon, <2>1, ChainsKept
  <2>3. ~Handled'
    BY Zenon, <1>0, <2>1 DEF Handled
  <2>4. \A d \in Conns : status'[d] = "closed" => events'[d] = {}
    BY Zenon, <2>1 DEF PlainInv, Apart
  <2>5. Apart'
    BY Zenon, <2>1, <2>3, <2>4 DEF PlainInv, Apart
  <2> QED
    BY Zenon, <2>2, <2>5 DEF PlainInv
<1>4. CASE Return /\ after = "close"
  <2>1. Handled /\ CloseConn(cur) /\ pc' = phase /\ UNCHANGED batch
    BY Zenon, <1>4 DEF Return, Handled
  <2>2. cur \in Conns /\ ~inActive[cur] /\ status[cur] # "closed"
    BY Zenon, <1>0, <2>1 DEF PlainInv, Apart
  <2>3. /\ Chain(active', Actives', next') /\ Chain(closing', Closings', next')
        /\ \A d \in Conns : inActive'[d] => status'[d] \notin {"closing", "closed"}
        /\ \A d \in Conns : status'[d] = "closed" => events'[d] = {}
        /\ inActive' = inActive
        /\ \A d \in Conns : status'[d] = "closed" => status[d] = "closed"
    BY Zenon, <2>1, <2>2, ClosePlain
  <2>4. ~Handled'
    BY Zenon, <1>0, <2>1 DEF Handled
  <2>5. Apart'
    BY Zenon, <2>1, <2>3, <2>4 DEF PlainInv, Apart
  <2> QED
    BY Zenon, <2>3, <2>5 DEF PlainInv
<1>5. CASE Return /\ after # "close"
  <2>1. /\ UNCHANGED <<status, next, inActive, events, active, closing, batch, cur>>
        /\ pc = "cb" /\ pc' = after
    BY Zenon, <1>5 DEF Return, connVars, listVars
  <2>2. Handled' => Handled
    BY Zenon, <2>1 DEF Handled, LoopInv, TypeOK
  <2>3. Chain(active', Actives', next') /\ Chain(closing', Closings', next')
    BY Zenon, <2>1, ChainsKept
  <2>4. Apart'
    BY Zenon, <2>1, <2>2 DEF PlainInv, Apart
  <2> QED
    BY Zenon, <2>3, <2>4 DEF PlainInv
<1> QED
  BY Zenon, <1>1, <1>2, <1>3, <1>4, <1>5

(* The steps that take a connection off active_list, look at one that      *)
(* epoll_wait reported, accept one, and release the closed ones.           *)
LEMMA PlainConn ==
    ASSUME LoopInv, PlainInv,
           \/ Drain \/ CleanClient
           \/ \E c \in Conns : Event(c) \/ AcceptOnce(c)
    PROVE  PlainInv'
<1>0. /\ status \in [Conns -> Statuses] /\ inActive \in [Conns -> BOOLEAN]
      /\ next \in [Conns -> Conns \cup {NIL}] /\ events \in [Conns -> SUBSET Bits]
      /\ active \in Conns \cup {NIL}
  BY Zenon DEF LoopInv, TypeOK
<1>1. CASE Drain
  <2>1. /\ active \in Conns /\ active # NIL /\ active' = next[active]
        /\ next' = [next EXCEPT ![active] = NIL]
        /\ inActive' = [inActive EXCEPT ![active] = FALSE]
        /\ UNCHANGED <<closing, batch>> /\ pc = "drain"
    BY Zenon, <1>0, <1>1 DEF Drain
  <2>2. /\ ~inActive'[active]
        /\ \A d \in Conns : d # active => next'[d] = next[d] /\ inActive'[d] = inActive[d]
    BY Zenon, <1>0, <2>1
  <2>3. active \in Actives /\ Chain(active', Actives \ {active}, next')
    <3>1. \A d \in Actives \ {active} : next'[d] = next[d]
      BY Zenon, <2>2 DEF Actives
    <3> QED
      BY Zenon, <2>1, <3>1, ChainPop DEF PlainInv
  <2>4. Actives' = Actives \ {active}
    BY Zenon, <2>2 DEF Actives
  <2>5. status[active] \notin {"closing", "closed"}
    BY Zenon, <2>3 DEF Actives, PlainInv, Apart
  <2>6. /\ \A d \in Conns : d # active => status'[d] = status[d] /\ events'[d] = events[d]
        /\ status'[active] \notin {"closing", "closed"}
    BY Zenon, <1>0, <1>1, <2>1, <2>5 DEF Drain, CheckConnecting, FinishConnecting
  <2>7. Handled' => cur' = active
    BY Zenon, <1>1, <2>1 DEF Drain, CheckConnecting, FinishConnecting, Call, Handled
  <2>8. Closings' = Closings /\ \A d \in Closings : next'[d] = next[d]
    BY Zenon, <2>2, <2>5, <2>6 DEF Closings
  <2>9. Chain(active', Actives', next') /\ Chain(closing', Closings', next')
    BY Zenon, <2>1, <2>3, <2>4, <2>8, ChainKept DEF PlainInv
  <2>10. Apart'
    BY Zenon, <2>1, <2>2, <2>6, <2>7 DEF PlainInv, Apart
  <2> QED
    BY Zenon, <2>9, <2>10 DEF PlainInv
<1>2. CASE CleanClient
  <2>1. \A c : Released(c) <=> c \in Closings
    BY Zenon, ChainFound DEF PlainInv, Released
  <2>2. /\ \A c \in Conns : status'[c] = IF c \in Closings THEN "closed" ELSE status[c]
        /\ \A c \in Conns : events'[c] = IF c \in Closings THEN {} ELSE events[c]
        /\ UNCHANGED <<next, inActive, active, batch>>
        /\ closing' = NIL /\ pc' = "tick" /\ batch = {}
    BY Zenon, <1>2, <2>1 DEF CleanClient
  <2>3. \A c \in Conns : c \in Closings <=> status[c] = "closing"
    BY Zenon DEF Closings
  <2>4. Actives' = Actives /\ Closings' = {}
    BY <2>2, <2>3 DEF Actives, Closings
  <2>5. Chain(active', Actives', next') /\ Chain(closing', Closings', next')
    BY Zenon, <2>2, <2>4, ChainOfNil DEF PlainInv
  <2>6. ~Handled'
    BY Zenon, <2>2 DEF Handled
  <2>7. Apart'
    BY Zenon, <2>2, <2>3, <2>6 DEF PlainInv, Apart
  <2> QED
    BY Zenon, <2>5, <2>7 DEF PlainInv
<1>3. ASSUME NEW c \in Conns, Event(c)
      PROVE  PlainInv'
  <2>1. /\ c \in batch /\ batch' = batch \ {c}
        /\ UNCHANGED <<next, inActive, active, closing>> /\ pc = "events"
    BY Zenon, <1>3 DEF Event, listVars
  <2>2. ~inActive[c] /\ status[c] # "closed"
    BY Zenon, <2>1 DEF PlainInv, Apart
  <2>3. /\ \A d \in Conns : d # c => status'[d] = status[d] /\ events'[d] = events[d]
        /\ status'[c] # "closed" /\ (status'[c] = "closing" <=> status[c] = "closing")
    BY Zenon, <1>0, <1>3, <2>2 DEF Event, CheckConnecting, FinishConnecting
  <2>4. Handled' => cur' = c
    BY Zenon, <1>3, <2>1 DEF Event, CheckConnecting, FinishConnecting, Call, Handled
  <2>5. Chain(active', Actives', next') /\ Chain(closing', Closings', next')
    BY Zenon, <2>1, <2>3, ChainsKept
  <2>6. Apart'
    BY Zenon, <2>1, <2>2, <2>3, <2>4 DEF PlainInv, Apart
  <2> QED
    BY Zenon, <2>5, <2>6 DEF PlainInv
<1>4. ASSUME NEW c \in Conns, AcceptOnce(c)
      PROVE  PlainInv'
  <2>1. /\ status[c] = "closed" /\ status' = [status EXCEPT ![c] = "connected"]
        /\ events' = [events EXCEPT ![c] = {"in"}]
        /\ next' = [next EXCEPT ![c] = active] /\ active' = c
        /\ inActive' = [inActive EXCEPT ![c] = TRUE]
        /\ UNCHANGED <<closing, batch>> /\ pc' = "cb" /\ after' = "accept"
    BY Zenon, <1>4 DEF AcceptOnce, Idle, Call
  <2>2. c \notin batch
    BY Zenon, <2>1 DEF PlainInv, Apart
  <2>3. Chain(active', Actives', next') /\ Chain(closing', Closings', next')
    BY Zenon, <2>1, ActivatePlain
  <2>4. /\ status'[c] = "connected"
        /\ \A d \in Conns : d # c => status'[d] = status[d] /\ inActive'[d] = inActive[d]
                                     /\ events'[d] = events[d]
    BY Zenon, <1>0, <2>1
  <2>5. ~Handled'
    BY Zenon, <2>1 DEF Handled
  <2>6. Apart'
    BY Zenon, <2>1, <2>2, <2>4, <2>5 DEF PlainInv, Apart
  <2> QED
    BY Zenon, <2>3, <2>6 DEF PlainInv
<1> QED
  BY Zenon, <1>1, <1>2, <1>3, <1>4

(* Every step of plain use.                                                *)
LEMMA PlainStepKeeps == LoopInv /\ PlainInv /\ PlainStep => PlainInv'
  BY Zenon, PlainApi, PlainQuiet, PlainConn DEF PlainStep, Loop

(* Used plainly, the event loop keeps its two lists sound, with any number *)
(* of connections: active_list holds exactly the connections to be looked  *)
(* at and closing_list exactly those that are closing, although the two    *)
(* share the link c->next.                                                 *)
THEOREM PlainListsSoundHolds == MCSpec => []PlainListsSound
<1> DEFINE Inv == LoopInv /\ (plain => PlainInv)
<1>1. MCInit => Inv
  <2> SUFFICES ASSUME MCInit PROVE LoopInv /\ PlainInv
    BY Zenon
  <2>1. Init
    BY Zenon DEF MCInit
  <2>2. Actives = {} /\ Closings = {} /\ active = NIL /\ closing = NIL
    BY <2>1 DEF Init, Actives, Closings
  <2>3. Chain(active, Actives, next) /\ Chain(closing, Closings, next)
    BY Zenon, <2>2, ChainOfNil
  <2>4. Apart
    BY Zenon, <2>1 DEF Init, Apart, Handled
  <2> QED
    BY Zenon, <2>1, <2>3, <2>4, LoopInit DEF PlainInv
<1>2. Inv /\ [MCNext]_<<plain, vars>> => Inv'
  <2> SUFFICES ASSUME Inv, [MCNext]_<<plain, vars>> PROVE Inv'
    BY Zenon
  <2>1. CASE MCNext /\ plain
    <3>1. PlainStep /\ plain' = plain
      BY Zenon, <2>1, PlainSteps DEF MCNext
    <3>2. Next
      BY Zenon, <3>1 DEF PlainStep, Next, Api
    <3> QED
      BY Zenon, <2>1, <3>1, <3>2, LoopStep, PlainStepKeeps
  <2>2. CASE MCNext /\ ~plain
    BY Zenon, <2>2, LoopStep DEF MCNext
  <2>3. CASE UNCHANGED <<plain, vars>>
    <3>1. LoopInv'
      BY Zenon, <2>3, LoopStep
    <3>2. UNCHANGED <<plain, status, next, inActive, events, active, closing, batch, pc, cur,
                      after>>
      BY Zenon, <2>3 DEF vars, connVars, listVars, loopVars
    <3>3. PlainInv => Chain(active', Actives', next') /\ Chain(closing', Closings', next')
      BY Zenon, <3>2, ChainsKept
    <3>4. PlainInv => Apart'
      BY Zenon, <3>2 DEF PlainInv, Apart, Handled
    <3> QED
      BY Zenon, <3>1, <3>2, <3>3, <3>4 DEF PlainInv
  <2> QED
    BY Zenon, <2>1, <2>2, <2>3
<1>3. Inv => PlainListsSound
  BY Zenon, ChainFound DEF PlainInv, PlainListsSound, ListsSound, Actives, Closings
<1> QED
  BY <1>1, <1>2, <1>3, PTL DEF MCSpec
=============================================================================
