------------------------------ MODULE Network ------------------------------
(***************************************************************************)
(* The event loop of src/framework/network.c and its connections.          *)
(*                                                                         *)
(* A connection lives in a slot of the resource pool (module Lrm) from     *)
(* accept or connect until cleanClient releases it at the end of a tick.   *)
(* Two intrusive lists run through the one link c->next: active_list       *)
(* (connections to look at before the next epoll_wait) and closing_list    *)
(* (connections to release).  Callbacks run on the loop's own stack and    *)
(* may call back into the network layer; none of those calls invokes a     *)
(* callback, so callbacks do not nest.                                     *)
(*                                                                         *)
(* A step of the loop stops where the code calls a handler ("cb"); there   *)
(* the program makes any number of API calls and returns.  An id that no   *)
(* longer resolves makes every API call a no-op, so the calls below name   *)
(* connections that exist.                                                 *)
(***************************************************************************)
EXTENDS Naturals, FiniteSets

CONSTANTS
    Conns,              \* the slots of the pool
    NIL,                \* the null pointer
    Listener,           \* the listening socket; it is never closed
    Uses                \* what the program does with the API, of AllUses

\* The uses of the API that share c->next between the two lists:
\*   handOver          _agN_set_handler outside on_accept, to pass a connection
\*                     on to another handler
\*   closeActivated    _agN_close of a connection that is on active_list
\*   reactivateClosed  _agN_set_handler of a connection that is closing, or
\*                     from its own on_closed
\* The gateway has all three, the world server the first.
AllUses == {"handOver", "closeActivated", "reactivateClosed"}

ASSUME NetworkAssumption ==
    /\ IsFiniteSet(Conns) /\ NIL \notin Conns
    /\ Listener \notin Conns \cup {NIL}
    /\ Uses \subseteq AllUses

VARIABLES
    status,         \* conn->status
    next,           \* conn->next
    inActive,       \* conn->in_active_list
    events,         \* conn->events, the epoll interest
    wbuf,           \* whether conn->wbuf holds bytes
    active,         \* net->active_list
    closing,        \* net->closing_list
    batch,          \* the connections of the events[] not yet looked at
    pc,             \* where the loop is
    phase,          \* which loop of _agN_tick a connection is processed in
    cur,            \* the connection being processed
    ev,             \* the event bits do_conn_event was called with
    after           \* what follows when the running callback returns

connVars == <<status, next, inActive, events, wbuf>>
listVars == <<active, closing>>
loopVars == <<batch, pc, phase, cur, ev, after>>
vars == <<connVars, listVars, loopVars>>
----------------------------------------------------------------------------
Statuses == {"closed", "connecting", "connected", "closing", "wait_cb"}
Bits == {"in", "out"}
Idle == {c \in Conns : status[c] = "closed"}

TypeOK ==
    /\ status \in [Conns -> Statuses]
    /\ next \in [Conns -> Conns \cup {NIL}]
    /\ inActive \in [Conns -> BOOLEAN]
    /\ events \in [Conns -> SUBSET Bits]
    /\ wbuf \in [Conns -> BOOLEAN]
    /\ active \in Conns \cup {NIL}
    /\ closing \in Conns \cup {NIL}
    /\ batch \in SUBSET (Conns \cup {Listener})
    /\ pc \in {"tick", "drain", "events", "accept", "read", "write", "cb"}
    /\ phase \in {"drain", "events"}
    /\ cur \in Conns \cup {NIL}
    /\ ev \in SUBSET Bits
    /\ after \in {"drain", "events", "accept", "read", "close"}

\* _agN_new and _agN_listen.
Init ==
    /\ status = [c \in Conns |-> "closed"]
    /\ next = [c \in Conns |-> NIL]
    /\ inActive = [c \in Conns |-> FALSE]
    /\ events = [c \in Conns |-> {}]
    /\ wbuf = [c \in Conns |-> FALSE]
    /\ active = NIL
    /\ closing = NIL
    /\ batch = {}
    /\ pc = "tick"
    /\ phase = "events"
    /\ cur = NIL
    /\ ev = {}
    /\ after = "events"

\* The connection that is n links after c, or NIL where a list has ended, and the
\* connections on a list: those found from its head.
Nth[n \in 0 .. Cardinality(Conns)] ==
    [c \in Conns \cup {NIL} |-> IF n = 0 \/ c = NIL THEN c ELSE Nth[n - 1][next[c]]]
OnList(head) == {Nth[n][head] : n \in 0 .. Cardinality(Conns)} \ {NIL}
----------------------------------------------------------------------------
(* The calls a program makes from its callbacks.                           *)

\* _network_active: nothing happens to a connection that has a link or is on
\* the list already.
Activates(c) == next[c] = NIL /\ ~inActive[c]

Activate(c) ==
    IF Activates(c)
    THEN /\ next' = [next EXCEPT ![c] = active]
         /\ active' = c
         /\ inActive' = [inActive EXCEPT ![c] = TRUE]
    ELSE UNCHANGED <<next, active, inActive>>

\* Mutant: a second close links the connection again.
CloseConnTwice(c) ==
    /\ status' = [status EXCEPT ![c] = "closing"]
    /\ events' = [events EXCEPT ![c] = {}]
    /\ next' = [next EXCEPT ![c] = closing]
    /\ closing' = c
    /\ UNCHANGED <<inActive, wbuf, active>>

\* _agN_close: the connection is released later, by cleanClient.
CloseConn(c) ==
    IF status[c] # "closing"
    THEN /\ status' = [status EXCEPT ![c] = "closing"]
         /\ events' = [events EXCEPT ![c] = {}]
         /\ next' = [next EXCEPT ![c] = closing]
         /\ closing' = c
         /\ UNCHANGED <<inActive, wbuf, active>>
    ELSE UNCHANGED <<connVars, listVars>>

ApiClose(c) ==
    /\ pc = "cb"
    /\ status[c] # "closed"
    /\ "closeActivated" \in Uses \/ ~inActive[c]
    /\ CloseConn(c)
    /\ UNCHANGED loopVars

\* _agN_set_handler of an accepted or connected connection.
ApiSetHandler(c) ==
    /\ pc = "cb"
    /\ \/ /\ "handOver" \in Uses
          /\ status[c] = "connected"
          /\ ~(after = "close" /\ cur = c)
       \/ /\ "reactivateClosed" \in Uses
          /\ status[c] = "closing" \/ (after = "close" /\ cur = c)
    /\ Activate(c)
    /\ events' = [events EXCEPT ![c] = IF wbuf[c] THEN Bits ELSE {"in"}]
    /\ UNCHANGED <<status, wbuf, closing, loopVars>>

\* Mutant: what is left in wbuf does not arm EPOLLOUT.
ApiSendNoInterest(c) ==
    /\ pc = "cb"
    /\ status[c] = "connected"
    /\ wbuf' = [wbuf EXCEPT ![c] = TRUE]
    /\ UNCHANGED <<status, next, inActive, events, listVars, loopVars>>

\* _agN_send and _agN_writev when the socket does not take every byte.
ApiSend(c) ==
    /\ pc = "cb"
    /\ status[c] = "connected"
    /\ wbuf' = [wbuf EXCEPT ![c] = TRUE]
    /\ events' = [events EXCEPT ![c] = Bits]
    /\ UNCHANGED <<status, next, inActive, listVars, loopVars>>

\* Mutant: a connection that is there at once is not put on active_list.
ApiConnectUnlisted(c) ==
    /\ pc = "cb"
    /\ c \in Idle
    /\ wbuf' = [wbuf EXCEPT ![c] = FALSE]
    /\ \/ /\ status' = [status EXCEPT ![c] = "wait_cb"]
          /\ UNCHANGED <<next, active, inActive>>
          /\ events' = [events EXCEPT ![c] = {}]
       \/ /\ status' = [status EXCEPT ![c] = "connecting"]
          /\ next' = [next EXCEPT ![c] = NIL]
          /\ inActive' = [inActive EXCEPT ![c] = FALSE]
          /\ events' = [events EXCEPT ![c] = {"out"}]
          /\ UNCHANGED active
    /\ UNCHANGED <<closing, loopVars>>

\* _agN_connect: the slot is cleared; a connection that is there at once waits
\* for its callback on active_list, any other waits for EPOLLOUT.
ApiConnect(c) ==
    /\ pc = "cb"
    /\ c \in Idle
    /\ wbuf' = [wbuf EXCEPT ![c] = FALSE]
    /\ \/ /\ status' = [status EXCEPT ![c] = "wait_cb"]
          /\ next' = [next EXCEPT ![c] = active]
          /\ active' = c
          /\ inActive' = [inActive EXCEPT ![c] = TRUE]
          /\ events' = [events EXCEPT ![c] = {}]
       \/ /\ status' = [status EXCEPT ![c] = "connecting"]
          /\ next' = [next EXCEPT ![c] = NIL]
          /\ inActive' = [inActive EXCEPT ![c] = FALSE]
          /\ events' = [events EXCEPT ![c] = {"out"}]
          /\ UNCHANGED active
    /\ UNCHANGED <<closing, loopVars>>
----------------------------------------------------------------------------
(* Callbacks.                                                              *)

Call(c, then) == pc' = "cb" /\ cur' = c /\ after' = then

\* The callback returns; on_closed is followed by _agN_close in every caller.
Return ==
    /\ pc = "cb"
    /\ IF after = "close"
       THEN CloseConn(cur) /\ pc' = phase
       ELSE pc' = after /\ UNCHANGED <<connVars, listVars>>
    /\ UNCHANGED <<batch, phase, cur, ev, after>>

\* finish_connecting, with its call of on_connected.
FinishConnecting(c) ==
    /\ status' = [status EXCEPT ![c] = "connected"]
    /\ events' = [events EXCEPT ![c] = IF wbuf[c] THEN Bits ELSE {"in"}]
    /\ Call(c, phase')

\* check_connecting: on_closed and a close, or finish_connecting.
CheckConnecting(c) ==
    \/ Call(c, "close") /\ UNCHANGED <<status, events>>
    \/ FinishConnecting(c)
----------------------------------------------------------------------------
(* The loop.                                                               *)

\* _agN_tick with a nonempty active_list: it is drained, and the tick ends
\* without cleanClient.
TickDrain ==
    /\ pc = "tick"
    /\ active # NIL
    /\ pc' = "drain"
    /\ phase' = "drain"
    /\ UNCHANGED <<connVars, listVars, batch, cur, ev, after>>

DrainEnd ==
    /\ pc = "drain"
    /\ active = NIL
    /\ pc' = "tick"
    /\ UNCHANGED <<connVars, listVars, batch, phase, cur, ev, after>>

\* One round of the drain: the head is unlinked and looked at by status.
Drain ==
    /\ pc = "drain"
    /\ active # NIL
    /\ active' = next[active]
    /\ next' = [next EXCEPT ![active] = NIL]
    /\ inActive' = [inActive EXCEPT ![active] = FALSE]
    /\ phase' = "drain"
    /\ CASE status[active] = "connecting" ->
              CheckConnecting(active) /\ UNCHANGED ev
         [] status[active] = "wait_cb" ->
              FinishConnecting(active) /\ UNCHANGED ev
         [] status[active] = "connected" ->
              /\ pc' = "read"
              /\ cur' = active
              /\ ev' = Bits
              /\ UNCHANGED <<status, events, after>>
         [] OTHER -> UNCHANGED <<status, events, pc, cur, ev, after>>
    /\ UNCHANGED <<wbuf, closing, batch>>

\* _agN_tick with an empty active_list: epoll_wait reports some connections,
\* and the tick and timer callbacks run first.
TickWait ==
    /\ pc = "tick"
    /\ active = NIL
    /\ batch' \in SUBSET ({c \in Conns : events[c] # {}} \cup {Listener})
    /\ phase' = "events"
    /\ Call(NIL, "events")
    /\ UNCHANGED <<connVars, listVars, ev>>

\* Mutant: the status is not looked at again after epoll_wait.
EventUnchecked(c) ==
    /\ pc = "events"
    /\ c \in batch \cap Conns
    /\ batch' = batch \ {c}
    /\ phase' = "events"
    /\ \/ /\ status[c] = "connecting"
          /\ CheckConnecting(c)
          /\ UNCHANGED ev
       \/ /\ status[c] # "connecting"
          /\ \/ Call(c, "close") /\ UNCHANGED ev
             \/ /\ ev' \in SUBSET Bits
                /\ pc' = "read"
                /\ cur' = c
                /\ UNCHANGED after
          /\ UNCHANGED <<status, events>>
    /\ UNCHANGED <<next, inActive, wbuf, listVars>>

\* A connection of the batch: it may have been closed since epoll_wait.
Event(c) ==
    /\ pc = "events"
    /\ c \in batch \cap Conns
    /\ batch' = batch \ {c}
    /\ phase' = "events"
    /\ \/ /\ status[c] = "connecting"
          /\ CheckConnecting(c)
          /\ UNCHANGED ev
       \/ /\ status[c] = "connected"
          /\ \/ Call(c, "close") /\ UNCHANGED ev
             \/ /\ ev' \in SUBSET Bits
                /\ pc' = "read"
                /\ cur' = c
                /\ UNCHANGED after
          /\ UNCHANGED <<status, events>>
       \/ /\ status[c] \notin {"connecting", "connected"}
          /\ UNCHANGED <<status, events, pc, cur, ev, after>>
    /\ UNCHANGED <<next, inActive, wbuf, listVars>>

\* The listening socket: accept_once until accept fails.
AcceptStart ==
    /\ pc = "events"
    /\ Listener \in batch
    /\ batch' = batch \ {Listener}
    /\ pc' = "accept"
    /\ UNCHANGED <<connVars, listVars, phase, cur, ev, after>>

\* accept_once; every on_accept of the programs sets the new connection's
\* handler.  With no idle slot the socket is closed at once.
AcceptOnce(c) ==
    /\ pc = "accept"
    /\ c \in Idle
    /\ status' = [status EXCEPT ![c] = "connected"]
    /\ wbuf' = [wbuf EXCEPT ![c] = FALSE]
    /\ events' = [events EXCEPT ![c] = {"in"}]
    /\ next' = [next EXCEPT ![c] = active]
    /\ active' = c
    /\ inActive' = [inActive EXCEPT ![c] = TRUE]
    /\ Call(c, "accept")
    /\ UNCHANGED <<closing, batch, phase, ev>>

AcceptEnd ==
    /\ pc = "accept"
    /\ pc' = "events"
    /\ UNCHANGED <<connVars, listVars, batch, phase, cur, ev, after>>

\* do_conn_read: a message, the end of the stream, or nothing more to read.
ReadMessage ==
    /\ pc = "read"
    /\ "in" \in ev
    /\ status[cur] = "connected"
    /\ Call(cur, "read")
    /\ UNCHANGED <<connVars, listVars, batch, phase, ev>>

ReadClosed ==
    /\ pc = "read"
    /\ "in" \in ev
    /\ status[cur] = "connected"
    /\ Call(cur, "close")
    /\ UNCHANGED <<connVars, listVars, batch, phase, ev>>

ReadEnd ==
    /\ pc = "read"
    /\ pc' = "write"
    /\ UNCHANGED <<connVars, listVars, batch, phase, cur, ev, after>>

\* do_conn_write: some or all of the buffered bytes leave.
Write ==
    /\ pc = "write"
    /\ IF "out" \in ev /\ status[cur] = "connected"
       THEN /\ \E left \in {FALSE, wbuf[cur]} :
                 /\ wbuf' = [wbuf EXCEPT ![cur] = left]
                 /\ events' = IF left THEN events
                              ELSE [events EXCEPT ![cur] = {"in"}]
       ELSE UNCHANGED <<wbuf, events>>
    /\ pc' = phase
    /\ UNCHANGED <<status, next, inActive, listVars, batch, phase, cur, ev, after>>

\* Mutant: only the head of the list is released.
ReleasedHeadOnly(c) == c = closing

\* do_close of one connection of closing_list.
Released(c) == c \in OnList(closing)

\* cleanClient, the end of a tick.
CleanClient ==
    /\ pc = "events"
    /\ batch = {}
    /\ status' = [c \in Conns |-> IF Released(c) THEN "closed" ELSE status[c]]
    /\ events' = [c \in Conns |-> IF Released(c) THEN {} ELSE events[c]]
    /\ wbuf' = [c \in Conns |-> wbuf[c] /\ ~Released(c)]
    /\ closing' = NIL
    /\ pc' = "tick"
    /\ UNCHANGED <<next, inActive, active, batch, phase, cur, ev, after>>
----------------------------------------------------------------------------
Api == \E c \in Conns : ApiClose(c) \/ ApiSetHandler(c) \/ ApiSend(c) \/ ApiConnect(c)

Loop ==
    \/ TickDrain \/ DrainEnd \/ Drain
    \/ TickWait \/ AcceptStart \/ AcceptEnd \/ CleanClient
    \/ ReadMessage \/ ReadClosed \/ ReadEnd \/ Write \/ Return
    \/ \E c \in Conns : Event(c) \/ AcceptOnce(c)

Next == Api \/ Loop

\* A callback returns, a read or accept loop ends (10 kilobytes per event, a
\* finite backlog), and the loop goes on.
Fairness ==
    /\ WF_vars(Return) /\ WF_vars(Write) /\ WF_vars(Drain) /\ WF_vars(DrainEnd)
    /\ WF_vars(TickDrain) /\ WF_vars(TickWait) /\ WF_vars(AcceptStart)
    /\ WF_vars(CleanClient) /\ \A c \in Conns : WF_vars(Event(c))
    /\ SF_vars(ReadEnd) /\ SF_vars(AcceptEnd)

Spec == Init /\ [][Next]_vars /\ Fairness
----------------------------------------------------------------------------
\* Following the links from a head ends.
Finite(head) == Nth[Cardinality(Conns)][head] = NIL

(* active_list holds exactly the connections flagged in_active_list: none  *)
(* is lost with its flag set (it would never be activated again), and none *)
(* is on the list unflagged.  closing_list holds exactly the connections   *)
(* that are closing: none leaks and no open connection is released.        *)
ListsSound ==
    /\ Finite(active) /\ OnList(active) = {c \in Conns : inActive[c]}
    /\ Finite(closing) /\ OnList(closing) = {c \in Conns : status[c] = "closing"}

(* What the debugging loop of _network_active asserts (network.c:733):     *)
(* following the links from the head of active_list never leads back to it.*)
NoActiveCycle ==
    active # NIL => active \notin OnList(next[active])

(* "clean up closing conn" (network.c:409): after cleanClient no connection*)
(* is left closing.                                                        *)
CleanedUp ==
    (pc = "tick" /\ phase = "events") => \A c \in Conns : status[c] # "closing"

(* Bytes in wbuf are never forgotten: an open connection with output is    *)
(* registered for EPOLLOUT, and every open connection for EPOLLIN, whatever*)
(* mix of sends, partial writes and handler changes went before.           *)
IoArmed ==
    \A c \in Conns : status[c] = "connected" =>
        /\ "in" \in events[c]
        /\ wbuf[c] => "out" \in events[c]

(* No handler of a connection is called once the connection is closing,    *)
(* also when the close came from another connection's callback after       *)
(* epoll_wait reported the connection.                                     *)
NoCallbackAfterClose ==
    [][(pc # "cb" /\ pc' = "cb" /\ cur' # NIL) =>
          status[cur'] \notin {"closing"} /\ (after' # "accept" => status[cur'] # "closed")]_vars

(* A connection that connect() completed at once gets its on_connected (or *)
(* is closed) if drains end.                                               *)
ConnectReported ==
    []<>(pc = "tick") =>
        \A c \in Conns : (status[c] = "wait_cb") ~> (status[c] # "wait_cb")

(* A closed connection is released if the loop gets to epoll_wait again and*)
(* again.                                                                  *)
ClosingReleased ==
    []<>(pc = "tick" /\ active = NIL) =>
        \A c \in Conns : (status[c] = "closing") ~> (status[c] = "closed")
============================================================================
