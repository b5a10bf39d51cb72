------------------------------- MODULE Remote -------------------------------
(* The connection the Go services talk to a game service over              *)
(* (remote/remote.go): callers of Talk register a channel for the number   *)
(* of their request, write it and wait for the answer or for a timeout; a  *)
(* goroutine reads answers and passes each to its channel, and when the    *)
(* connection fails clears all channels and connects again.                *)
(*                                                                         *)
(* A channel holds one value: a second one blocks who sends it. The number *)
(* of a request is the caller's here: it counts to 2^32 before it repeats. *)
EXTENDS Integers, Sequences, FiniteSets

CONSTANTS
    Sns,         \* the requests: one call of Talk each
    Capacity,    \* what a channel holds: 1
    MaxConns     \* bound: connections that are made

VARIABLES
    talk,        \* [Sns -> state of the call of Talk]
    waiting,     \* r.waiting: the requests that have a channel there
    ch,          \* the channels: sequences of "answer" and "nil"
    conn,        \* r.conn: "none", "open" or "dead" (failed, not replaced)
    dialled,     \* connections made so far
    server,      \* requests written to this connection and not answered
    reader,      \* the goroutine r: "dial", "read", "send" or "clear"
    toSend       \* the channels it has taken from waiting and has to send to

vars == <<talk, waiting, ch, conn, dialled, server, reader, toSend>>

Init ==
    /\ talk = [s \in Sns |-> "new"]
    /\ waiting = {}
    /\ ch = [s \in Sns |-> <<>>]
    /\ conn = "none"
    /\ dialled = 0
    /\ server = {}
    /\ reader = "dial"
    /\ toSend = {}

\* Startup: the loop that dials until a connection is made; r starts to read.
Startup ==
    /\ reader = "dial"
    /\ dialled < MaxConns
    /\ dialled' = dialled + 1
    /\ conn' = "open"
    /\ server' = {}
    /\ reader' = "read"
    /\ UNCHANGED <<talk, waiting, ch, toSend>>

\* The peer or the network ends the connection: some answers are lost.
ConnFails ==
    /\ conn = "open"
    /\ conn' = "dead"
    /\ server' \in SUBSET server
    /\ UNCHANGED <<talk, waiting, ch, dialled, reader, toSend>>

\* Mutant: the channel stays registered.
PopKeeps(s) == waiting

\* pop: the channel of a request is no longer registered.
Pop(s) == waiting \ {s}

\* Talk, up to push. Without a connection it returns at once.
TalkPush(s) ==
    /\ talk[s] = "new"
    /\ IF conn = "none"
       THEN talk' = [talk EXCEPT ![s] = "invalid"] /\ UNCHANGED waiting
       ELSE /\ talk' = [talk EXCEPT ![s] = "write"]
            /\ waiting' = waiting \union {s}
    /\ UNCHANGED <<ch, conn, dialled, server, reader, toSend>>

\* The request is written, to the connection there is by now. A write to a
\* dead connection may fail, or succeed for nothing. One that fails ends
\* Talk, and its channel stays registered.
TalkWrite(s) ==
    /\ talk[s] = "write"
    /\ \/ /\ conn = "open"
          /\ server' = server \union {s}
          /\ talk' = [talk EXCEPT ![s] = "wait"]
       \/ /\ conn = "dead"
          /\ talk' \in {[talk EXCEPT ![s] = t] : t \in {"wait", "failed"}}
          /\ UNCHANGED server
    /\ UNCHANGED <<waiting, ch, conn, dialled, reader, toSend>>

\* The select at the end of Talk: a value in the channel ...
TalkReceive(s) ==
    /\ talk[s] = "wait"
    /\ ch[s] # <<>>
    /\ talk' = [talk EXCEPT ![s] = IF Head(ch[s]) = "nil" THEN "invalid" ELSE "answered"]
    /\ ch' = [ch EXCEPT ![s] = Tail(@)]
    /\ UNCHANGED <<waiting, conn, dialled, server, reader, toSend>>

\* ... or the timeout, however late the answer is on its way.
TalkTimeout(s) ==
    /\ talk[s] = "wait"
    /\ talk' = [talk EXCEPT ![s] = "timeout"]
    /\ waiting' = Pop(s)
    /\ UNCHANGED <<ch, conn, dialled, server, reader, toSend>>

\* r reads an answer and pops its channel; one that nobody waits for is
\* dropped.
Read(s) ==
    /\ reader = "read"
    /\ s \in server
    /\ server' = server \ {s}
    /\ waiting' = Pop(s)
    /\ IF s \in waiting
       THEN reader' = "send" /\ toSend' = {s}
       ELSE UNCHANGED <<reader, toSend>>
    /\ UNCHANGED <<talk, ch, conn, dialled>>

\* An answer with an unknown command is skipped: its caller waits on.
ReadUnknown(s) ==
    /\ reader = "read"
    /\ s \in server
    /\ server' = server \ {s}
    /\ UNCHANGED <<talk, waiting, ch, conn, dialled, reader, toSend>>

\* Mutant: clear forgets the channels without a word to their callers.
ClearedNone == {}

\* The channels clear takes out of waiting.
Cleared == waiting

\* The read fails, or what was read cannot be decoded.
ReadFails ==
    /\ reader = "read"
    /\ reader' = "clear"
    /\ toSend' = Cleared
    /\ waiting' = {}
    /\ UNCHANGED <<talk, ch, conn, dialled, server>>

\* The reader sends to a channel it took, when there is room.
Send(s) ==
    /\ s \in toSend
    /\ Len(ch[s]) < Capacity
    /\ ch' = [ch EXCEPT ![s] = Append(@, IF reader = "send" THEN "answer" ELSE "nil")]
    /\ toSend' = toSend \ {s}
    /\ reader' = IF reader = "send" THEN "read" ELSE reader
    /\ UNCHANGED <<talk, waiting, conn, dialled, server>>

\* The channels are cleared: the reader goes on to Startup, which closes the
\* connection and then dials.
ClearDone ==
    /\ reader = "clear"
    /\ toSend = {}
    /\ reader' = "dial"
    /\ conn' = "dead"
    /\ server' = {}
    /\ UNCHANGED <<talk, waiting, ch, dialled, toSend>>

Next ==
    \/ Startup \/ ConnFails \/ ReadFails \/ ClearDone
    \/ \E s \in Sns : \/ TalkPush(s) \/ TalkWrite(s) \/ TalkReceive(s)
                      \/ TalkTimeout(s) \/ Read(s) \/ ReadUnknown(s)
                      \/ Send(s)

Spec == Init /\ [][Next]_vars
----------------------------------------------------------------------------
(* The reader never blocks on a channel: of the answer, the nil of clear   *)
(* and a caller that is gone, at most one value is sent to each channel.   *)
ReaderFree == \A s \in toSend \union waiting : ch[s] = <<>>

(* A caller that waits is still served: its channel is registered, or the  *)
(* reader has it in hand, or it has a value. Otherwise it would wait for   *)
(* the whole timeout for an answer that was dropped.                       *)
Served == \A s \in Sns : talk[s] = "wait" => s \in waiting \union toSend \/ ch[s] # <<>>

(* A channel whose caller is gone stays registered only after a write that *)
(* failed.                                                                 *)
NoLeak == \A s \in waiting : talk[s] \in {"write", "wait", "failed"}
============================================================================
