------------------------------ MODULE Services ------------------------------
(***************************************************************************)
(* The threads (coroutines) of the Lua servers and the requests they make  *)
(* to other services: src/lib/Thread.lua, src/lib/Scheduler.lua and        *)
(* src/lib/ServiceManager.lua.                                             *)
(*                                                                         *)
(* A thread runs until it waits: for the answer to a request, in _co of    *)
(* the remote under the request's serial number, or for a second, in       *)
(* tickers.  It is resumed by the answer or by onUpdate, which the main    *)
(* loop calls as time passes.  What a thread does when it runs is left     *)
(* open: it waits again, ends, or ends with an error.                      *)
(*                                                                         *)
(* Times are kept relative to the present: left is what remains of         *)
(* cv.t + TIMEOUT - os.time(), wake what remains of a sleep.               *)
(***************************************************************************)
EXTENDS Integers

CONSTANTS
    Threads, Remotes,
    NoThread,       \* co of a request made outside a thread
    Timeouts,       \* TIMEOUT, alone and with those of IGNORE_TIMEOUT_COMMAND
    MaxSleep,       \* bound on the seconds of a sleep
    MaxStep,        \* bound on the seconds between two updates
    MaxSN           \* bound on the serial numbers

VARIABLES
    conn,           \* remote.conn: "nil", "connecting" or "up"
    co,             \* remote._co, a set of entries
    nextSN,         \* Service._next_sn
    wire,           \* the requests a remote has received on this connection,
                    \* and may answer at any time, or twice
    wake,           \* tickers: the seconds a sleeping thread has left
    state,          \* of a thread: "new", "waiting", "asleep" or "dead"
    asked,          \* the serial number of a thread's last request
    pc,             \* where onUpdate is
    todo,           \* the callbacks it has still to call
    rest,           \* fired or toCo, the threads still to be resumed
    failed          \* whether an error has ended the loop over them

vars == <<conn, co, nextSN, wire, wake, state, asked, pc, todo, rest, failed>>
----------------------------------------------------------------------------
SNs == 1 .. MaxSN
Entries == [sn : SNs, co : Threads \cup {NoThread},
            left : -1 .. CHOOSE n \in Timeouts : \A k \in Timeouts : k <= n]
Awake == -1        \* of a thread that does not sleep

TypeOK ==
    /\ conn \in [Remotes -> {"nil", "connecting", "up"}]
    /\ co \in [Remotes -> SUBSET Entries]
    /\ nextSN \in 0 .. MaxSN
    /\ wire \in [Remotes -> SUBSET SNs]
    /\ wake \in [Threads -> Awake .. MaxSleep]
    /\ state \in [Threads -> {"new", "waiting", "asleep", "dead"}]
    /\ asked \in [Threads -> 0 .. MaxSN]
    /\ pc \in {"idle", "update", "fired", "toCo"}
    /\ todo \subseteq {"fired", "toCo"}
    /\ rest \subseteq Threads /\ failed \in BOOLEAN

Init ==
    /\ conn \in [Remotes -> {"nil", "connecting"}]
    /\ co = [r \in Remotes |-> {}]
    /\ nextSN = 0
    /\ wire = [r \in Remotes |-> {}]
    /\ wake = [th \in Threads |-> Awake]
    /\ state = [th \in Threads |-> "new"]
    /\ asked = [th \in Threads |-> 0]
    /\ pc = "idle"
    /\ todo = {} /\ rest = {} /\ failed = FALSE
----------------------------------------------------------------------------
(* What a thread does until it waits again.  c is _co without the entry    *)
(* that is being answered, w is wake without the sleep that is over.       *)

Ends(th, c, w) ==
    /\ state' = [state EXCEPT ![th] = "dead"]
    /\ co' = c /\ wake' = w
    /\ UNCHANGED <<nextSN, wire, asked>>

\* Sleep: at least a second.
Sleeps(th, c, w) ==
    /\ \E sec \in 1 .. MaxSleep : wake' = [w EXCEPT ![th] = sec]
    /\ state' = [state EXCEPT ![th] = "asleep"]
    /\ co' = c
    /\ UNCHANGED <<nextSN, wire, asked>>

\* Service:Request in a thread.  The message may fail to be encoded or sent; the
\* thread waits all the same.
Requests(th, c, w) ==
    \E r \in Remotes, t \in Timeouts :
        /\ conn[r] = "up"
        /\ nextSN < MaxSN
        /\ nextSN' = nextSN + 1
        /\ co' = [c EXCEPT ![r] = @ \cup {[sn |-> nextSN', co |-> th, left |-> t]}]
        /\ wire' \in {wire, [wire EXCEPT ![r] = @ \cup {nextSN'}]}
        /\ state' = [state EXCEPT ![th] = "waiting"]
        /\ asked' = [asked EXCEPT ![th] = nextSN']
        /\ wake' = w

\* coroutine.resume; how is its status.
Run(th, c, w, how) ==
    \/ Ends(th, c, w)
    \/ how = "ok" /\ (Sleeps(th, c, w) \/ Requests(th, c, w))
----------------------------------------------------------------------------
(* Events of the main loop.                                                *)

\* RunThread
Start(th) ==
    /\ pc = "idle"
    /\ state[th] = "new"
    /\ \E how \in {"ok", "error"} : Run(th, co, wake, how)
    /\ UNCHANGED <<conn, pc, todo, rest, failed>>

\* Service:Request outside a thread.
RequestNoThread(r) ==
    /\ pc = "idle"
    /\ conn[r] = "up"
    /\ nextSN < MaxSN
    /\ nextSN' = nextSN + 1
    /\ \E t \in Timeouts :
           co' = [co EXCEPT ![r] =
                    @ \cup {[sn |-> nextSN', co |-> NoThread, left |-> t]}]
    /\ wire' = [wire EXCEPT ![r] = @ \cup {nextSN'}]
    /\ UNCHANGED <<conn, wake, state, asked, pc, todo, rest, failed>>

\* onConnected
Connected(r) ==
    /\ pc = "idle"
    /\ conn[r] = "connecting"
    /\ conn' = [conn EXCEPT ![r] = "up"]
    /\ UNCHANGED <<co, nextSN, wire, wake, state, asked, pc, todo, rest, failed>>

\* onClosed: a connection is lost, with the answers on their way, or refused.
Closed(r) ==
    /\ pc = "idle"
    /\ conn[r] # "nil"
    /\ conn' = [conn EXCEPT ![r] = "nil"]
    /\ wire' = [wire EXCEPT ![r] = {}]
    /\ UNCHANGED <<co, nextSN, wake, state, asked, pc, todo, rest, failed>>

\* Mutant: the entry of the request stays.
MessageKeepsEntry(r, sn) ==
    /\ pc = "idle"
    /\ conn[r] = "up"
    /\ sn \in wire[r]
    /\ UNCHANGED <<conn, pc, todo, rest, failed>>
    /\ \E e \in co[r] :
           /\ e.sn = sn /\ e.co # NoThread
           /\ Run(e.co, co, [wake EXCEPT ![e.co] = Awake], "ok")

\* onMessage: the answer to sn, on time or late.
Message(r, sn) ==
    /\ pc = "idle"
    /\ conn[r] = "up"
    /\ sn \in wire[r]
    /\ UNCHANGED <<conn, pc, todo, rest, failed>>
    /\ LET entry == {e \in co[r] : e.sn = sn}
           c == [co EXCEPT ![r] = @ \ entry]
       IN IF \E e \in entry : e.co # NoThread
          THEN \E e \in entry, how \in {"ok", "error"} : Run(e.co, c, wake, how)
          ELSE co' = c /\ UNCHANGED <<nextSN, wire, wake, state, asked>>
----------------------------------------------------------------------------
(* onUpdate, which calls the callbacks of Thread.lua and ServiceManager.lua *)
(* in the order in which the program has loaded them.                      *)

Callbacks == {"fired", "toCo"}

Later(n, d, floor) == IF n - d < floor THEN floor ELSE n - d

\* d seconds have passed since the last update.
Tick(d) ==
    /\ pc = "idle"
    /\ co' = [r \in Remotes |->
                 {[e EXCEPT !.left = Later(@, d, -1)] : e \in co[r]}]
    /\ wake' = [th \in Threads |->
                   IF wake[th] = Awake THEN Awake ELSE Later(wake[th], d, 0)]
    /\ pc' = "update"
    /\ todo' = Callbacks
    /\ UNCHANGED <<conn, nextSN, wire, state, asked, rest, failed>>

\* The callback of Thread.lua up to its last loop: the sleepers of all seconds
\* up to now.
TakeFired ==
    /\ pc = "update"
    /\ "fired" \in todo
    /\ pc' = "fired"
    /\ todo' = todo \ {"fired"}
    /\ rest' = {th \in Threads : wake[th] = 0}
    /\ wake' = [th \in Threads |-> IF wake[th] = 0 THEN Awake ELSE wake[th]]
    /\ UNCHANGED <<conn, co, nextSN, wire, state, asked, failed>>

\* Mutant: the requests of a lost connection are dropped.
CollectTimedOut ==
    /\ pc = "update"
    /\ "toCo" \in todo
    /\ pc' = "toCo"
    /\ todo' = todo \ {"toCo"}
    /\ rest' = {e.co : e \in {f \in UNION {co[r] : r \in Remotes} : f.left < 0}}
                    \ {NoThread}
    /\ co' = [r \in Remotes |-> IF conn[r] = "nil" THEN {}
                                ELSE {e \in co[r] : e.left >= 0}]
    /\ conn' = [r \in Remotes |-> IF conn[r] = "nil" THEN "connecting" ELSE conn[r]]
    /\ UNCHANGED <<nextSN, wire, wake, state, asked, failed>>

\* onSchedulerUpdate up to its last loop: the requests that have timed out or
\* lost their connection are taken out, and connections are tried again.
Collect ==
    /\ pc = "update"
    /\ "toCo" \in todo
    /\ pc' = "toCo"
    /\ todo' = todo \ {"toCo"}
    /\ LET Over(r) == {e \in co[r] : conn[r] = "nil" \/ e.left < 0}
       IN /\ rest' = {e.co : e \in UNION {Over(r) : r \in Remotes}} \ {NoThread}
          /\ co' = [r \in Remotes |-> co[r] \ Over(r)]
    /\ \E refused \in SUBSET {r \in Remotes : conn[r] = "nil"} :
           conn' = [r \in Remotes |->
                       IF conn[r] = "nil" /\ r \notin refused THEN "connecting"
                                                              ELSE conn[r]]
    /\ UNCHANGED <<nextSN, wire, wake, state, asked, failed>>

\* An iteration of the last loop of either; an error ends the loop.
ResumeNext(th, how) ==
    /\ pc \in Callbacks
    /\ th \in rest
    /\ Run(th, co, wake, how)
    /\ rest' = IF how = "ok" THEN rest \ {th} ELSE {}
    /\ failed' = (failed \/ rest' # rest \ {th})
    /\ UNCHANGED <<conn, pc, todo>>

CallbackDone ==
    /\ pc \in Callbacks
    /\ rest = {}
    /\ pc' = IF todo = {} THEN "idle" ELSE "update"
    /\ UNCHANGED <<conn, co, nextSN, wire, wake, state, asked, todo, rest, failed>>

ResumeSome == \E th \in Threads, how \in {"ok", "error"} : ResumeNext(th, how)

Next ==
    \/ \E th \in Threads : Start(th)
    \/ \E r \in Remotes : RequestNoThread(r) \/ Connected(r) \/ Closed(r)
    \/ \E r \in Remotes, sn \in SNs : Message(r, sn)
    \/ \E d \in 1 .. MaxStep : Tick(d)
    \/ TakeFired \/ Collect \/ ResumeSome \/ CallbackDone

\* Time passes, and an update runs to its end.
Fairness ==
    /\ WF_vars(\E d \in 1 .. MaxStep : Tick(d))
    /\ WF_vars(TakeFired \/ Collect \/ ResumeSome \/ CallbackDone)

Spec == Init /\ [][Next]_vars /\ Fairness
----------------------------------------------------------------------------
(* Properties.                                                             *)

EntriesOf(th) == {e \in UNION {co[r] : r \in Remotes} : e.co = th}

\* A thread that waits is found in one place, the one it waits in: an answer that
\* comes late, after the request timed out or its connection was lost, never
\* resumes the thread in a later wait. And it is found there, so that something
\* will resume it, until an error in one thread ends the loop that was to resume
\* others.
OneWait ==
    TypeOK /\ \A th \in Threads :
        /\ \A e, f \in EntriesOf(th) : e = f
        /\ \A e \in EntriesOf(th) :
               state[th] = "waiting" /\ asked[th] = e.sn /\ th \notin rest
        /\ wake[th] # Awake => state[th] = "asleep" /\ th \notin rest
        /\ th \in rest =>
               state[th] = IF pc = "fired" THEN "asleep" ELSE "waiting"
        /\ ~failed =>
               /\ state[th] = "waiting" => EntriesOf(th) # {} \/ th \in rest
               /\ state[th] = "asleep" => wake[th] # Awake \/ th \in rest

\* Unless such an error happens, every request comes back to its thread, with an
\* answer or without one, also when the other service never answers or its
\* connection is lost.
RequestsReturn ==
    \A th \in Threads, sn \in SNs :
        (state[th] = "waiting" /\ asked[th] = sn)
            ~> (failed \/ ~(state[th] = "waiting" /\ asked[th] = sn))
============================================================================
