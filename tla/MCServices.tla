----------------------------- MODULE MCServices -----------------------------
(* The threads of the Lua servers and the services they call: two threads  *)
(* that call one service, or one service with two addresses.               *)
EXTENDS Integers

CONSTANTS Threads, Remotes, NoThread, Timeouts, MaxSleep, MaxStep, MaxSN

VARIABLES conn, co, nextSN, wire, wake, state, asked, pc, todo, rest, failed

\* TIMEOUT and the times of IGNORE_TIMEOUT_COMMAND have a longest.
ASSUME ServicesAssumption ==
    /\ NoThread \notin Threads
    /\ Timeouts \subseteq Nat /\ MaxSN \in Nat
    /\ \E n \in Timeouts : \A k \in Timeouts : k <= n
    /\ MaxSleep \in Nat \ {0} /\ MaxStep \in Nat \ {0}

Lua == INSTANCE Services

MCSpec == Lua!Spec

\* A thread that waits is found in one place, the one it waits in (Thread.lua,
\* ServiceManager.lua).
OneWait == Lua!OneWait

\* A thread that waits for an answer is resumed, by the answer or by the timeout.
RequestsReturn == Lua!RequestsReturn
=============================================================================
