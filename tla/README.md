# Verification of the game server

TLA+ models of the core of this repository (a C game server: `framework`,
`gateway`, `world`, a Lua host with services, and Go servers), the TLC runs that
check them on small instances, and TLAPS proofs for every value of their
constants. `PROJECT.json` maps every definition to the lines it stands for.

## The system

Every C program is one process with one thread: `_agN_loop` polls with epoll and
calls the handlers of connections; the modules of a program (`module.h`) are
loaded in order and updated once a second (`service_update`). A connection is
named by an id of the resource pool, never by a pointer.

| part | state | operations | what is hard about it |
|---|---|---|---|
| resource pool (`framework/lrm.c`) | slots, their ids, the idle list | new, free, get, next | late users of an id; overflow of the id |
| event loop (`framework/network.c`) | status, interest, output and link of each connection; `active_list`, `closing_list` | connect, accept, send, close, set_handler; tick | callbacks that close other connections of the same batch; two lists in one link |
| gateway: before login (`auth.c`) | `wqueue`, `wmap` | start_auth, remove_waiting, first message | ten second limit against logins under way |
| gateway: authentication (`authserver.c`) | rpc table and list, the link | auth, verdict, timeout | verdicts late, out of order or lost |
| gateway: clients and sessions (`client.c`, `translate.c`) | client of each player, its connection | forward, logout, close, take-over | contexts that point to freed or moved clients |
| gateway: world link (`world.c`) | the link, the requests on it | register, send, answers | what is lost with the link; answers to earlier sessions |
| world: requests and players (`dispatch.c`, `player.c`, `request_queue.c`, `aL.c`) | online and offline maps, zombie list, queues | messages, login, logout, creation, unload, register | a player freed under its session; requests stuck in a queue |
| world: rows (`code_generate.cpp`, `player.c`) | structures, dirty columns, update list | load, change, delete, release, flush | changes lost; a row read before it was written |
| world: notifications (`notify.c`) | lists by client, array of counts | add, set, record, clean | entries that move while they are counted |
| world: timers (`timer.c`), limits on playing time (`addicted.c`) | wheel; info and timer of a player | add, remove, update; login, check, kick | callbacks that add timers; infos freed under a timer |
| Lua library (`Thread.lua`, `Scheduler.lua`, `ServiceManager.lua`) | threads, requests that wait | request, answer, timeout, sleep | late answers; errors in the middle of a resume loop |
| Go: redeem codes, gift cards (`redeem.go`, `gift.go`) | maps in memory and their tables | make, use; import, sell, Fresh | refused writes, restarts, goroutines |
| Go: connection to the game (`remote.go`) | channels that wait | Talk, read, clear, reconnect | a channel sent to twice, or never |
| gateway backends, accounts, recording; game rules; other Go servers; watcher | | | not modelled |

The gateway talks to the authentication server and to the world, the world to its
database, the Lua services and the Go servers to the world or to each other. All
of them can stop, and all links are made again after a loss.

## The models

**Lrm** is the pool: `id`, `next` and `idle` are the fields of the slots and of
the pool; `held`, `stale` and `wrapped` are history. `New` is `_agR_new`, `Free`
is `_agR_free` with the id arithmetic in the width `IdSpace` of a `resid_t`
(`NextId`), `AgRNext` the iterator, `Walk` the loop of `_agN_free`. Callers free
an id they hold, once. **ResourceIds** is what the pool promises: an id is handed
out at most once and is never INVALID_ID. `Lrm` implements it until an id
overflows. After an overflow of a pool whose size does not divide the id space
an id no longer leads to its own slot, so `Congruent` ends the behaviour there.

**Network** is the loop. A step goes to the next place where the code calls a
handler (`pc = "cb"`); there any of the API calls may happen, any number of
times, until `Return`. `phase` says whether a connection is looked at from the
drain of `active_list` or from the events of `epoll_wait`; `batch` holds the
reported connections not yet looked at. `Uses` says what a program does with the
API beyond the plain pattern: handing a connection over to another handler,
closing one that is on `active_list`, setting a handler on one that is closing.

**GatewayNetwork** composes Network with the calls of the gateway's callbacks:
each API call is now guarded by the role its connection has (not logged in, under
verification, in session, a link). It shows that what `Uses` allows does happen.

**Gateway** is the session protocol. Every callback is one action (callbacks do
not nest, as Network shows); a connection is `none`, `open`, `closing` (closed, id
still resolves) or `closed` (released). `handler` carries the handler and its
context. `wqueue` keeps one record per entry, with whether `wmap` points to it.
Ages count updates, because `agT_current` only moves in `service_update`. The
authentication server and the world are external: the first answers its requests
in any order, or loses them with the link; the second (`WorldHandles`) handles its
requests in order, may refuse a login if `WorldRejects`, and takes a registration
as the whole set of its players. Ids are never reused here, as ResourceIds says.
Messages other than login, logout and malformed ones change no state of the
gateway and are left out.

**World** is what the world server does with a message. `pm` is the player manager
with the maps of `player.c`, the zombie list, the remembered absences and the
queues; every `agPM_*` function is an operator on it, and `Receive`, `Register`,
`ProcessNext` and `ConnClosed` are the handlers made of them. A message is one step
up to the loop over the player's queue (`pc = "drain"`), and then each request is
one. The several hundred commands are those that touch the manager: login,
creation, logout, a lookup of another player, unload, and any other. `Database`
lets queries fail and succeed again. Ids keep their two halves (`Full`, `Width`)
because `SetOffline` takes an unsigned int.

**WriteBehind** is the life of one row: the functions `code_generate.cpp` writes for
every table, called as `player.c` and `dispatch.c` call them. `Flush` is part of
`End` (a request) and of `Second`. Saves may fail, and the process may stop (`Stop`
flushes) or crash (`Crash` does not).

**Notify** is `notify.c`: the list of each client, and the counts for the backend,
with the loop of `_nb_clean` step by step, since a count may start it half-way.

**Timer** is the wheel, with any use that callers may make of it. **Addicted**
extends it with the limits on playing time: its steps are those of the wheel, with
`checkPlayer` for the callback, and the calls of `addicted_login`, `_logout` and
`_set_adult` from dispatch and login.

**Services** is the coroutine rpc of the Lua library. What a thread does when it is
resumed is open: it may wait again, end, or end with an error, which ends the loop
that resumed it (`failed`). `wire` holds what another service may answer, twice too.

**Redeem**, **Gift** and **Remote** are three parts of the Go servers. Redeem holds
one lock for a whole operation, so each is one step. A purchase in Gift is four:
it reserves a card, waits for the answer to the charge, records the sale and sends
the card. Remote has the callers of `Talk` and the goroutine `r` as processes that
meet in the map `waiting` and in channels of capacity 1.

Some variables are history: they are written for the properties, and guards read them
only for a bound, to end a behaviour (`wrapped`, `lost`) or for what a caller may free
(`held`). They are `held`, `stale`, `wrapped` of Lrm; `downAt` of World (when a query
last failed); `failed` of WriteBehind and Services; `last`, `recorded`, `sent` of
Notify; `made`, `grants`, `paid`, `unsaved`, `lost`, `cut` of Redeem; `shown` and
`early` of Gift.

`MCWorld` and `MCShop` hold three modules each that share no state; `part`, chosen at
the start, says which one a behaviour is about. `MCRows`, `MCNotes`, `MCGift` and
`MCRedeem` are the instances of WriteBehind, Notify, Gift and Redeem in them.
**Dlist** is `dlist.h`: the lists of Gateway and World as sequences. `MCAddicted` has
the wheel under any use and under Addicted in the same way, and `MCNetwork` the loop
with every use and with the plain one (`plain`).

The operators marked as mutants are small bugs used to test the properties; no
specification uses them.

## The runs

| run | instance | shows |
|---|---|---|
| `pool` | 3 slots, 14 ids | live ids resolve, released ones do not, no slot is lost; ResourceIds is implemented |
| `loop` | 2 connections, every use, or none | no handler runs after a close, output stays armed; in plain use the lists stay apart, connects are reported, closed connections released |
| `sessions` | 3 connections, 2 players, 3 logins | contexts, idle connections, bindings |
| `auth_settles` | 2 connections, 1 player, refused logins | rpcs expire in time, no login waits for ever, the world knows of every session |
| `world` | 2 clients and a computer player, 1 link; 1 row of 2 columns, 3 structures; 3 counted players, an array of 2 | players are in one map and are not freed under a session, queues are worked off; losses are bounded; no count is lost |
| `timers` | wheel of 4, 3 timers, 8 seconds; 2 players | no timer is in a wrong lap; every minor in the game is about to be checked |
| `services` | 2 threads, 1 service, 3 requests | a thread waits in one place; every request returns |
| `shop` | 2 codes, 3 types, 2 accounts; 3 cards, 2 buyers; 3 calls, 2 connections | codes and cards are given once; the reader never blocks |
| `leaked_connection` | 3 connections of the gateway | violated, see below |
| `active_cycle` | 4 connections of the gateway at work | violated, see below |
| `ghost_client`, `late_logout_answer` | 2 connections, 1 player | violated, see below |

Bounds. Two connections are enough for a list to have an inside and a head, and
for one callback to act on another connection; three give an accept that reaps
while two others take over from each other. Three logins let a connection that was
taken over log in again as the other player. The timeouts keep their order (5
seconds for an rpc, passed with `>=`; 10 for a connection, passed with `>`): an rpc
sent at once expires no later than its connection is reaped, one sent late may
outlive it. In `auth_settles` rpcs of two ages are in the list. `MaxSn` and
`MaxWire` bound logins and requests under way.
`pool` stops at the first overflow, hence no deadlock check.

World: three seconds with limits of one let a zombie grow old, come back and be
replaced; queues of two have a request behind another; one id equals the low half
of another, so that the truncation of `SetOffline` hits a computer player. Three
structures for one row allow a player to be released, loaded and released again
before a flush; `DirtyMax` is above `QuietMax` so that the two rules for a save
differ. Counts: three players for an array of two overflow it, and two counts each
let an entry be added to after it moved. Timers: the clock makes two laps and jumps
over several slots; the limit is reached, exceeded and lifted by a rest within the
bound, and one player is forced young and one has no character. Services: two threads can be
in one resume loop, of which the first ends with an error; a second remote would
only repeat `_co`. Shop: the three types are one of a checked group, of the group
that is not checked (8888) and one that is never used up (9999); two buyers reserve
while Fresh runs, and a third card comes with an import; two connections let
answers and `clear` of the first meet calls on the second. `timers` and `shop` stop
when their bounds are used up, hence no deadlock check. Symmetry is used in runs of
invariants only.

`sessions` leaves out refused logins, because then `ExclusiveBinding` does not
hold: the client of the refused login stays bound to a connection that is back in
`wqueue`.

Fairness. Network: a callback returns and the loop goes on (weak fairness of its
steps); a read loop ends (strong fairness: `do_conn_read` stops after a bounded
number of bytes), and so does an accept loop (the backlog is finite). The two
liveness properties of the loop assume that drains end. Gateway: weak fairness of
`Update` only, since the timer callback runs at least once in every second in
which the loop polls; nothing is assumed of clients or servers. Services: time
passes and an update runs to its end (weak fairness of `Tick` and of the steps of
`onUpdate`), since the main loop calls `onUpdate` in every round; no answer is ever
assumed.

What the properties leave out, because the code does not provide it, is a guard in
their statement: `LossBounded` and `LoadsLatest` speak of behaviours in which no
save failed (a failed save is not repeated); `OncePerCode` and `OncePerGroup` of
those in which no use that the table refused was lost with the process;
`OncePerGroup` of loads that were complete; `AbsentIsAbsent` of queries that did
not fail; `RequestsReturn` of threads that did not end a resume loop with an error;
`NotOversold` counts the purchases that were under way when Fresh set `InProcess`
to 0.

## What the violated runs show

- `leaked_connection`: "clean up closing conn" (`network.c:409`). A connection
  that is closed while on `active_list` uses one link for both lists. The next
  drain clears the link, and the rest of `closing_list` is never released.
- `active_cycle`: `assert(n != head)` (`network.c:733`). Setting handlers on
  connections that are being closed links the two lists into a cycle. The run
  starts with a session, a pending login and the link in place, and nothing else
  under way.
- `ghost_client`: "注册服务, 附带当前在线人数" (`world.c:102`). A connection is
  reaped eleven seconds after its acceptance though its login was sent three
  seconds ago; the verdict still makes a client of it, for which no close will
  ever be reported.
- `late_logout_answer`: "玩家登出了" (`world.c:575`). The answer to the logout of a
  closed session reaches the player's next session and closes it.

## The proofs

Every theorem is about all values of the constants that satisfy the named `ASSUME`s.
It is proved from an inductive invariant: it holds at the start, every action keeps
it, and it implies the property. A proof module has one lemma per action or group of
actions, and lemmas about the operators the actions are made of.

| module | theorems, by the property they state |
|---|---|
| `Library_proofs` | `LiveIdResolves`, `StaleIdRejected`, `NoSlotLost`, `ImplementsPool`; `TypeOK`, `IdleListSound`, `InvalidNeverCarried` (pool); `OneWait` (Lua threads) |
| `Network_proofs` | `IoArmed`, `NoCallbackAfterClose`, `PlainListsSound`; `TypeOK` |
| `Gateway_proofs` | `TypeOK`, `TranslateCtx`, `RpcCtx`, `RpcsTimely`, `Watched`, `ExclusiveBinding`, `SessionKnown`; `ListInv` |
| `World_proofs` | `OneMap`, `ZombiesInOrder`, `WaitsBehindRejected`, `AbsentIsAbsent`, `OnlineKept`, `SweptClean` |
| `Rows_proofs` | `OwnStructs`, `LossBounded`, `LoadsLatest` (rows); `NotesKept` (notifications) |
| `Timer_proofs` | `WheelSound`, `NoneOverdue` (wheel); `Watching`, `InTime` (playing time) |
| `Shop_proofs` | `ReaderFree`, `Served`, `NoLeak` (Remote); `OneOwner`, `NotOversold` (Gift) |
| `Redeem_proofs` | `OncePerCode`, `OncePerGroup`, `MemoryIsTable` |

**Pool.** No property is inductive alone. `IInv` adds that every slot's id leads back
to it and that the held ids are those of the slots in use (`IdsMatchSlots`), and that
until an overflow the released ids of a slot lie below its current one
(`StaleIdsBehind`). The arithmetic of remainders has lemmas of its own. `NoSlotLost`
needs that the idle list misses no idle slot. `NoneLost` gives every idle slot a rank,
such that each one but the head is the successor of a slot of higher rank, so no idle
slot can exist once the head is `End`. Each call of the walk of `_agN_free` passes one
slot in use more than the call before it (`WalkAt`). The refinement of ResourceIds has
the hypothesis `IdSpace % MaxRes # 0`; otherwise the pool goes on after an overflow and
hands out ids again.

**Event loop.** For any use of the API, `LoopInv` is `TypeOK`, `IoArmed` and the fact
that what is being read or has its `on_closed` running is a connection. The types say
that heads and links never leave the pool, however the lists are mixed up. For plain
use, a list is a chain (`Chain`): different connections, each with a link to the one
put on the list before it. `PlainInv` says that `active_list` is a chain of the
flagged connections, that `closing_list` is one of those that are closing, and that
nobody belongs on both (`Apart`). `Apart` has to say more to be inductive: what
`epoll_wait` reported and what is being handled is not on `active_list`, and its slot
is not reused before `cleanClient`. `ChainFound` shows that following the links of a
chain finds exactly its connections and ends; it unfolds the recursive function `Nth`
and needs that the pool is finite.

**Gateway.** `TranslateCtx` and `RpcCtx` are inductive together, with `next_sn` ahead
of every rpc in the table (`IInv`): a verdict turns the one context into the other, and
the connection that loses its client loses its context in the same callback.
`RpcsTimely` needs `ListInv`: the list holds the table, each rpc once, in order of
serial number and of age, so the update may stop at the first young rpc. `Watched`
is inductive with the type of the queue (`WatchInv`). `ExclusiveBinding` is
proved with `WorldRejects = FALSE`, the setting of its run, because a refusal breaks
it. `BoundInv` leads from a client or an rpc back to the handler of its connection, and
needs that no refusal is under way. `SessionKnown` needs `KnownInv`: while the link is
up, each session is known to the world with no registration to come, or a message about
its player is under way (a login, a registration that names it, a logout or an answer);
and a registration is the first message of a link.

**World.** Each operation of the player manager keeps `Good` (`OneMap` with the types it
needs), and the handlers are compositions of operations, so each of their cases cites
the lemmas of the operations it makes. The zombie list adds `Ordered`: it holds the
offline players once each, in the order of their last use. The sweep that stops at the
first young zombie rests on that. `Sound` adds `player_not_exist`, and `SInv` what holds
in the middle of the loop of `process_message`.

**Rows, notifications.** `RInv` joins three facts: a structure is current, on the list
or free, and says which (`Own`); `dirty_time` is zero when nothing is dirty (`Tidy`);
and until a save fails what differs from the table is dirty and listed, or waits in a
released structure (`Behind`). For the counts, `CountInv` says that the map and the
array agree (`Agree`), that what was recorded is what was sent and what the array holds
(`Summed`), that no count is older than the delay allows (`InDelay`), and how far the
loop of `_nb_clean` has come (`Cleaning`). `ListsInv` does the same for the lists of
clients.

**Timers.** The invariant adds that linked timers are allocated and where `next` is,
seen from the clock, in each phase of an update; that two seconds of one lap with the
same slot are equal is a lemma (`SameSecond`). For the playing time, `AInv` adds
`Due`: the next check of a watched player comes before the limit is exceeded by more than
`Extra` seconds, or within `CheckDelay` seconds.

**Services.** `WaitsInv` says that serial numbers are given once and where each thread
waits, also half-way through a resume loop (`Placed`).

**Shop.** For Remote the invariant says where the channel of every call is: registered,
in the reader's hand, or sent to, and never two of them. For Gift, `Own` says whose each
card is, in the table, in the group and with the buyers. `Counts` says that `InSell` and
`InProcess` cover the purchases that wait for their charge, but for those that were
under way when Fresh set `InProcess` to 0 (`early`).

**Codes.** The memory of the redeem service can be lost at any step, so the invariant
has to say what a load will find. `RInv` has four parts. `Payable`: a code of a limited
type that can be used, by the map or by its row, has been made more often than given;
this needs no complete load. `Kept`: who was paid for a group is in the map of its
accounts, unless a load ended early. `Saved`: while no write has failed, every use that
was paid and every code that is never used up has a row, `Has` says that memory holds
what is in the rows, and `Orderly` says that `AddCode` passes over none of them. `RTyped`
adds that the count of unused codes is the size of their map. `Has` is about the first
`k` rows, so one predicate serves a load, row by row, and the operations between loads.
That it holds after every number of rows (`LoadHas`) is an induction over the recursive
function `Load`, by the least row at which it would fail; that it holds of the whole
table after a restart is what makes `MemoryIsTable` and `OncePerGroup` survive one. A
call of `AddCodeN` makes one or two codes here, as in the run.

Assumptions. Null values are not among the others; sizes and times are numbers,
positive where the code divides by them or waits for them; sets of slots, cards,
buyers and codes are finite; types of codes are numbered from 1 (`RedeemAssumption`);
ids lie below `Width`. Four say more. `LrmAssumption`: the ids a fresh pool hands out,
and the next one of each slot, fit in a `resid_t`. `RowsAssumption`: a column is saved
at the latest when its player may be unloaded (5 and 900 seconds in the code).
`AddictedAssumption`: there is a timer for every player, and `checkPlayer` forgives
less than the limit that is proved. `ServicesAssumption`: timeouts are bounded. Every
assumption is evaluated by TLC for the constants of the runs.

`Library_proofs`, `Rows_proofs` and `Shop_proofs` hold two parts each that share
nothing. Proofs about a component of a larger run use the modules that name it for
both (`MCServices`, `MCRows`, `MCNotes`, `MCGift`, `MCRedeem`). Many leaves cite
`Zenon`: they need no arithmetic, and Zenon is quicker there.

Only model-checked:

- liveness (`PlainConnectReported`, `PlainClosingReleased`, `AuthSettles`,
  `RequestsReturn`), which is out of the prover's reach;
- `TypesOK` of `MCWorld`, the types of three components together, of which the proofs
  contain the parts they need.

## Plan

1. Gateway and World composed, in place of `WorldHandles`; several worlds, backends,
   reload, the limit of 10000 clients.
2. Containers: `codequeue.c` and `buffer.c` against sequences.
3. Go: invitations, once the isolation of their transactions is fixed.
4. Proofs: the types of the player manager and the reports as one invariant (`TypesOK`).

## Not modelled

- Game rules (`world/logic` apart from login, logout and creation; the Lua
  services): sequential, very large, and driven by configuration data.
- Links of the gateway to the backends, its accounts and its recording; codecs,
  containers, logging, configuration and database access; generated code other than
  the database accessors; the watcher; third-party code. They keep no protocol
  state, or are known here only by what they answer.
- Reload on SIGUSR1, which runs inside the signal handler, and shutdown.
- `event_manager.c`: events go to a buffer for watchers, and nothing registers one.
- Go: invitations read and write tables with no lock around them, so what they do
  at the same time depends on the isolation level of the database, which the
  repository does not fix; the authentication, proxy, dispatch, room and gm servers.
- In the parts that are modelled: payloads and answers of the world, changes of
  name, reload of the limits on playing time, HTTP handlers around codes and cards,
  and a pool of gift cards whose load failed at start-up.
