-------------------------------- MODULE Gift --------------------------------
(* The gift cards of the Go service (redeem/gift/gift.go), for one kind of *)
(* card (one CardGroup): cards are imported, a number of them is put up    *)
(* for sale every hour, and players buy them. A purchase reserves a card   *)
(* under the lock of the group, charges the player with a request to the   *)
(* game server, and then records the sale, so purchases, the hourly Fresh, *)
(* imports and restarts interleave between these steps.                    *)
(*                                                                         *)
(* The database may refuse any write but the commit of an import, and the  *)
(* process may stop between any two steps. The pool is loaded when the     *)
(* process starts.                                                         *)
EXTENDS Integers, Sequences, FiniteSets, Functions

CONSTANTS
    Cards,
    Buyers,      \* requests that are handled at the same time
    Quota,       \* what gift_card_time puts up for sale, in its hours
    MaxHours     \* bound: hours that pass

VARIABLES
    row,         \* gift_card: "none", "new" (not committed), "free" or "sold"
    importing,   \* the cards an import has still to add
    info,        \* gift_card_info: [there, in_sell, stale]
    group,       \* the CardGroup in memory, once there is one
    hours, quota,\* hours that passed, and the quota of this one
    poolStale,   \* pool.FreshHour is not this hour
    req,         \* where each request is, with the card it holds
    shown,       \* how often a card was shown to a buyer
    early        \* requests that held a card when in_sell was last set

vars == <<row, importing, info, group, hours, quota, poolStale, req, shown, early>>

Idle == [at |-> "idle"]
Holding(at, c) == [at |-> at, card |-> c]

InFlight == {b \in Buyers : req[b].at = "consume"}
Least(m, n) == IF m < n THEN m ELSE n

NoGroup == [there |-> FALSE]
Group(unuse, inSell) ==
    [there |-> TRUE, Unuse |-> unuse, UnuseCount |-> Len(unuse),
     InSell |-> inSell, InProcess |-> 0]

\* The row genGroup inserts, if the table takes it.
NewInfo == [there |-> TRUE, in_sell |-> quota, stale |-> FALSE]

Init ==
    /\ row = [c \in Cards |-> "none"]
    /\ importing = <<>>
    /\ info = [there |-> FALSE, in_sell |-> 0, stale |-> FALSE]
    /\ group = NoGroup
    /\ hours = 0
    /\ quota \in {0, Quota}
    /\ poolStale = FALSE
    /\ req = [b \in Buyers |-> Idle]
    /\ shown = [c \in Cards |-> 0]
    /\ early = 0

----------------------------------------------------------------------------
\* An hour passes. Some hours put nothing up for sale.
Hour ==
    /\ hours < MaxHours
    /\ hours' = hours + 1
    /\ quota' \in {0, Quota}
    /\ poolStale' = TRUE
    /\ info' = [info EXCEPT !.stale = info.there]
    /\ UNCHANGED <<row, importing, group, req, shown, early>>

(* The loop of Update sees the new hour and calls Fresh for the pool and   *)
(* then for the group: nothing in an hour that sells nothing, or when the  *)
(* table refuses the new number; it is not tried again in this hour.       *)
Fresh ==
    /\ poolStale
    /\ poolStale' = FALSE
    /\ \/ UNCHANGED <<info, group, early>>
       \/ /\ group.there /\ quota # 0
          /\ LET n == Least(quota, group.UnuseCount)
             IN  /\ info' = IF info.there
                            THEN [info EXCEPT !.in_sell = n, !.stale = FALSE]
                            ELSE info
                 /\ group' = [group EXCEPT !.InSell = n, !.InProcess = 0]
          /\ early' = Cardinality(InFlight)
    /\ UNCHANGED <<row, importing, hours, quota, req, shown>>

\* AddCode for a new card of the group.
AddCode(g, c) ==
    [g EXCEPT !.Unuse = Append(@, c), !.UnuseCount = @ + 1]

(* Import adds the cards of a list, one at a time: each is inserted in a   *)
(* transaction and added to the group under its lock, and the first one of *)
(* its kind makes the group with the quota of this hour. The key refuses a *)
(* card that is there, which ends the import; what was inserted is         *)
(* committed when it ends. Bound: one import at a time.                    *)
Import(cards) ==
    /\ importing = <<>>
    /\ \A c \in Cards : row[c] # "new"
    /\ importing' = cards
    /\ UNCHANGED <<row, info, group, hours, quota, poolStale, req, shown, early>>

ImportCard ==
    /\ importing # <<>>
    /\ row[Head(importing)] = "none"
    /\ importing' = Tail(importing)
    /\ row' = [row EXCEPT ![Head(importing)] = "new"]
    /\ group' = AddCode(IF group.there THEN group ELSE Group(<<>>, quota), Head(importing))
    /\ info' \in IF group.there THEN {info} ELSE {info, NewInfo}
    /\ UNCHANGED <<hours, quota, poolStale, req, shown, early>>

ImportDone ==
    /\ importing # <<>> => row[Head(importing)] # "none"
    /\ importing # <<>> \/ \E c \in Cards : row[c] = "new"
    /\ importing' = <<>>
    /\ row' = [c \in Cards |-> IF row[c] = "new" THEN "free" ELSE row[c]]
    /\ UNCHANGED <<info, group, hours, quota, poolStale, req, shown, early>>

\* Mutant: cards that are being bought are not looked at.
MayReserveWhenInSell == group.InSell > 0 /\ group.UnuseCount > 0

\* The part of Use under the first lock: may a card be taken, and taking it.
MayReserve ==
    /\ group.InSell > 0
    /\ group.UnuseCount > 0
    /\ group.InProcess < group.InSell

Taken ==
    [group EXCEPT !.Unuse = SubSeq(@, 1, group.UnuseCount - 1),
                  !.UnuseCount = @ - 1, !.InProcess = @ + 1]

Reserve(b) ==
    /\ req[b].at = "idle"
    /\ group.there
    /\ MayReserve
    /\ req' = [req EXCEPT ![b] = Holding("consume", group.Unuse[group.UnuseCount])]
    /\ group' = Taken
    /\ UNCHANGED <<row, importing, info, hours, quota, poolStale, shown, early>>

OneLess(n) == IF n > 0 THEN n - 1 ELSE 0

\* Consume failed, or its answer did: the card goes back.
ConsumeFails(b) ==
    /\ req[b].at = "consume"
    /\ group' = [group EXCEPT !.InProcess = OneLess(@),
                              !.Unuse = Append(@, req[b].card),
                              !.UnuseCount = @ + 1]
    /\ req' = [req EXCEPT ![b] = Idle]
    /\ UNCHANGED <<row, importing, info, hours, quota, poolStale, shown, early>>

\* Consume succeeded: the part of Use under the second lock.
ConsumeDone(b) ==
    /\ req[b].at = "consume"
    /\ group' = [group EXCEPT !.InSell = @ - 1, !.InProcess = OneLess(@)]
    /\ \/ info' = [info EXCEPT !.in_sell = IF info.there THEN group'.InSell ELSE @]
       \/ UNCHANGED info
    /\ req' = [req EXCEPT ![b] = Holding("record", req[b].card)]
    /\ UNCHANGED <<row, importing, hours, quota, poolStale, shown, early>>

\* The sale is written to gift_card, after the import that inserts the card
\* has committed; when that fails the request ends there.
Record(b) ==
    /\ req[b].at = "record"
    /\ row[req[b].card] # "new"
    /\ \/ /\ row' = [row EXCEPT ![req[b].card] = "sold"]
          /\ req' = [req EXCEPT ![b].at = "send"]
       \/ /\ req' = [req EXCEPT ![b] = Idle]
          /\ UNCHANGED row
    /\ UNCHANGED <<importing, info, group, hours, quota, poolStale, shown, early>>

\* The card is mailed and is the answer of the request.
Send(b) ==
    /\ req[b].at = "send"
    /\ shown' = [shown EXCEPT ![req[b].card] = @ + 1]
    /\ req' = [req EXCEPT ![b] = Idle]
    /\ UNCHANGED <<row, importing, info, group, hours, quota, poolStale, early>>

\* The rows of a query without an ORDER BY, in one order.
InSomeOrder(S) == CHOOSE s \in [1 .. Cardinality(S) -> S] : IsInjective(s)

\* Mutant: loadCard reads the cards that were sold as well.
LoadedCardsAll == InSomeOrder({c \in Cards : row[c] \in {"free", "sold"}})

(* The process stops and loadCard runs: the group is made from its row,    *)
(* with a Fresh when the row is of another hour (it has no cards yet, so   *)
(* nothing is put up for sale), and then the cards are added; without a    *)
(* row the first card makes the group.                                     *)
LoadedCards == InSomeOrder({c \in Cards : row[c] = "free"})

Restart ==
    /\ req' = [b \in Buyers |-> Idle]
    /\ poolStale' = FALSE
    /\ \/ /\ info.there
          /\ group' = Group(LoadedCards, info.in_sell)
          /\ UNCHANGED <<info, early>>
       \/ /\ info.there /\ info.stale /\ quota # 0
          /\ group' = Group(LoadedCards, 0)
          /\ info' = [info EXCEPT !.in_sell = 0, !.stale = FALSE]
          /\ early' = 0
       \/ /\ ~info.there
          /\ IF \E c \in Cards : row[c] \in {"free", "sold"}
             THEN /\ group' = Group(LoadedCards, quota)
                  /\ info' \in {info, NewInfo}
             ELSE group' = NoGroup /\ UNCHANGED info
          /\ early' = 0
    /\ row' = [c \in Cards |-> IF row[c] = "new" THEN "none" ELSE row[c]]
    /\ importing' = <<>>
    /\ UNCHANGED <<hours, quota, shown>>

\* The lists of cards that are imported.
Lists == {s \in (UNION {[1..n -> Cards] : n \in 1..2}) : IsInjective(s)}

Next ==
    \/ Hour
    \/ Fresh
    \/ \E cards \in Lists : Import(cards)
    \/ ImportCard \/ ImportDone
    \/ \E b \in Buyers : \/ Reserve(b) \/ ConsumeFails(b) \/ ConsumeDone(b)
                         \/ Record(b) \/ Send(b)
    \/ Restart

Spec == Init /\ [][Next]_vars
----------------------------------------------------------------------------
Unuse == IF group.there THEN group.Unuse ELSE <<>>
Held(c) == {b \in Buyers : req[b].at # "idle" /\ req[b].card = c}

\* The counters and tables have values of their kinds.
TypeOK ==
    /\ row \in [Cards -> {"none", "new", "free", "sold"}]
    /\ info.in_sell \in Int
    /\ group.there => /\ group.UnuseCount = Len(group.Unuse)
                      /\ group.InProcess \in Nat
    /\ \A b \in Buyers : req[b].at \in {"idle", "consume", "record", "send"}

(* A card is shown to one buyer, whatever writes were refused and wherever *)
(* the process stopped. Until then it is in one place: offered once, or    *)
(* held by one request; sold, it is not offered again.                     *)
OneOwner ==
    /\ TypeOK
    /\ IsInjective(Unuse)
    /\ \A c \in Cards :
          /\ shown[c] <= 1
          /\ Cardinality(Held(c)) <= 1
          /\ c \in Range(Unuse) => row[c] \in {"new", "free"} /\ Held(c) = {}

(* No more cards are sold than were put up for sale, but for the purchases *)
(* that were being made when Fresh forgot them (it sets InProcess to 0).   *)
NotOversold ==
    group.there => /\ group.InSell + early >= 0
                   /\ group.InProcess <= Cardinality(InFlight)
============================================================================
