---------------------------- MODULE Shop_proofs ----------------------------
(* Proofs about the Go services: the connection to a game service, for any *)
(* set of requests and any number of connections, and the gift cards, for  *)
(* any stock of cards and any number of purchases at a time.               *)
EXTENDS Remote, MCGift, FiniteSetTheorems, TLAPS

States == {"new", "write", "wait", "failed", "answered", "invalid", "timeout"}

\* What the proofs need of the types.
Typed ==
    /\ talk \in [Sns -> States]
    /\ waiting \subseteq Sns
    /\ toSend \subseteq Sns
    /\ ch \in [Sns -> Seq({"answer", "nil"})]
    /\ reader \in {"dial", "read", "send", "clear"}

\* A call that has not begun has no channel.
NewIsUnknown ==
    \A s \in Sns : talk[s] = "new" => s \notin waiting \union toSend /\ ch[s] = <<>>

\* The reader has channels in hand only while it sends: one, or those of clear.
InHand ==
    /\ reader \in {"dial", "read"} => toSend = {}
    /\ reader = "send" => \A s, t \in toSend : s = t

\* A channel is registered or in the reader's hand, not both.
Apart == waiting \cap toSend = {}

\* Served, from the moment the channel is registered.
ServedFromPush ==
    \A s \in Sns : talk[s] \in {"write", "wait"} =>
        s \in waiting \union toSend \/ ch[s] # <<>>

\* The inductive invariant.
IInv ==
    /\ Typed
    /\ NewIsUnknown
    /\ InHand
    /\ Apart
    /\ ReaderFree
    /\ ServedFromPush
    /\ NoLeak

USE DEF States

\* The initial state has no calls and no channels.
LEMMA InitInv == Init => IInv
BY DEF Init, IInv, Typed, NewIsUnknown, InHand, Apart, ReaderFree, ServedFromPush, NoLeak

\* Dialling, failing, an answer that is skipped and the end of clear leave the
\* channels alone.
LEMMA ConnectionSteps ==
    ASSUME IInv, Startup \/ ConnFails \/ ClearDone \/ \E s \in Sns : ReadUnknown(s)
    PROVE  IInv'
BY Zenon
   DEF Startup, ConnFails, ClearDone, ReadUnknown, IInv, Typed, NewIsUnknown, InHand, Apart,
       ReaderFree, ServedFromPush, NoLeak

\* clear takes all channels: each caller is served by what the reader has in hand.
LEMMA ReadFailsStep ==
    ASSUME IInv, ReadFails
    PROVE  IInv'
BY Zenon DEF ReadFails, Cleared, IInv, Typed, NewIsUnknown, InHand, Apart,
       ReaderFree, ServedFromPush, NoLeak

\* push registers a channel that was never used.
LEMMA TalkPushStep ==
    ASSUME IInv, NEW s \in Sns, TalkPush(s)
    PROVE  IInv'
<1>1. CASE conn = "none"
  BY Zenon, <1>1 DEF TalkPush, IInv, Typed, NewIsUnknown, InHand, Apart,
              ReaderFree, ServedFromPush, NoLeak
<1>2. CASE conn # "none"
  <2>1. /\ talk[s] = "new"
        /\ talk' = [talk EXCEPT ![s] = "write"]
        /\ waiting' = waiting \union {s}
        /\ UNCHANGED <<ch, reader, toSend>>
    BY Zenon, <1>2 DEF TalkPush
  <2>2. Typed' /\ NewIsUnknown' /\ NoLeak'
    BY Zenon, <2>1 DEF IInv, Typed, NewIsUnknown, NoLeak
  <2>3. InHand' /\ Apart' /\ ReaderFree' /\ ServedFromPush'
    BY Zenon, <2>1
       DEF IInv, Typed, NewIsUnknown, InHand, Apart, ReaderFree, ServedFromPush
  <2> QED
    BY Zenon, <2>2, <2>3 DEF IInv
<1> QED
  BY Zenon, <1>1, <1>2

\* Writing changes no channel; a call that fails leaves its channel registered.
LEMMA TalkWriteStep ==
    ASSUME IInv, NEW s \in Sns, TalkWrite(s)
    PROVE  IInv'
<1>1. talk[s] = "write" /\ UNCHANGED <<waiting, ch, conn, dialled, reader, toSend>>
  BY Zenon DEF TalkWrite
<1>2. /\ \E t \in {"wait", "failed"} : talk' = [talk EXCEPT ![s] = t]
      /\ server' \in {server, server \union {s}}
  BY Zenon DEF TalkWrite
<1>3. PICK t \in {"wait", "failed"} : talk' = [talk EXCEPT ![s] = t]
  BY Zenon, <1>2
<1>4. Typed'
  BY <1>1, <1>2, <1>3 DEF IInv, Typed
<1>5. talk'[s] = t /\ \A u \in Sns \ {s} : talk'[u] = talk[u]
  BY <1>3 DEF IInv, Typed
<1>6. NewIsUnknown' /\ ServedFromPush'
  BY <1>1, <1>2, <1>5 DEF IInv, NewIsUnknown, ServedFromPush
<1>7. InHand' /\ Apart' /\ ReaderFree'
  BY <1>1 DEF IInv, InHand, Apart, ReaderFree
<1>8. NoLeak'
  BY <1>1, <1>5 DEF IInv, Typed, NoLeak
<1> QED
  BY <1>4, <1>6, <1>7, <1>8 DEF IInv

\* A caller takes the value of a channel that is no longer registered.
LEMMA TalkReceiveStep ==
    ASSUME IInv, NEW s \in Sns, TalkReceive(s)
    PROVE  IInv'
BY DEF TalkReceive, IInv, Typed, NewIsUnknown, InHand, Apart,
       ReaderFree, ServedFromPush, NoLeak

\* A caller that gives up takes its channel with it.
LEMMA TalkTimeoutStep ==
    ASSUME IInv, NEW s \in Sns, TalkTimeout(s)
    PROVE  IInv'
BY Zenon DEF TalkTimeout, Pop, IInv, Typed, NewIsUnknown, InHand, Apart,
       ReaderFree, ServedFromPush, NoLeak

\* The channel of an answer passes from waiting to the reader's hand.
LEMMA ReadStep ==
    ASSUME IInv, NEW s \in Sns, Read(s)
    PROVE  IInv'
BY Zenon DEF Read, Pop, IInv, Typed, NewIsUnknown, InHand, Apart,
       ReaderFree, ServedFromPush, NoLeak

\* The reader lets go of the channel it sends to.
LEMMA SendStep ==
    ASSUME IInv, NEW s \in Sns, Send(s)
    PROVE  IInv'
<1> DEFINE e == IF reader = "send" THEN "answer" ELSE "nil"
<1>1. /\ ch[s] \in Seq({"answer", "nil"})
      /\ ch' = [ch EXCEPT ![s] = Append(ch[s], e)]
  BY Zenon DEF IInv, Typed, Send
<1>2. Append(ch[s], e) \in Seq({"answer", "nil"}) /\ Append(ch[s], e) # <<>>
  BY <1>1 DEF e
<1> HIDE DEF e
<1>3. Typed'
  BY Zenon, <1>1, <1>2 DEF IInv, Typed, Send
<1>4. ReaderFree' /\ Apart' /\ NoLeak' /\ InHand' /\ NewIsUnknown'
  BY <1>1, <1>2 DEF IInv, Typed, Send, ReaderFree, Apart, NoLeak, InHand, NewIsUnknown
<1>5. ServedFromPush'
  BY Zenon, <1>1, <1>2 DEF IInv, Typed, Send, ServedFromPush
<1> QED
  BY Zenon, <1>3, <1>4, <1>5 DEF IInv

\* Every step keeps the invariant.
LEMMA StepInv == IInv /\ [Next]_vars => IInv'
<1> SUFFICES ASSUME IInv, [Next]_vars PROVE IInv'
  BY Zenon
<1>1. CASE UNCHANGED vars
  BY Zenon, <1>1
     DEF vars, IInv, Typed, NewIsUnknown, InHand, Apart, ReaderFree, ServedFromPush, NoLeak
<1>2. CASE Next
  BY Zenon, <1>2, ConnectionSteps, ReadFailsStep, TalkPushStep, TalkWriteStep,
     TalkReceiveStep,
     TalkTimeoutStep, ReadStep, SendStep DEF Next
<1> QED
  BY Zenon, <1>1, <1>2

\* The invariant holds in every state that is reached.
LEMMA InvHolds == Spec => []IInv
<1> QED
  BY InitInv, StepInv, PTL DEF Spec

\* The goroutine that reads answers never blocks on a channel.
THEOREM ReaderNeverBlocks == Spec => []ReaderFree
<1>1. IInv => ReaderFree
  BY Zenon DEF IInv
<1> QED
  BY <1>1, InvHolds, PTL

\* Talk never waits for an answer that was dropped.
THEOREM CallersServed == Spec => []Served
<1>1. IInv => Served
  BY Zenon DEF IInv, ServedFromPush, Served
<1> QED
  BY <1>1, InvHolds, PTL

\* Only a write that failed leaves a channel registered.
THEOREM ChannelsNotLeaked == Spec => []NoLeak
<1>1. IInv => NoLeak
  BY Zenon DEF IInv
<1> QED
  BY <1>1, InvHolds, PTL
-----------------------------------------------------------------------------
(***************************************************************************)
(* The gift cards.  A card is in one place: offered by the group in memory *)
(* (Offered), in the hand of one purchase, or sold.  Own says so, for any  *)
(* number of cards and purchases, through refused writes and restarts.     *)
(* Each action has a lemma of its own, which also says what the action     *)
(* does to the numbers of the group, for Counts.                           *)
(***************************************************************************)
\* The cards of a list, and a list that has each of its cards once.
Each(u) == {u[k] : k \in 1 .. Len(u)}
Once(u) == \A j, k \in 1 .. Len(u) : u[j] = u[k] => j = k

\* The groups, the requests and the rows of gift_card_info there may be.
Groups ==
    [there : {TRUE}, Unuse : Seq(Cards), UnuseCount : Nat, InSell : Int, InProcess : Nat]
Requests == {Gifts!Idle} \cup [at : {"consume", "record", "send"}, card : Cards]
Infos == [there : BOOLEAN, in_sell : Int, stale : BOOLEAN]

\* The count of the cards in memory is the length of their list.
GroupOK ==
    \/ group = Gifts!NoGroup
    \/ /\ group \in Groups
       /\ group.UnuseCount = Len(group.Unuse) /\ Once(group.Unuse)

\* What the proofs need of the types.
CardsTyped ==
    /\ row \in [Cards -> {"none", "new", "free", "sold"}]
    /\ importing \in Seq(Cards)
    /\ info \in Infos
    /\ GroupOK
    /\ quota \in Nat /\ early \in Nat
    /\ req \in [Buyers -> Requests]
    /\ shown \in [Cards -> Nat]

Offered == IF group.there THEN Each(group.Unuse) ELSE {}
Holds(b, c) == req[b].at # "idle" /\ req[b].card = c

\* A card that is offered is not sold and nobody has it; a purchase has a card of
\* its own, which is sold once that is recorded; a card that was shown stays sold.
Own ==
    /\ \A c \in Offered : row[c] \in {"new", "free"} /\ \A b \in Buyers : ~Holds(b, c)
    /\ \A b \in Buyers : req[b].at # "idle" =>
         /\ group.there
         /\ row[req[b].card] \in IF req[b].at = "send" THEN {"sold"} ELSE {"new", "free"}
    /\ \A b, d \in Buyers : b # d /\ req[b].at # "idle" /\ req[d].at # "idle" =>
         req[b].card # req[d].card
    /\ \A c \in Cards : shown[c] = 0 \/ /\ shown[c] = 1 /\ row[c] = "sold"
                                        /\ \A b \in Buyers : ~Holds(b, c)

(* A card joins the end of the list.                                       *)
LEMMA JoinList ==
    ASSUME NEW u \in Seq(Cards), Once(u), NEW c \in Cards, c \notin Each(u)
    PROVE  /\ Append(u, c) \in Seq(Cards) /\ Len(Append(u, c)) = Len(u) + 1
           /\ Once(Append(u, c)) /\ Each(Append(u, c)) = Each(u) \cup {c}
<1> DEFINE v == Append(u, c)
<1>1. /\ v \in Seq(Cards) /\ Len(v) = Len(u) + 1 /\ Len(u) \in Nat
      /\ v[Len(u) + 1] = c /\ \A k \in 1 .. Len(u) : v[k] = u[k]
  OBVIOUS
<1> HIDE DEF v
<1>2. \A k \in 1 .. Len(v) : k \in 1 .. Len(u) \/ k = Len(u) + 1
  BY <1>1
<1>3. \A k \in 1 .. Len(u) : u[k] # c
  BY Zenon DEF Each
<1>4. Once(v)
  BY Zenon, <1>1, <1>2, <1>3 DEF Once
<1>5. Each(v) = Each(u) \cup {c}
  <2>1. Len(u) + 1 \in 1 .. Len(v) /\ \A k \in 1 .. Len(u) : k \in 1 .. Len(v)
    BY <1>1
  <2> QED
    BY Zenon, <1>1, <1>2, <2>1 DEF Each
<1> QED
  BY Zenon, <1>1, <1>4, <1>5 DEF v

(* The last card of the list is taken.                                     *)
AllButLast(u) == SubSeq(u, 1, Len(u) - 1)

LEMMA TakeLast ==
    ASSUME NEW u \in Seq(Cards), Once(u), Len(u) > 0, NEW v, v = AllButLast(u)
    PROVE  /\ v \in Seq(Cards) /\ Len(v) = Len(u) - 1 /\ Once(v)
           /\ u[Len(u)] \in Each(u) /\ Each(v) = Each(u) \ {u[Len(u)]}
<1> DEFINE n == Len(u)
<1>n. n \in Nat /\ n > 0
  OBVIOUS
<1>1. /\ v \in Seq(Cards) /\ Len(v) = Len(u) - 1 /\ Len(u) \in Nat
      /\ \A k \in 1 .. Len(u) - 1 : v[k] = u[k]
  <2>1. v = SubSeq(u, 1, n - 1) /\ v = SubSeq(u, 1, Len(u) - 1)
    BY Zenon DEF AllButLast
  <2> HIDE DEF n
  <2>2. v \in Seq(Cards) /\ Len(v) = n - 1 /\ \A k \in 1 .. n - 1 : v[k] = u[k]
    BY <1>n, <2>1
  <2> QED
    BY Zenon, <1>n, <2>2 DEF n
<1>2. Len(u) \in 1 .. Len(u) /\ \A k \in 1 .. Len(v) : k \in 1 .. Len(u) /\ k # Len(u)
  BY <1>1
<1>3. \A k \in 1 .. Len(u) : k # Len(u) => k \in 1 .. Len(v)
  BY <1>1
<1>4. Once(v)
  BY <1>1, <1>2 DEF Once
<1>5. \A k \in 1 .. Len(u) : u[k] = u[Len(u)] => k = Len(u)
  BY Zenon, <1>2 DEF Once
<1>6. Each(v) = Each(u) \ {u[Len(u)]}
  <2>1. ASSUME NEW k \in 1 .. Len(v) PROVE v[k] \in Each(u) \ {u[Len(u)]}
    <3>1. v[k] = u[k] /\ k \in 1 .. Len(u) /\ k # Len(u)
      BY Zenon, <1>1, <1>2, <2>1
    <3> QED
      BY Zenon, <1>5, <3>1 DEF Each
  <2>2. ASSUME NEW k \in 1 .. Len(u), u[k] # u[Len(u)] PROVE u[k] \in Each(v)
    <3>1. k \in 1 .. Len(v) /\ v[k] = u[k]
      BY Zenon, <1>1, <1>3, <2>2
    <3> QED
      BY Zenon, <3>1 DEF Each
  <2> QED
    BY <2>1, <2>2 DEF Each
<1> QED
  BY Zenon, <1>1, <1>2, <1>4, <1>6 DEF Each

(* loadCard lists the cards that were not sold, each once.                 *)
LEMMA ListOf ==
    ASSUME NEW S, S \subseteq Cards, NEW u, u = Gifts!InSomeOrder(S)
    PROVE  u \in Seq(Cards) /\ Once(u) /\ Each(u) \subseteq S
<1> DEFINE n == Cardinality(S)
<1>1. IsFiniteSet(S)
  BY Zenon, GiftAssumption, FS_Subset
<1>2. n \in Nat /\ ExistsBijection(1 .. n, S)
  BY Zenon, <1>1, FS_CardinalityType
<1>3. n = Gifts!Cardinality(S)
  BY Zenon DEF Cardinality, Gifts!Cardinality
<1> HIDE DEF n
<1>4. \E f \in [1 .. n -> S] : Gifts!IsInjective(f)
  BY Zenon, <1>2 DEF ExistsBijection, Bijection, Injection, IsInjective, Gifts!IsInjective
<1>5. u \in [1 .. n -> S] /\ Gifts!IsInjective(u)
  BY Zenon, <1>3, <1>4 DEF Gifts!InSomeOrder
<1>6. u \in Seq(Cards) /\ Len(u) = n
  BY <1>2, <1>5
<1> QED
  BY <1>5, <1>6 DEF Once, Each, Gifts!IsInjective

(* h is a group that offers the cards S, with its two numbers.             *)
Listed(h, S, inSell, inProcess) ==
    /\ h \in Groups /\ h.UnuseCount = Len(h.Unuse) /\ Once(h.Unuse) /\ Each(h.Unuse) = S
    /\ h.there = TRUE /\ h.InSell = inSell /\ h.InProcess = inProcess

(* What is known of the group, once there is one, and how it is shown.     *)
LEMMA GroupThere ==
    ASSUME GroupOK
    PROVE  /\ group.there \in BOOLEAN
           /\ group.there => /\ Listed(group, Offered, group.InSell, group.InProcess)
                             /\ group.UnuseCount \in Nat
                             /\ group.InSell \in Int /\ group.InProcess \in Nat
           /\ ~group.there => group = Gifts!NoGroup /\ Offered = {}
           /\ Offered \subseteq Cards
<1>1. CASE group = Gifts!NoGroup
  BY Zenon, <1>1 DEF Gifts!NoGroup, Offered
<1>2. CASE /\ group \in Groups
           /\ group.UnuseCount = Len(group.Unuse) /\ Once(group.Unuse)
  <2>1. /\ group.there = TRUE /\ group.Unuse \in Seq(Cards) /\ group.UnuseCount \in Nat
        /\ group.InSell \in Int /\ group.InProcess \in Nat
    BY Zenon, <1>2 DEF Groups
  <2>2. Offered = Each(group.Unuse)
    BY Zenon, <2>1 DEF Offered
  <2>3. Offered \subseteq Cards
    BY <2>1, <2>2 DEF Each
  <2>4. Listed(group, Offered, group.InSell, group.InProcess)
    BY Zenon, <1>2, <2>1, <2>2 DEF Listed
  <2> QED
    BY <2>1, <2>3, <2>4, Zenon
<1> QED
  BY Zenon, <1>1, <1>2 DEF GroupOK

(* The fields of such a group.                                             *)
LEMMA ListedFields ==
    ASSUME NEW g, NEW S, NEW s, NEW p, Listed(g, S, s, p)
    PROVE  /\ g \in Groups /\ g.Unuse \in Seq(Cards) /\ g.UnuseCount \in Nat
           /\ Once(g.Unuse) /\ Each(g.Unuse) = S /\ g.UnuseCount = Len(g.Unuse)
           /\ g.InSell = s /\ g.InProcess = p /\ s \in Int /\ p \in Nat
<1>1. /\ g \in Groups /\ Once(g.Unuse) /\ Each(g.Unuse) = S
      /\ g.UnuseCount = Len(g.Unuse) /\ g.InSell = s /\ g.InProcess = p
  BY Zenon DEF Listed
<1>2. /\ g.Unuse \in Seq(Cards) /\ g.UnuseCount \in Nat
      /\ g.InSell \in Int /\ g.InProcess \in Nat
  BY Zenon, <1>1 DEF Groups
<1> QED
  BY <1>1, <1>2, Zenon

(* What a group that is shown in this way makes of the next state.         *)
LEMMA GroupListed ==
    ASSUME NEW S, NEW inSell, NEW inProcess, Listed(group', S, inSell, inProcess)
    PROVE  /\ GroupOK' /\ Offered' = S /\ group'.there
           /\ group'.InSell = inSell /\ group'.InProcess = inProcess
<1>1. group'.there
  BY Zenon DEF Listed
<1> QED
  BY Zenon, <1>1 DEF Listed, GroupOK, Offered

(* Fresh sets two numbers of the group and one of its row.                 *)
PutUp(g, n) == [g EXCEPT !.InSell = n, !.InProcess = 0]

LEMMA FreshGroup ==
    ASSUME NEW g, NEW S, NEW s, NEW p, Listed(g, S, s, p), NEW n \in Nat, NEW h, h = PutUp(g, n)
    PROVE  Listed(h, S, n, 0)
<1>1. n \in Int /\ 0 \in Nat
  OBVIOUS
<1>2. /\ h \in Groups /\ h.Unuse = g.Unuse /\ h.UnuseCount = g.UnuseCount
      /\ h.there = TRUE /\ h.InSell = n /\ h.InProcess = 0
  BY Zenon, <1>1 DEF Groups, PutUp, Listed
<1> QED
  BY Zenon, <1>2 DEF Listed

(* The row of gift_card_info after a Fresh that sells n cards.             *)
Renewed(i, n) == [i EXCEPT !.in_sell = n, !.stale = FALSE]
Sells(j, i, n) == j \in Infos /\ j.in_sell = n /\ j.there = i.there /\ j.there \in BOOLEAN

LEMMA FreshInfo ==
    ASSUME NEW n \in Nat, NEW i \in Infos, NEW j, j = Renewed(i, n)
    PROVE  Sells(j, i, n)
<1>1. n \in Int
  OBVIOUS
<1> QED
  BY Zenon, <1>1 DEF Infos, Renewed, Sells

(* What is known of a request that holds a card.                           *)
LEMMA RequestBusy ==
    ASSUME CardsTyped, NEW b \in Buyers
    PROVE  /\ req[b].at \in {"idle", "consume", "record", "send"}
           /\ req[b].at # "idle" =>
                /\ req[b].card \in Cards
                /\ req[b] \in [at : {"consume", "record", "send"}, card : Cards]
  BY DEF CardsTyped, Requests, Gifts!Idle

(* How many purchases are waiting for their Consume.                       *)
Flying == Cardinality(Gifts!InFlight)

LEMMA FlyingNat ==
    /\ Gifts!Cardinality(Gifts!InFlight) = Flying
    /\ IsFiniteSet(Gifts!InFlight) /\ Flying \in Nat
<1>1. IsFiniteSet(Gifts!InFlight)
  BY Zenon, GiftAssumption, FS_Subset DEF Gifts!InFlight
<1> QED
  BY Zenon, <1>1, FS_CardinalityType DEF Flying, Cardinality, Gifts!Cardinality

(* Fresh changes numbers only, and Hour, Import and ImportDone not the     *)
(* group: cards stay where they are.                                       *)
LEMMA FreshOwn ==
    ASSUME CardsTyped, Own, Gifts!Fresh
    PROVE  /\ CardsTyped' /\ Own'
           /\ \/ UNCHANGED <<info, group, early>>
              \/ /\ group'.InSell \in Nat /\ group'.InProcess = 0 /\ early' = Flying
                 /\ info'.there => info'.in_sell \in Nat
<1>1. UNCHANGED <<row, importing, quota, req, shown>>
  BY Zenon DEF Gifts!Fresh
<1>2. CASE UNCHANGED <<info, group, early>>
  BY <1>1, <1>2 DEF CardsTyped, Own, GroupOK, Offered, Holds
<1>3. CASE ~UNCHANGED <<info, group, early>>
  <2>1. /\ group.there /\ early' = Gifts!Cardinality(Gifts!InFlight)
        /\ info' = IF info.there THEN Renewed(info, Gifts!Least(quota, group.UnuseCount)) ELSE info
        /\ group' = PutUp(group, Gifts!Least(quota, group.UnuseCount))
    BY Zenon, <1>3 DEF Gifts!Fresh, PutUp, Renewed
  <2>2. Listed(group, Offered, group.InSell, group.InProcess) /\ group.UnuseCount \in Nat
    BY Zenon, <2>1, GroupThere DEF CardsTyped
  <2>3. Gifts!Least(quota, group.UnuseCount) \in Nat
    BY Zenon, <2>2 DEF CardsTyped, Gifts!Least
  <2>4. early' \in Nat /\ early' = Flying
    BY Zenon, <2>1, FlyingNat
  <2>5. Listed(group', Offered, Gifts!Least(quota, group.UnuseCount), 0)
    BY Zenon, <2>1, <2>2, <2>3, FreshGroup
  <2>6. info' \in Infos /\ (info'.there => info'.in_sell \in Nat)
    <3>1. CASE info.there
      <4>1. Sells(info', info, Gifts!Least(quota, group.UnuseCount))
        BY Zenon, <2>1, <2>3, <3>1, FreshInfo DEF CardsTyped
      <4> QED
        BY Zenon, <2>3, <4>1 DEF Sells
    <3>2. CASE ~info.there
      BY Zenon, <2>1, <3>2 DEF CardsTyped
    <3> QED
      BY Zenon, <3>1, <3>2
  <2>7. /\ GroupOK' /\ Offered' = Offered /\ group'.there
        /\ group'.InSell \in Nat /\ group'.InProcess = 0
    BY Zenon, <2>3, <2>5, GroupListed
  <2>8. CardsTyped'
    BY Zenon, <1>1, <2>4, <2>6, <2>7 DEF CardsTyped
  <2>9. Own'
    BY <1>1, <2>7, <2>8 DEF Own, Holds
  <2> QED
    BY Zenon, <2>4, <2>6, <2>7, <2>8, <2>9
<1> QED
  BY Zenon, <1>2, <1>3

(* Hour, Import and ImportDone leave the group and the requests alone; a   *)
(* commit turns new cards into free ones.                                  *)
LEMMA TableOwn ==
    ASSUME CardsTyped, Own,
           Gifts!Hour \/ (\E cards \in Gifts!Lists : Gifts!Import(cards)) \/ Gifts!ImportDone
    PROVE  /\ CardsTyped' /\ Own' /\ UNCHANGED <<group, req, early>>
           /\ info'.there = info.there /\ info'.in_sell = info.in_sell
<1>1. /\ UNCHANGED <<group, req, shown, early>> /\ Offered' = Offered
      /\ \A c \in Cards : row'[c] = row[c] \/ (row[c] = "new" /\ row'[c] = "free")
      /\ row' \in [Cards -> {"none", "new", "free", "sold"}]
  BY Zenon DEF Gifts!Hour, Gifts!Import, Gifts!ImportDone, CardsTyped, Offered
<1>2. importing' \in Seq(Cards)
  <2>1. CASE importing' \in Gifts!Lists
    <3>1. PICK n \in 1 .. 2 : importing' \in [1 .. n -> Cards]
      BY <2>1, Zenon DEF Gifts!Lists
    <3> QED
      BY <3>1
  <2>2. CASE importing' = <<>>
    BY <2>2
  <2>3. CASE importing' = importing
    BY Zenon, <2>3 DEF CardsTyped
  <2> QED
    BY Zenon, <2>1, <2>2, <2>3 DEF Gifts!Hour, Gifts!Import, Gifts!ImportDone
<1>3. info' \in Infos /\ info'.there = info.there /\ info'.in_sell = info.in_sell
  BY Zenon DEF Gifts!Hour, Gifts!Import, Gifts!ImportDone, CardsTyped, Infos
<1>4. quota' \in Nat
  BY GiftAssumption DEF Gifts!Hour, Gifts!Import, Gifts!ImportDone, CardsTyped
<1>5. CardsTyped'
  BY Zenon, <1>1, <1>2, <1>3, <1>4 DEF CardsTyped, GroupOK
<1>6. Offered \subseteq Cards
  BY Zenon, GroupThere DEF CardsTyped
<1>7. Own'
  BY <1>1, <1>5, <1>6, RequestBusy DEF Own, Holds
<1> QED
  BY Zenon, <1>1, <1>3, <1>5, <1>7

(* The groups that AddCode, Reserve and the two ends of a Consume leave.   *)
LEMMA AddCodeGroup ==
    ASSUME NEW g, NEW S, NEW s, NEW p, Listed(g, S, s, p), NEW c \in Cards, c \notin S,
           NEW h, h = Gifts!AddCode(g, c)
    PROVE  Listed(h, S \cup {c}, s, p)
<1>1. /\ g \in Groups /\ g.Unuse \in Seq(Cards) /\ g.UnuseCount \in Nat
      /\ g.UnuseCount = Len(g.Unuse) /\ Once(g.Unuse) /\ Each(g.Unuse) = S
  BY Zenon DEF Listed, Groups
<1> DEFINE v == Append(g.Unuse, c)
<1>2. /\ v \in Seq(Cards) /\ Len(v) = Len(g.Unuse) + 1
      /\ Once(v) /\ Each(v) = S \cup {c}
  BY Zenon, <1>1, JoinList
<1>3. h = [g EXCEPT !.Unuse = v, !.UnuseCount = @ + 1]
  BY Zenon DEF Gifts!AddCode
<1> HIDE DEF v
<1>4. g.UnuseCount + 1 \in Nat
  BY <1>1
<1>5. /\ h \in Groups /\ h.Unuse = v /\ h.UnuseCount = g.UnuseCount + 1 /\ h.there = TRUE
      /\ h.InSell = g.InSell /\ h.InProcess = g.InProcess
  BY Zenon, <1>1, <1>2, <1>3, <1>4 DEF Groups
<1> QED
  BY Zenon, <1>1, <1>2, <1>5 DEF Listed

LEMMA ReserveGroup ==
    ASSUME GroupOK, group.there, Gifts!MayReserve, NEW h, h = Gifts!Taken,
           NEW c, c = group.Unuse[group.UnuseCount]
    PROVE  /\ c \in Offered /\ c \in Cards
           /\ Listed(h, Offered \ {c}, group.InSell, group.InProcess + 1)
<1>1. /\ group \in Groups /\ group.Unuse \in Seq(Cards) /\ Once(group.Unuse)
      /\ group.UnuseCount = Len(group.Unuse) /\ Offered = Each(group.Unuse)
  BY Zenon, GroupThere DEF Listed, Groups
<1>2. Len(group.Unuse) > 0 /\ Len(group.Unuse) \in Nat
  BY <1>1 DEF Gifts!MayReserve
<1> DEFINE v == AllButLast(group.Unuse)
<1>3. h = [group EXCEPT !.Unuse = v, !.UnuseCount = @ - 1, !.InProcess = @ + 1]
  BY Zenon, <1>1 DEF Gifts!Taken, AllButLast
<1>4. /\ v \in Seq(Cards) /\ Len(v) = Len(group.Unuse) - 1
      /\ Once(v) /\ Each(v) = Each(group.Unuse) \ {c} /\ c \in Each(group.Unuse)
  BY Zenon, <1>1, <1>2, TakeLast
<1> HIDE DEF v
<1>5. group.UnuseCount - 1 \in Nat /\ group.InProcess + 1 \in Nat
  BY <1>1, <1>2 DEF Groups
<1>6. /\ h \in Groups /\ h.Unuse = v /\ h.UnuseCount = group.UnuseCount - 1 /\ h.there = TRUE
      /\ h.InSell = group.InSell /\ h.InProcess = group.InProcess + 1
  BY Zenon, <1>1, <1>3, <1>4, <1>5 DEF Groups
<1>7. c \in Cards
  BY <1>1, <1>4 DEF Each
<1> QED
  BY Zenon, <1>1, <1>4, <1>6, <1>7 DEF Listed

(* A purchase was charged.                                                 *)
Charged(g) == [g EXCEPT !.InSell = @ - 1, !.InProcess = Gifts!OneLess(@)]

LEMMA ChargedGroup ==
    ASSUME NEW g, NEW S, NEW s, NEW p, Listed(g, S, s, p), NEW h, h = Charged(g)
    PROVE  Listed(h, S, s - 1, Gifts!OneLess(p))
<1> DEFINE n == Gifts!OneLess(p)
<1>1. /\ g \in Groups /\ g.InSell = s /\ g.InProcess = p /\ s \in Int /\ p \in Nat
  BY ListedFields
<1>2. n \in Nat /\ g.InSell - 1 \in Int
  BY <1>1 DEF Gifts!OneLess
<1>3. h = [g EXCEPT !.InSell = @ - 1, !.InProcess = n]
  BY Zenon, <1>1 DEF Charged
<1> HIDE DEF n
<1>4. /\ h \in Groups /\ h.Unuse = g.Unuse /\ h.UnuseCount = g.UnuseCount
      /\ h.there = TRUE /\ h.InSell = g.InSell - 1 /\ h.InProcess = n
  BY Zenon, <1>1, <1>2, <1>3 DEF Groups
<1> QED
  BY Zenon, <1>1, <1>4 DEF Listed, n

(* A purchase was not charged.                                             *)
Returned(g, c) ==
    [g EXCEPT !.InProcess = Gifts!OneLess(@), !.Unuse = Append(@, c), !.UnuseCount = @ + 1]

LEMMA ReturnedGroup ==
    ASSUME NEW g, NEW S, NEW s, NEW p, Listed(g, S, s, p), NEW c \in Cards, c \notin S,
           NEW h, h = Returned(g, c)
    PROVE  Listed(h, S \cup {c}, s, Gifts!OneLess(p))
<1> DEFINE n == Gifts!OneLess(p)
           v == Append(g.Unuse, c)
<1>1. /\ g \in Groups /\ g.Unuse \in Seq(Cards) /\ g.UnuseCount \in Nat
      /\ Once(g.Unuse) /\ Each(g.Unuse) = S /\ g.UnuseCount = Len(g.Unuse)
      /\ g.InSell = s /\ g.InProcess = p /\ p \in Nat
  BY ListedFields, Zenon
<1>2. n \in Nat /\ g.UnuseCount + 1 \in Nat
  BY <1>1 DEF Gifts!OneLess
<1>3. /\ v \in Seq(Cards) /\ Len(v) = Len(g.Unuse) + 1
      /\ Once(v) /\ Each(v) = S \cup {c}
  BY Zenon, <1>1, JoinList
<1>4. h = [g EXCEPT !.InProcess = n, !.Unuse = v, !.UnuseCount = @ + 1]
  BY Zenon, <1>1 DEF Returned
<1> HIDE DEF n, v
<1>5. /\ h \in Groups /\ h.Unuse = v /\ h.UnuseCount = g.UnuseCount + 1 /\ h.there = TRUE
      /\ h.InSell = g.InSell /\ h.InProcess = n
  BY Zenon, <1>1, <1>2, <1>3, <1>4 DEF Groups
<1> QED
  BY Zenon, <1>1, <1>3, <1>5 DEF Listed, n

(* The group that loadCard, or the first card of a kind, makes.            *)
LEMMA NewGroup ==
    ASSUME NEW u \in Seq(Cards), Once(u), NEW s \in Int, NEW h, h = Gifts!Group(u, s)
    PROVE  Listed(h, Each(u), s, 0)
<1>1. Len(u) \in Nat
  OBVIOUS
<1>2. /\ h \in Groups /\ h.Unuse = u /\ h.UnuseCount = Len(u) /\ h.there = TRUE
      /\ h.InSell = s /\ h.InProcess = 0
  BY Zenon, <1>1 DEF Gifts!Group, Groups
<1> QED
  BY Zenon, <1>2 DEF Listed

(* The row that genGroup inserts.                                          *)
LEMMA NewInfoOK ==
    ASSUME quota \in Nat
    PROVE  Gifts!NewInfo \in Infos
<1>1. quota \in Int
  OBVIOUS
<1> QED
  BY Zenon, <1>1 DEF Infos, Gifts!NewInfo

(* The empty list, which the first card of a kind joins.                   *)
LEMMA NoCards == /\ <<>> \in Seq(Cards) /\ Once(<<>>) /\ Each(<<>>) = {}
  BY DEF Once, Each

(* A card is added that was not in the table.                              *)
LEMMA ImportCardOwn ==
    ASSUME CardsTyped, Own, Gifts!ImportCard
    PROVE  /\ CardsTyped' /\ Own'
           /\ group.there => group'.InSell = group.InSell /\ group'.InProcess = group.InProcess
           /\ ~group.there => group'.InSell = quota /\ group'.InProcess = 0
<1> DEFINE c == Head(importing)
           g == IF group.there THEN group ELSE Gifts!Group(<<>>, quota)
<1>1. c \in Cards /\ Tail(importing) \in Seq(Cards)
  BY DEF Gifts!ImportCard, CardsTyped
<1>2. /\ row[c] = "none" /\ row' = [row EXCEPT ![c] = "new"] /\ importing' = Tail(importing)
      /\ group' = Gifts!AddCode(g, c) /\ info' \in {info, Gifts!NewInfo}
      /\ UNCHANGED <<quota, req, shown, early>>
  BY Zenon DEF Gifts!ImportCard
<1> HIDE DEF c
<1>3. c \notin Offered /\ \A b \in Buyers : ~Holds(b, c)
  BY Zenon, <1>2, RequestBusy DEF Own, Holds
<1>4. \E s, p : /\ Listed(g, Offered, s, p)
                /\ group.there => s = group.InSell /\ p = group.InProcess
                /\ ~group.there => s = quota /\ p = 0
  <2>1. CASE group.there
    BY Zenon, <2>1, GroupThere DEF CardsTyped
  <2>2. CASE ~group.there
    <3>1. Listed(g, {}, quota, 0)
      <4>1. quota \in Int
        BY DEF CardsTyped
      <4>2. Listed(Gifts!Group(<<>>, quota), Each(<<>>), quota, 0)
        BY Zenon, <4>1, NoCards, NewGroup
      <4> QED
        BY Zenon, <2>2, <4>2, NoCards
    <3> QED
      BY Zenon, <2>2, <3>1, GroupThere DEF CardsTyped
  <2> QED
    BY Zenon, <2>1, <2>2
<1>5. PICK s, p : /\ Listed(g, Offered, s, p)
                  /\ group.there => s = group.InSell /\ p = group.InProcess
                  /\ ~group.there => s = quota /\ p = 0
  BY Zenon, <1>4
<1> HIDE DEF g
<1>6. Listed(group', Offered \cup {c}, s, p)
  BY Zenon, <1>1, <1>2, <1>3, <1>5, AddCodeGroup
<1>7. /\ GroupOK' /\ Offered' = Offered \cup {c} /\ group'.there
      /\ group'.InSell = s /\ group'.InProcess = p
  BY Zenon, <1>6, GroupListed
<1>8. info' \in Infos
  BY Zenon, <1>2, NewInfoOK DEF CardsTyped
<1>9. CardsTyped'
  BY Zenon, <1>1, <1>2, <1>7, <1>8 DEF CardsTyped
<1>10. Own'
  <2>1. row \in [Cards -> {"none", "new", "free", "sold"}] /\ Offered \subseteq Cards
    BY Zenon, GroupThere DEF CardsTyped
  <2>2. row'[c] = "new" /\ \A d \in Cards : d # c => row'[d] = row[d]
    BY Zenon, <1>1, <1>2, <2>1
  <2>3. \A d \in Cards, b \in Buyers : Holds(b, d)' = Holds(b, d)
    BY Zenon, <1>2 DEF Holds
  <2> QED
    BY <1>2, <1>3, <1>7, <2>1, <2>2, <2>3, RequestBusy DEF Own, Holds
<1> QED
  BY Zenon, <1>5, <1>7, <1>9, <1>10

(* A card is taken off the list for one purchase.                          *)
LEMMA ReserveOwn ==
    ASSUME CardsTyped, Own, NEW b \in Buyers, Gifts!Reserve(b)
    PROVE  /\ CardsTyped' /\ Own'
           /\ group.there /\ group'.there
           /\ group'.InSell = group.InSell /\ group'.InProcess = group.InProcess + 1
           /\ \A d \in Buyers : req'[d].at = IF d = b THEN "consume" ELSE req[d].at
<1> DEFINE c == group.Unuse[group.UnuseCount]
<1>1. /\ group.there /\ Gifts!MayReserve /\ group' = Gifts!Taken
      /\ req' = [req EXCEPT ![b] = Gifts!Holding("consume", c)]
      /\ req[b].at = "idle"
      /\ UNCHANGED <<row, importing, info, quota, shown, early>>
  BY Zenon DEF Gifts!Reserve
<1>2. /\ c \in Offered /\ c \in Cards
      /\ Listed(group', Offered \ {c}, group.InSell, group.InProcess + 1)
  BY Zenon, <1>1, ReserveGroup DEF CardsTyped
<1> HIDE DEF c
<1>3. /\ GroupOK' /\ Offered' = Offered \ {c} /\ group'.there
      /\ group'.InSell = group.InSell /\ group'.InProcess = group.InProcess + 1
  BY Zenon, <1>2, GroupListed
<1>4. /\ req' \in [Buyers -> Requests]
      /\ req'[b] = Gifts!Holding("consume", c) /\ \A d \in Buyers : d # b => req'[d] = req[d]
  BY Zenon, <1>1, <1>2 DEF CardsTyped, Requests, Gifts!Holding
<1>5. req'[b].at = "consume" /\ req'[b].card = c
  BY <1>4 DEF Gifts!Holding
<1>6. CardsTyped'
  BY Zenon, <1>1, <1>3, <1>4 DEF CardsTyped
<1>7. \A d \in Buyers, e \in Cards : Holds(d, e)' <=> Holds(d, e) \/ (d = b /\ e = c)
  BY Zenon, <1>1, <1>4, <1>5 DEF Holds
<1>8. Own'
  <2>1. row[c] \in {"new", "free"} /\ \A d \in Buyers : ~Holds(d, c)
    BY Zenon, <1>2 DEF Own
  <2>2. Offered \subseteq Cards
    BY Zenon, GroupThere DEF CardsTyped
  <2>3. \A e \in Offered' : row'[e] \in {"new", "free"} /\ \A d \in Buyers : ~Holds(d, e)'
    BY Zenon, <1>1, <1>3, <1>7, <2>2 DEF Own
  <2>4. \A d \in Buyers : req'[d].at # "idle" =>
          /\ group'.there
          /\ row'[req'[d].card] \in IF req'[d].at = "send" THEN {"sold"} ELSE {"new", "free"}
    BY Zenon, <1>1, <1>3, <1>4, <1>5, <2>1 DEF Own
  <2>5. \A d, e \in Buyers : d # e /\ req'[d].at # "idle" /\ req'[e].at # "idle" =>
          req'[d].card # req'[e].card
    BY <1>4, <1>5, <2>1 DEF Own, Holds
  <2>6. \A e \in Cards : shown'[e] = 0 \/ /\ shown'[e] = 1 /\ row'[e] = "sold"
                                           /\ \A d \in Buyers : ~Holds(d, e)'
    BY Zenon, <1>1, <1>7, <2>1 DEF Own
  <2> QED
    BY Zenon, <2>3, <2>4, <2>5, <2>6 DEF Own
<1> QED
  BY Zenon, <1>1, <1>3, <1>4, <1>5, <1>6, <1>8

(* Where the requests are once b goes on with its card ...                 *)
LEMMA GoesOn ==
    ASSUME CardsTyped, NEW b \in Buyers, req[b].at # "idle",
           NEW at \in {"consume", "record", "send"},
           req' = [req EXCEPT ![b] = Gifts!Holding(at, req[b].card)]
    PROVE  /\ req' \in [Buyers -> Requests]
           /\ req'[b].at = at /\ req'[b].card = req[b].card
           /\ \A d \in Buyers : d # b => req'[d] = req[d]
           /\ \A d \in Buyers, e \in Cards : Holds(d, e)' <=> Holds(d, e)
<1>1. req[b].card \in Cards
  BY Zenon, RequestBusy
<1>2. Gifts!Holding(at, req[b].card) \in Requests
  BY Zenon, <1>1 DEF Requests, Gifts!Holding
<1>3. /\ req' \in [Buyers -> Requests] /\ req'[b] = Gifts!Holding(at, req[b].card)
      /\ \A d \in Buyers : d # b => req'[d] = req[d]
  BY Zenon, <1>2 DEF CardsTyped
<1>4. req'[b].at = at /\ req'[b].card = req[b].card
  BY Zenon, <1>3 DEF Gifts!Holding
<1> QED
  BY Zenon, <1>3, <1>4 DEF Holds

(* ... or ends.                                                            *)
LEMMA Ends ==
    ASSUME CardsTyped, NEW b \in Buyers, req' = [req EXCEPT ![b] = Gifts!Idle]
    PROVE  /\ req' \in [Buyers -> Requests]
           /\ req'[b].at = "idle"
           /\ \A d \in Buyers : d # b => req'[d] = req[d]
           /\ \A d \in Buyers, e \in Cards : Holds(d, e)' <=> Holds(d, e) /\ d # b
<1>1. /\ req' \in [Buyers -> Requests] /\ req'[b] = Gifts!Idle
      /\ \A d \in Buyers : d # b => req'[d] = req[d]
  BY Zenon DEF CardsTyped, Requests
<1>2. req'[b].at = "idle"
  BY Zenon, <1>1 DEF Gifts!Idle
<1> QED
  BY Zenon, <1>1, <1>2 DEF Holds

(* The card of a purchase that was not charged goes back to the list.      *)
LEMMA ConsumeFailsOwn ==
    ASSUME CardsTyped, Own, NEW b \in Buyers, Gifts!ConsumeFails(b)
    PROVE  /\ CardsTyped' /\ Own'
           /\ group.there /\ group'.InSell = group.InSell
           /\ group'.InProcess = Gifts!OneLess(group.InProcess)
           /\ \A d \in Buyers : req'[d].at = IF d = b THEN "idle" ELSE req[d].at
<1> DEFINE c == req[b].card
<1>1. /\ req[b].at = "consume" /\ group' = Returned(group, c)
      /\ req' = [req EXCEPT ![b] = Gifts!Idle]
      /\ UNCHANGED <<row, importing, info, quota, shown, early>>
  BY Zenon DEF Gifts!ConsumeFails, Returned
<1>2. c \in Cards /\ Holds(b, c) /\ row[c] \in {"new", "free"} /\ group.there
  BY Zenon, <1>1, RequestBusy DEF Own, Holds
<1>3. \A d \in Buyers : d # b => ~Holds(d, c)
  BY Zenon, <1>1 DEF Own, Holds
<1> HIDE DEF c
<1>4. c \notin Offered
  BY Zenon, <1>2 DEF Own
<1>5. Listed(group', Offered \cup {c}, group.InSell, Gifts!OneLess(group.InProcess))
  <2>1. Listed(group, Offered, group.InSell, group.InProcess)
    BY Zenon, <1>2, GroupThere DEF CardsTyped
  <2> QED
    BY Zenon, <1>1, <1>2, <1>4, <2>1, ReturnedGroup
<1>6. /\ GroupOK' /\ Offered' = Offered \cup {c} /\ group'.there
      /\ group'.InSell = group.InSell /\ group'.InProcess = Gifts!OneLess(group.InProcess)
  BY Zenon, <1>5, GroupListed
<1>7. /\ req' \in [Buyers -> Requests] /\ req'[b].at = "idle"
      /\ \A d \in Buyers : d # b => req'[d] = req[d]
      /\ \A d \in Buyers, e \in Cards : Holds(d, e)' <=> Holds(d, e) /\ d # b
  BY Zenon, <1>1, Ends
<1>8. CardsTyped'
  BY <1>1, <1>6, <1>7 DEF CardsTyped
<1>9. Own'
  <2>1. /\ Offered \subseteq Cards
        /\ \A e \in Offered : row[e] \in {"new", "free"} /\ \A d \in Buyers : ~Holds(d, e)
    BY Zenon, GroupThere DEF CardsTyped, Own
  <2>2. \A e \in Offered' : row'[e] \in {"new", "free"} /\ \A d \in Buyers : ~Holds(d, e)'
    BY <1>1, <1>2, <1>3, <1>6, <1>7, <2>1
  <2>3. \A d \in Buyers : req'[d].at # "idle" =>
          /\ group'.there
          /\ row'[req'[d].card] \in IF req'[d].at = "send" THEN {"sold"} ELSE {"new", "free"}
    BY <1>1, <1>6, <1>7 DEF Own
  <2>4. \A d, e \in Buyers : d # e /\ req'[d].at # "idle" /\ req'[e].at # "idle" =>
          req'[d].card # req'[e].card
    BY <1>7 DEF Own
  <2>5. \A e \in Cards : shown'[e] = 0 \/ /\ shown'[e] = 1 /\ row'[e] = "sold"
                                           /\ \A d \in Buyers : ~Holds(d, e)'
    BY Zenon, <1>1, <1>7 DEF Own
  <2> QED
    BY Zenon, <2>2, <2>3, <2>4, <2>5 DEF Own
<1> QED
  BY <1>2, <1>6, <1>7, <1>8, <1>9

(* A purchase is charged: it keeps its card.                               *)
LEMMA ConsumeDoneOwn ==
    ASSUME CardsTyped, Own, NEW b \in Buyers, Gifts!ConsumeDone(b)
    PROVE  /\ CardsTyped' /\ Own'
           /\ group.there /\ group'.InSell = group.InSell - 1
           /\ group'.InProcess = Gifts!OneLess(group.InProcess)
           /\ info'.there = info.there
           /\ info'.in_sell # info.in_sell => info'.in_sell = group'.InSell
           /\ \A d \in Buyers : req'[d].at = IF d = b THEN "record" ELSE req[d].at
<1>1. /\ req[b].at = "consume" /\ group' = Charged(group)
      /\ req' = [req EXCEPT ![b] = Gifts!Holding("record", req[b].card)]
      /\ \/ info' = [info EXCEPT !.in_sell = group'.InSell]
         \/ info' = [info EXCEPT !.in_sell = @]
         \/ info' = info
      /\ UNCHANGED <<row, importing, quota, shown, early>>
  BY Zenon DEF Gifts!ConsumeDone, Charged
<1>2. group.there /\ Listed(group, Offered, group.InSell, group.InProcess)
      /\ group.InSell \in Int
  BY Zenon, <1>1, GroupThere DEF CardsTyped, Own
<1>3. Listed(group', Offered, group.InSell - 1, Gifts!OneLess(group.InProcess))
  BY Zenon, <1>1, <1>2, ChargedGroup
<1>4. /\ GroupOK' /\ Offered' = Offered /\ group'.there
      /\ group'.InSell = group.InSell - 1 /\ group'.InProcess = Gifts!OneLess(group.InProcess)
  BY Zenon, <1>3, GroupListed
<1>5. /\ req' \in [Buyers -> Requests]
      /\ req'[b].at = "record" /\ req'[b].card = req[b].card
      /\ \A d \in Buyers : d # b => req'[d] = req[d]
      /\ \A d \in Buyers, e \in Cards : Holds(d, e)' <=> Holds(d, e)
  BY Zenon, <1>1, GoesOn
<1>6. /\ info' \in Infos /\ info'.there = info.there
      /\ info'.in_sell # info.in_sell => info'.in_sell = group'.InSell
  <2>1. group'.InSell \in Int
    BY <1>2, <1>4
  <2>2. info \in Infos
    BY Zenon DEF CardsTyped
  <2> QED
    BY Zenon, <1>1, <2>1, <2>2 DEF Infos
<1>7. CardsTyped'
  BY Zenon, <1>1, <1>4, <1>5, <1>6 DEF CardsTyped
<1>8. Own'
  <2>1. Offered \subseteq Cards
    BY Zenon, GroupThere DEF CardsTyped
  <2> QED
    BY <1>1, <1>4, <1>5, <2>1 DEF Own
<1> QED
  BY Zenon, <1>2, <1>4, <1>5, <1>6, <1>7, <1>8

(* The sale is recorded, which makes the card a sold one, or the purchase  *)
(* ends and its card stays where it is in the table.                       *)
LEMMA RecordOwn ==
    ASSUME CardsTyped, Own, NEW b \in Buyers, Gifts!Record(b)
    PROVE  /\ CardsTyped' /\ Own' /\ UNCHANGED <<info, group, early>>
           /\ \A d \in Buyers : req'[d].at = "consume" <=> req[d].at = "consume"
<1> DEFINE c == req[b].card
<1>1. /\ req[b].at = "record"
      /\ UNCHANGED <<importing, info, group, quota, shown, early>>
      /\ \/ /\ row' = [row EXCEPT ![c] = "sold"] /\ req' = [req EXCEPT ![b].at = "send"]
         \/ row' = row /\ req' = [req EXCEPT ![b] = Gifts!Idle]
  BY Zenon DEF Gifts!Record
<1>2. c \in Cards /\ Holds(b, c) /\ group.there /\ row[c] \in {"new", "free"}
  BY Zenon, <1>1, RequestBusy DEF Own, Holds
<1>3. \A d \in Buyers : d # b /\ req[d].at # "idle" => req[d].card # c
  BY Zenon, <1>1 DEF Own
<1>4. Offered' = Offered /\ Offered \subseteq Cards /\ GroupOK'
  BY Zenon, <1>1, GroupThere DEF CardsTyped, Offered, GroupOK
<1>5. c \notin Offered
  BY Zenon, <1>2 DEF Own
<1>6. shown[c] = 0
  BY Zenon, <1>2 DEF Own
<1>7. CASE row' = [row EXCEPT ![c] = "sold"] /\ req' = [req EXCEPT ![b].at = "send"]
  <2>1. req' = [req EXCEPT ![b] = Gifts!Holding("send", c)]
    <3>1. req[b] \in [at : {"consume", "record", "send"}, card : Cards]
      BY Zenon, <1>1, RequestBusy
    <3>2. [req[b] EXCEPT !.at = "send"] = Gifts!Holding("send", c)
      BY <3>1 DEF Gifts!Holding
    <3> QED
      BY Zenon, <1>7, <3>2
  <2>2. /\ req' \in [Buyers -> Requests]
        /\ req'[b].at = "send" /\ req'[b].card = c
        /\ \A d \in Buyers : d # b => req'[d] = req[d]
        /\ \A d \in Buyers, e \in Cards : Holds(d, e)' <=> Holds(d, e)
    BY Zenon, <1>1, <2>1, GoesOn
  <2> HIDE DEF c
  <2>3. /\ row' \in [Cards -> {"none", "new", "free", "sold"}]
        /\ row'[c] = "sold" /\ \A e \in Cards : e # c => row'[e] = row[e]
    BY Zenon, <1>2, <1>7 DEF CardsTyped
  <2>4. CardsTyped'
    BY Zenon, <1>1, <1>4, <2>2, <2>3 DEF CardsTyped
  <2>5. \A e \in Offered' : row'[e] \in {"new", "free"} /\ \A d \in Buyers : ~Holds(d, e)'
    BY <1>4, <1>5, <2>2, <2>3 DEF Own
  <2>6. \A d \in Buyers : req'[d].at # "idle" =>
          /\ group'.there
          /\ row'[req'[d].card] \in IF req'[d].at = "send" THEN {"sold"} ELSE {"new", "free"}
    <3>1. \A d \in Buyers : req[d].at # "idle" => req[d].card \in Cards
      BY Zenon, RequestBusy
    <3> QED
      BY <1>1, <1>2, <1>3, <2>2, <2>3, <3>1 DEF Own
  <2>7. \A d, e \in Buyers : d # e /\ req'[d].at # "idle" /\ req'[e].at # "idle" =>
          req'[d].card # req'[e].card
    BY <1>3, <2>2 DEF Own
  <2>8. \A e \in Cards : shown'[e] = 0 \/ /\ shown'[e] = 1 /\ row'[e] = "sold"
                                           /\ \A d \in Buyers : ~Holds(d, e)'
    BY <1>1, <1>6, <2>2, <2>3 DEF Own
  <2>9. Own'
    BY Zenon, <2>5, <2>6, <2>7, <2>8 DEF Own
  <2> QED
    BY Zenon, <1>1, <2>2, <2>4, <2>9
<1>8. CASE row' = row /\ req' = [req EXCEPT ![b] = Gifts!Idle]
  <2>1. /\ req' \in [Buyers -> Requests] /\ req'[b].at = "idle"
        /\ \A d \in Buyers : d # b => req'[d] = req[d]
        /\ \A d \in Buyers, e \in Cards : Holds(d, e)' <=> Holds(d, e) /\ d # b
    BY Zenon, <1>8, Ends
  <2>2. CardsTyped'
    BY Zenon, <1>1, <1>4, <1>8, <2>1 DEF CardsTyped
  <2>3. Own'
    BY <1>1, <1>4, <1>8, <2>1 DEF Own
  <2> QED
    BY Zenon, <1>1, <2>1, <2>2, <2>3
<1> QED
  BY Zenon, <1>1, <1>7, <1>8

(* The card of a sale is shown to its buyer, and to nobody after that.     *)
LEMMA SendOwn ==
    ASSUME CardsTyped, Own, NEW b \in Buyers, Gifts!Send(b)
    PROVE  /\ CardsTyped' /\ Own' /\ UNCHANGED <<info, group, early>>
           /\ \A d \in Buyers : req'[d].at = "consume" <=> req[d].at = "consume"
<1> DEFINE c == req[b].card
<1>1. /\ req[b].at = "send" /\ req' = [req EXCEPT ![b] = Gifts!Idle]
      /\ shown' = [shown EXCEPT ![c] = @ + 1]
      /\ UNCHANGED <<row, importing, info, group, quota, early>>
  BY Zenon DEF Gifts!Send
<1>2. c \in Cards /\ Holds(b, c) /\ row[c] = "sold"
  BY Zenon, <1>1, RequestBusy DEF Own, Holds
<1>3. shown[c] = 0
  BY Zenon, <1>2 DEF Own
<1>4. \A d \in Buyers : d # b => ~Holds(d, c)
  BY Zenon, <1>1 DEF Own, Holds
<1> HIDE DEF c
<1>5. Offered' = Offered /\ Offered \subseteq Cards /\ GroupOK'
  BY Zenon, <1>1, GroupThere DEF CardsTyped, Offered, GroupOK
<1>6. /\ req' \in [Buyers -> Requests] /\ req'[b].at = "idle"
      /\ \A d \in Buyers : d # b => req'[d] = req[d]
      /\ \A d \in Buyers, e \in Cards : Holds(d, e)' <=> Holds(d, e) /\ d # b
  BY Zenon, <1>1, Ends
<1>7. /\ shown' \in [Cards -> Nat] /\ shown'[c] = 1
      /\ \A e \in Cards : e # c => shown'[e] = shown[e]
  BY <1>1, <1>2, <1>3 DEF CardsTyped
<1>8. CardsTyped'
  BY Zenon, <1>1, <1>5, <1>6, <1>7 DEF CardsTyped
<1>9. \A e \in Offered' : row'[e] \in {"new", "free"} /\ \A d \in Buyers : ~Holds(d, e)'
  BY Zenon, <1>1, <1>5, <1>6 DEF Own
<1>10. \A d \in Buyers : req'[d].at # "idle" =>
         /\ group'.there
         /\ row'[req'[d].card] \in IF req'[d].at = "send" THEN {"sold"} ELSE {"new", "free"}
  BY <1>1, <1>6 DEF Own
<1>11. \A d, e \in Buyers : d # e /\ req'[d].at # "idle" /\ req'[e].at # "idle" =>
         req'[d].card # req'[e].card
  <2>1. \A d, e \in Buyers : d # e /\ req[d].at # "idle" /\ req[e].at # "idle" =>
          req[d].card # req[e].card
    BY Zenon DEF Own
  <2> QED
    BY Zenon, <1>6, <2>1
<1>12. \A e \in Cards : shown'[e] = 0 \/ /\ shown'[e] = 1 /\ row'[e] = "sold"
                                          /\ \A d \in Buyers : ~Holds(d, e)'
  <2>1. \A e \in Cards : shown[e] = 0 \/ /\ shown[e] = 1 /\ row[e] = "sold"
                                           /\ \A d \in Buyers : ~Holds(d, e)
    BY Zenon DEF Own
  <2>2. \A e \in Cards, d \in Buyers : e = c => ~Holds(d, e)'
    BY <1>4, <1>6
  <2> QED
    BY <1>1, <1>2, <1>6, <1>7, <2>1, <2>2
<1>13. Own'
  BY Zenon, <1>9, <1>10, <1>11, <1>12 DEF Own
<1> QED
  BY Zenon, <1>1, <1>6, <1>8, <1>13

(* A new process offers the cards of the table that are not sold.          *)
LEMMA RestartOwn ==
    ASSUME CardsTyped, Own, Gifts!Restart
    PROVE  /\ CardsTyped' /\ Own' /\ info'.there \in BOOLEAN
           /\ \A d \in Buyers : req'[d].at = "idle"
           /\ group'.there =>
                /\ group'.InProcess = 0
                /\ \/ info.there /\ group'.InSell = info.in_sell /\ early' = early
                   \/ group'.InSell \in Nat
           /\ info'.there => \/ info.there /\ info'.in_sell = info.in_sell /\ early' = early
                             \/ info'.in_sell \in Nat
<1> DEFINE u == Gifts!LoadedCards
<1>1. u \in Seq(Cards) /\ Once(u) /\ Each(u) \subseteq {c \in Cards : row[c] = "free"}
  BY Zenon, ListOf DEF Gifts!LoadedCards
<1>2. /\ req' = [b \in Buyers |-> Gifts!Idle] /\ importing' = <<>>
      /\ row' = [c \in Cards |-> IF row[c] = "new" THEN "none" ELSE row[c]]
      /\ UNCHANGED <<quota, shown>>
  BY Zenon DEF Gifts!Restart
<1>3. \/ /\ info.there /\ group' = Gifts!Group(u, info.in_sell) /\ UNCHANGED <<info, early>>
      \/ /\ group' = Gifts!Group(u, 0) /\ early' = 0
         /\ info' = Renewed(info, 0)
      \/ /\ ~info.there /\ group' = Gifts!Group(u, quota) /\ info' \in {info, Gifts!NewInfo}
         /\ early' = 0
      \/ ~info.there /\ group' = Gifts!NoGroup /\ info' = info /\ early' = 0
  BY Zenon DEF Gifts!Restart, Renewed
<1> HIDE DEF u
<1>4. info \in Infos /\ info.in_sell \in Int /\ info.there \in BOOLEAN /\ quota \in Int
  BY DEF CardsTyped, Infos
<1>5. /\ GroupOK' /\ Offered' \subseteq {c \in Cards : row[c] = "free"}
      /\ group'.there =>
           /\ group'.InProcess = 0
           /\ \/ info.there /\ group'.InSell = info.in_sell /\ early' = early
              \/ group'.InSell \in Nat
  <2>1. ASSUME NEW s \in Int, group' = Gifts!Group(u, s)
        PROVE  GroupOK' /\ Offered' = Each(u) /\ group'.InProcess = 0 /\ group'.InSell = s
    <3>1. Listed(group', Each(u), s, 0)
      BY Zenon, <1>1, <2>1, NewGroup
    <3> QED
      BY Zenon, <3>1, GroupListed
  <2>2. CASE group' = Gifts!NoGroup
    BY Zenon, <2>2 DEF GroupOK, Offered, Gifts!NoGroup
  <2>3. CASE info.there /\ group' = Gifts!Group(u, info.in_sell) /\ early' = early
    BY Zenon, <1>1, <1>4, <2>1, <2>3
  <2>4. CASE group' = Gifts!Group(u, 0)
    BY <1>1, <2>1, <2>4
  <2>5. CASE group' = Gifts!Group(u, quota)
    BY <1>1, <1>4, <2>1, <2>5 DEF CardsTyped
  <2> QED
    BY Zenon, <1>3, <2>2, <2>3, <2>4, <2>5
<1>6. /\ info' \in Infos /\ info'.there \in BOOLEAN
      /\ info'.there => \/ info.there /\ info'.in_sell = info.in_sell /\ early' = early
                        \/ info'.in_sell \in Nat
  <2>1. CASE info' = Renewed(info, 0)
    <3>1. Sells(info', info, 0)
      BY Zenon, <1>4, <2>1, FreshInfo
    <3> QED
      BY <3>1 DEF Sells
  <2>2. CASE info' = Gifts!NewInfo
    BY Zenon, <1>4, <2>2 DEF Infos, Gifts!NewInfo, CardsTyped
  <2>3. CASE info' = info /\ (info.there => early' = early)
    BY Zenon, <1>4, <2>3
  <2> QED
    BY <1>3, <2>1, <2>2, <2>3
<1>7. req' \in [Buyers -> Requests] /\ \A d \in Buyers : req'[d].at = "idle"
  BY Zenon, <1>2 DEF Requests, Gifts!Idle
<1>8. early' \in Nat
  BY <1>3 DEF CardsTyped
<1>9. /\ row' \in [Cards -> {"none", "new", "free", "sold"}]
      /\ \A c \in Cards : row[c] # "new" => row'[c] = row[c]
  BY Zenon, <1>2 DEF CardsTyped
<1>10. CardsTyped'
  BY Zenon, <1>2, <1>5, <1>6, <1>7, <1>8, <1>9, NoCards DEF CardsTyped
<1>11. \A d \in Buyers, e \in Cards : ~Holds(d, e)'
  BY Zenon, <1>7 DEF Holds
<1>12. Own'
  BY <1>2, <1>5, <1>7, <1>9, <1>11 DEF Own
<1> QED
  BY <1>5, <1>6, <1>7, <1>10, <1>12

(* Every step keeps a card in one place ...                                *)
LEMMA OwnStep ==
    ASSUME CardsTyped, Own, Gifts!Next
    PROVE  CardsTyped' /\ Own'
<1>1. CASE Gifts!Hour \/ (\E cards \in Gifts!Lists : Gifts!Import(cards)) \/ Gifts!ImportDone
  BY Zenon, <1>1, TableOwn
<1>2. CASE Gifts!Fresh
  BY Zenon, <1>2, FreshOwn
<1>3. CASE Gifts!ImportCard
  BY Zenon, <1>3, ImportCardOwn
<1>4. ASSUME NEW b \in Buyers,
             Gifts!Reserve(b) \/ Gifts!ConsumeFails(b) \/ Gifts!ConsumeDone(b)
               \/ Gifts!Record(b) \/ Gifts!Send(b)
      PROVE  CardsTyped' /\ Own'
  BY <1>4, ReserveOwn, ConsumeFailsOwn, ConsumeDoneOwn, RecordOwn, SendOwn
<1>5. CASE Gifts!Restart
  BY Zenon, <1>5, RestartOwn
<1> QED
  BY <1>1, <1>2, <1>3, <1>4, <1>5 DEF Gifts!Next

(* ... so it always is.                                                    *)
LEMMA OwnHolds == Gifts!Spec => [](CardsTyped /\ Own)
<1>1. Gifts!Init => CardsTyped /\ Own
  <2> SUFFICES ASSUME Gifts!Init PROVE CardsTyped /\ Own
    BY Zenon
  <2>1. group = Gifts!NoGroup /\ Offered = {} /\ GroupOK
    BY Zenon DEF Gifts!Init, Gifts!NoGroup, Offered, GroupOK
  <2>2. req \in [Buyers -> Requests] /\ \A b \in Buyers : req[b].at = "idle"
    BY Zenon DEF Gifts!Init, Requests, Gifts!Idle
  <2>3. info \in Infos
    BY DEF Gifts!Init, Infos
  <2>4. /\ row \in [Cards -> {"none", "new", "free", "sold"}] /\ quota \in Nat /\ early \in Nat
        /\ shown \in [Cards -> Nat] /\ \A c \in Cards : shown[c] = 0
    BY GiftAssumption DEF Gifts!Init
  <2>5. importing \in Seq(Cards)
    BY Zenon, NoCards DEF Gifts!Init
  <2> QED
    BY <2>1, <2>2, <2>3, <2>4, <2>5 DEF CardsTyped, Own
<1>2. CardsTyped /\ Own /\ [Gifts!Next]_(Gifts!vars) => (CardsTyped /\ Own)'
  <2>1. ASSUME CardsTyped, Own, UNCHANGED Gifts!vars
        PROVE  CardsTyped' /\ Own'
    BY <2>1 DEF Gifts!vars, CardsTyped, Own, GroupOK, Offered, Holds
  <2> QED
    BY Zenon, <2>1, OwnStep
<1> QED
  BY <1>1, <1>2, PTL DEF Gifts!Spec

(* A gift card is in one place at a time, for any number of cards and of   *)
(* purchases: Use takes a card off the list under the lock of the group,   *)
(* and it comes back only when the purchase that has it was not charged.   *)
(* A refused write or a restart loses a card at most; it never gives one   *)
(* to two players.                                                         *)
THEOREM OneOwnerHolds == Gifts!Spec => []OneOwner
<1>1. ASSUME CardsTyped, Own PROVE OneOwner
  <2> USE <1>1
  <2>1. Offered \subseteq Cards /\ GroupOK
    BY Zenon, GroupThere DEF CardsTyped
  <2> DEFINE u == Gifts!Unuse
  <2>2. u \in Seq(Cards) /\ Once(u) /\ Each(u) = Offered
    <3>1. CASE group.there
      BY <3>1, <2>1, GroupThere, ListedFields DEF Gifts!Unuse
    <3>2. CASE ~group.there
      BY <3>2, <2>1, GroupThere, NoCards DEF Gifts!Unuse
    <3> QED
      BY Zenon, <3>1, <3>2
  <2>3. Gifts!IsInjective(u)
    BY <2>2 DEF Gifts!IsInjective, Once
  <2>4. \A c : c \in Gifts!Range(u) => c \in Offered
    BY <2>2 DEF Gifts!Range, Each
  <2> HIDE DEF u
  <2>5. Gifts!TypeOK
    <3>1. info.in_sell \in Int
      BY Zenon DEF CardsTyped, Infos
    <3>2. group.there => group.UnuseCount = Len(group.Unuse) /\ group.InProcess \in Nat
      BY Zenon, <2>1, GroupThere, ListedFields
    <3>3. \A b \in Buyers : req[b].at \in {"idle", "consume", "record", "send"}
      BY Zenon, RequestBusy
    <3> QED
      BY Zenon, <3>1, <3>2, <3>3 DEF Gifts!TypeOK, CardsTyped
  <2>6. ASSUME NEW c \in Cards
        PROVE  /\ shown[c] <= 1 /\ Gifts!Cardinality(Gifts!Held(c)) <= 1
               /\ c \in Gifts!Range(u) => row[c] \in {"new", "free"} /\ Gifts!Held(c) = {}
    <3>1. shown[c] <= 1
      BY DEF Own
    <3>2. Gifts!Cardinality(Gifts!Held(c)) <= 1
      <4>1. Gifts!Cardinality(Gifts!Held(c)) = Cardinality(Gifts!Held(c))
        BY Zenon DEF Cardinality, Gifts!Cardinality
      <4>2. Gifts!Held(c) = {} \/ \E b \in Buyers : Gifts!Held(c) = {b}
        BY DEF Gifts!Held, Own
      <4>3. CASE Gifts!Held(c) = {}
        BY <4>1, <4>3, FS_EmptySet
      <4>4. CASE \E b \in Buyers : Gifts!Held(c) = {b}
        <5>1. PICK b \in Buyers : Gifts!Held(c) = {b}
          BY Zenon, <4>4
        <5>2. Cardinality(Gifts!Held(c)) = 1
          BY Zenon, <5>1, FS_Singleton
        <5> QED
          BY <4>1, <5>2
      <4> QED
        BY Zenon, <4>2, <4>3, <4>4
    <3>3. c \in Gifts!Range(u) => row[c] \in {"new", "free"} /\ Gifts!Held(c) = {}
      BY <2>4 DEF Own, Holds, Gifts!Held
    <3> QED
      BY Zenon, <3>1, <3>2, <3>3
  <2> QED
    BY Zenon, <2>3, <2>5, <2>6 DEF OneOwner, Gifts!OneOwner, u
<1> QED
  BY <1>1, OwnHolds, PTL

(* The counts.  A purchase that is waiting for its Consume is counted by   *)
(* InProcess unless Fresh has set that to 0 since, and early is how many   *)
(* there were then; so InProcess with early covers the purchases that are  *)
(* waiting, and by the test of Use so does InSell with early.              *)
Counts ==
    /\ group.there => /\ Flying <= group.InSell + early
                      /\ Flying <= group.InProcess + early
                      /\ group.InProcess <= Flying
    /\ info.there => info.in_sell + early >= 0

(* What happens to the number of the purchases that wait: none changes.    *)
LEMMA FlyingSame ==
    ASSUME \A d \in Buyers : req'[d].at = "consume" <=> req[d].at = "consume"
    PROVE  Flying' = Flying
<1>1. Gifts!InFlight' = Gifts!InFlight
  BY Zenon DEF Gifts!InFlight
<1> QED
  BY Zenon, <1>1 DEF Flying

(* One starts.                                                             *)
LEMMA FlyingMore ==
    ASSUME NEW b \in Buyers, req[b].at # "consume", req'[b].at = "consume",
           \A d \in Buyers : d # b => req'[d].at = req[d].at
    PROVE  Flying' = Flying + 1
<1>1. Gifts!InFlight' = Gifts!InFlight \cup {b} /\ b \notin Gifts!InFlight
  BY DEF Gifts!InFlight
<1> QED
  BY Zenon, <1>1, FlyingNat, FS_AddElement DEF Flying

(* One stops.                                                              *)
LEMMA FlyingLess ==
    ASSUME NEW b \in Buyers, req[b].at = "consume", req'[b].at # "consume",
           \A d \in Buyers : d # b => req'[d].at = req[d].at
    PROVE  Flying' = Flying - 1 /\ Flying > 0
<1>1. Gifts!InFlight' = Gifts!InFlight \ {b} /\ b \in Gifts!InFlight
  BY Zenon DEF Gifts!InFlight
<1>2. Flying' = Flying - 1
  BY Zenon, <1>1, FlyingNat, FS_RemoveElement DEF Flying
<1>3. Flying # 0
  BY Zenon, <1>1, FlyingNat, FS_EmptySet DEF Flying
<1> QED
  BY <1>2, <1>3, FlyingNat

(* The numbers that the counts are about are numbers.                      *)
LEMMA Numbers ==
    ASSUME CardsTyped
    PROVE  /\ Flying \in Nat /\ early \in Nat /\ quota \in Nat /\ info.in_sell \in Int
           /\ group.there => group.InSell \in Int /\ group.InProcess \in Nat
<1>1. info.in_sell \in Int
  BY Zenon DEF CardsTyped, Infos
<1> QED
  BY Zenon, <1>1, FlyingNat, GroupThere DEF CardsTyped

(* Every step keeps the counts.                                            *)
LEMMA CountsStep ==
    ASSUME CardsTyped, Own, Counts, Gifts!Next
    PROVE  Counts'
<1>n. CardsTyped' /\ Own'
  BY Zenon, OwnStep
<1>0. /\ Flying \in Nat /\ early \in Nat /\ quota \in Nat /\ info.in_sell \in Int
      /\ group.there => group.InSell \in Int /\ group.InProcess \in Nat
  BY Zenon, Numbers
<1>1. CASE Gifts!Hour \/ (\E cards \in Gifts!Lists : Gifts!Import(cards)) \/ Gifts!ImportDone
  <2>1. /\ UNCHANGED <<group, req, early>>
        /\ info'.there = info.there /\ info'.in_sell = info.in_sell
    BY Zenon, <1>1, TableOwn
  <2>2. Flying' = Flying
    BY Zenon, <2>1 DEF Flying, Gifts!InFlight
  <2> QED
    BY Zenon, <2>1, <2>2 DEF Counts
<1>2. CASE Gifts!Fresh
  <2>1. Flying' = Flying
    BY Zenon, <1>2 DEF Flying, Gifts!InFlight, Gifts!Fresh
  <2>2. \/ UNCHANGED <<info, group, early>>
        \/ /\ group'.InSell \in Nat /\ group'.InProcess = 0 /\ early' = Flying
           /\ info'.there => info'.in_sell \in Nat
    BY Zenon, <1>2, FreshOwn
  <2> QED
    BY <1>0, <2>1, <2>2 DEF Counts
<1>3. CASE Gifts!ImportCard
  <2>1. /\ group.there => group'.InSell = group.InSell /\ group'.InProcess = group.InProcess
        /\ ~group.there => group'.InSell = quota /\ group'.InProcess = 0
    BY Zenon, <1>3, ImportCardOwn
  <2>2. /\ UNCHANGED <<req, early>> /\ (group.there => info' = info)
        /\ info' \in {info, Gifts!NewInfo}
    BY Zenon, <1>3 DEF Gifts!ImportCard
  <2>3. Flying' = Flying
    BY Zenon, <2>2 DEF Flying, Gifts!InFlight
  <2>4. ~group.there => Flying = 0
    <3>1. ~group.there => Gifts!InFlight = {}
      BY Zenon DEF Own, Gifts!InFlight
    <3> QED
      BY Zenon, <3>1, FS_EmptySet DEF Flying
  <2>5. Gifts!NewInfo.in_sell = quota
    BY Zenon DEF Gifts!NewInfo
  <2> QED
    BY <1>0, <2>1, <2>2, <2>3, <2>4, <2>5 DEF Counts
<1>4. ASSUME NEW b \in Buyers, Gifts!Reserve(b)
      PROVE  Counts'
  <2>1. /\ group.there /\ group'.InSell = group.InSell /\ group'.InProcess = group.InProcess + 1
        /\ \A d \in Buyers : req'[d].at = IF d = b THEN "consume" ELSE req[d].at
    BY Zenon, <1>4, ReserveOwn
  <2>2. req[b].at = "idle" /\ group.InProcess < group.InSell /\ UNCHANGED <<info, early>>
    BY Zenon, <1>4 DEF Gifts!Reserve, Gifts!MayReserve
  <2>3. Flying' = Flying + 1
    BY Zenon, <2>1, <2>2, FlyingMore
  <2> QED
    BY <1>0, <2>1, <2>2, <2>3 DEF Counts
<1>5. ASSUME NEW b \in Buyers, Gifts!ConsumeFails(b)
      PROVE  Counts'
  <2>1. /\ group.there /\ group'.InSell = group.InSell
        /\ group'.InProcess = Gifts!OneLess(group.InProcess)
        /\ \A d \in Buyers : req'[d].at = IF d = b THEN "idle" ELSE req[d].at
    BY Zenon, <1>5, ConsumeFailsOwn
  <2>2. req[b].at = "consume" /\ UNCHANGED <<info, early>>
    BY Zenon, <1>5 DEF Gifts!ConsumeFails
  <2>3. Flying' = Flying - 1 /\ Flying > 0
    BY <2>1, <2>2, FlyingLess
  <2> QED
    BY <1>0, <2>1, <2>2, <2>3 DEF Counts, Gifts!OneLess
<1>6. ASSUME NEW b \in Buyers, Gifts!ConsumeDone(b)
      PROVE  Counts'
  <2>1. /\ group.there /\ group'.InSell = group.InSell - 1
        /\ group'.InProcess = Gifts!OneLess(group.InProcess)
        /\ info'.there = info.there
        /\ info'.in_sell # info.in_sell => info'.in_sell = group'.InSell
        /\ \A d \in Buyers : req'[d].at = IF d = b THEN "record" ELSE req[d].at
    BY Zenon, <1>6, ConsumeDoneOwn
  <2>2. req[b].at = "consume" /\ UNCHANGED early
    BY Zenon, <1>6 DEF Gifts!ConsumeDone
  <2>3. Flying' = Flying - 1 /\ Flying > 0
    BY Zenon, <2>1, <2>2, FlyingLess
  <2> QED
    BY <1>0, <2>1, <2>2, <2>3 DEF Counts, Gifts!OneLess
<1>7. ASSUME NEW b \in Buyers, Gifts!Record(b) \/ Gifts!Send(b)
      PROVE  Counts'
  <2>1. /\ UNCHANGED <<info, group, early>>
        /\ \A d \in Buyers : req'[d].at = "consume" <=> req[d].at = "consume"
    BY Zenon, <1>7, RecordOwn, SendOwn
  <2>2. Flying' = Flying
    BY Zenon, <2>1, FlyingSame
  <2> QED
    BY Zenon, <2>1, <2>2 DEF Counts
<1>8. CASE Gifts!Restart
  <2>1. /\ \A d \in Buyers : req'[d].at = "idle"
        /\ group'.there =>
             /\ group'.InProcess = 0
             /\ \/ info.there /\ group'.InSell = info.in_sell /\ early' = early
                \/ group'.InSell \in Nat
        /\ info'.there => \/ info.there /\ info'.in_sell = info.in_sell /\ early' = early
                          \/ info'.in_sell \in Nat
    BY Zenon, <1>8, RestartOwn
  <2>2. Flying' = 0
    <3>1. Gifts!InFlight' = {}
      BY Zenon, <2>1 DEF Gifts!InFlight
    <3> QED
      BY Zenon, <3>1, FS_EmptySet DEF Flying
  <2>3. early' \in Nat
    BY Zenon, <1>n DEF CardsTyped
  <2> QED
    BY <1>0, <2>1, <2>2, <2>3 DEF Counts
<1> QED
  BY <1>1, <1>2, <1>3, <1>4, <1>5, <1>6, <1>7, <1>8 DEF Gifts!Next

(* Players buy no more cards than were put up for sale, in spite of the    *)
(* purchases that interleave with Fresh: at most as many more as were      *)
(* waiting for their Consume when Fresh last set the number.  InProcess    *)
(* never counts a purchase that is not there.                              *)
THEOREM NotOversoldHolds == Gifts!Spec => []NotOversold
<1>1. Gifts!Init => Counts
  BY DEF Gifts!Init, Counts, Gifts!NoGroup
<1>2. CardsTyped /\ Own /\ Counts /\ [Gifts!Next]_(Gifts!vars) => Counts'
  <2> SUFFICES ASSUME CardsTyped, Own, Counts, [Gifts!Next]_(Gifts!vars)
               PROVE  Counts'
    BY Zenon
  <2>1. CASE UNCHANGED Gifts!vars
    BY Zenon, <2>1 DEF Gifts!vars, Counts, Flying, Gifts!InFlight
  <2> QED
    BY Zenon, <2>1, CountsStep
<1>3. ASSUME CardsTyped, Counts PROVE NotOversold
  BY <1>3, FlyingNat, Numbers DEF Counts, NotOversold, Gifts!NotOversold
<1> QED
  BY <1>1, <1>2, <1>3, OwnHolds, PTL DEF Gifts!Spec
=============================================================================
