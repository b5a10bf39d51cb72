------------------------------- MODULE MCGift -------------------------------
(* The gift cards of the Go service, for a finite stock of cards and a     *)
(* finite number of purchases at a time.                                   *)
EXTENDS Naturals, FiniteSets

CONSTANTS Cards, Buyers, Quota, MaxHours

VARIABLES row, importing, info, group, hours, quota, poolStale, req, shown, early

ASSUME GiftAssumption == IsFiniteSet(Cards) /\ IsFiniteSet(Buyers) /\ Quota \in Nat

Gifts == INSTANCE Gift

giftVars == <<row, importing, info, group, hours, quota, poolStale, req, shown, early>>

\* A card is offered once, or held by one purchase, or sold, and is shown to one
\* buyer, whatever fails in between (the handler of a purchase).
OneOwner == Gifts!OneOwner

\* No more cards are sold than were put up for sale, but for those that were being
\* bought when Fresh set the number.
NotOversold == Gifts!NotOversold
=============================================================================
