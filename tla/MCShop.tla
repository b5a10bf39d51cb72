------------------------------- MODULE MCShop -------------------------------
(* The Go service: the connection it talks to the game over, its redeem    *)
(* codes, or its gift cards. They share no state: a behaviour is one of    *)
(* them, and the variables of the others stay as they are.                 *)
EXTENDS Remote, MCGift, MCRedeem

VARIABLE part

\* A group that is checked, the group that is not, and codes for everyone.
ShopGroups == <<1, 8888, 9999>>

MCInit ==
    /\ part \in {"codes", "cards", "link"}
    /\ Init
    /\ Redeems!Init
    /\ Gifts!Init
    /\ part # "cards" => quota = 0

MCNext ==
    /\ part' = part
    /\ \/ part = "link" /\ Next /\ UNCHANGED <<codeVars, giftVars>>
       \/ part = "codes" /\ Redeems!Next /\ UNCHANGED <<vars, giftVars>>
       \/ part = "cards" /\ Gifts!Next /\ UNCHANGED <<vars, codeVars>>

MCSpec == MCInit /\ [][MCNext]_<<part, vars, codeVars, giftVars>>
============================================================================
