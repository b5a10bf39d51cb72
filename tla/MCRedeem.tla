------------------------------ MODULE MCRedeem ------------------------------
(* The redeem codes of the Go service, for a finite number of codes.       *)
EXTENDS Integers, Sequences, FiniteSets

CONSTANTS Codes, Types, GroupOf, Accounts, None, MaxMade, MaxGrants

VARIABLES dbTypes, rows, r, made, grants, paid, unsaved, lost, cut

\* Types are numbered from 1; the group 9999 stands for codes that are never used up.
ASSUME RedeemAssumption ==
    /\ IsFiniteSet(Codes) /\ Types \subseteq Nat \ {0} /\ GroupOf \in [Types -> Nat]
    /\ None \notin Types /\ None \notin Accounts

Redeems == INSTANCE Redeem

codeVars == <<dbTypes, rows, r, made, grants, paid, unsaved, lost, cut>>

\* Codes: a code of a limited type pays as often as it was made (Use).
OncePerCode == Redeems!OncePerCode

\* Codes: an account is paid for one code of each group that is checked (Use).
OncePerGroup == Redeems!OncePerGroup

\* Codes: the maps and counters in memory are those of the table (Load, Use,
\* AddCodeN).
MemoryIsTable == Redeems!MemoryIsTable
=============================================================================
