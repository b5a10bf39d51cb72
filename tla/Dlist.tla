------------------------------- MODULE Dlist --------------------------------
(* The linked lists of the C code (framework/dlist.h). A list is the       *)
(* sequence of its nodes, from the head; a node is in it at most once.     *)
(* dlist_insert_tail is Append, and walking a list with dlist_next goes    *)
(* through the sequence.                                                   *)
EXTENDS Integers, Sequences

\* dlist_remove of the node at position i ...
RemoveNode(l, i) == SubSeq(l, 1, i - 1) \o SubSeq(l, i + 1, Len(l))

\* ... and of the node n: a node that is in no list has no neighbours.
Unlink(l, n) ==
    IF \E i \in 1 .. Len(l) : l[i] = n
    THEN RemoveNode(l, CHOOSE i \in 1 .. Len(l) : l[i] = n)
    ELSE l
=============================================================================
