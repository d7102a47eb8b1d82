----------------------------- MODULE ListQueue -----------------------------
(***************************************************************************)
(* What list.h promises: a sequence to which list_add appends and from     *)
(* which list_remove takes the first equal element.  LinkedList is shown   *)
(* to implement it under the ways the program uses its lists.              *)
(***************************************************************************)
EXTENDS Integers, Sequences, SequencesExt

CONSTANT Elem
VARIABLES
    items,   \* the elements in the list
    size     \* what its length field says

Init == items = <<>> /\ size = 0
Add(e) == items' = Append(items, e) /\ size' = size + 1
Drop(e) == /\ e \in ToSet(items)
           /\ items' = RemoveFirst(items, e) /\ size' = size - 1
Destroy == items' = <<>> /\ size' = 0

Next == (\E e \in Elem : Add(e) \/ Drop(e)) \/ Destroy

Spec == Init /\ [][Next]_<<items, size>>
=============================================================================
