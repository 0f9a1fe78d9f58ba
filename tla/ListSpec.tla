---------------------------- MODULE ListSpec ----------------------------
(* What the list macros of inc/sys/queue.h promise: every head stands for a  *)
(* sequence of elements, and an operation edits the sequences as its name     *)
(* says.  TailQueue, DoubleList, SimpleTailQueue and SimpleList implement it. *)
EXTENDS Sequences, SequencesExt

CONSTANTS Heads, Elems

VARIABLE lists          \* the elements of every head, first to last

Members(h) == ToSet(lists[h])
Unlinked == {e \in Elems : \A h \in Heads : e \notin Members(h)}

Init == lists = [h \in Heads |-> <<>>]

\* e becomes the i-th element of h.
Insert(h, i, e) ==
    /\ e \in Unlinked
    /\ lists' = [lists EXCEPT ![h] = InsertAt(@, i, e)]

Unlink(h, i) == lists' = [lists EXCEPT ![h] = RemoveAt(@, i)]

Concat(a, b) == lists' = [lists EXCEPT ![a] = @ \o lists[b], ![b] = <<>>]

Swap(a, b) == lists' = [lists EXCEPT ![a] = lists[b], ![b] = lists[a]]

Next ==
    \/ \E h \in Heads : \E i \in 1..Len(lists[h]) + 1, e \in Elems : Insert(h, i, e)
    \/ \E h \in Heads : \E i \in 1..Len(lists[h]) : Unlink(h, i)
    \/ \E a \in Heads, b \in Heads : a # b /\ (Concat(a, b) \/ Swap(a, b))

Spec == Init /\ [][Next]_lists
=========================================================================
