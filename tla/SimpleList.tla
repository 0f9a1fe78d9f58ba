---------------------------- MODULE SimpleList ----------------------------
(* The SLIST macros of inc/sys/queue.h: next pointers only, so that removing   *)
(* an element and concatenating walk the list from its head.                  *)
EXTENDS QueueCells

vars == <<ptr, owner>>
Init == CellsInit

InsertAfter(h, c, e) ==
    /\ c \in CellsOf(h)
    /\ Take(h, e)
    /\ ptr' = [ptr EXCEPT ![e] = ptr[c], ![c] = e]

RemoveAfter(h, c) ==
    /\ c \in CellsOf(h)
    /\ ptr[c] # NULL
    /\ Drop(h, ptr[c])
    /\ ptr' = [ptr EXCEPT ![c] = ptr[ptr[c]]]

Unlink(h, e) == owner[e] = h /\ RemoveAfter(h, Before(h, e))

Concat(a, b) ==
    /\ a # b
    /\ ptr[b] # NULL
    /\ Merge(a, b)
    /\ ptr' = [ptr EXCEPT ![Before(a, NULL)] = ptr[b], ![b] = NULL]

Swap(a, b) ==
    /\ a # b
    /\ Exchange(a, b)
    /\ ptr' = [ptr EXCEPT ![a] = ptr[b], ![b] = ptr[a]]

\* InsertAfter(h, h, e) is SLIST_INSERT_HEAD, RemoveAfter(h, h) SLIST_REMOVE_HEAD.
Next ==
    \/ \E h \in Heads, c \in Cells, e \in Elems : InsertAfter(h, c, e)
    \/ \E h \in Heads, c \in Cells : RemoveAfter(h, c)
    \/ \E h \in Heads, e \in Elems : Unlink(h, e)
    \/ \E a \in Heads, b \in Heads : Concat(a, b) \/ Swap(a, b)

Spec == Init /\ [][Next]_vars
=========================================================================
