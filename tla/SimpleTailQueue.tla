-------------------------- MODULE SimpleTailQueue --------------------------
(* The STAILQ macros of inc/sys/queue.h: next pointers, and in every head the *)
(* address of the last cell.                                                  *)
EXTENDS QueueCells

VARIABLE last           \* stqh_last: the cell that holds NULL

vars == <<ptr, owner, last>>
Init == CellsInit /\ last = [h \in Heads |-> h]

\* A bug the macro might have: the element becomes the last one, and last does
\* not name it.
InsertAfterNoLast(h, c, e) ==
    /\ c \in CellsOf(h)
    /\ Take(h, e)
    /\ ptr' = [ptr EXCEPT ![e] = ptr[c], ![c] = e]
    /\ UNCHANGED last

\* STAILQ_INSERT_HEAD is the case c = h.
InsertAfter(h, c, e) ==
    /\ c \in CellsOf(h)
    /\ Take(h, e)
    /\ ptr' = [ptr EXCEPT ![e] = ptr[c], ![c] = e]
    /\ last' = IF ptr[c] = NULL THEN [last EXCEPT ![h] = e] ELSE last

InsertTail(h, e) ==
    /\ Take(h, e)
    /\ ptr' = [ptr EXCEPT ![e] = NULL, ![last[h]] = e]
    /\ last' = [last EXCEPT ![h] = e]

\* STAILQ_REMOVE_HEAD is the case c = h.
RemoveAfter(h, c) ==
    /\ c \in CellsOf(h)
    /\ ptr[c] # NULL
    /\ Drop(h, ptr[c])
    /\ ptr' = [ptr EXCEPT ![c] = ptr[ptr[c]]]
    /\ last' = IF ptr'[c] = NULL THEN [last EXCEPT ![h] = c] ELSE last

Unlink(h, e) == owner[e] = h /\ RemoveAfter(h, Before(h, e))

Concat(a, b) ==
    /\ a # b
    /\ ptr[b] # NULL
    /\ Merge(a, b)
    /\ ptr' = [ptr EXCEPT ![last[a]] = ptr[b], ![b] = NULL]
    /\ last' = [last EXCEPT ![a] = last[b], ![b] = b]

Swap(a, b) ==
    /\ a # b
    /\ Exchange(a, b)
    /\ ptr' = [ptr EXCEPT ![a] = ptr[b], ![b] = ptr[a]]
    /\ last' = [last EXCEPT ![a] = IF ptr[b] = NULL THEN a ELSE last[b],
                            ![b] = IF ptr[a] = NULL THEN b ELSE last[a]]

Next ==
    \/ \E h \in Heads, c \in Cells, e \in Elems : InsertAfter(h, c, e)
    \/ \E h \in Heads, c \in Cells : RemoveAfter(h, c)
    \/ \E h \in Heads, e \in Elems : InsertTail(h, e) \/ Unlink(h, e)
    \/ \E a \in Heads, b \in Heads : Concat(a, b) \/ Swap(a, b)

Spec == Init /\ [][Next]_vars

STAILQ_LAST(h) == IF ptr[h] = NULL THEN NULL ELSE last[h]

(* stqh_last names the last cell of its own list, so that STAILQ_LAST is the *)
(* last element and an insertion at the tail goes to the right list.         *)
LastExact ==
    \A h \in Heads :
        LET s == Chain(h) IN
        /\ last[h] = IF s = <<>> THEN h ELSE Last(s)
        /\ STAILQ_LAST(h) = IF s = <<>> THEN NULL ELSE Last(s)
=========================================================================
