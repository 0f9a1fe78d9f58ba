---------------------------- MODULE DoubleList ----------------------------
(* The LIST macros of inc/sys/queue.h: next pointers, and in every element    *)
(* the address of the cell that points to it.                                 *)
EXTENDS QueueCells

VARIABLE prev           \* le_prev

vars == <<ptr, owner, prev>>
Init == CellsInit /\ prev = [e \in Elems |-> NULL]

\* prev with the element cell c points to, if any, pointing back at d.
Point(p, c, d) == IF ptr[c] = NULL THEN p ELSE [p EXCEPT ![ptr[c]] = d]

\* LIST_INSERT_HEAD is the case c = h.
InsertAfter(h, c, e) ==
    /\ c \in CellsOf(h)
    /\ Take(h, e)
    /\ ptr' = [ptr EXCEPT ![e] = ptr[c], ![c] = e]
    /\ prev' = [Point(prev, c, e) EXCEPT ![e] = c]

InsertBefore(h, listelm, e) ==
    /\ owner[listelm] = h
    /\ Take(h, e)
    /\ ptr' = [ptr EXCEPT ![e] = listelm, ![prev[listelm]] = e]
    /\ prev' = [prev EXCEPT ![e] = prev[listelm], ![listelm] = e]

Unlink(h, e) ==
    /\ Drop(h, e)
    /\ ptr' = [ptr EXCEPT ![prev[e]] = ptr[e]]
    /\ prev' = Point(prev, e, prev[e])

Concat(a, b) ==
    /\ a # b
    /\ ptr[b] # NULL
    /\ Merge(a, b)
    /\ ptr' = [ptr EXCEPT ![Before(a, NULL)] = ptr[b], ![b] = NULL]
    /\ prev' = Point(prev, b, Before(a, NULL))

Swap(a, b) ==
    /\ a # b
    /\ Exchange(a, b)
    /\ ptr' = [ptr EXCEPT ![a] = ptr[b], ![b] = ptr[a]]
    /\ prev' = Point(Point(prev, b, a), a, b)

Next ==
    \/ \E h \in Heads, c \in Cells, e \in Elems : InsertAfter(h, c, e)
    \/ \E h \in Heads, listelm \in Elems, e \in Elems : InsertBefore(h, listelm, e)
    \/ \E h \in Heads, e \in Elems : Unlink(h, e)
    \/ \E a \in Heads, b \in Heads : Concat(a, b) \/ Swap(a, b)

Spec == Init /\ [][Next]_vars

LIST_PREV(e, h) == IF prev[e] = h THEN NULL ELSE prev[e]

(* The conditions of the QMD_LIST_CHECK_* panics, compiled out in this build, *)
(* hold of every list, and LIST_PREV is the element before.                   *)
PrevExact ==
    \A h \in Heads :
        LET s == Chain(h) IN
        \A i \in DOMAIN s :
            /\ ptr[prev[s[i]]] = s[i]
            /\ LIST_PREV(s[i], h) = IF i = 1 THEN NULL ELSE s[i - 1]
=========================================================================
