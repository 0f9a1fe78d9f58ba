---------------------------- MODULE TailQueue ----------------------------
(* The TAILQ macros of inc/sys/queue.h, pointer by pointer.  A "cell" is a    *)
(* place that holds a pointer to an element: tqh_first of a head or tqe_next  *)
(* of an element, named by its owner.  Heads and entries have the same        *)
(* layout, which TAILQ_LAST and TAILQ_PREV rely on when they cast one to the  *)
(* other: ptr is the first pointer of either, back the second.                *)
EXTENDS Naturals

CONSTANTS Heads, Elems, NULL

ASSUME TailQueueAssumption ==
    /\ Heads \cap Elems = {}
    /\ NULL \notin Heads \cup Elems

VARIABLES
    ptr,        \* tqh_first of a head, tqe_next of an element
    back,       \* tqh_last of a head, tqe_prev of an element: a cell
    owner       \* the head whose list holds the element; what the caller knows

vars == <<ptr, back, owner>>

Cells == Heads \cup Elems

Init ==
    /\ ptr = [c \in Cells |-> NULL]
    /\ back = [c \in Cells |-> IF c \in Heads THEN c ELSE NULL]
    /\ owner = [e \in Elems |-> NULL]

TAILQ_LAST(h) == ptr[back[back[h]]]
TAILQ_LAST_FAST(h) == IF ptr[h] = NULL THEN NULL ELSE back[h]
TAILQ_PREV(e) == ptr[back[back[e]]]
TAILQ_PREV_FAST(e, h) == IF back[e] = h THEN NULL ELSE back[e]

\* The place that must point back at cell c of h: the next element's tqe_prev,
\* or tqh_last when c is the last cell.
Follower(h, c) == IF ptr[c] = NULL THEN h ELSE ptr[c]

Link(h, c, e) ==
    /\ owner[e] = NULL
    /\ ptr' = [ptr EXCEPT ![e] = ptr[c], ![c] = e]
    /\ back' = [back EXCEPT ![Follower(h, c)] = e, ![e] = c]
    /\ owner' = [owner EXCEPT ![e] = h]

InsertHead(h, e) == Link(h, h, e)

InsertAfter(h, listelm, e) == owner[listelm] = h /\ Link(h, listelm, e)

\* A bug the macro might have: the entry after keeps its tqe_prev.
InsertBeforeNoBack(h, listelm, e) ==
    /\ owner[listelm] = h
    /\ owner[e] = NULL
    /\ ptr' = [ptr EXCEPT ![e] = listelm, ![back[listelm]] = e]
    /\ back' = [back EXCEPT ![e] = back[listelm]]
    /\ owner' = [owner EXCEPT ![e] = h]

InsertBefore(h, listelm, e) ==
    /\ owner[listelm] = h
    /\ owner[e] = NULL
    /\ ptr' = [ptr EXCEPT ![e] = listelm, ![back[listelm]] = e]
    /\ back' = [back EXCEPT ![e] = back[listelm], ![listelm] = e]
    /\ owner' = [owner EXCEPT ![e] = h]

InsertTail(h, e) ==
    /\ owner[e] = NULL
    /\ ptr' = [ptr EXCEPT ![e] = NULL, ![back[h]] = e]
    /\ back' = [back EXCEPT ![e] = back[h], ![h] = e]
    /\ owner' = [owner EXCEPT ![e] = h]

\* The entry keeps its pointers: TRASHIT is empty in this build.
Unlink(h, e) ==
    /\ owner[e] = h
    /\ ptr' = [ptr EXCEPT ![back[e]] = ptr[e]]
    /\ back' = [back EXCEPT ![Follower(h, e)] = back[e]]
    /\ owner' = [owner EXCEPT ![e] = NULL]

Concat(a, b) ==
    /\ a # b
    /\ ptr[b] # NULL
    /\ ptr' = [ptr EXCEPT ![back[a]] = ptr[b], ![b] = NULL]
    /\ back' = [back EXCEPT ![ptr[b]] = back[a], ![a] = back[b], ![b] = b]
    /\ owner' = [e \in Elems |-> IF owner[e] = b THEN a ELSE owner[e]]

Swap(a, b) ==
    /\ a # b
    /\ ptr' = [ptr EXCEPT ![a] = ptr[b], ![b] = ptr[a]]
    /\ back' = [back EXCEPT ![a] = back[b], ![b] = back[a],
                            ![Follower(a, b)] = a, ![Follower(b, a)] = b]
    /\ owner' = [e \in Elems |-> IF owner[e] = a THEN b
                                 ELSE IF owner[e] = b THEN a ELSE owner[e]]

\* Concat with an empty second list changes nothing, and is left out of Next.
Next ==
    \/ \E h \in Heads, e \in Elems : InsertHead(h, e) \/ InsertTail(h, e) \/ Unlink(h, e)
    \/ \E h \in Heads, listelm \in Elems, e \in Elems :
           InsertAfter(h, listelm, e) \/ InsertBefore(h, listelm, e)
    \/ \E a \in Heads, b \in Heads : Concat(a, b) \/ Swap(a, b)

Spec == Init /\ [][Next]_vars
-----------------------------------------------------------------------------
CellsOf(h) == {h} \cup {e \in Elems : owner[e] = h}

TypeOK ==
    /\ ptr \in [Cells -> Elems \cup {NULL}]
    /\ back \in [Cells -> Cells \cup {NULL}]
    /\ owner \in [Elems -> Heads \cup {NULL}]

(* The two directions of every list agree: what a cell of a list points to   *)
(* is in the same list and points back at that cell, every entry's tqe_prev  *)
(* is a cell of its list that points to it, and tqh_last is the one cell     *)
(* that holds NULL.  These are the conditions of the QMD_TAILQ_CHECK_*       *)
(* panics (compiled out here), for every head and entry at once.             *)
LinksAgree ==
    \A h \in Heads :
        /\ \A c \in CellsOf(h) :
              IF ptr[c] = NULL THEN back[h] = c
              ELSE ptr[c] \in CellsOf(h) \ {h} /\ back[ptr[c]] = c
        /\ \A e \in CellsOf(h) \ {h} : back[e] \in CellsOf(h) /\ ptr[back[e]] = e
        /\ back[h] \in CellsOf(h) /\ ptr[back[h]] = NULL
=========================================================================
