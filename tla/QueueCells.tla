---------------------------- MODULE QueueCells ----------------------------
(* The state the three simpler list families of inc/sys/queue.h share.  A     *)
(* cell is the first pointer of a head or the next pointer of an element,     *)
(* named by the head or the element.                                          *)
EXTENDS Naturals, FiniteSets, Sequences, SequencesExt

CONSTANTS Heads, Elems, NULL

QueueAssumption ==
    /\ Heads \cap Elems = {}
    /\ NULL \notin Heads \cup Elems

VARIABLES
    ptr,        \* the element a cell points to
    owner       \* the head whose list holds the element; what the caller knows

Cells == Heads \cup Elems
CellsOf(h) == {h} \cup {e \in Elems : owner[e] = h}

CellsInit ==
    /\ ptr = [c \in Cells |-> NULL]
    /\ owner = [e \in Elems |-> NULL]

Take(h, e) == owner[e] = NULL /\ owner' = [owner EXCEPT ![e] = h]
Drop(h, e) == owner[e] = h /\ owner' = [owner EXCEPT ![e] = NULL]
Merge(a, b) == owner' = [e \in Elems |-> IF owner[e] = b THEN a ELSE owner[e]]
Exchange(a, b) == owner' = [e \in Elems |-> CASE owner[e] = a -> b
                                              [] owner[e] = b -> a
                                              [] OTHER -> owner[e]]

\* The elements reached from c by the next pointers.
Chain(c) ==
    LET f[n \in 0..Cardinality(Elems), d \in Cells] ==
            IF n = 0 \/ ptr[d] = NULL THEN <<>> ELSE <<ptr[d]>> \o f[n - 1, ptr[d]]
    IN  f[Cardinality(Elems), c]

\* The cell a walk from head h stops at: the one pointing to e, or to NULL.
Before(h, e) == CHOOSE c \in {h} \cup ToSet(Chain(h)) : ptr[c] = e

(* The pointers stand for sequences, and every macro edits the sequences as  *)
(* its name says.                                                            *)
Abstract == INSTANCE ListSpec WITH lists <- [h \in Heads |-> Chain(h)]
ImplementsLists == Abstract!Spec
=========================================================================
