-------------------------- MODULE TailQueueProofs --------------------------
(* The TAILQ macros keep every list's two directions in agreement, for any    *)
(* set of heads and any set of elements.                                      *)
EXTENDS TailQueue, TLAPS

IInv == TypeOK /\ LinksAgree

\* LinksAgree for one head, in three parts: along the next pointers, along the
\* previous pointers, and at the tail.
Forward(g) ==
    \A d \in CellsOf(g) : IF ptr[d] = NULL THEN back[g] = d
                          ELSE ptr[d] \in CellsOf(g) \ {g} /\ back[ptr[d]] = d
Backward(g) == \A x \in CellsOf(g) \ {g} : back[x] \in CellsOf(g) /\ ptr[back[x]] = x
AtTail(g) == back[g] \in CellsOf(g) /\ ptr[back[g]] = NULL

(* The initialised heads are empty lists whose pointers agree.                *)
LEMMA InitAgrees == Init => IInv
<1>. SUFFICES ASSUME Init PROVE IInv OBVIOUS
<1>1. TypeOK BY TailQueueAssumption DEF Init, TypeOK, Cells
<1>2. ASSUME NEW h \in Heads PROVE CellsOf(h) = {h} /\ ptr[h] = NULL /\ back[h] = h
      BY TailQueueAssumption DEF Init, CellsOf, Cells
<1>3. LinksAgree BY <1>2 DEF LinksAgree
<1>. QED BY <1>1, <1>3 DEF IInv

(* TAILQ_INSERT_AFTER and TAILQ_INSERT_HEAD: the entry goes behind a cell of  *)
(* the list.                                                                  *)
LEMMA LinkAgrees ==
    ASSUME NEW h \in Heads, NEW c \in CellsOf(h), NEW e \in Elems, IInv, Link(h, c, e)
    PROVE  IInv'
<1>. USE TailQueueAssumption DEF IInv, TypeOK, Cells, CellsOf
<1>1. TypeOK' BY DEF Link, Follower, LinksAgree
<1>2. ASSUME NEW g \in Heads PROVE Forward(g)'
      BY DEF Forward, Link, Follower, LinksAgree
<1>3. ASSUME NEW g \in Heads PROVE Backward(g)'
      BY DEF Backward, Link, Follower, LinksAgree
<1>4. ASSUME NEW g \in Heads PROVE AtTail(g)'
      BY DEF AtTail, Link, Follower, LinksAgree
<1>. QED BY <1>1, <1>2, <1>3, <1>4 DEF LinksAgree, Forward, Backward, AtTail

(* TAILQ_INSERT_BEFORE keeps the directions in agreement.                     *)
LEMMA InsertBeforeAgrees ==
    ASSUME NEW h \in Heads, NEW l \in Elems, NEW e \in Elems, IInv, InsertBefore(h, l, e)
    PROVE  IInv'
<1>. USE TailQueueAssumption DEF IInv, TypeOK, Cells, CellsOf
<1>1. TypeOK'
  <2>1. back[l] \in Heads \cup Elems BY DEF InsertBefore, LinksAgree
  <2>2. ptr' \in [Heads \cup Elems -> Elems \cup {NULL}] BY <2>1 DEF InsertBefore
  <2>3. back' \in [Heads \cup Elems -> Heads \cup Elems \cup {NULL}] BY <2>1 DEF InsertBefore
  <2>4. owner' \in [Elems -> Heads \cup {NULL}] BY DEF InsertBefore
  <2>. QED BY <2>2, <2>3, <2>4
<1>2. ASSUME NEW g \in Heads PROVE Forward(g)'
      BY DEF Forward, InsertBefore, LinksAgree
<1>3. ASSUME NEW g \in Heads PROVE Backward(g)'
      BY DEF Backward, InsertBefore, LinksAgree
<1>4. ASSUME NEW g \in Heads PROVE AtTail(g)'
      BY DEF AtTail, InsertBefore, LinksAgree
<1>. QED BY <1>1, <1>2, <1>3, <1>4 DEF LinksAgree, Forward, Backward, AtTail

(* TAILQ_INSERT_TAIL writes through tqh_last, the one cell holding NULL.       *)
LEMMA InsertTailAgrees ==
    ASSUME NEW h \in Heads, NEW e \in Elems, IInv, InsertTail(h, e)
    PROVE  IInv'
<1>. USE TailQueueAssumption DEF IInv, TypeOK, Cells, CellsOf
<1>1. TypeOK' BY DEF InsertTail, LinksAgree
<1>2. ASSUME NEW g \in Heads PROVE Forward(g)'
      BY DEF Forward, InsertTail, LinksAgree
<1>3. ASSUME NEW g \in Heads PROVE Backward(g)'
      BY DEF Backward, InsertTail, LinksAgree
<1>4. ASSUME NEW g \in Heads PROVE AtTail(g)'
      BY DEF AtTail, InsertTail, LinksAgree
<1>. QED BY <1>1, <1>2, <1>3, <1>4 DEF LinksAgree, Forward, Backward, AtTail

(* TAILQ_REMOVE closes the gap on both sides.                                 *)
LEMMA UnlinkAgrees ==
    ASSUME NEW h \in Heads, NEW e \in Elems, IInv, Unlink(h, e)
    PROVE  IInv'
<1>. USE TailQueueAssumption DEF IInv, TypeOK, Cells, CellsOf
<1>1. TypeOK' BY DEF Unlink, Follower, LinksAgree
<1>2. ASSUME NEW g \in Heads PROVE Forward(g)'
      BY DEF Forward, Unlink, Follower, LinksAgree
<1>3. ASSUME NEW g \in Heads PROVE Backward(g)'
      BY DEF Backward, Unlink, Follower, LinksAgree
<1>4. ASSUME NEW g \in Heads PROVE AtTail(g)'
      BY DEF AtTail, Unlink, Follower, LinksAgree
<1>. QED BY <1>1, <1>2, <1>3, <1>4 DEF LinksAgree, Forward, Backward, AtTail

(* TAILQ_CONCAT joins the lists and leaves the second head empty.             *)
LEMMA ConcatAgrees ==
    ASSUME NEW a \in Heads, NEW b \in Heads, IInv, Concat(a, b)
    PROVE  IInv'
<1>. USE TailQueueAssumption DEF IInv, TypeOK, Cells, CellsOf
<1>1. TypeOK' BY DEF Concat, LinksAgree
<1>2. ASSUME NEW g \in Heads PROVE Forward(g)'
      BY DEF Forward, Concat, LinksAgree
<1>3. ASSUME NEW g \in Heads PROVE Backward(g)'
      BY DEF Backward, Concat, LinksAgree
<1>4. ASSUME NEW g \in Heads PROVE AtTail(g)'
      BY DEF AtTail, Concat, LinksAgree
<1>. QED BY <1>1, <1>2, <1>3, <1>4 DEF LinksAgree, Forward, Backward, AtTail

(* TAILQ_SWAP points the first entries, or the empty heads, back at the heads. *)
LEMMA SwapAgrees ==
    ASSUME NEW a \in Heads, NEW b \in Heads, IInv, Swap(a, b)
    PROVE  IInv'
<1>. USE TailQueueAssumption DEF IInv, TypeOK, Cells, CellsOf
<1>1. TypeOK' BY DEF Swap, Follower, LinksAgree
<1>2. ASSUME NEW g \in Heads PROVE Forward(g)'
      BY DEF Forward, Swap, Follower, LinksAgree
<1>3. ASSUME NEW g \in Heads PROVE Backward(g)'
      BY DEF Backward, Swap, Follower, LinksAgree
<1>4. ASSUME NEW g \in Heads PROVE AtTail(g)'
      BY DEF AtTail, Swap, Follower, LinksAgree
<1>. QED BY <1>1, <1>2, <1>3, <1>4 DEF LinksAgree, Forward, Backward, AtTail

(* Every step keeps the directions in agreement.                             *)
LEMMA NextAgrees == IInv /\ [Next]_vars => IInv'
<1>. SUFFICES ASSUME IInv, [Next]_vars PROVE IInv'
     OBVIOUS
<1>1. CASE UNCHANGED vars
      BY <1>1 DEF IInv, TypeOK, LinksAgree, CellsOf, vars
<1>2. ASSUME NEW h \in Heads, NEW e \in Elems, InsertHead(h, e) PROVE IInv'
      BY <1>2, LinkAgrees DEF InsertHead, CellsOf
<1>3. ASSUME NEW h \in Heads, NEW e \in Elems, InsertTail(h, e) PROVE IInv'
      BY <1>3, InsertTailAgrees
<1>4. ASSUME NEW h \in Heads, NEW e \in Elems, Unlink(h, e) PROVE IInv'
      BY <1>4, UnlinkAgrees
<1>5. ASSUME NEW h \in Heads, NEW l \in Elems, NEW e \in Elems, InsertAfter(h, l, e)
      PROVE IInv'
      BY <1>5, LinkAgrees DEF InsertAfter, CellsOf
<1>6. ASSUME NEW h \in Heads, NEW l \in Elems, NEW e \in Elems, InsertBefore(h, l, e)
      PROVE IInv'
      BY <1>6, InsertBeforeAgrees
<1>7. ASSUME NEW a \in Heads, NEW b \in Heads, Concat(a, b) PROVE IInv'
      BY <1>7, ConcatAgrees
<1>8. ASSUME NEW a \in Heads, NEW b \in Heads, Swap(a, b) PROVE IInv'
      BY <1>8, SwapAgrees
<1>. QED BY <1>1, <1>2, <1>3, <1>4, <1>5, <1>6, <1>7, <1>8 DEF Next

(* For any heads and elements, and any sequence of TAILQ operations on them,  *)
(* the two directions of every list agree: none of the QMD_TAILQ_CHECK_*      *)
(* conditions can fail.                                                       *)
THEOREM LinksAlwaysAgree == Spec => []LinksAgree
<1>1. IInv => LinksAgree BY DEF IInv
<1>. QED BY InitAgrees, NextAgrees, <1>1, PTL DEF Spec
=========================================================================
