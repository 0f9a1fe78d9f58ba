--------------------------- MODULE TailQueueLoop ---------------------------
(* The loops TAILQ_FOREACH_SAFE and TAILQ_FOREACH_REVERSE_SAFE over the lists *)
(* of TailQueue.  The body may remove the entry it visits, and may then put    *)
(* it on another list.                                                        *)
EXTENDS TailQueue, FiniteSets, Sequences, SequencesExt

VARIABLES
    var, tvar,      \* the two variables of the loop
    dir,            \* "forward" or "reverse", "none" outside a loop
    from,           \* the head the loop runs over
    todo            \* the entries the loop has yet to visit, var first

loopVars == <<var, tvar, dir, from, todo>>

LoopInit ==
    /\ Init
    /\ var = NULL /\ tvar = NULL /\ dir = "none" /\ from = NULL /\ todo = <<>>

\* The elements reached from h by the next pointers.
Chain(h) ==
    LET f[n \in 0..Cardinality(Elems), c \in Cells] ==
            IF n = 0 \/ ptr[c] = NULL THEN <<>> ELSE <<ptr[c]>> \o f[n - 1, ptr[c]]
    IN  f[Cardinality(Elems), h]

Step(d, e) == CASE e = NULL -> NULL
                [] d = "forward" -> ptr[e]
                [] d = "reverse" -> TAILQ_PREV(e)

ForeachBegin(d, h) ==
    LET start == IF d = "forward" THEN ptr[h] ELSE TAILQ_LAST(h) IN
    /\ dir = "none"
    /\ ptr[h] # NULL
    /\ var' = start
    /\ tvar' = Step(d, start)
    /\ dir' = d
    /\ from' = h
    /\ todo' = IF d = "forward" THEN Chain(h) ELSE Reverse(Chain(h))
    /\ UNCHANGED vars

BodyRemove ==
    /\ dir # "none"
    /\ Unlink(from, var)
    /\ UNCHANGED loopVars

BodyMove(h) ==
    /\ dir # "none"
    /\ h # from
    /\ InsertTail(h, var)
    /\ UNCHANGED loopVars

\* TAILQ_FOREACH, which reads the next pointer after the body has run.
ForeachNextUnsafe ==
    /\ dir # "none"
    /\ var' = Step(dir, var)
    /\ tvar' = NULL
    /\ dir' = IF var' = NULL THEN "none" ELSE dir
    /\ from' = IF var' = NULL THEN NULL ELSE from
    /\ todo' = IF todo = <<>> THEN todo ELSE Tail(todo)
    /\ UNCHANGED vars

ForeachNext ==
    /\ dir # "none"
    /\ var' = tvar
    /\ tvar' = Step(dir, tvar)
    /\ dir' = IF tvar = NULL THEN "none" ELSE dir
    /\ from' = IF tvar = NULL THEN NULL ELSE from
    /\ todo' = Tail(todo)
    /\ UNCHANGED vars

LoopNext ==
    \/ dir = "none" /\ Next /\ UNCHANGED loopVars
    \/ \E h \in Heads, d \in {"forward", "reverse"} : ForeachBegin(d, h)
    \/ BodyRemove
    \/ \E h \in Heads : BodyMove(h)
    \/ ForeachNext

LoopSpec == LoopInit /\ [][LoopNext]_<<vars, loopVars>>

(* Each entry that was on the list when the loop began is visited once, in   *)
(* order, whatever the body does with the entries it was given.              *)
VisitsAll == IF dir = "none" THEN todo = <<>> ELSE todo # <<>> /\ var = Head(todo)

(* The shortcuts that read a head as an entry give the real last element and *)
(* the real predecessor, and the FAST forms agree with them.                 *)
EndsExact ==
    \A h \in Heads :
        LET s == Chain(h) IN
        /\ TAILQ_LAST(h) = IF s = <<>> THEN NULL ELSE Last(s)
        /\ TAILQ_LAST_FAST(h) = TAILQ_LAST(h)
        /\ \A i \in DOMAIN s :
              /\ TAILQ_PREV(s[i]) = IF i = 1 THEN NULL ELSE s[i - 1]
              /\ TAILQ_PREV_FAST(s[i], h) = TAILQ_PREV(s[i])

(* The pointers stand for sequences and every macro edits them as its name   *)
(* says; loops change nothing by themselves.                                 *)
Abstract == INSTANCE ListSpec WITH lists <- [h \in Heads |-> Chain(h)]
ImplementsLists == Abstract!Spec
=========================================================================
