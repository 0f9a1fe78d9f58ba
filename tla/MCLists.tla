------------------------------ MODULE MCLists -------------------------------
(* The four families of lists of inc/sys/queue.h, for TLC.  A behaviour is one *)
(* of the family named by the variable part; the others stay as they are.     *)
EXTENDS TailQueueLoop, TLC

VARIABLE part

VARIABLES stailqPtr, stailqOwner, last
stailqVars == <<stailqPtr, stailqOwner, last>>
STailQ == INSTANCE SimpleTailQueue WITH ptr <- stailqPtr, owner <- stailqOwner
ASSUME STailQ!QueueAssumption

VARIABLES slistPtr, slistOwner
slistVars == <<slistPtr, slistOwner>>
SList == INSTANCE SimpleList WITH ptr <- slistPtr, owner <- slistOwner

VARIABLES listPtr, listOwner, prev
listVars == <<listPtr, listOwner, prev>>
List == INSTANCE DoubleList WITH ptr <- listPtr, owner <- listOwner

MCInit ==
    /\ part \in {"tailq", "stailq", "slist", "list"}
    /\ LoopInit /\ STailQ!Init /\ SList!Init /\ List!Init

MCNext ==
    /\ UNCHANGED part
    /\ IF part = "tailq" THEN LoopNext ELSE UNCHANGED <<vars, loopVars>>
    /\ IF part = "stailq" THEN STailQ!Next ELSE UNCHANGED stailqVars
    /\ IF part = "slist" THEN SList!Next ELSE UNCHANGED slistVars
    /\ IF part = "list" THEN List!Next ELSE UNCHANGED listVars

MCSpec == MCInit /\ [][MCNext]_<<part, vars, loopVars, stailqVars, slistVars, listVars>>

Symmetry == Permutations(Elems) \cup Permutations(Heads)
-----------------------------------------------------------------------------
(* What the macros that read return is what the list holds: the loops visit    *)
(* every element although their bodies unlink, and the pointers to the last    *)
(* and the previous cell name it after every removal, move and swap.          *)
ReadsExact == VisitsAll /\ EndsExact /\ STailQ!LastExact /\ List!PrevExact

(* The pointers of each family stand for sequences, and every macro edits the  *)
(* sequences as its name says: TAILQ, STAILQ, SLIST and LIST.                  *)
FamiliesImplementLists ==
    ImplementsLists /\ STailQ!ImplementsLists /\ SList!ImplementsLists /\ List!ImplementsLists
=============================================================================
