-------------------------------- MODULE Uio --------------------------------
(* wpdk_readv and wpdk_writev on a pipe (src/uio.c): the buffers are          *)
(* transferred one by one, any transfer may be short or fail, and the calls of *)
(* others come between.  _read and _write, each atomic, are external.         *)
EXTENDS Integers, Sequences, SequencesExt, FiniteSetsExt

CONSTANTS
    Readers, Writers,
    Lengths,        \* buffer lengths a client may ask for
    IOV_MAX, UINT_MAX, SSIZE_MAX,
    MaxPipe,        \* bytes the pipe holds
    MaxCount        \* bound on the vector's count: IOV_MAX and more

VARIABLES
    pipe,           \* number of bytes in it
    iov,            \* each caller's vector of lengths, <<>> outside a call
    pc, seg, nbytes,
    done            \* where in its buffers the bytes lie that each call moved, in order

vars == <<pipe, iov, pc, seg, nbytes, done>>

Callers == Readers \cup Writers

Init ==
    /\ pipe = 0
    /\ iov = [c \in Callers |-> <<>>]
    /\ pc = [c \in Callers |-> "idle"]
    /\ seg = [c \in Callers |-> 1]
    /\ nbytes = [c \in Callers |-> 0]
    /\ done = [c \in Callers |-> <<>>]

Total(v) == FoldSeq(LAMBDA x, y : x + y, 0, v)

\* Each length is compared with what the ones before it leave of SSIZE_MAX.
wpdk_uio_check_iovec(v) ==
    /\ Len(v) <= IOV_MAX
    /\ \A k \in DOMAIN v :
        /\ v[k] <= UINT_MAX
        /\ v[k] <= SSIZE_MAX - Total(SubSeq(v, 1, k - 1))

\* The vector is checked; one refused is answered with EINVAL.
Start(c, v) ==
    /\ pc[c] = "idle"
    /\ pc' = [pc EXCEPT ![c] = IF wpdk_uio_check_iovec(v) THEN "loop" ELSE "EINVAL"]
    /\ iov' = [iov EXCEPT ![c] = v]
    /\ UNCHANGED <<pipe, seg, nbytes, done>>

\* Where buffer k of the vector begins, and the n positions from there.
Begin(c, k) == Total(SubSeq(iov[c], 1, k - 1))
Span(c, n) == [j \in 1..n |-> Begin(c, seg[c]) + j]

\* A bug the loop might have: a short transfer goes on with the next buffer.
AdvanceAlways(c, n) ==
    /\ nbytes' = [nbytes EXCEPT ![c] = @ + n]
    /\ seg' = [seg EXCEPT ![c] = @ + 1]
    /\ UNCHANGED pc

\* The end of a turn: the bytes are counted and a short transfer ends the loop.
Advance(c, n) ==
    /\ nbytes' = [nbytes EXCEPT ![c] = @ + n]
    /\ IF n # iov[c][seg[c]]
       THEN pc' = [pc EXCEPT ![c] = "return"] /\ UNCHANGED seg
       ELSE seg' = [seg EXCEPT ![c] = @ + 1] /\ UNCHANGED pc

\* _write puts as much of the buffer into the pipe as there is room.
WriteSegment(c) ==
    /\ pc[c] = "loop" /\ seg[c] <= Len(iov[c])
    /\ LET n == Min({iov[c][seg[c]], MaxPipe - pipe})
       IN pipe' = pipe + n /\ done' = [done EXCEPT ![c] = @ \o Span(c, n)] /\ Advance(c, n)
    /\ UNCHANGED iov

\* _read takes what there is, up to the length of the buffer.
ReadSegment(c) ==
    /\ pc[c] = "loop" /\ seg[c] <= Len(iov[c])
    /\ LET n == Min({iov[c][seg[c]], pipe})
       IN pipe' = pipe - n /\ done' = [done EXCEPT ![c] = @ \o Span(c, n)] /\ Advance(c, n)
    /\ UNCHANGED iov

LoopEnds(c) ==
    /\ pc[c] = "loop" /\ seg[c] > Len(iov[c])
    /\ pc' = [pc EXCEPT ![c] = "return"]
    /\ UNCHANGED <<pipe, iov, seg, nbytes, done>>

\* The call returns: its count, or -1 at a turn that failed.
Finish(c) ==
    /\ \/ pc[c] \in {"return", "EINVAL"}
       \/ pc[c] = "loop" /\ seg[c] <= Len(iov[c])
    /\ pc' = [pc EXCEPT ![c] = "idle"]
    /\ iov' = [iov EXCEPT ![c] = <<>>]
    /\ seg' = [seg EXCEPT ![c] = 1]
    /\ nbytes' = [nbytes EXCEPT ![c] = 0]
    /\ done' = [done EXCEPT ![c] = <<>>]
    /\ UNCHANGED pipe

Next ==
    \/ \E c \in Callers :
        \/ \E v \in BoundedSeq(Lengths, MaxCount) : Start(c, v)
        \/ LoopEnds(c) \/ Finish(c)
    \/ \E c \in Writers : WriteSegment(c)
    \/ \E c \in Readers : ReadSegment(c)

Spec == Init /\ [][Next]_vars
-----------------------------------------------------------------------------
(* What a call returns says which bytes moved: the first nbytes of its buffers, *)
(* in order and without a gap, although transfers were short and other calls   *)
(* came between.                                                              *)
MovesPrefix ==
    \A c \in Callers : done[c] = [j \in 1..nbytes[c] |-> j]

(* The count never overflows ssize_t, and a vector is refused only if its total *)
(* would or a limit is passed.                                                *)
CountFits ==
    \A c \in Callers :
        /\ nbytes[c] <= SSIZE_MAX
        /\ pc[c] # "idle" =>
            (pc[c] # "EINVAL" <=>
                /\ Len(iov[c]) <= IOV_MAX /\ Total(iov[c]) <= SSIZE_MAX
                /\ \A k \in DOMAIN iov[c] : iov[c][k] <= UINT_MAX)
=========================================================================
