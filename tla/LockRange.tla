------------------------------ MODULE LockRange ------------------------------
(***************************************************************************)
(* The byte ranges of file locks: wpdk_lockfile_get_range in src/fcntl.c.  *)
(* An off_t is a signed integer that wraps; INT64_MAX is a parameter, so   *)
(* that small widths can be explored exhaustively.                         *)
(***************************************************************************)
EXTENDS Integers

CONSTANT INT64_MAX

ASSUME WidthAssumption == INT64_MAX \in Nat /\ INT64_MAX > 2 /\ INT64_MAX % 2 = 1

INT64_MIN == -INT64_MAX - 1
off_t == INT64_MIN .. INT64_MAX

LOCKFILE_MAX == (INT64_MAX - 1) \div 2
LOCKFILE_GUARD == INT64_MAX - LOCKFILE_MAX

\* The value a sum or a negation of two off_t has in the build.
Wrap(x) ==
    IF x > INT64_MAX THEN x + 2 * INT64_MIN
    ELSE IF x < INT64_MIN THEN x - 2 * INT64_MIN
    ELSE x

EINVAL == [ok |-> FALSE, start |-> 0, bytes |-> 0]
Span(start, bytes) == [ok |-> TRUE, start |-> start, bytes |-> bytes]

\* Mutant: a length that reaches past the end is not rejected.
ForwardFar(from, size) == Span(from, IF size = 0 THEN LOCKFILE_MAX - from ELSE size)

\* The range from a position forward.
Forward(from, size) ==
    IF size > LOCKFILE_MAX \/ Wrap(from + size) > LOCKFILE_MAX THEN EINVAL
    ELSE Span(from, IF size = 0 THEN LOCKFILE_MAX - from ELSE size)

\* The range behind a position, for a negative size.
Backward(from, size) ==
    IF from < Wrap(-size) \/ Wrap(-size) > LOCKFILE_MAX THEN EINVAL
    ELSE Span(Wrap(from + size), Wrap(-size))

\* posn is what the whence of the request stands for: 0, the file position or
\* the size of the file.
GetRange(posn, offset, size) ==
    IF \/ posn >= LOCKFILE_MAX
       \/ offset < 0 /\ posn < Wrap(-offset)
       \/ offset >= LOCKFILE_MAX
    THEN EINVAL
    ELSE LET from == Wrap(posn + offset) IN
         IF size < 0 THEN Backward(from, size) ELSE Forward(from, size)

-----------------------------------------------------------------------------
(***************************************************************************)
(* What a request means, in unbounded arithmetic: the bytes from Low up to *)
(* but excluding High, where a zero size reaches to the end of the space   *)
(* locks may cover.                                                        *)
(***************************************************************************)
Low(posn, offset, size) == posn + offset + (IF size < 0 THEN size ELSE 0)
High(posn, offset, size) ==
    IF size = 0 THEN LOCKFILE_MAX ELSE posn + offset + (IF size < 0 THEN 0 ELSE size)

\* Requests at a position locks may cover, without the one value of off_t that
\* has no negation.  The code itself bounds position plus offset only when the
\* size is not negative: with posn = LOCKFILE_MAX - 1, offset = 3 and size = -1
\* it accepts a range that is the guard byte.
Ordinary(posn, offset, size) ==
    /\ posn >= 0 /\ offset > INT64_MIN /\ size > INT64_MIN
    /\ posn + offset <= LOCKFILE_MAX

\* For a request at a position locks may cover, an accepted range is the one
\* asked for and lies where locks may be, clear of the guard byte; and such a
\* range is accepted when position and offset are each below the limit.  No
\* sum on the way to it wraps.
RangeExact(posn, offset, size) ==
    Ordinary(posn, offset, size) =>
        LET range == GetRange(posn, offset, size)
            lo == Low(posn, offset, size)
            hi == High(posn, offset, size) IN
        /\ range.ok => /\ range.start = lo /\ range.start + range.bytes = hi
                       /\ 0 <= lo /\ lo <= hi /\ hi <= LOCKFILE_MAX
        /\ /\ 0 <= lo /\ hi <= LOCKFILE_MAX
           /\ posn < LOCKFILE_MAX /\ offset < LOCKFILE_MAX
           => range.ok
=============================================================================
