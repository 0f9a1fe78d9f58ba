----------------------------- MODULE MCLibrary -----------------------------
(* Parts of the library that share no state, for TLC.  A behaviour is one of   *)
(* the part named by the variable part; the others stay as they are.          *)
EXTENDS Mapping, Sequences, FiniteSets, SequencesExt, TLC

CONSTANTS
    t1, t2,                 \* threads
    d1, d2, d3,             \* directory streams
    c1, c2, c3, x1, x2, x3, \* callers of mkstemp and letters of its names
    reader, writer,         \* the reader and the writer of a pipe
    r1, r2, r3,             \* requests of asynchronous I/O
    u1, u2,                 \* uuid_t variables
    NULL, None, none, garbage

MCOffsets == {0, 3, 5}
MCLengths == {1, 4}
MCPlaces == {4, 8, 12, 16}

VARIABLE part
-----------------------------------------------------------------------------
VARIABLES dir, handles, fds, finds, seen, ended
varsDir == <<dir, handles, fds, finds, seen, ended>>
Dir == INSTANCE Directory WITH Streams <- {d1, d2, d3}, Entries <- <<"dot", "dotdot", "file">>

VARIABLES exists, held, tpc, tpath, i, deleted
varsTemp == <<exists, held, tpc, tpath, i, deleted>>
Temp == INSTANCE TempFile WITH
    Callers <- {c1, c2, c3}, Letters <- {x1, x2, x3}, Attempts <- 3, MaxDeletes <- 1,
    pc <- tpc, path <- tpath
ASSUME Temp!TempFileAssumption

VARIABLES pipe, iov, upc, seg, nbytes, done
varsVector == <<pipe, iov, upc, seg, nbytes, done>>
Vector == INSTANCE Uio WITH
    Readers <- {reader}, Writers <- {writer}, Lengths <- {0, 1, 2, 4}, IOV_MAX <- 2, UINT_MAX <- 2,
    SSIZE_MAX <- 3, MaxPipe <- 4, MaxCount <- 3, pc <- upc

VARIABLES uu, text
MCCreated ==
    {[Data1 |-> x, Data2 |-> 17, Data3 |-> 8, Data4 |-> <<v, 0, 0, 0, 0, 0, 0, z>>] :
        x \in {1, 6 * 8^3}, v \in {4, 6}, z \in {0, 1}}
varsId == <<uu, text>>
Id == INSTANCE Uuid WITH Base <- 8, Created <- MCCreated, Slots <- {u1, u2}

\* Every request a five-bit off_t can express.
VARIABLES posn, offset, size
Width == INSTANCE LockRange WITH INT64_MAX <- 15
range == <<posn, offset, size>>

\* Handles that may do I/O asynchronously, calls made one after the other.
VARIABLES context, iocount, head, tail, events, task, apc, loc, agiven, moved, pending
varsAio == <<context, iocount, head, tail, events, task, apc, loc, agiven, moved, pending>>
Aio == INSTANCE AioContext WITH
    Threads <- {t1}, Requests <- {r1, r2, r3},
    Segments <- r1 :> <<0>> @@ r2 :> <<1, 1>> @@ r3 :> <<>>, Rejected <- {},
    Size <- 3, MaxSubmit <- 2, Serial <- TRUE, Quota <- TRUE, Overlapped <- TRUE,
    pc <- apc, given <- agiven
ASSUME Aio!SizeAssumption /\ Aio!SegmentsAssumption /\ Aio!ClientAssumption
-----------------------------------------------------------------------------
\* Two threads in 30 environments: mappings that overlap, are repeated and have no target.
VARIABLES env, map, map_init, map_lock, adding, ppc, ppath, presult
Ask(from, to) == [dir |-> from, dest |-> <<to>>]
T == <<"tmp">>
TX == <<"tmp", "x">>
Environments ==
    {[pathmap |-> pm, wsl |-> sys[1], msystem |-> sys[2], msystmp |-> sys[2], drive |-> disk[1],
      tmp |-> <<"W">>, missing |-> disk[2]] :
        pm \in {<<>>, <<Ask(T, "A")>>, <<Ask(T, "A"), Ask(TX, "B")>>,
                <<Ask(TX, "B"), Ask(T, "A"), Ask(T, "B")>>,
                <<Ask(<<"y">>, "B"), Ask(TX, "A"), Ask(T, "B")>>},
        sys \in {<<NULL, NULL>>, <<<<"L">>, NULL>>, <<NULL, <<"M">>>>},
        disk \in {<<NULL, {}>>, <<<<"C">>, {<<"A">>, <<"M", "tmp">>}>>}}
LookedUp == {<<"f">>, <<"">>, <<"tmp", "f">>, <<"tmp", "x", "f">>, TX,
             <<"home", "u">>, <<"c", "d">>, <<"mnt", "c", "d">>, <<"var", "tmp", "f">>,
             <<"x", "y", "z">>, <<"x", "y">>, <<"a", "b", "c", "d", "e">>}
varsPath == <<env, map, map_init, map_lock, adding, ppc, ppath, presult>>
Path == INSTANCE PathMap WITH
    Threads <- {t1, t2}, Environments <- Environments, Paths <- LookedUp, Longest <- 4, MapSize <- 5,
    pc <- ppc, path <- ppath, result <- presult
ASSUME Path!PathMapAssumption
-----------------------------------------------------------------------------
\* Short options a, b (with an argument), c (with an optional one) and W; long
\* options whose names are prefixes of one another.
VARIABLES argv, optind, place, nonopt_start, nonopt_end, setting, opc, given, results, resets
MCShort == [l \in {"a", "b", "c", "W"} |->
    CASE l = "a" -> "none" [] l = "b" -> "required" [] l = "c" -> "optional" [] OTHER -> "long"]
MCLong == <<[name |-> <<"f", "o">>, has_arg |-> "none", flag |-> TRUE, val |-> "F"],
            [name |-> <<"g", "o">>, has_arg |-> "required", flag |-> FALSE, val |-> "G"],
            [name |-> <<"g", "o", "o">>, has_arg |-> "optional", flag |-> FALSE, val |-> "O"]>>
MCSettings == {<<p, f, FALSE>> : p \in BOOLEAN, f \in {"", "+", "-", ":"}} \cup {<<TRUE, "", TRUE>>}
Arguments == {<<"x">>, <<"-", "a">>, <<"-", "a", "b">>,
              <<"-", "-">>, <<"-", "W">>, <<"-", "-", "g", "o">>}
Rare == {<<"-">>, <<"y">>, <<"-", "c", "x">>, <<"-", "q", "a">>, <<"-", "-", "f">>, <<"-", "-", "g">>,
         <<"-", "-", "f", "=", "x">>, <<"-", "-", "g", "o", "o", "=", "x">>, <<"g", "o">>,
         <<"-", "f", "o">>, <<"-", "a", "g", "o">>}
MCVectors == TupleOf(Arguments, 4) \cup {<<x>> \o t : x \in Rare, t \in TupleOf(Arguments, 2)}
                \cup {t \o <<x>> : x \in Rare, t \in TupleOf(Arguments, 2)}
varsOpt == <<argv, optind, place, nonopt_start, nonopt_end, setting, opc, given, results, resets>>
Opt == INSTANCE Getopt WITH
    Short <- MCShort, Long <- MCLong, Vectors <- MCVectors, Settings <- MCSettings,
    MaxResets <- 1, pc <- opc

\* Every pattern of three letters, patterns with bracket expressions and with
\* two stars, against every string of three letters.
VARIABLES case, matched
Letters == {"a", ".", "/", "*", "?", "\\", "["}
Strings == UNION {TupleOf({"a", ".", "/"}, n) : n \in 1..3} \cup TupleOf({"a", "b", "\\"}, 2)
Patterns == UNION {TupleOf(Letters, n) : n \in 0..3} \cup TupleOf({"A", "a", "*"}, 3)
Stars == {<<"*", x, y, "*">> : x, y \in {"a", "/", "?", "."}}
Brackets == {<<"[">> \o x \o <<"]">> \o y : x \in {<<"a">>, <<"!", "a">>, <<"a", "-", "b">>,
                <<"A", "-">>, <<"\\", "]", "a">>, <<".", "-", "/">>, <<"a", "-", "\\", "b">>},
                y \in {<<>>, <<"*">>, <<"/">>}}
Flags == {{}, {"PATHNAME"}, {"NOESCAPE"}, {"LEADING_DIR"}, {"PATHNAME", "LEADING_DIR"}, {"CASEFOLD"}}
HasNone(p, cs) == \A k \in DOMAIN p : p[k] \notin cs
MCCases ==
    ((Patterns \cup Stars \cup Brackets) \X Strings \X Flags)
    \cup ({p \in Patterns \cup Stars : HasNone(p, {"["})} \X Strings \X {{"PERIOD"}})
    \cup ({p \in Patterns : HasNone(p, {"*", "["})} \X Strings \X {{"PREFIX_DIRS"}, {"PERIOD", "PATHNAME"}})
varsMatch == <<case, matched>>
Match == INSTANCE Fnmatch WITH
    Cases <- MCCases, Order <- <<"!", "-", ".", "/", "A", "[", "\\", "]", "a", "b">>,
    Lower <- [x \in {"A"} |-> "a"], result <- matched
-----------------------------------------------------------------------------
\* A part that does not move starts in one of its initial states.
MCInit ==
    /\ part \in {"mmap", "dirent", "mkstemp", "uio", "uuid", "range", "aio", "path", "getopt", "fnmatch"}
    /\ MapInit /\ Dir!Init /\ Temp!Init /\ Vector!Init /\ Id!Init /\ Aio!Init
    /\ \/ part = "range" /\ posn \in 0..15 /\ offset \in Width!off_t /\ size \in Width!off_t
       \/ part # "range" /\ posn = 0 /\ offset = 0 /\ size = 0
    /\ part = "path" \/ env = (CHOOSE e \in Environments : e.pathmap = <<>>)
    /\ Path!Init
    /\ part = "getopt" \/ (argv = <<<<"-">>, <<"x">>, <<"x">>>> /\ setting = <<TRUE, "", FALSE>>)
    /\ Opt!Init
    /\ part = "fnmatch" \/ case = <<<<>>, <<"a">>, {}>>
    /\ Match!Init

MCNext ==
    /\ UNCHANGED <<part, range>>
    /\ IF part = "mmap" THEN MapNext ELSE UNCHANGED mapVars
    /\ IF part = "dirent" THEN Dir!Next ELSE UNCHANGED varsDir
    /\ IF part = "mkstemp" THEN Temp!Next ELSE UNCHANGED varsTemp
    /\ IF part = "uio" THEN Vector!Next ELSE UNCHANGED varsVector
    /\ IF part = "uuid" THEN Id!Next ELSE UNCHANGED varsId
    /\ IF part = "aio" THEN Aio!Next ELSE UNCHANGED varsAio
    /\ IF part = "path" THEN Path!Next ELSE UNCHANGED varsPath
    /\ IF part = "getopt" THEN Opt!Next \/ (opc = "done" /\ UNCHANGED varsOpt) ELSE UNCHANGED varsOpt
    /\ IF part = "fnmatch" /\ matched = NULL THEN Match!Next ELSE UNCHANGED varsMatch

MCSpec == MCInit /\ [][MCNext]_<<part, range, mapVars, varsDir, varsTemp, varsVector, varsId,
                                 varsAio, varsPath, varsOpt, varsMatch>>
-----------------------------------------------------------------------------
(* The properties of the parts, as their modules state and explain them.       *)

\* Directory streams own exactly what is open, whatever failed, and return every
\* entry once and in order (dirent.c).
StreamsExact == part = "dirent" => Dir!OwnedExactly /\ Dir!EntriesInOrder

\* mkstemp gives no file to two callers and leaves none behind, and gives up only
\* when others made as many files as there are names (stdlib.c).
FilesExact == part = "mkstemp" => Temp!GivenOnce /\ Temp!GivesUpFull

\* readv and writev move the first nbytes of their buffers, and nbytes stays an
\* ssize_t (uio.c).
VectorsExact == part = "uio" => Vector!MovesPrefix /\ Vector!CountFits

\* A UUID survives its text and the fields of Windows, and UUIDs compare as their
\* texts do (uuid.c).
UuidsExact == part = "uuid" => Id!TextRestores /\ Id!ComparesAsText

\* Every lock request that fits off_t is converted exactly, every other one is
\* refused (fcntl.c).
RangeExact == part = "range" => Width!RangeExact(posn, offset, size)

\* An event reports the bytes its request moved, and no task is freed while the
\* system still uses its OVERLAPPED (aio.c).
TasksExact == part = "aio" => Aio!TypeOK /\ Aio!ResultExact /\ Aio!PendingKept

\* Every step of the context of asynchronous I/O is a step of a queue of
\* completions or leaves it alone, and io_submit returns how many requests it
\* started (aio.c): Aio!ImplementsQueue and Aio!SubmitReports.
ImplementsQueue ==
    /\ Aio!Queue!Init /\ [][part = "aio" => [Aio!Queue!Next]_(Aio!Queue!vars)]_varsAio
    /\ Aio!SubmitReports

\* A path is translated by the longest directory that holds it (fcntl.c).
LookupExact == part = "path" => Path!TypeOK /\ Path!LookupExact

\* getopt_long returns what a reading from left to right gives, every call
\* consumes a letter or an argument, and the blocks it exchanges are adjacent and
\* not empty (getopt.c).
ParsesExactly == part = "getopt" => Opt!ParsesAsRead /\ Opt!BlocksOrdered /\ Opt!Consumes

\* fnmatch answers as if the pattern were matched in all ways at once (fnmatch.c).
MatchesAllWays == part = "fnmatch" => Match!MatchesAllWays
=============================================================================
