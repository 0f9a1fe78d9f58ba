------------------------------- MODULE Getopt -------------------------------
(* getopt, getopt_long and getopt_long_only (src/getopt.c): the static state   *)
(* that survives from call to call, and the vector of arguments they permute.  *)
(* argv[1] is the first argument, as in C; an argument is a sequence of         *)
(* letters.  opterr and optopt, which only serve the messages, are left out.    *)
EXTENDS Integers, SequencesExt

CONSTANTS
    Short,          \* letter -> "none", "required", "optional", "long" (W;)
    Long,           \* sequence of [name, has_arg, flag, val], <<>> for getopt
    Vectors,        \* the argument vectors to parse
    Settings,       \* <<POSIXLY_CORRECT is set, first letter of options, FLAG_LONGONLY>>
    MaxResets,      \* bound: how often the program sets optind to 0
    NULL

VARIABLES argv, optind, place, nonopt_start, nonopt_end, setting, pc,
          given, results, resets

vars == <<argv, optind, place, nonopt_start, nonopt_end, setting, pc,
          given, results, resets>>
fixed == <<setting, resets, given>>

EMSG == <<>>

Init ==
    /\ argv \in Vectors /\ given = argv
    /\ setting \in Settings
    /\ optind = 1 /\ place = EMSG
    /\ nonopt_start = -1 /\ nonopt_end = -1
    /\ pc = "ready" /\ results = <<>> /\ resets = 0

nargc == Len(argv) + 1
Arg(i) == IF i < nargc THEN argv[i] ELSE NULL

\* The flags getopt_internal works with.
Permuting == setting[1] /\ setting[2] # "+"
AllArgs == Permuting /\ setting[2] = "-"
LongOnly == Long # <<>> /\ setting[3]
BADARG == IF setting[2] = ":" THEN ":" ELSE "?"
-----------------------------------------------------------------------------
(* The exchange of two adjacent blocks, in cycles.                           *)

RECURSIVE gcd(_, _)
gcd(a, b) == IF a % b = 0 THEN b ELSE gcd(b, a % b)

\* A bug the exchange might have: one cycle whatever the lengths.
PermuteOneCycle(s, e, o, a) ==
    LET cycle[j \in 0..o - s] ==
            IF j = 0 THEN [pos |-> e, a |-> a]
            ELSE LET p == cycle[j - 1]
                     pos == IF p.pos >= e THEN p.pos - (e - s) ELSE p.pos + (o - e)
                 IN [pos |-> pos, a |-> [p.a EXCEPT ![pos] = p.a[e], ![e] = p.a[pos]]]
    IN cycle[o - s].a

permute_args(s, e, o, a) ==
    LET ncycle == gcd(e - s, o - e)
        cyclelen == (o - s) \div ncycle
        Cycle(b, cstart) ==
            LET turn[j \in 0..cyclelen] ==
                IF j = 0 THEN [pos |-> cstart, a |-> b]
                ELSE LET p == turn[j - 1]
                         pos == IF p.pos >= e THEN p.pos - (e - s) ELSE p.pos + (o - e)
                     IN [pos |-> pos,
                         a |-> [p.a EXCEPT ![pos] = p.a[cstart], ![cstart] = p.a[pos]]]
            IN turn[cyclelen].a
        rounds[i \in 0..ncycle] == IF i = 0 THEN a ELSE Cycle(rounds[i - 1], e + i - 1)
    IN rounds[ncycle]
-----------------------------------------------------------------------------
(* Long options.                                                             *)

\* The loop over long_options: the index of the match, 0 for none, -1 for an
\* abbreviation that is ambiguous before the exact name is met.
Match(name, short_too) ==
    LET exact == SelectInSeq(Long, LAMBDA o : o.name = name)
        upto == IF exact = 0 THEN Len(Long) ELSE exact - 1
        partial == IF short_too /\ Len(name) = 1 THEN {}
                   ELSE {i \in 1..upto : IsPrefix(name, Long[i].name)}
    IN IF Cardinality(partial) > 1 THEN -1
       ELSE IF exact # 0 THEN exact
       ELSE IF partial # {} THEN CHOOSE i \in partial : TRUE
       ELSE 0

\* What parse_long_options makes of a match m, for an option text p with its "="
\* at eq: what it returns, the optarg, and how many arguments of argv it is past;
\* "none" when a short option may be meant.
LongResult(p, eq, m, next, short_too) ==
    LET o == Long[m]
        Result(r, a, n) == [opt |-> r, optarg |-> a, past |-> n]
        value == IF o.flag THEN "0" ELSE o.val
    IN IF m = 0 /\ short_too THEN Result("none", NULL, 0)
       ELSE IF m <= 0 THEN Result("?", NULL, 1)
       ELSE IF o.has_arg = "none" THEN Result(IF eq # 0 THEN BADARG ELSE value, NULL, 1)
       ELSE IF eq # 0 THEN Result(value, SubSeq(p, eq + 1, Len(p)), 1)
       ELSE IF o.has_arg = "optional" THEN Result(value, NULL, 1)
       ELSE IF next = NULL THEN Result(BADARG, NULL, 1)
       ELSE Result(value, next, 2)

\* parse_long_options for the option text p followed by the argument next.
parse_long_options(p, next, short_too) ==
    LET eq == SelectInSeq(p, LAMBDA l : l = "=") IN
    LongResult(p, eq, Match(IF eq = 0 THEN p ELSE SubSeq(p, 1, eq - 1), short_too), next, short_too)
-----------------------------------------------------------------------------
(* getopt_internal.                                                          *)

Return(opt, a) ==
    /\ results' = IF opt = "end" THEN results ELSE Append(results, <<opt, a>>)
    /\ pc' = IF opt = "end" THEN "done" ELSE "ready"

\* The call, with the reset a program asks for by setting optind to 0.
Call ==
    /\ pc = "ready"
    /\ optind' = IF optind = 0 THEN 1 ELSE optind
    /\ IF optind = 0
       THEN place' = EMSG /\ nonopt_start' = -1 /\ nonopt_end' = -1
       ELSE UNCHANGED <<place, nonopt_start, nonopt_end>>
    /\ pc' = IF place' = EMSG THEN "start" ELSE "option"
    /\ UNCHANGED <<argv, results, fixed>>

\* The program starts over, with the vector as the calls so far left it.
Reset ==
    /\ pc \in {"ready", "done"} /\ resets < MaxResets
    /\ optind' = 0 /\ resets' = resets + 1
    /\ pc' = "ready" /\ given' = argv /\ results' = <<>>
    /\ UNCHANGED <<argv, place, nonopt_start, nonopt_end, setting>>

\* Skipped arguments go behind the options up to o, if there are any.
Gather(o) ==
    IF nonopt_end # -1
    THEN /\ argv' = permute_args(nonopt_start, nonopt_end, o, argv)
         /\ optind' = o - (nonopt_end - nonopt_start)
    ELSE UNCHANGED argv /\ optind' = o

EndOfVector ==
    /\ pc = "start" /\ optind >= nargc
    /\ IF nonopt_end = -1 /\ nonopt_start # -1
       THEN optind' = nonopt_start /\ UNCHANGED argv
       ELSE Gather(optind)
    /\ place' = EMSG /\ nonopt_start' = -1 /\ nonopt_end' = -1
    /\ Return("end", NULL)
    /\ UNCHANGED fixed

IsNonOption(a) == a = EMSG \/ a[1] # "-" \/ (Len(a) = 1 /\ "-" \notin DOMAIN Short)

\* A non-option: given back as an argument, the end, or skipped for now.
NonOption ==
    /\ pc = "start" /\ optind < nargc /\ IsNonOption(argv[optind])
    /\ IF AllArgs
       THEN /\ optind' = optind + 1
            /\ Return("inorder", argv[optind])
            /\ UNCHANGED <<argv, nonopt_start, nonopt_end>>
       ELSE IF ~Permuting
       THEN Return("end", NULL) /\ UNCHANGED <<argv, optind, nonopt_start, nonopt_end>>
       ELSE /\ IF nonopt_start = -1
               THEN nonopt_start' = optind /\ UNCHANGED <<argv, nonopt_end>>
               ELSE IF nonopt_end # -1
               THEN /\ argv' = permute_args(nonopt_start, nonopt_end, optind, argv)
                    /\ nonopt_start' = optind - (nonopt_end - nonopt_start)
                    /\ nonopt_end' = -1
               ELSE UNCHANGED <<argv, nonopt_start, nonopt_end>>
            /\ optind' = optind + 1
            /\ UNCHANGED <<pc, results>>
    /\ place' = EMSG
    /\ UNCHANGED fixed

\* An option: the first non-options skipped end here.  "--" ends the options.
Option ==
    /\ pc = "start" /\ optind < nargc /\ ~IsNonOption(argv[optind])
    /\ LET end == IF nonopt_start # -1 /\ nonopt_end = -1 THEN optind ELSE nonopt_end IN
       IF argv[optind] = <<"-", "-">>
       THEN /\ IF end # -1
               THEN /\ argv' = permute_args(nonopt_start, end, optind + 1, argv)
                    /\ optind' = optind + 1 - (end - nonopt_start)
               ELSE UNCHANGED argv /\ optind' = optind + 1
            /\ place' = EMSG /\ nonopt_start' = -1 /\ nonopt_end' = -1
            /\ Return("end", NULL)
       ELSE /\ place' = IF Len(argv[optind]) = 1 THEN argv[optind] ELSE Tail(argv[optind])
            /\ nonopt_end' = end
            /\ pc' = "option"
            /\ UNCHANGED <<argv, optind, nonopt_start, results>>
    /\ UNCHANGED fixed

short_too == place[1] # "-" /\ place[1] \in DOMAIN Short
LongText == IF place[1] = "-" THEN Tail(place) ELSE place
AsLong == parse_long_options(LongText, Arg(optind + 1), short_too)
TriesLong == Long # <<>> /\ place # argv[optind] /\ (place[1] = "-" \/ LongOnly)

LongOption ==
    /\ pc = "option" /\ TriesLong /\ AsLong.opt # "none"
    /\ optind' = optind + AsLong.past
    /\ place' = EMSG
    /\ Return(AsLong.opt, AsLong.optarg)
    /\ UNCHANGED <<argv, nonopt_start, nonopt_end, fixed>>

\* Where optind goes when the letter at place is done with.
After == optind + (IF Len(place) = 1 THEN 1 ELSE 0)
IsShort == pc = "option" /\ (TriesLong => AsLong.opt = "none")
Known == place[1] \in DOMAIN Short /\ (place[1] = "-" => Len(place) = 1)

\* A lone "-" at the end of a cluster ends the options and is not stepped over.
UnknownLetter ==
    /\ IsShort /\ ~Known
    /\ place' = Tail(place)
    /\ IF place = <<"-">> THEN Return("end", NULL) /\ UNCHANGED optind
       ELSE Return("?", NULL) /\ optind' = After
    /\ UNCHANGED <<argv, nonopt_start, nonopt_end, fixed>>

\* "-W name": the text is always that of argv[optind].
LongLetter ==
    /\ IsShort /\ Known /\ Long # <<>> /\ Short[place[1]] = "long"
    /\ IF After >= nargc THEN Return(BADARG, NULL) /\ optind' = After
       ELSE LET l == parse_long_options(argv[After], Arg(After + 1), FALSE) IN
            Return(l.opt, l.optarg) /\ optind' = After + l.past
    /\ place' = EMSG
    /\ UNCHANGED <<argv, nonopt_start, nonopt_end, fixed>>

Letter ==
    /\ IsShort /\ Known /\ (Long # <<>> => Short[place[1]] # "long")
    /\ Short[place[1]] \notin {"required", "optional"}
    /\ optind' = After
    /\ place' = Tail(place)
    /\ Return(place[1], NULL)
    /\ UNCHANGED <<argv, nonopt_start, nonopt_end, fixed>>

LetterWithArgument ==
    /\ IsShort /\ Known /\ Short[place[1]] \in {"required", "optional"}
    /\ place' = EMSG
    /\ IF Len(place) > 1 THEN Return(place[1], Tail(place)) /\ optind' = optind + 1
       ELSE IF Short[place[1]] = "optional" THEN Return(place[1], NULL) /\ optind' = optind + 1
       ELSE IF optind + 1 >= nargc THEN Return(BADARG, NULL) /\ optind' = optind + 1
       ELSE Return(place[1], argv[optind + 1]) /\ optind' = optind + 2
    /\ UNCHANGED <<argv, nonopt_start, nonopt_end, fixed>>

Next ==
    \/ Call \/ Reset \/ EndOfVector \/ NonOption \/ Option
    \/ LongOption \/ UnknownLetter \/ LongLetter \/ Letter \/ LetterWithArgument

Spec == Init /\ [][Next]_vars
-----------------------------------------------------------------------------
(* What a vector means, read from left to right with nothing moved: the       *)
(* options with their arguments, and the operands.  Clusters hold no "-".     *)

From(s, n) == SubSeq(s, n, Len(s))
First(s) == IF s = <<>> THEN NULL ELSE Head(s)

\* One step of the reading: what it found, and the letters and arguments left.
Took(opt, optarg, letters, args) ==
    [results |-> <<<<opt, optarg>>>>, operands |-> <<>>, letters |-> letters, args |-> args]
TookLong(long, args) == Took(long.opt, long.optarg, <<>>, From(args, long.past))
Operand(operands, args) ==
    [results |-> <<>>, operands |-> operands, letters |-> <<>>, args |-> args]

\* The next letter of a cluster, the arguments args after it.
OfCluster(letters, args) ==
    LET l == Head(letters)
        more == Tail(letters)
        kind == IF l \in DOMAIN Short THEN Short[l] ELSE "unknown"
        long == parse_long_options(letters, First(args), kind # "unknown")
        texts == IF more = <<>> THEN args ELSE <<more>> \o args
    IN IF LongOnly /\ long.opt # "none" THEN TookLong(long, args)
       ELSE
       CASE kind = "unknown" -> Took("?", NULL, more, args)
         [] kind = "none" -> Took(l, NULL, more, args)
         [] kind = "long" /\ texts # <<>> ->
                TookLong(parse_long_options(texts[1], First(Tail(texts)), FALSE), Tail(texts))
         [] kind = "optional" -> Took(l, IF more = <<>> THEN NULL ELSE more, <<>>, args)
         [] kind = "required" /\ texts # <<>> -> Took(l, texts[1], <<>>, Tail(texts))
         [] OTHER -> Took(BADARG, NULL, <<>>, args)

\* The next argument, and the arguments rest after it.
OfArgument(a, rest, permute) ==
    CASE IsNonOption(a) /\ AllArgs -> Took("inorder", a, <<>>, rest)
      [] IsNonOption(a) /\ ~AllArgs /\ permute -> Operand(<<a>>, rest)
      [] IsNonOption(a) /\ ~AllArgs /\ ~permute -> Operand(<<a>> \o rest, <<>>)
      [] a = <<"-", "-">> -> Operand(rest, <<>>)
      [] Len(a) > 2 /\ a[2] = "-" /\ Long # <<>> ->
            TookLong(parse_long_options(From(a, 3), First(rest), FALSE), rest)
      [] OTHER -> [Operand(<<>>, rest) EXCEPT !.letters = Tail(a)]

Joined(step, later) ==
    [results |-> step.results \o later.results, operands |-> step.operands \o later.operands]

RECURSIVE Parse(_, _, _)
Parse(letters, args, permute) ==
    IF letters = <<>> /\ args = <<>> THEN [results |-> <<>>, operands |-> <<>>]
    ELSE LET Follow(step) == Joined(step, Parse(step.letters, step.args, permute)) IN
         Follow(IF letters # <<>> THEN OfCluster(letters, args)
                ELSE OfArgument(Head(args), Tail(args), permute))

Meaning(permute) == Parse(<<>>, given, permute)
Operands == SubSeq(argv, optind, Len(argv))
-----------------------------------------------------------------------------
(* When the options end the program has seen the options, in order, that a    *)
(* reading of the vector from left to right gives, each with its argument, and *)
(* argv from optind on holds the operands in their order, however often blocks *)
(* were exchanged and the parse started over.                                 *)
ParsesAsRead ==
    pc = "done" =>
        [results |-> results, operands |-> Operands] = Meaning(Permuting)

(* The blocks to exchange are adjacent and not empty: permute_args divides by *)
(* the number of cycles, and gcd by the length of the block of options.       *)
BlocksOrdered ==
    /\ nonopt_end # -1 => 1 <= nonopt_start /\ nonopt_start < nonopt_end
    /\ pc = "start" /\ nonopt_end # -1 => nonopt_end < optind

(* Every call consumes a letter or an argument, so a program that calls until *)
(* the end comes to it.                                                       *)
Consumes == Len(results) <= FoldSeq(LAMBDA a, n : n + Len(a), Len(given), given)
=============================================================================
