------------------------------ MODULE Fnmatch ------------------------------
(* fnmatch (src/fnmatch.c): a pattern against a string, both sequences of      *)
(* letters, and the set of positions that POSIX gives a pattern's parts to      *)
(* compare it with.                                                           *)
EXTENDS Naturals, SequencesExt

CONSTANTS
    Cases,          \* <<pattern, string, flags>> to match
    Order,          \* the letters in the order of their codes
    Lower,          \* letter -> lower-case letter
    NULL

VARIABLES case, result

EOS == "EOS"
At(s, i) == IF i \in DOMAIN s THEN s[i] ELSE EOS
From(s, i) == SubSeq(s, i, Len(s))
Code(c) == SelectInSeq(Order, LAMBDA d : d = c)
tolower(c) == IF c \in DOMAIN Lower THEN Lower[c] ELSE c
Fold(c, flags) == IF "CASEFOLD" \in flags THEN tolower(c) ELSE c
-----------------------------------------------------------------------------
(* The code.                                                                 *)

\* A letter of a bracket expression, escaped or not, and what follows it.
Element(p, flags) ==
    LET escaped == At(p, 1) = "\\" /\ "NOESCAPE" \notin flags
    IN [c |-> At(p, IF escaped THEN 2 ELSE 1), rest |-> From(p, IF escaped THEN 3 ELSE 2)]

RECURSIVE Bracket(_, _, _, _)
Bracket(p, test, flags, ok) ==
    IF At(p, 1) = "]" THEN [ok |-> ok, rest |-> Tail(p)]
    ELSE LET e == Element(p, flags)
             range == At(e.rest, 1) = "-" /\ At(e.rest, 2) \notin {EOS, "]"}
             f == Element(Tail(e.rest), flags)
             low == Fold(e.c, flags)
             high == Fold(f.c, flags)
         IN IF e.c = EOS \/ (range /\ f.c = EOS) THEN NULL
            ELSE IF range
            THEN Bracket(f.rest, test, flags,
                         ok \/ (Code(low) <= Code(test) /\ Code(test) <= Code(high)))
            ELSE Bracket(e.rest, test, flags, ok \/ low = test)

\* The pattern behind the bracket expression if it has the letter, else NULL.
rangematch(p, test, flags) ==
    LET negate == At(p, 1) \in {"!", "^"}
        b == Bracket(IF negate THEN Tail(p) ELSE p, Fold(test, flags), flags, FALSE)
    IN IF b = NULL \/ b.ok = negate THEN NULL ELSE b.rest

RECURSIVE Match(_, _, _, _, _)

\* A bug the loop over a "*" might have: a slash does not end it.
StarPastSlash(q, str, i, flags) == \E k \in i..Len(str) : Match(q, str, k, k, flags \ {"PERIOD"})

\* The general case: the rest of the pattern q is tried from each position, up
\* to a slash.
Star(q, str, i, flags) ==
    \E k \in i..Len(str) :
        /\ "PATHNAME" \in flags => \A j \in i..k - 1 : str[j] # "/"
        /\ Match(q, str, k, k, flags \ {"PERIOD"})

\* Whether p matches str from i on; start is where this call of fnmatch began.
Match(p, str, i, start, flags) ==
    LET c == At(p, 1)
        s == At(str, i)
        path == "PATHNAME" \in flags
        hidden == s = "." /\ "PERIOD" \in flags /\ (i = start \/ (path /\ str[i - 1] = "/"))
        one == s # EOS /\ ~(s = "/" /\ path)
        e == Element(p, flags)
        lit == IF e.c = EOS THEN "\\" ELSE e.c
        q == From(p, SelectInSeq(p \o <<EOS>>, LAMBDA d : d # "*"))
        slash == SelectInSeq(From(str, i), LAMBDA d : d = "/")
        r == rangematch(Tail(p), s, flags)
    IN CASE c = EOS -> s = EOS \/ ("LEADING_DIR" \in flags /\ s = "/")
         [] c = "?" -> one /\ ~hidden /\ Match(Tail(p), str, i + 1, start, flags)
         [] c = "*" ->
              /\ ~hidden
              /\ IF q = <<>> THEN path => "LEADING_DIR" \in flags \/ slash = 0
                 ELSE IF q[1] = "/" /\ path
                 THEN slash # 0 /\ Match(q, str, i + slash - 1, start, flags)
                 ELSE Star(q, str, i, flags)
         [] c = "[" -> one /\ r # NULL /\ Match(r, str, i + 1, start, flags)
         [] OTHER ->
              IF s # EOS /\ Fold(lit, flags) = Fold(s, flags)
              THEN Match(e.rest, str, i + 1, start, flags)
              ELSE /\ "PREFIX_DIRS" \in flags /\ s = EOS
                   /\ (lit = "/" /\ i # start) \/ (i = start + 1 /\ str[start] = "/")

fnmatch(pattern, string, flags) == Match(pattern, string, 1, 1, flags)

Init == case \in Cases /\ result = NULL

Next == result = NULL /\ result' = fnmatch(case[1], case[2], case[3]) /\ UNCHANGED case

Spec == Init /\ [][Next]_<<case, result>>
-----------------------------------------------------------------------------
(* The positions of the string that each part of the pattern can lead to.     *)

RECURSIVE Reached(_, _, _, _)
Reached(p, str, flags, at) ==
    LET path == "PATHNAME" \in flags
        Hidden(i) == str[i] = "." /\ "PERIOD" \in flags
                        /\ (i = 1 \/ (path /\ str[i - 1] = "/"))
        May(i) == i <= Len(str) /\ ~(str[i] = "/" /\ path) /\ ~Hidden(i)
        e == Element(p, flags)
        lit == IF e.c = EOS THEN "\\" ELSE e.c
    IN IF at = {} THEN FALSE
       ELSE CASE p = <<>> ->
                \/ Len(str) + 1 \in at
                \/ "LEADING_DIR" \in flags /\ \E i \in at : At(str, i) = "/"
         [] At(p, 1) = "?" -> Reached(Tail(p), str, flags, {i + 1 : i \in {i \in at : May(i)}})
         [] At(p, 1) = "*" ->
                Reached(Tail(p), str, flags,
                    {k \in 1..Len(str) + 1 : \E i \in at :
                        /\ i <= k /\ (i <= Len(str) => ~Hidden(i))
                        /\ \A j \in i..k - 1 : May(j) \/ (Hidden(j) /\ j > i)})
         [] At(p, 1) = "[" ->
                \E i \in at : May(i) /\ LET r == rangematch(Tail(p), str[i], flags) IN
                    r # NULL /\ Reached(r, str, flags, {i + 1})
         [] OTHER ->
                \/ Reached(e.rest, str, flags,
                        {i + 1 : i \in {i \in at : i <= Len(str) /\ Fold(str[i], flags) = Fold(lit, flags)}})
                \/ /\ "PREFIX_DIRS" \in flags /\ Len(str) + 1 \in at
                   /\ (lit = "/" /\ str # <<>>) \/ str = <<"/">>
-----------------------------------------------------------------------------
(* fnmatch answers as if the parts of the pattern were matched in all ways at *)
(* once: cutting a "*" short at a slash, at the end of the pattern or before a *)
(* slash loses no match, and the letters of a path are not matched across one. *)
MatchesAllWays == result # NULL => result = Reached(case[1], case[2], case[3], {1})
=============================================================================
