-------------------------------- MODULE Uuid --------------------------------
(* UUIDs (src/uuid.c): sixteen bytes whose order depends on the variant they   *)
(* encode, the fields Windows has for them, their text and their comparison.   *)
(* UuidCreate and UuidFromString are external.                                *)
EXTENDS Integers, SequencesExt

CONSTANTS
    Base,           \* values of a byte, 256: a multiple of 8
    Created,        \* the UUIDs UuidCreate and UuidFromString return
    Slots           \* the client's uuid_t variables

VARIABLES
    uu,             \* the bytes in each slot
    text            \* the last text unparsed

vars == <<uu, text>>

is_little_endian(v) == v \div (Base \div 8) = 6

\* put_uint32 for n = 4 and put_uint16 for n = 2: byte i of v, and back.
Big(v, n) == [i \in 1..n |-> (v \div Base^(n - i)) % Base]
Put(v, n, little_endian) == IF little_endian THEN Reverse(Big(v, n)) ELSE Big(v, n)
Get(cp, little_endian) ==
    FoldSeq(LAMBDA b, v : v * Base + b, 0, IF little_endian THEN cp ELSE Reverse(cp))

uuid_to_bytes(u) ==
    LET le == is_little_endian(u.Data4[1]) IN
    Put(u.Data1, 4, le) \o Put(u.Data2, 2, le) \o Put(u.Data3, 2, le) \o u.Data4

bytes_to_uuid(src) ==
    LET le == is_little_endian(src[9]) IN
    [Data1 |-> Get(SubSeq(src, 1, 4), le), Data2 |-> Get(SubSeq(src, 5, 6), le),
     Data3 |-> Get(SubSeq(src, 7, 8), le), Data4 |-> SubSeq(src, 9, 16)]

Sign(a, b) == IF a < b THEN -1 ELSE IF a > b THEN 1 ELSE 0

memcmp(s, t) ==
    LET d == SelectInSeq([i \in DOMAIN s |-> s[i] # t[i]], LAMBDA x : x)
    IN IF d = 0 THEN 0 ELSE Sign(s[d], t[d])

\* A bug the comparison might have: the bytes are compared as they lie.
CompareBytes(uu1, uu2) == memcmp(uu1, uu2)

wpdk_uuid_compare(uu1, uu2) ==
    LET id1 == bytes_to_uuid(uu1)
        id2 == bytes_to_uuid(uu2)
    IN IF id1.Data1 # id2.Data1 THEN Sign(id1.Data1, id2.Data1)
       ELSE IF id1.Data2 # id2.Data2 THEN Sign(id1.Data2, id2.Data2)
       ELSE IF id1.Data3 # id2.Data3 THEN Sign(id1.Data3, id2.Data3)
       ELSE memcmp(id1.Data4, id2.Data4)

\* The text, two digits for a byte; upper and lower case differ in wording only.
wpdk_uuid_unparse(b) ==
    LET u == bytes_to_uuid(b) IN Big(u.Data1, 4) \o Big(u.Data2, 2) \o Big(u.Data3, 2) \o u.Data4

\* Reads such a text, whatever the variant.
UuidFromString(t) ==
    [Data1 |-> Get(SubSeq(t, 1, 4), FALSE), Data2 |-> Get(SubSeq(t, 5, 6), FALSE),
     Data3 |-> Get(SubSeq(t, 7, 8), FALSE), Data4 |-> SubSeq(t, 9, 16)]

wpdk_uuid_is_null(b) == \A i \in DOMAIN b : b[i] = 0
-----------------------------------------------------------------------------
Null == [i \in 1..16 |-> 0]

Init == uu = [s \in Slots |-> Null] /\ text = Null

wpdk_uuid_clear(s) == uu' = [uu EXCEPT ![s] = Null] /\ UNCHANGED text

wpdk_uuid_copy(dst, src) == uu' = [uu EXCEPT ![dst] = uu[src]] /\ UNCHANGED text

wpdk_uuid_generate(s) ==
    \E id \in Created : uu' = [uu EXCEPT ![s] = uuid_to_bytes(id)] /\ UNCHANGED text

wpdk_uuid_parse(s) ==
    uu' = [uu EXCEPT ![s] = uuid_to_bytes(UuidFromString(text))] /\ UNCHANGED text

Unparse(s) == text' = wpdk_uuid_unparse(uu[s]) /\ UNCHANGED uu

Next ==
    \/ \E s \in Slots : wpdk_uuid_clear(s) \/ wpdk_uuid_generate(s) \/ wpdk_uuid_parse(s) \/ Unparse(s)
    \/ \E s, t \in Slots : wpdk_uuid_copy(s, t)

Spec == Init /\ [][Next]_vars
-----------------------------------------------------------------------------
(* A UUID that goes through its text, or through the fields Windows keeps,    *)
(* comes back byte for byte, in either byte order.                            *)
TextRestores ==
    \A s \in Slots : uuid_to_bytes(UuidFromString(wpdk_uuid_unparse(uu[s]))) = uu[s]

(* UUIDs of both byte orders compare as their texts do, so the order is total, *)
(* two are equal only if their bytes are, and the null UUID comes first.      *)
ComparesAsText ==
    \A s, t \in Slots :
        LET c == wpdk_uuid_compare(uu[s], uu[t]) IN
        /\ c = memcmp(wpdk_uuid_unparse(uu[s]), wpdk_uuid_unparse(uu[t]))
        /\ c = 0 <=> uu[s] = uu[t]
        /\ wpdk_uuid_is_null(uu[s]) => c <= 0
=========================================================================
