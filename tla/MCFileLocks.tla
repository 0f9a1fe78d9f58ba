----------------------------- MODULE MCFileLocks -----------------------------
(***************************************************************************)
(* Instances of FileLocks: two or three handles on a file of two bytes.    *)
(***************************************************************************)
EXTENDS FileLocks, TLC

RangeRequests == (FcntlCalls \X Ops) \cup
    {<<"F_LOCK", "F_WRLCK">>, <<"F_TLOCK", "F_WRLCK">>, <<"F_ULOCK", "F_UNLCK">>,
     <<"F_TEST", "F_WRLCK">>}
MixedRequests == {<<"F_SETLK", "F_WRLCK">>, <<"F_SETLK", "F_UNLCK">>, <<"F_GETLK", "F_WRLCK">>,
    <<"F_SETLKW", "F_WRLCK">>} \cup ({"flock_nb"} \X Ops)
SizesAll == {-1, 0, 1}
Symmetry == Permutations(Handles)
=============================================================================
