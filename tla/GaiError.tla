------------------------------ MODULE GaiError ------------------------------
(* wpdk_gai_strerror (src/netdb.c): the system's messages come in one static   *)
(* buffer, and each is copied once, under a lock, into a table that is read     *)
(* without it.  gai_strerror and _strdup are external.                        *)
EXTENDS Naturals

CONSTANTS
    Threads,
    Codes,          \* error codes of the table
    Others,         \* error codes that are not in it
    NULL

VARIABLES
    message,        \* the table: the code whose text is kept, or NULL
    shared,         \* the static buffer: the code whose text it holds
    lock,           \* the thread that holds gai_lock, or NULL
    copies,         \* copies made for each entry
    pc, ecode,      \* each thread's call
    result          \* what its last call returned: [asked, text]

vars == <<message, shared, lock, copies, pc, ecode, result>>

Unknown == "Unknown GAI error"

Init ==
    /\ message = [e \in Codes |-> NULL] /\ copies = [e \in Codes |-> 0]
    /\ shared = NULL /\ lock = NULL
    /\ pc = [t \in Threads |-> "idle"]
    /\ ecode = [t \in Threads |-> NULL]
    /\ result = [t \in Threads |-> NULL]

Return(t, text) ==
    /\ pc' = [pc EXCEPT ![t] = "idle"]
    /\ ecode' = [ecode EXCEPT ![t] = NULL]
    /\ result' = [result EXCEPT ![t] = [asked |-> ecode[t], text |-> text]]

wpdk_gai_strerror(t, e) ==
    /\ pc[t] = "idle"
    /\ pc' = [pc EXCEPT ![t] = "look"]
    /\ ecode' = [ecode EXCEPT ![t] = e]
    /\ result' = [result EXCEPT ![t] = NULL]
    /\ UNCHANGED <<message, shared, lock, copies>>

\* The entry is found; a code that has none has the message of the last entry.
Look(t) ==
    /\ pc[t] = "look"
    /\ IF ecode[t] \in Others THEN Return(t, Unknown)
       ELSE IF message[ecode[t]] # NULL THEN Return(t, message[ecode[t]])
       ELSE pc' = [pc EXCEPT ![t] = "acquire"] /\ UNCHANGED <<ecode, result>>
    /\ UNCHANGED <<message, shared, lock, copies>>

\* A bug the call might have: the lock is not taken.
AcquireNot(t) ==
    /\ pc[t] = "acquire"
    /\ pc' = [pc EXCEPT ![t] = "test"]
    /\ UNCHANGED <<message, shared, lock, copies, ecode, result>>

AcquireSRWLockExclusive(t) ==
    /\ pc[t] = "acquire" /\ lock = NULL
    /\ lock' = t
    /\ pc' = [pc EXCEPT ![t] = "test"]
    /\ UNCHANGED <<message, shared, copies, ecode, result>>

\* The entry is tested again, and gai_strerror fills the static buffer.
Fill(t) ==
    /\ pc[t] = "test"
    /\ IF message[ecode[t]] = NULL
       THEN shared' = ecode[t] /\ pc' = [pc EXCEPT ![t] = "copy"]
       ELSE pc' = [pc EXCEPT ![t] = "release"] /\ UNCHANGED shared
    /\ UNCHANGED <<message, lock, copies, ecode, result>>

\* _strdup of the static buffer, which may fail, and the store of its result.
Copy(t) ==
    /\ pc[t] = "copy"
    /\ pc' = [pc EXCEPT ![t] = "release"]
    /\ \/ /\ message' = [message EXCEPT ![ecode[t]] = shared]
          /\ copies' = [copies EXCEPT ![ecode[t]] = @ + 1]
       \/ UNCHANGED <<message, copies>>
    /\ UNCHANGED <<shared, lock, ecode, result>>

ReleaseSRWLockExclusive(t) ==
    /\ pc[t] = "release"
    /\ lock' = NULL
    /\ Return(t, IF message[ecode[t]] = NULL THEN Unknown ELSE message[ecode[t]])
    /\ UNCHANGED <<message, shared, copies>>

Next ==
    \E t \in Threads :
        \/ \E e \in Codes \cup Others : wpdk_gai_strerror(t, e)
        \/ Look(t) \/ AcquireSRWLockExclusive(t) \/ Fill(t) \/ Copy(t) \/ ReleaseSRWLockExclusive(t)

Spec == Init /\ [][Next]_vars
-----------------------------------------------------------------------------
(* "gai_strerror is not thread safe": a call never returns the text of another *)
(* code, although the buffer the texts come in is shared.                     *)
OwnText ==
    \A t \in Threads : result[t] # NULL => result[t].text \in {result[t].asked, Unknown}

(* A message handed out stays: the table keeps one copy for each code, and an  *)
(* entry never changes once it is set, however many threads find it empty.    *)
CopiedOnce == \A e \in Codes : copies[e] <= 1
=========================================================================
