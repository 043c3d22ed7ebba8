----------------------------- MODULE HashTable -----------------------------
(***************************************************************************)
(* What a hash registry promises: it behaves as one table whose operations *)
(* take effect at once, at some moment between call and return.            *)
(***************************************************************************)
CONSTANTS Callers, Files, Hashes, None

VARIABLES
    table,  \* hash of each file, None without one
    reply   \* reply[c]: the file c asked for and its hash, None before and after

vars == <<table, reply>>

Init ==
    /\ table = [f \in Files |-> None]
    /\ reply = [c \in Callers |-> None]

Get(c) ==
    /\ reply[c] = None
    /\ \E f \in Files : reply' = [reply EXCEPT ![c] = <<f, table[f]>>]
    /\ UNCHANGED table

\* Replies are taken or lost.
Return ==
    /\ \E gone \in SUBSET Callers :
         reply' = [c \in Callers |-> IF c \in gone THEN None ELSE reply[c]]
    /\ UNCHANGED table

Set ==
    /\ \E f \in Files, h \in Hashes : table' = [table EXCEPT ![f] = h]
    /\ UNCHANGED reply

Remove ==
    /\ \E gone \in SUBSET Files :
         table' = [f \in Files |-> IF f \in gone THEN None ELSE table[f]]
    /\ UNCHANGED reply

Next == Set \/ Remove \/ Return \/ \E c \in Callers : Get(c)

Spec == Init /\ [][Next]_vars
=============================================================================
