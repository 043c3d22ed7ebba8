------------------------------ MODULE FreshReads ------------------------------
(***************************************************************************)
(* What a cached search promises: a search never answers from an index     *)
(* older than the one published when it began.                             *)
(*                                                                         *)
(* The index is a version number that grows with every change.  Whoever    *)
(* changed it publishes the change when done; until then a search may or   *)
(* may not see it.                                                         *)
(***************************************************************************)
EXTENDS Naturals

CONSTANTS Searchers, None

VARIABLES
    version,    \* of the index, as it is now
    published,  \* every search from now on sees at least this version
    floor,      \* floor[s]: what was published when s began, None without a search
    answer      \* answer[s]: version s answers from, None until then

vars == <<version, published, floor, answer>>

Init ==
    /\ version = 0
    /\ published = 0
    /\ floor = [s \in Searchers |-> None]
    /\ answer = [s \in Searchers |-> None]

Change ==
    /\ version' = version + 1
    /\ UNCHANGED <<published, floor, answer>>

Publish ==
    /\ \E v \in published..version : published' = v
    /\ UNCHANGED <<version, floor, answer>>

Begin(s) ==
    /\ floor[s] = None
    /\ floor' = [floor EXCEPT ![s] = published]
    /\ UNCHANGED <<version, published, answer>>

Answer(s) ==
    /\ floor[s] # None /\ answer[s] = None
    /\ \E v \in floor[s]..version : answer' = [answer EXCEPT ![s] = v]
    /\ UNCHANGED <<version, published, floor>>

Return(s) ==
    /\ floor' = [floor EXCEPT ![s] = None]
    /\ answer' = [answer EXCEPT ![s] = None]
    /\ UNCHANGED <<version, published>>

Next ==
    \/ Change \/ Publish
    \/ \E s \in Searchers : Begin(s) \/ Answer(s) \/ Return(s)

Spec == Init /\ [][Next]_vars
=============================================================================
