------------------------------ MODULE JobBoard ------------------------------
(***************************************************************************)
(* What a single-worker job queue promises: accepted jobs are worked off   *)
(* one at a time in the order of their acceptance, each once, and each is  *)
(* ended unless the process dies first.                                    *)
(***************************************************************************)
EXTENDS Sequences

CONSTANT Jobs

VARIABLES
    line,   \* accepted jobs that nobody works on yet, oldest first
    phase   \* where each job is: new, waiting, running, done, failed, lost

vars == <<line, phase>>

Init ==
    /\ line = <<>>
    /\ phase = [j \in Jobs |-> "new"]

Accept(j) ==
    /\ phase[j] = "new"
    /\ line' = Append(line, j)
    /\ phase' = [phase EXCEPT ![j] = "waiting"]

Start ==
    /\ line # <<>>
    /\ \A j \in Jobs : phase[j] # "running"
    /\ phase' = [phase EXCEPT ![Head(line)] = "running"]
    /\ line' = Tail(line)

End(j) ==
    /\ phase[j] = "running"
    /\ \E outcome \in {"done", "failed"} : phase' = [phase EXCEPT ![j] = outcome]
    /\ UNCHANGED line

\* The process dies with what it knows of jobs that are not ended.
Die ==
    /\ line' = <<>>
    /\ phase' = [j \in Jobs |->
                   IF phase[j] \in {"waiting", "running"} THEN "lost" ELSE phase[j]]

Next == Start \/ Die \/ \E j \in Jobs : Accept(j) \/ End(j)

Safety == Init /\ [][Next]_vars

Spec == Safety /\ WF_vars(Start) /\ WF_vars(\E j \in Jobs : End(j))
=============================================================================
