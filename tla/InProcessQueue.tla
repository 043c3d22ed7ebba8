--------------------------- MODULE InProcessQueue ---------------------------
(***************************************************************************)
(* The job queue of the small profile (jobs/inprocess.py): request threads *)
(* submit, one pool thread runs the ingests, records are kept for the      *)
(* latest jobs only.                                                       *)
(*                                                                         *)
(* Each job is submitted by a request thread of its own.  A record is      *)
(* represented by its status; progress, stats and error are payload.  The  *)
(* pool (concurrent.futures) is external: a FIFO backlog and one thread.   *)
(***************************************************************************)
EXTENDS Naturals, SequencesExt

CONSTANTS
    Jobs,
    MaxKeep,    \* records kept
    None,       \* no record; no job; no outcome
    MaxRestarts \* bound: restarts of the backend process

ASSUME ConstantsAssumption ==
    /\ MaxKeep \in Nat
    /\ None \notin Jobs \cup {"queued", "running", "done", "failed"}

VARIABLES
    jobs,     \* _jobs: status in the record of each job, None without record
    order,    \* _order: recorded jobs, oldest first
    backlog,  \* jobs handed to the pool, oldest first
    caller,   \* the submitting thread: new, recorded, returned; dead
    worker,   \* pool thread: idle, taken, ingesting; done, failed: to be written
    current,  \* the job it is busy with
    outcome,  \* history: how the ingest of a job ended
    restarts  \* restarts so far

vars == <<jobs, order, backlog, caller, worker, current, outcome, restarts>>

Init ==
    /\ jobs = [j \in Jobs |-> None]
    /\ order = <<>>
    /\ backlog = <<>>
    /\ caller = [j \in Jobs |-> "new"]
    /\ worker = "idle"
    /\ current = None
    /\ outcome = [j \in Jobs |-> None]
    /\ restarts = 0

\* The loop of submit: the oldest go while there are more than MaxKeep.
Latest(s) ==
    IF Len(s) <= MaxKeep THEN s ELSE SubSeq(s, Len(s) - MaxKeep + 1, Len(s))

\* Mutation of Updated: the record is written without looking for it first.
Upserted(j, status) == [jobs EXCEPT ![j] = status]

\* _update: nothing happens to a record that is gone.
Updated(j, status) == IF jobs[j] = None THEN jobs ELSE [jobs EXCEPT ![j] = status]

-----------------------------------------------------------------------------
(* submit *)

\* The locked part: the record is made and the oldest ones are dropped.
Record(j) ==
    /\ caller[j] = "new"
    /\ order' = Latest(Append(order, j))
    /\ jobs' = [i \in Jobs |->
                  IF i \in ToSet(Append(order, j)) \ ToSet(order') THEN None
                  ELSE IF i = j THEN "queued" ELSE jobs[i]]
    /\ caller' = [caller EXCEPT ![j] = "recorded"]
    /\ UNCHANGED <<backlog, worker, current, outcome, restarts>>

\* _pool.submit, outside the lock.
HandOver(j) ==
    /\ caller[j] = "recorded"
    /\ backlog' = Append(backlog, j)
    /\ caller' = [caller EXCEPT ![j] = "returned"]
    /\ UNCHANGED <<jobs, order, worker, current, outcome, restarts>>

-----------------------------------------------------------------------------
(* The pool thread *)

Take ==
    /\ worker = "idle" /\ backlog # <<>>
    /\ current' = Head(backlog)
    /\ backlog' = Tail(backlog)
    /\ worker' = "taken"
    /\ UNCHANGED <<jobs, order, caller, outcome, restarts>>

MarkRunning ==
    /\ worker = "taken"
    /\ jobs' = Updated(current, "running")
    /\ worker' = "ingesting"
    /\ UNCHANGED <<order, backlog, caller, current, outcome, restarts>>

\* Mutation of EndIngest: an ingest that raises ends the thread.
EndThread ==
    /\ worker = "ingesting"
    /\ \E end \in {"done", "failed"} :
         /\ outcome' = [outcome EXCEPT ![current] = end]
         /\ worker' = IF end = "done" THEN end ELSE "dead"
    /\ UNCHANGED <<jobs, order, backlog, caller, current, restarts>>

\* run_ingest returns its stats or raises.
EndIngest ==
    /\ worker = "ingesting"
    /\ \E end \in {"done", "failed"} :
         /\ outcome' = [outcome EXCEPT ![current] = end]
         /\ worker' = end
    /\ UNCHANGED <<jobs, order, backlog, caller, current, restarts>>

\* Mutation of MarkEnded: the end is recorded in a finally clause.
MarkDone ==
    /\ worker \in {"done", "failed"}
    /\ jobs' = Updated(current, "done")
    /\ worker' = "idle" /\ current' = None
    /\ UNCHANGED <<order, backlog, caller, outcome, restarts>>

\* Mutation of MarkEnded: no except clause; the pool swallows the exception.
MarkSuccess ==
    /\ worker \in {"done", "failed"}
    /\ jobs' = IF worker = "done" THEN Updated(current, "done") ELSE jobs
    /\ worker' = "idle" /\ current' = None
    /\ UNCHANGED <<order, backlog, caller, outcome, restarts>>

MarkEnded ==
    /\ worker \in {"done", "failed"}
    /\ jobs' = Updated(current, worker)
    /\ worker' = "idle" /\ current' = None
    /\ UNCHANGED <<order, backlog, caller, outcome, restarts>>

-----------------------------------------------------------------------------
\* The backend process dies and starts again, with nothing.
Restart ==
    /\ restarts < MaxRestarts
    /\ restarts' = restarts + 1
    /\ jobs' = [j \in Jobs |-> None]
    /\ order' = <<>> /\ backlog' = <<>>
    /\ caller' = [j \in Jobs |-> IF caller[j] = "recorded" THEN "dead" ELSE caller[j]]
    /\ worker' = "idle" /\ current' = None
    /\ UNCHANGED outcome

Worker == Take \/ MarkRunning \/ EndIngest \/ MarkEnded

Next == Worker \/ Restart \/ \E j \in Jobs : Record(j) \/ HandOver(j)

\* The pool thread and the request threads are scheduled, an ingest comes to an end.
Spec ==
    /\ Init /\ [][Next]_vars
    /\ WF_vars(Worker)
    /\ \A j \in Jobs : WF_vars(HandOver(j))

-----------------------------------------------------------------------------
(* Properties *)

\* Every variable holds a value of its kind and the ring keeps its size.
TypeOK ==
    /\ jobs \in [Jobs -> {"queued", "running", "done", "failed", None}]
    /\ order \in Seq(Jobs) /\ Len(order) <= MaxKeep
    /\ backlog \in Seq(Jobs)
    /\ caller \in [Jobs -> {"new", "recorded", "returned", "dead"}]
    /\ worker \in {"idle", "taken", "ingesting", "done", "failed"}
    /\ current \in Jobs \cup {None}
    /\ outcome \in [Jobs -> {"done", "failed", None}]
    /\ restarts \in Nat

\* What get and list tell is true: a record says queued only before the ingest
\* has ended, running only while its job is the worker's, done or failed only as
\* the ingest ended, and it says so as soon as the worker is through with it.
RecordsTellTruth ==
    \A j \in Jobs : jobs[j] # None =>
        /\ jobs[j] = "queued" => outcome[j] = None
        /\ jobs[j] = "running" => current = j
        /\ jobs[j] \in {"done", "failed"} => jobs[j] = outcome[j]
        /\ outcome[j] # None /\ current # j => jobs[j] = outcome[j]

\* A record goes queued, running, done or failed, never back, and once it is gone
\* it stays gone: a late _update of a dropped job does not bring it back.  It goes
\* only as the oldest of a full ring or with the process.
RecordsMoveForward ==
    [][\A j \in Jobs : jobs'[j] # jobs[j] =>
         \/ jobs[j] = None /\ jobs'[j] = "queued" /\ caller[j] = "new"
         \/ <<jobs[j], jobs'[j]>> \in {"queued"} \X {"running"}
         \/ <<jobs[j], jobs'[j]>> \in {"running"} \X {"done", "failed"}
         \/ jobs'[j] = None /\ Len(order) = MaxKeep /\ j = Head(order)
         \/ jobs'[j] = None /\ restarts' # restarts]_vars

\* The page that polls while a job is listed as queued or running gets to stop:
\* such a record ends as done or failed or is dropped.
ListedJobsSettle ==
    \A j \in Jobs : jobs[j] \in {"queued", "running"} ~>
                        jobs[j] \in {"done", "failed", None}

\* Whatever happens to the records, the queue keeps the promise of JobBoard.
Phase == [j \in Jobs |->
            IF outcome[j] # None THEN outcome[j]
            ELSE IF caller[j] # "returned" THEN "new"
            ELSE IF current = j THEN "running"
            ELSE IF j \in ToSet(backlog) THEN "waiting" ELSE "lost"]
Board == INSTANCE JobBoard WITH line <- backlog, phase <- Phase
BoardSafety == Board!Safety
BoardSpec == Board!Spec
=============================================================================
