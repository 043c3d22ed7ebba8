----------------------------- MODULE RedisQueue -----------------------------
(***************************************************************************)
(* Ingest jobs of the large profile: RedisQueue over RQ                    *)
(* (jobs/redis_queue.py), the worker pods (services/worker_app.py) with    *)
(* run_ingest and the temporary folders of ingest/acquire.py, the search   *)
(* epoch that workers and admin requests move (persistence/cache.py), and  *)
(* the admin page that lists the jobs (frontend/tabs/admin.py).            *)
(*                                                                         *)
(* RQ is external.  It takes a job from the queue and starts it in two     *)
(* steps, and moves it between registries together with its status, so a   *)
(* registry is the set of jobs with one status.  A folder is "root" (the   *)
(* one mkdtemp made) and "sub" (the one directory a tarball holds).        *)
(***************************************************************************)
EXTENDS Naturals, SequencesExt

CONSTANTS
    Jobs,
    Archives,        \* the jobs that bring an archive; the others a GitHub link
    Workers,
    Admin,      \* the thread of LocalBackend.index and .remove
    None,       \* no job, no epoch
    MaxDeaths,  \* bound: worker deaths
    LastRead    \* bound: the largest epoch under which a call of Admin begins

ASSUME ConstantsAssumption ==
    /\ Archives \subseteq Jobs
    /\ None \notin Jobs \cup Nat
    /\ Admin \notin Workers
    /\ MaxDeaths \in Nat /\ LastRead \in Nat

\* Who moves the epoch.
Movers == Workers \cup {Admin}

VARIABLES
    queue,      \* ids in the RQ queue, oldest first
    status,     \* new, queued, started, finished, failed; gone after its TTL
    wpc, wjob,  \* where each worker is in its job, and the job
    tmp,        \* what is left of each job's temporary folder
    epoch,      \* the search epoch in the cache
    seen,       \* the epoch each mover has read and not yet replaced
    mark,       \* history: the epoch under which each job that runs or is
                \* finished wrote to the index last
    back,       \* history: a late write took the epoch back
    cut,        \* history: jobs killed or refused while being acquired
    deaths,     \* worker deaths so far
    mode,       \* the page: still, decide, polling
    ppc,        \* its list call: 0 none, 1..4 next registry, 5 next fetch
    ids,        \* ids the call has collected
    owed,       \* history: jobs accepted when the call began, not yet found
                \* and not in hand-over when it read the started jobs
    settled     \* the jobs a page that polls shows as done or failed

worker == <<wpc, wjob>>
epochs == <<epoch, seen, back>>
page == <<mode, ppc, ids, owed, settled>>
vars == <<queue, status, worker, tmp, epochs, mark, cut, deaths, page>>

Init ==
    /\ queue = <<>>
    /\ status = [j \in Jobs |-> "new"]
    /\ wpc = [w \in Workers |-> "idle"]
    /\ wjob = [w \in Workers |-> None]
    /\ tmp = [j \in Jobs |-> {}]
    /\ epoch = 0 /\ seen = [c \in Movers |-> None]
    /\ mark = [j \in Jobs |-> None] /\ back = FALSE
    /\ cut = {} /\ deaths = 0
    /\ mode = "still" /\ ppc = 0 /\ ids = {} /\ owed = {}
    /\ settled = {}

Held(j) == \E w \in Workers : wjob[w] = j

\* The job is neither in the queue nor in a registry.
HandOver(j) == status[j] = "queued" /\ j \notin ToSet(queue)

-----------------------------------------------------------------------------
(* submit, and the worker's life of a job *)

Submit(j) ==
    /\ status[j] = "new"
    /\ status' = [status EXCEPT ![j] = "queued"]
    /\ queue' = Append(queue, j)
    /\ UNCHANGED <<worker, tmp, epochs, mark, cut, deaths, page>>

Pop(w) ==
    /\ wpc[w] = "idle" /\ queue # <<>>
    /\ wjob' = [wjob EXCEPT ![w] = Head(queue)]
    /\ queue' = Tail(queue)
    /\ wpc' = [wpc EXCEPT ![w] = "popped"]
    /\ UNCHANGED <<status, tmp, epochs, mark, cut, deaths, page>>

\* The worker goes on to step to, in its present job.
Goto(w, to) == wpc' = [wpc EXCEPT ![w] = to] /\ UNCHANGED wjob

\* The worker is done with its job, which ends with status end.
Settle(w, end) ==
    /\ status' = [status EXCEPT ![wjob[w]] = end]
    /\ mark' = [mark EXCEPT ![wjob[w]] = IF end = "finished" THEN @ ELSE None]
    /\ wpc' = [wpc EXCEPT ![w] = "idle"]
    /\ wjob' = [wjob EXCEPT ![w] = None]

Begin(w) ==
    /\ wpc[w] = "popped"
    /\ status' = [status EXCEPT ![wjob[w]] = "started"]
    /\ Goto(w, "acquire")
    /\ UNCHANGED <<queue, tmp, epochs, mark, cut, deaths, page>>

\* from_zip returns the folder it made; from_github the only directory in
\* it, or the folder when the tarball holds none or several.
Folders(j) == IF j \in Archives THEN {{"root"}} ELSE {{"root"}, {"root", "sub"}}

Acquire(w) ==
    /\ wpc[w] = "acquire"
    /\ \E made \in Folders(wjob[w]) : tmp' = [tmp EXCEPT ![wjob[w]] = made]
    /\ Goto(w, "index")
    /\ UNCHANGED <<queue, status, epochs, mark, cut, deaths, page>>

\* A bad archive raises with the folder made, a refused link before that.
AcquireRaises(w) ==
    /\ wpc[w] = "acquire"
    /\ \E made \in IF wjob[w] \in Archives THEN {{"root"}} ELSE {{}, {"root"}} :
         tmp' = [tmp EXCEPT ![wjob[w]] = made]
    /\ cut' = cut \cup {wjob[w]}
    /\ Settle(w, "failed")
    /\ UNCHANGED <<queue, epochs, deaths, page>>

\* index_path writes to the index, again and again ...
IndexWrites(w) ==
    /\ wpc[w] = "index"
    /\ mark' = [mark EXCEPT ![wjob[w]] = epoch]
    /\ UNCHANGED <<queue, status, worker, tmp, epoch, seen, back, cut, deaths, page>>

\* rmtree of the folder acquire returned.
Remaining(j) == IF "sub" \in tmp[j] THEN {"root"} ELSE {}
RemoveFolder(w) == tmp' = [tmp EXCEPT ![wjob[w]] = Remaining(wjob[w])]

\* Mutation of IndexRaises: no finally, a run that raised leaves its folder.
IndexRaisesPast(w) ==
    /\ wpc[w] = "index"
    /\ Settle(w, "failed")
    /\ UNCHANGED <<queue, tmp, epochs, cut, deaths, page>>

\* ... and raises, as it does at job_timeout,
IndexRaises(w) ==
    /\ wpc[w] = "index"
    /\ RemoveFolder(w)
    /\ Settle(w, "failed")
    /\ UNCHANGED <<queue, epochs, cut, deaths, page>>

\* or returns.  Then bump_epoch reads the epoch ...
ReadEpoch(w) ==
    /\ wpc[w] = "index"
    /\ RemoveFolder(w)
    /\ seen' = [seen EXCEPT ![w] = epoch]
    /\ Goto(w, "write")
    /\ UNCHANGED <<queue, status, epoch, mark, back, cut, deaths, page>>

\* ... and sets the successor of what it read, which is below the epoch when
\* others have moved it twice in between.
SetSuccessor(c) ==
    /\ epoch' = seen[c] + 1
    /\ seen' = [seen EXCEPT ![c] = None]
    /\ back' = (back \/ epoch' < epoch)

\* Mutation of WriteEpoch: the epoch is moved by runs of links only.
WriteSome(w) ==
    /\ wpc[w] = "write"
    /\ IF wjob[w] \in Archives
       THEN seen' = [seen EXCEPT ![w] = None] /\ UNCHANGED <<epoch, back>>
       ELSE SetSuccessor(w)
    /\ Goto(w, "end")
    /\ UNCHANGED <<queue, status, tmp, mark, cut, deaths, page>>

WriteEpoch(w) ==
    /\ wpc[w] = "write"
    /\ SetSuccessor(w)
    /\ Goto(w, "end")
    /\ UNCHANGED <<queue, status, tmp, mark, cut, deaths, page>>

\* LocalBackend.index and .remove move it too, on a request's thread.
AdminReads ==
    /\ seen[Admin] = None /\ epoch <= LastRead
    /\ seen' = [seen EXCEPT ![Admin] = epoch]
    /\ UNCHANGED <<queue, status, worker, tmp, epoch, mark, back, cut, deaths, page>>

AdminWrites ==
    /\ seen[Admin] # None
    /\ SetSuccessor(Admin)
    /\ UNCHANGED <<queue, status, worker, tmp, mark, cut, deaths, page>>

\* Mutation of Finish: only workers whose jobs brought archives report.
FinishSome(w) ==
    /\ wpc[w] = "end" /\ wjob[w] \in Archives
    /\ Settle(w, "finished")
    /\ UNCHANGED <<queue, tmp, epochs, cut, deaths, page>>

Finish(w) ==
    /\ wpc[w] = "end"
    /\ Settle(w, "finished")
    /\ UNCHANGED <<queue, tmp, epochs, cut, deaths, page>>

-----------------------------------------------------------------------------
(* Dying workers, and RQ's housekeeping *)

\* The pod dies, or only the process that runs the job: then the worker
\* sees it and fails the job at once.
Die(w) ==
    /\ wpc[w] # "idle" /\ deaths < MaxDeaths
    /\ deaths' = deaths + 1
    /\ cut' = cut \cup {wjob[w]}
    /\ \E end \in {status[wjob[w]], "failed"} : Settle(w, end)
    /\ seen' = [seen EXCEPT ![w] = None]
    /\ UNCHANGED <<queue, tmp, epoch, back, page>>

\* RQ fails the jobs that no living worker holds.
Abandon(j) ==
    /\ status[j] = "started" \/ HandOver(j)
    /\ ~Held(j)
    /\ status' = [status EXCEPT ![j] = "failed"]
    /\ UNCHANGED <<queue, worker, tmp, epochs, mark, cut, deaths, page>>

\* result_ttl; failed jobs stay for RQ's much longer failure TTL.
Expire(j) ==
    /\ status[j] = "finished"
    /\ status' = [status EXCEPT ![j] = "gone"]
    /\ mark' = [mark EXCEPT ![j] = None]
    /\ UNCHANGED <<queue, worker, tmp, epochs, cut, deaths, page>>

-----------------------------------------------------------------------------
(* The page *)

WithStatus(s) == {j \in Jobs : status[j] = s}

\* Mutation of Part: the registries are read from the last to the first.
PartBackwards(k) ==
    CASE k = 1 -> WithStatus("failed")   [] k = 2 -> WithStatus("finished")
      [] k = 3 -> WithStatus("started")  [] k = 4 -> ToSet(queue)

\* The four reads of list, in its order.
Part(k) ==
    CASE k = 1 -> ToSet(queue)           [] k = 2 -> WithStatus("started")
      [] k = 3 -> WithStatus("finished") [] k = 4 -> WithStatus("failed")

\* job_view, for a job that can be fetched.
View(j) ==
    CASE status[j] = "queued" -> "queued"  [] status[j] = "started" -> "running"
      [] status[j] = "finished" -> "done"  [] status[j] = "failed" -> "failed"

Active == {"queued", "running"}

\* What list returns: ids that cannot be fetched any more are skipped.
Listed == {j \in ids : status[j] # "gone"}

StartList ==
    /\ ppc' = 1 /\ ids' = {}
    /\ owed' = {j \in Jobs : status[j] # "new"}

\* The whole script reruns: it lists once to choose how to draw ...
Rerun ==
    /\ ppc = 0
    /\ mode' = "decide"
    /\ settled' = {}
    /\ StartList
    /\ UNCHANGED <<queue, status, worker, tmp, epochs, mark, cut, deaths>>

Read ==
    /\ ppc \in 1..4
    /\ ids' = ids \cup Part(ppc)
    /\ owed' = {j \in owed \ Part(ppc) : ~(ppc = 2 /\ HandOver(j))}
    /\ ppc' = ppc + 1
    /\ UNCHANGED <<queue, status, worker, tmp, epochs, mark, cut, deaths, mode, settled>>

\* ... a page with nothing active stays as it is drawn, from one more list ...
Still ==
    /\ ppc = 5 /\ mode = "decide"
    /\ \A j \in Listed : View(j) \notin Active
    /\ mode' = "still" /\ ppc' = 0 /\ ids' = {} /\ owed' = {}
    /\ UNCHANGED <<queue, status, worker, tmp, epochs, mark, cut, deaths, settled>>

\* ... the other polls, and lists at once.
Poll ==
    /\ ppc = 5 /\ mode = "decide"
    /\ \E j \in Listed : View(j) \in Active
    /\ mode' = "polling"
    /\ StartList
    /\ UNCHANGED <<queue, status, worker, tmp, epochs, mark, cut, deaths, settled>>

\* Mutation of Draw: failed jobs are drawn as if they went on.
DrawDone ==
    /\ ppc = 5 /\ mode = "polling"
    /\ settled' = {j \in Listed : View(j) = "done"}
    /\ ppc' = 0 /\ ids' = {} /\ owed' = {}
    /\ UNCHANGED <<queue, status, worker, tmp, epochs, mark, cut, deaths, mode>>

Draw ==
    /\ ppc = 5 /\ mode = "polling"
    /\ settled' = {j \in Listed : View(j) \notin Active}
    /\ ppc' = 0 /\ ids' = {} /\ owed' = {}
    /\ UNCHANGED <<queue, status, worker, tmp, epochs, mark, cut, deaths, mode>>

\* The polling fragment, every two seconds.
Tick ==
    /\ ppc = 0 /\ mode = "polling"
    /\ StartList
    /\ UNCHANGED <<queue, status, worker, tmp, epochs, mark, cut, deaths, mode, settled>>

-----------------------------------------------------------------------------
Work(w) ==
    \/ Pop(w) \/ Begin(w) \/ Acquire(w) \/ AcquireRaises(w)
    \/ IndexRaises(w) \/ ReadEpoch(w) \/ WriteEpoch(w) \/ Finish(w)

Viewing == Read \/ Still \/ Poll \/ Draw \/ Tick

Next ==
    \/ \E w \in Workers : Work(w) \/ IndexWrites(w) \/ Die(w)
    \/ \E j \in Jobs : Submit(j) \/ Abandon(j) \/ Expire(j)
    \/ AdminReads \/ AdminWrites
    \/ Viewing \/ Rerun

\* Pods are restarted and index_path ends (job_timeout), RQ's housekeeping
\* runs in every worker, and an open page keeps polling.
Spec ==
    /\ Init /\ [][Next]_vars
    /\ \A w \in Workers : WF_vars(Work(w))
    /\ WF_vars(\E j \in Jobs : Abandon(j))
    /\ WF_vars(Viewing)

-----------------------------------------------------------------------------
TypeOK ==
    /\ queue \in Seq(Jobs)
    /\ status \in [Jobs -> {"new", "queued", "started", "finished", "failed", "gone"}]
    /\ wpc \in [Workers -> {"idle", "popped", "acquire", "index", "write", "end"}]
    /\ wjob \in [Workers -> Jobs \cup {None}]
    /\ tmp \in [Jobs -> SUBSET {"root", "sub"}]
    /\ epoch \in Nat /\ seen \in [Movers -> Nat \cup {None}]
    /\ mark \in [Jobs -> Nat \cup {None}] /\ back \in BOOLEAN
    /\ cut \subseteq Jobs /\ deaths \in 0..MaxDeaths
    /\ mode \in {"still", "decide", "polling"}
    /\ ppc \in 0..5
    /\ ids \subseteq Jobs /\ owed \subseteq Jobs /\ settled \subseteq Jobs
    /\ \A w \in Workers : /\ wpc[w] = "idle" <=> wjob[w] = None
                          /\ wpc[w] = "write" <=> seen[w] # None

\* A job accepted before list began is in its answer, however it moves
\* between the reads, unless it has expired or RQ was just handing it from
\* the queue to a worker (redis_queue.py:119-122).
ListMissesOnlyHandOver ==
    ppc = 5 => \A j \in owed : status[j] = "gone"

\* A job that is reported as done wrote to the index under epochs below the
\* present one, so no search cached before a write of it is served after it;
\* although workers and admin requests read and set the epoch in two steps and
\* may set one value twice.  Only a successor set after others have moved the
\* epoch past it takes the epoch back (runner.py:42, cache.py:135-136).
DoneIsPublished ==
    back \/ \A j \in Jobs : status[j] = "finished" => mark[j] = None \/ mark[j] < epoch

\* A folder outlives its job only when the job was killed or was refused
\* while it was unpacked; of a tarball the emptied outer folder stays
\* (acquire.py:34, 74, runner.py:41).
LeftoversExplained ==
    \A j \in Jobs :
      \/ Held(j) \/ j \in cut \/ tmp[j] = {}
      \/ j \notin Archives /\ tmp[j] = {"root"}

\* Two workers, a death and RQ's housekeeping never take a job back, and
\* never change how it ended (redis_queue.py:48).
StatusMovesForward ==
    [][\A j \in Jobs :
         status'[j] # status[j] =>
           CASE status[j] = "new"     -> status'[j] = "queued"
             [] status[j] = "queued"  -> status'[j] \in {"started", "failed"}
             [] status[j] = "started" -> status'[j] \in {"finished", "failed"}
             [] OTHER                 -> status'[j] = "gone"]_status

\* Every accepted job ends, whatever dies under it: there comes a time when
\* none waits or runs (redis_queue.py:99).
EveryJobEnds ==
    WithStatus("queued") \cup WithStatus("started") # {}
      ~> WithStatus("queued") \cup WithStatus("started") = {}

\* A page that polls comes to show how each accepted job ended, also jobs
\* it could not see when it chose to poll (frontend/tabs/admin.py:52).
PollingPageSettles ==
    \A j \in Jobs :
      mode = "polling" /\ status[j] = "queued"
        ~> j \in settled \/ status[j] = "gone" \/ mode # "polling"
=============================================================================
