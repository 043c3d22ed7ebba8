-------------------------- MODULE RedisQueueProofs --------------------------
(***************************************************************************)
(* Proofs about RedisQueue, for any jobs, any workers and any number of    *)
(* deaths.                                                                 *)
(***************************************************************************)
EXTENDS RedisQueue, SequenceTheorems, TLAPS

-----------------------------------------------------------------------------
(* Sequences: the facts InProcessQueueProofs proves of its own queue *)

LEMMA MembersBelong ==
    ASSUME NEW S, NEW s \in Seq(S)
    PROVE  ToSet(s) \subseteq S
BY ElementOfSeq DEF ToSet

LEMMA MembersAfterAppend ==
    ASSUME NEW S, NEW s \in Seq(S), NEW e \in S
    PROVE  ToSet(Append(s, e)) = ToSet(s) \cup {e}
BY AppendProperties DEF ToSet

LEMMA MembersAfterTail ==
    ASSUME NEW S, NEW s \in Seq(S), s # <<>>
    PROVE  /\ Head(s) \in S /\ Head(s) \in ToSet(s)
           /\ Tail(s) \in Seq(S)
           /\ ToSet(s) = ToSet(Tail(s)) \cup {Head(s)}
<1>1. Tail(s) \in Seq(S) /\ Len(Tail(s)) = Len(s) - 1 /\ Len(s) \in Nat \ {0}
  BY HeadTailProperties, EmptySeq
<1>2. \A i \in 1..Len(Tail(s)) : Tail(s)[i] = s[i + 1]
  BY HeadTailProperties
<1>3. Head(s) = s[1] /\ 1 \in DOMAIN s
  BY <1>1
<1>4. ToSet(s) \subseteq ToSet(Tail(s)) \cup {Head(s)}
  <2> SUFFICES ASSUME NEW i \in DOMAIN s, i # 1 PROVE s[i] \in ToSet(Tail(s))
    BY <1>3 DEF ToSet
  <2>1. i - 1 \in DOMAIN Tail(s) /\ Tail(s)[i - 1] = s[i]
    BY <1>1, <1>2
  <2>2. QED
    BY <2>1 DEF ToSet
<1>5. ToSet(Tail(s)) \subseteq ToSet(s)
  <2> SUFFICES ASSUME NEW i \in DOMAIN Tail(s) PROVE Tail(s)[i] \in ToSet(s)
    BY DEF ToSet
  <2>1. i + 1 \in DOMAIN s /\ Tail(s)[i] = s[i + 1]
    BY <1>1, <1>2
  <2>2. QED
    BY <2>1 DEF ToSet
<1>6. QED
  BY <1>1, <1>3, <1>4, <1>5 DEF ToSet

\* No element twice.
Distinct(s) == \A i, k \in DOMAIN s : s[i] = s[k] => i = k

LEMMA DistinctAfterAppend ==
    ASSUME NEW S, NEW s \in Seq(S), NEW e \in S, Distinct(s), e \notin ToSet(s)
    PROVE  Distinct(Append(s, e))
BY AppendProperties DEF Distinct, ToSet

LEMMA DistinctAfterTail ==
    ASSUME NEW S, NEW s \in Seq(S), s # <<>>, Distinct(s)
    PROVE  Distinct(Tail(s)) /\ Head(s) \notin ToSet(Tail(s))
<1>1. Tail(s) \in Seq(S) /\ Len(Tail(s)) = Len(s) - 1 /\ Len(s) \in Nat \ {0}
  BY HeadTailProperties, EmptySeq
<1>2. \A i \in DOMAIN Tail(s) : Tail(s)[i] = s[i + 1] /\ i + 1 \in DOMAIN s /\ i \in Nat \ {0}
  BY <1>1, HeadTailProperties
<1>3. Head(s) = s[1] /\ 1 \in DOMAIN s
  BY <1>1
<1>4. QED
  BY <1>2, <1>3 DEF Distinct, ToSet

Ended == {"finished", "failed", "gone"}

-----------------------------------------------------------------------------
(* The invariant *)

\* A job is in one place: in the queue, with one worker, or with nobody.
Queued ==
    /\ Distinct(queue)
    /\ \A j \in ToSet(queue) : status[j] = "queued" /\ ~Held(j)

HeldOnce == \A v, w \in Workers : wjob[v] = wjob[w] /\ wjob[w] # None => v = w

\* Where a worker is says how its job is listed.
Running == {"acquire", "index", "write", "end"}
HeldStatus ==
    \A w \in Workers :
      /\ wpc[w] = "popped" => status[wjob[w]] = "queued"
      /\ wpc[w] \in Running => status[wjob[w]] = "started"

Place == TypeOK /\ Queued /\ HeldOnce /\ HeldStatus

LEMMA PlaceInit == Init => Place
<1> SUFFICES ASSUME Init PROVE Place
  OBVIOUS
<1> USE ConstantsAssumption
<1>1. queue = <<>> /\ queue \in Seq(Jobs)
  BY EmptySeq DEF Init
<1>2. \A w \in Workers : wpc[w] = "idle" /\ wjob[w] = None /\ seen[w] = None
  BY DEF Init, Movers
<1>3. seen \in [Movers -> Nat \cup {None}] /\ mark \in [Jobs -> Nat \cup {None}] /\ epoch \in Nat
  BY DEF Init
<1>4. /\ status \in [Jobs -> {"new", "queued", "started", "finished", "failed", "gone"}]
      /\ wpc \in [Workers -> {"idle", "popped", "acquire", "index", "write", "end"}]
      /\ wjob \in [Workers -> Jobs \cup {None}]
      /\ tmp \in [Jobs -> SUBSET {"root", "sub"}]
  BY DEF Init
<1>5. back \in BOOLEAN
  BY DEF Init
<1>6. TypeOK
  BY <1>1, <1>2, <1>3, <1>4, <1>5 DEF Init, TypeOK
<1>7. QED
  BY <1>1, <1>2, <1>6 DEF Place, Queued, HeldOnce, HeldStatus, Distinct, ToSet, Running

\* A worker that is busy holds a job.
LEMMA Busy ==
    ASSUME TypeOK, NEW w \in Workers, wpc[w] # "idle"
    PROVE  wjob[w] \in Jobs /\ Held(wjob[w])
BY ConstantsAssumption DEF TypeOK, Held

\* What Settle leaves of Place, whatever it ends the job with.
LEMMA SettlePlace ==
    ASSUME Place, NEW w \in Workers, wpc[w] # "idle",
           NEW end \in {"queued", "started", "finished", "failed"}, Settle(w, end),
           UNCHANGED <<queue, page>>, tmp' \in [Jobs -> SUBSET {"root", "sub"}],
           cut' \subseteq Jobs, deaths' \in 0..MaxDeaths, UNCHANGED <<epoch, back>>,
           seen' \in [Movers -> Nat \cup {None}], seen'[w] = None,
           \A v \in Workers \ {w} : seen'[v] = seen[v]
    PROVE  Place'
<1>1. wjob[w] \in Jobs /\ Held(wjob[w])
  BY Busy DEF Place
<1>2. TypeOK'
  <2>1. mark' \in [Jobs -> Nat \cup {None}]
    BY <1>1 DEF Place, TypeOK, Settle
  <2>2. \A v \in Workers : wpc'[v] = "write" <=> seen'[v] # None
    BY DEF Place, TypeOK, Settle
  <2>3. QED
    BY <1>1, <2>1, <2>2, ConstantsAssumption DEF Place, TypeOK, Settle, page
<1>3. \A v \in Workers : v # w => wjob'[v] = wjob[v] /\ wpc'[v] = wpc[v]
  BY DEF Place, TypeOK, Settle
<1>4. wjob'[w] = None /\ wpc'[w] = "idle"
  BY DEF Place, TypeOK, Settle
<1>5. \A j \in Jobs : j # wjob[w] => status'[j] = status[j]
  BY DEF Place, TypeOK, Settle
<1>6. \A j \in Jobs : Held(j)' => Held(j) /\ j # wjob[w]
  BY <1>1, <1>3, <1>4, ConstantsAssumption DEF Held, Place, HeldOnce
<1>7. Queued'
  <2>1. ToSet(queue) \subseteq Jobs /\ wjob[w] \notin ToSet(queue)
    BY <1>1, MembersBelong DEF Place, Queued, TypeOK
  <2>2. QED
    BY <2>1, <1>5, <1>6 DEF Place, Queued
<1>8. HeldOnce'
  BY <1>3, <1>4 DEF Place, HeldOnce
<1>9. HeldStatus'
  <2> SUFFICES ASSUME NEW v \in Workers, v # w, wpc[v] # "idle"
               PROVE  status'[wjob[v]] = status[wjob[v]]
    BY <1>3, <1>4 DEF Place, HeldStatus, Running
  <2>1. wjob[v] \in Jobs
    BY Busy DEF Place
  <2>2. wjob[v] # wjob[w]
    BY <1>1, ConstantsAssumption DEF Place, HeldOnce
  <2>3. QED
    BY <2>1, <2>2, <1>5
<1>10. QED
  BY <1>2, <1>7, <1>8, <1>9 DEF Place

\* Steps that leave queue, status and the workers' jobs alone, and workers
\* where their jobs are listed alike.
LEMMA StayPlace ==
    ASSUME Place, TypeOK', UNCHANGED <<queue, status, wjob>>,
           \A w \in Workers : wpc'[w] = wpc[w] \/ {wpc[w], wpc'[w]} \subseteq Running
    PROVE  Place'
BY DEF Place, Queued, HeldOnce, HeldStatus, Held, Running

LEMMA PlaceStep == Place /\ [Next]_vars => Place'
<1> SUFFICES ASSUME Place, [Next]_vars PROVE Place'
  OBVIOUS
<1> USE ConstantsAssumption
<1>1. ASSUME NEW j \in Jobs, Submit(j) PROVE Place'
  <2>1. queue' = Append(queue, j) /\ queue' \in Seq(Jobs) /\ ToSet(queue') = ToSet(queue) \cup {j}
    BY <1>1, MembersAfterAppend, AppendProperties DEF Submit, Place, TypeOK
  <2>2. TypeOK'
    BY <1>1, <2>1 DEF Submit, Place, TypeOK, worker, epochs, page
  <2>3. j \notin ToSet(queue) /\ ToSet(queue) \subseteq Jobs
    BY <1>1, MembersBelong DEF Submit, Place, Queued, TypeOK
  <2>4. ~Held(j)
    <3> SUFFICES ASSUME NEW w \in Workers, wjob[w] = j PROVE FALSE
      BY DEF Held
    <3>1. wpc[w] # "idle"
      BY DEF Place, TypeOK
    <3>2. QED
      BY <3>1, <1>1 DEF Place, TypeOK, HeldStatus, Running, Submit
  <2>5. Distinct(queue')
    BY <2>1, <2>3, DistinctAfterAppend DEF Place, TypeOK, Queued
  <2>6. \A k \in Jobs : Held(k)' <=> Held(k)
    BY <1>1 DEF Held, Submit, worker
  <2>7. Queued'
    BY <1>1, <2>1, <2>3, <2>4, <2>5, <2>6 DEF Queued, Place, TypeOK, Submit
  <2>8. HeldOnce' /\ HeldStatus'
    BY <1>1, <2>4 DEF Submit, worker, Place, HeldOnce, HeldStatus, TypeOK, Held, Running
  <2>9. QED
    BY <2>2, <2>7, <2>8 DEF Place
<1>2. ASSUME NEW w \in Workers, Pop(w) PROVE Place'
  <2>1. /\ Head(queue) \in Jobs /\ Head(queue) \in ToSet(queue)
        /\ queue' \in Seq(Jobs) /\ ToSet(queue) = ToSet(queue') \cup {Head(queue)}
        /\ Distinct(queue') /\ Head(queue) \notin ToSet(queue')
    BY <1>2, MembersAfterTail, DistinctAfterTail DEF Pop, Place, TypeOK, Queued
  <2>2. TypeOK'
    BY <1>2, <2>1 DEF Pop, Place, TypeOK, epochs, page
  <2>3. \A v \in Workers : v # w => wjob'[v] = wjob[v] /\ wpc'[v] = wpc[v]
    BY <1>2 DEF Pop, Place, TypeOK
  <2>4. wjob'[w] = Head(queue) /\ wpc'[w] = "popped" /\ status' = status
    BY <1>2 DEF Pop, Place, TypeOK
  <2>5. ~Held(Head(queue)) /\ status[Head(queue)] = "queued"
    BY <2>1 DEF Place, Queued
  <2>6. Queued'
    BY <2>1, <2>3, <2>4 DEF Queued, Place, Held
  <2>7. HeldOnce'
    BY <2>3, <2>4, <2>5 DEF HeldOnce, Place, Held
  <2>8. HeldStatus'
    BY <2>3, <2>4, <2>5 DEF HeldStatus, Place, Running
  <2>9. QED
    BY <2>2, <2>6, <2>7, <2>8 DEF Place
<1>3. ASSUME NEW w \in Workers, Begin(w) PROVE Place'
  <2>1. wjob[w] \in Jobs /\ Held(wjob[w])
    BY <1>3, Busy DEF Begin, Place
  <2>2. TypeOK'
    BY <1>3, <2>1 DEF Begin, Goto, Place, TypeOK, epochs, page
  <2>3. wjob[w] \notin ToSet(queue) /\ ToSet(queue) \subseteq Jobs
    BY <2>1, MembersBelong DEF Place, Queued, TypeOK
  <2>4. Queued'
    BY <1>3, <2>3 DEF Begin, Goto, Place, Queued, TypeOK, Held
  <2>5. HeldOnce'
    BY <1>3 DEF Begin, Goto, Place, HeldOnce
  <2>6. HeldStatus'
    <3> SUFFICES ASSUME NEW v \in Workers, v # w, wpc[v] # "idle"
                 PROVE  status'[wjob[v]] = status[wjob[v]]
      BY <1>3, <2>1 DEF Begin, Goto, Place, HeldStatus, TypeOK, Running
    <3>1. wjob[v] # wjob[w]
      BY <2>1 DEF Place, HeldOnce
    <3>2. QED
      BY <1>3, <3>1, Busy DEF Begin, Place, TypeOK
  <2>7. QED
    BY <2>2, <2>4, <2>5, <2>6 DEF Place
<1>4. ASSUME NEW w \in Workers, Acquire(w) PROVE Place'
  <2>1. wjob[w] \in Jobs
    BY <1>4, Busy DEF Acquire, Place
  <2>2. TypeOK'
    BY <1>4, <2>1 DEF Acquire, Goto, Folders, Place, TypeOK, epochs, page
  <2>3. QED
    BY <1>4, <2>2, StayPlace DEF Acquire, Goto, Place, TypeOK, Running
<1>5. ASSUME NEW w \in Workers, AcquireRaises(w) PROVE Place'
  <2>1. wjob[w] \in Jobs
    BY <1>5, Busy DEF AcquireRaises, Place
  <2>2. tmp' \in [Jobs -> SUBSET {"root", "sub"}] /\ cut' \subseteq Jobs
    BY <1>5, <2>1 DEF AcquireRaises, Place, TypeOK
  <2>3. QED
    BY <1>5, <2>2, SettlePlace DEF AcquireRaises, epochs, Place, TypeOK
<1>6. ASSUME NEW w \in Workers, IndexWrites(w) PROVE Place'
  <2>1. TypeOK'
    BY <1>6, Busy DEF IndexWrites, worker, page, Place, TypeOK
  <2>2. QED
    BY <1>6, <2>1, StayPlace DEF IndexWrites, worker
<1>7. ASSUME NEW w \in Workers, IndexRaises(w) PROVE Place'
  <2>1. wjob[w] \in Jobs
    BY <1>7, Busy DEF IndexRaises, Place
  <2>2. tmp' \in [Jobs -> SUBSET {"root", "sub"}]
    BY <1>7, <2>1 DEF IndexRaises, RemoveFolder, Remaining, Place, TypeOK
  <2>3. QED
    BY <1>7, <2>2, SettlePlace DEF IndexRaises, epochs, Place, TypeOK
<1>8. ASSUME NEW w \in Workers, ReadEpoch(w) PROVE Place'
  <2>1. wjob[w] \in Jobs
    BY <1>8, Busy DEF ReadEpoch, Place
  <2>2. tmp' \in [Jobs -> SUBSET {"root", "sub"}]
    BY <1>8, <2>1 DEF ReadEpoch, RemoveFolder, Remaining, Place, TypeOK
  <2>3. w \in Movers
    BY DEF Movers
  <2>4. TypeOK'
    BY <1>8, <2>2, <2>3 DEF ReadEpoch, Goto, page, Place, TypeOK
  <2>5. QED
    BY <1>8, <2>4, StayPlace DEF ReadEpoch, Goto, Place, TypeOK, Running
<1>9. ASSUME NEW w \in Workers, WriteEpoch(w) PROVE Place'
  <2>1. w \in Movers /\ seen[w] \in Nat
    BY <1>9 DEF WriteEpoch, Movers, Place, TypeOK
  <2>2. epoch' \in Nat /\ back' \in BOOLEAN
    BY <1>9, <2>1 DEF WriteEpoch, SetSuccessor, Place, TypeOK
  <2>3. TypeOK'
    BY <1>9, <2>1, <2>2 DEF WriteEpoch, SetSuccessor, Goto, page, Place, TypeOK
  <2>4. QED
    BY <1>9, <2>3, StayPlace DEF WriteEpoch, Goto, Place, TypeOK, Running
<1>10. ASSUME NEW w \in Workers, Finish(w) PROVE Place'
  BY <1>10, SettlePlace DEF Finish, epochs, Place, TypeOK
<1>11. ASSUME NEW w \in Workers, Die(w) PROVE Place'
  <2>1. wjob[w] \in Jobs /\ w \in Movers
    BY <1>11, Busy DEF Die, Place, Movers
  <2>2. status[wjob[w]] \in {"queued", "started"}
    BY <1>11 DEF Die, Place, TypeOK, HeldStatus, Running
  <2>3. PICK end \in {status[wjob[w]], "failed"} : Settle(w, end)
    BY <1>11 DEF Die
  <2>4. deaths' \in 0..MaxDeaths
    BY <1>11 DEF Die, Place, TypeOK
  <2>5. /\ seen' \in [Movers -> Nat \cup {None}] /\ seen'[w] = None
        /\ \A v \in Workers \ {w} : seen'[v] = seen[v]
    BY <1>11, <2>1 DEF Die, Movers, Place, TypeOK
  <2>6. QED
    BY <1>11, <2>1, <2>2, <2>3, <2>4, <2>5, SettlePlace DEF Die, Place, TypeOK
<1>12. ASSUME NEW j \in Jobs, Abandon(j) PROVE Place'
  <2>1. TypeOK'
    BY <1>12 DEF Abandon, worker, epochs, page, Place, TypeOK
  <2>2. j \notin ToSet(queue) /\ ToSet(queue) \subseteq Jobs
    BY <1>12, MembersBelong DEF Abandon, HandOver, Place, Queued, TypeOK
  <2>3. \A k \in Jobs : k # j => status'[k] = status[k]
    BY <1>12 DEF Abandon, Place, TypeOK
  <2>4. Queued' /\ HeldOnce'
    BY <1>12, <2>2, <2>3 DEF Abandon, worker, Place, Queued, HeldOnce, Held
  <2>5. \A w \in Workers : wpc[w] # "idle" => wjob[w] # j /\ wjob[w] \in Jobs
    BY <1>12, Busy DEF Abandon, Place
  <2>6. HeldStatus'
    BY <1>12, <2>3, <2>5 DEF Abandon, worker, Place, HeldStatus, Running
  <2>7. QED
    BY <2>1, <2>4, <2>6 DEF Place
<1>13. ASSUME NEW j \in Jobs, Expire(j) PROVE Place'
  <2>1. TypeOK'
    BY <1>13 DEF Expire, worker, epochs, page, Place, TypeOK
  <2>2. j \notin ToSet(queue) /\ ToSet(queue) \subseteq Jobs
    BY <1>13, MembersBelong DEF Expire, Place, Queued, TypeOK
  <2>3. \A k \in Jobs : k # j => status'[k] = status[k]
    BY <1>13 DEF Expire, Place, TypeOK
  <2>4. Queued' /\ HeldOnce'
    BY <1>13, <2>2, <2>3 DEF Expire, worker, Place, Queued, HeldOnce, Held
  <2>5. \A w \in Workers : wpc[w] # "idle" => wjob[w] \in Jobs
    BY Busy DEF Place
  <2>6. \A w \in Workers : wpc[w] # "idle" => wjob[w] # j
    BY <1>13 DEF Expire, Place, TypeOK, HeldStatus, Running
  <2>7. HeldStatus'
    BY <1>13, <2>3, <2>5, <2>6 DEF Expire, worker, Place, HeldStatus, Running
  <2>8. QED
    BY <2>1, <2>4, <2>7 DEF Place
<1>14. CASE Viewing \/ Rerun
  <2>1. UNCHANGED <<queue, status, worker, tmp, epochs, mark, cut, deaths>>
    BY <1>14 DEF Viewing, Rerun, Read, Still, Poll, Draw, Tick
  <2>2. TypeOK'
    <3>1. ToSet(queue) \subseteq Jobs
      BY MembersBelong DEF Place, TypeOK
    <3>2. \A k \in 1..4 : Part(k) \subseteq Jobs
      BY <3>1 DEF Part, WithStatus
    <3>3. mode' \in {"still", "decide", "polling"} /\ ppc' \in 0..5
      BY <1>14 DEF Viewing, Rerun, Read, Still, Poll, Draw, Tick, StartList, Place, TypeOK
    <3>4. ids' \subseteq Jobs /\ owed' \subseteq Jobs /\ settled' \subseteq Jobs
      BY <1>14, <3>2 DEF Viewing, Rerun, Read, Still, Poll, Draw, Tick, StartList, Listed, Place, TypeOK
    <3>5. QED
      BY <2>1, <3>3, <3>4 DEF Place, TypeOK, worker, epochs
  <2>3. QED
    BY <2>1, <2>2, StayPlace DEF worker
<1>15. CASE UNCHANGED vars
  <2>1. TypeOK'
    BY <1>15 DEF vars, worker, epochs, page, Place, TypeOK
  <2>2. QED
    BY <1>15, <2>1, StayPlace DEF vars, worker
<1>16. CASE AdminReads \/ AdminWrites
  <2>1. Admin \in Movers /\ \A w \in Workers : w # Admin
    BY DEF Movers
  <2>2. epoch' \in Nat /\ back' \in BOOLEAN /\ mark' = mark
    <3>1. CASE AdminReads
      BY <3>1 DEF AdminReads, Place, TypeOK
    <3>2. CASE AdminWrites
      <4>1. seen[Admin] \in Nat /\ mark' = mark
        BY <2>1, <3>2 DEF AdminWrites, Place, TypeOK
      <4>2. epoch' \in Nat
        BY <3>2, <4>1 DEF AdminWrites, SetSuccessor
      <4>3. back' \in BOOLEAN
        BY <3>2 DEF AdminWrites, SetSuccessor
      <4>4. QED
        BY <4>1, <4>2, <4>3
    <3>3. QED
      BY <1>16, <3>1, <3>2
  <2>3. /\ seen' \in [Movers -> Nat \cup {None}]
        /\ \A w \in Workers : seen'[w] = seen[w]
    BY <1>16, <2>1 DEF AdminReads, AdminWrites, SetSuccessor, Movers, Place, TypeOK
  <2>4. UNCHANGED <<queue, status, worker, tmp, cut, deaths, page>>
    BY <1>16 DEF AdminReads, AdminWrites
  <2>5. TypeOK'
    BY <2>2, <2>3, <2>4 DEF worker, page, Place, TypeOK
  <2>6. QED
    BY <2>4, <2>5, StayPlace DEF worker
<1>17. QED
  BY <1>1, <1>2, <1>3, <1>4, <1>5, <1>6, <1>7, <1>8, <1>9, <1>10, <1>11, <1>12, <1>13,
     <1>14, <1>15, <1>16
     DEF Next, Work

\* Type correctness: a worker has a job exactly while it is in one, whatever
\* RQ's housekeeping and the page do (redis_queue.py, runner.py).
THEOREM TypeCorrect == Spec => []TypeOK
<1>1. Place => TypeOK
  BY DEF Place
<1>2. QED
  BY PlaceInit, PlaceStep, <1>1, PTL DEF Spec

LEMMA PlaceHolds == Spec => []Place
BY PlaceInit, PlaceStep, PTL DEF Spec

-----------------------------------------------------------------------------
(* How a job's status moves *)

Forward(j) ==
    status'[j] # status[j] =>
      CASE status[j] = "new"     -> status'[j] = "queued"
        [] status[j] = "queued"  -> status'[j] \in {"started", "failed"}
        [] status[j] = "started" -> status'[j] \in {"finished", "failed"}
        [] OTHER                 -> status'[j] = "gone"

LEMMA MovesForward ==
    ASSUME Place, [Next]_vars, NEW j \in Jobs
    PROVE  Forward(j)
<1> USE ConstantsAssumption DEF Place, TypeOK, Forward
<1>1. ASSUME NEW w \in Workers, wpc[w] # "idle",
             NEW end \in {"queued", "started", "finished", "failed"}, Settle(w, end)
      PROVE  status'[j] = IF wjob[w] = j THEN end ELSE status[j]
  BY <1>1, Busy DEF Settle
<1>2. ASSUME NEW w \in Workers,
             Pop(w) \/ Acquire(w) \/ IndexWrites(w) \/ ReadEpoch(w) \/ WriteEpoch(w)
      PROVE  Forward(j)
  BY <1>2 DEF Pop, Acquire, IndexWrites, ReadEpoch, WriteEpoch
<1>3. ASSUME NEW w \in Workers, Begin(w) PROVE Forward(j)
  BY <1>3 DEF Begin, HeldStatus
<1>4. ASSUME NEW w \in Workers, AcquireRaises(w) \/ IndexRaises(w) \/ Finish(w)
      PROVE  Forward(j)
  BY <1>1, <1>4 DEF AcquireRaises, IndexRaises, Finish, HeldStatus, Running
<1>5. ASSUME NEW w \in Workers, Die(w) PROVE Forward(j)
  <2>1. status[wjob[w]] \in {"queued", "started"}
    BY <1>5 DEF Die, HeldStatus, Running
  <2>2. PICK end \in {status[wjob[w]], "failed"} : Settle(w, end)
    BY <1>5 DEF Die
  <2>3. status'[j] = IF wjob[w] = j THEN end ELSE status[j]
    BY <1>1, <1>5, <2>1, <2>2 DEF Die
  <2>4. QED
    BY <2>1, <2>2, <2>3
<1>6. ASSUME NEW k \in Jobs, Submit(k) \/ Abandon(k) \/ Expire(k) PROVE Forward(j)
  BY <1>6 DEF Submit, Abandon, Expire, HandOver
<1>7. CASE AdminReads \/ AdminWrites \/ Viewing \/ Rerun \/ UNCHANGED vars
  BY <1>7 DEF AdminReads, AdminWrites, Viewing, Rerun, Read, Still, Poll, Draw, Tick, vars
<1>8. QED
  BY <1>2, <1>3, <1>4, <1>5, <1>6, <1>7 DEF Next, Work

\* Neither the death of a worker nor RQ's housekeeping takes a job back or
\* changes how it ended (job_view, redis_queue.py:48).
THEOREM StatusMovesForwardHolds == Spec => StatusMovesForward
<1>1. Place /\ [Next]_vars =>
        [\A j \in Jobs :
           status'[j] # status[j] =>
             CASE status[j] = "new"     -> status'[j] = "queued"
               [] status[j] = "queued"  -> status'[j] \in {"started", "failed"}
               [] status[j] = "started" -> status'[j] \in {"finished", "failed"}
               [] OTHER                 -> status'[j] = "gone"]_status
  BY MovesForward DEF Forward
<1>2. QED
  BY PlaceHolds, <1>1, PTL DEF Spec, StatusMovesForward

-----------------------------------------------------------------------------
(* What a finished job wrote is covered by an epoch *)

\* The epoch a mover has read is not above the present one, and it is not
\* below a write of its job.
Covered ==
    \/ back
    \/ /\ \A c \in Movers : seen[c] # None => seen[c] <= epoch
       /\ \A j \in Jobs : mark[j] # None => mark[j] <= epoch
       /\ \A w \in Workers : mark[wjob[w]] # None =>
            /\ wpc[w] = "write" => mark[wjob[w]] <= seen[w]
            /\ wpc[w] = "end" => mark[wjob[w]] < epoch
       /\ \A j \in Jobs : status[j] = "finished" /\ mark[j] # None => mark[j] < epoch

\* A mover sets the successor of what it has read: the epoch does not shrink,
\* unless the write is late.
LEMMA GrowsUnlessLate ==
    ASSUME TypeOK, NEW c \in Movers, seen[c] # None, SetSuccessor(c), ~back'
    PROVE  ~back /\ epoch' \in Nat /\ epoch <= epoch' /\ epoch' = seen[c] + 1
<1>1. seen[c] \in Nat /\ epoch \in Nat /\ epoch' = seen[c] + 1
  BY ConstantsAssumption DEF TypeOK, SetSuccessor
<1>2. ~back /\ ~(epoch' < epoch)
  BY DEF SetSuccessor
<1>3. QED
  BY <1>1, <1>2

LEMMA CoveredStep == Place /\ Covered /\ [Next]_vars => Covered'
<1> SUFFICES ASSUME Place, Covered, [Next]_vars, ~back' PROVE Covered'
  BY DEF Covered
<1> USE ConstantsAssumption DEF Place, TypeOK, Covered
<1>1. \A w \in Workers : wpc[w] # "idle" => wjob[w] \in Jobs
  BY Busy
<1>2. \A v, w \in Workers : wpc[v] # "idle" /\ v # w => wjob[v] # wjob[w]
  BY DEF HeldOnce
<1>3. \A w \in Workers : w \in Movers
  BY DEF Movers
<1>4. ASSUME NEW w \in Workers, wpc[w] # "idle",
             NEW end \in {"queued", "started", "finished", "failed"}, Settle(w, end),
             end = "finished" => wpc[w] = "end", UNCHANGED <<epoch, back>>,
             \A c \in Movers : seen'[c] = seen[c] \/ seen'[c] = None
      PROVE  Covered'
  <2>1. \A v \in Workers : v # w => wpc'[v] = wpc[v] /\ wjob'[v] = wjob[v]
    BY <1>4 DEF Settle
  <2>2. wpc'[w] = "idle"
    BY <1>4 DEF Settle
  <2>3. \A j \in Jobs : j # wjob[w] => mark'[j] = mark[j] /\ status'[j] = status[j]
    BY <1>4 DEF Settle
  <2>4. /\ status'[wjob[w]] = end
        /\ mark'[wjob[w]] = IF end = "finished" THEN mark[wjob[w]] ELSE None
    BY <1>1, <1>4 DEF Settle
  <2>5. \A v \in Workers : v # w /\ wpc[v] = "write" => seen'[v] = seen[v]
    BY <1>3, <1>4, <2>1, PlaceStep
  <2>6. ~back
    BY <1>4
  <2>7. \A v \in Workers : wpc'[v] \in {"write", "end"} =>
           v # w /\ wjob'[v] \in Jobs /\ mark'[wjob'[v]] = mark[wjob[v]]
    BY <1>1, <1>2, <2>1, <2>2, <2>3
  <2>8. QED
    BY <1>4, <2>1, <2>2, <2>3, <2>4, <2>5, <2>6, <2>7
<1>5. ASSUME NEW w \in Workers, Pop(w) \/ Begin(w) \/ Acquire(w) PROVE Covered'
  <2>1. UNCHANGED <<epoch, seen, back, mark>>
    BY <1>5 DEF Pop, Begin, Acquire, epochs
  <2>2. \A v \in Workers : wpc'[v] \in {"write", "end"} => wpc'[v] = wpc[v] /\ wjob'[v] = wjob[v]
    BY <1>5 DEF Pop, Begin, Acquire, Goto
  <2>3. \A j \in Jobs : status'[j] = "finished" => status[j] = "finished"
    BY <1>1, <1>5 DEF Pop, Begin, Acquire
  <2>4. QED
    BY <2>1, <2>2, <2>3
<1>6. ASSUME NEW w \in Workers, AcquireRaises(w) \/ IndexRaises(w) \/ Finish(w) PROVE Covered'
  BY <1>4, <1>6 DEF AcquireRaises, IndexRaises, Finish, epochs
<1>7. ASSUME NEW w \in Workers, IndexWrites(w) PROVE Covered'
  <2>1. /\ UNCHANGED <<epoch, seen, back, status, wpc, wjob>>
        /\ wjob[w] \in Jobs /\ status[wjob[w]] = "started"
        /\ \A j \in Jobs : mark'[j] = IF j = wjob[w] THEN epoch ELSE mark[j]
    BY <1>1, <1>7 DEF IndexWrites, worker, HeldStatus, Running
  <2>2. \A v \in Workers : wpc[v] \in {"write", "end"} =>
           wjob[v] \in Jobs /\ mark'[wjob[v]] = mark[wjob[v]]
    BY <1>1, <1>2, <1>7, <2>1 DEF IndexWrites
  <2>3. QED
    BY <2>1, <2>2
<1>8. ASSUME NEW w \in Workers, ReadEpoch(w) PROVE Covered'
  <2>1. /\ UNCHANGED <<epoch, back, status, mark, wjob>>
        /\ \A c \in Movers : seen'[c] = IF c = w THEN epoch ELSE seen[c]
        /\ \A v \in Workers : wpc'[v] = IF v = w THEN "write" ELSE wpc[v]
    BY <1>3, <1>8 DEF ReadEpoch, Goto
  <2>2. wjob[w] \in Jobs
    BY <1>1, <1>8 DEF ReadEpoch
  <2>3. QED
    BY <1>3, <2>1, <2>2
<1>9. ASSUME NEW w \in Workers, WriteEpoch(w) PROVE Covered'
  <2>1. seen[w] # None /\ w \in Movers /\ wjob[w] \in Jobs
    BY <1>1, <1>3, <1>9 DEF WriteEpoch
  <2>2. ~back /\ epoch' \in Nat /\ epoch <= epoch' /\ epoch' = seen[w] + 1
    BY <1>9, <2>1, GrowsUnlessLate DEF WriteEpoch
  <2>3. /\ UNCHANGED <<status, mark, wjob>>
        /\ \A c \in Movers : seen'[c] = IF c = w THEN None ELSE seen[c]
        /\ \A v \in Workers : wpc'[v] = IF v = w THEN "end" ELSE wpc[v]
    BY <1>9, <2>1 DEF WriteEpoch, SetSuccessor, Goto
  <2>4. \A v \in Workers : wpc[v] # "idle" /\ mark[wjob[v]] # None => mark[wjob[v]] \in Nat
    BY <1>1
  <2>5. \A v \in Workers : mark'[wjob'[v]] # None =>
            /\ wpc'[v] = "write" => mark'[wjob'[v]] <= seen'[v]
            /\ wpc'[v] = "end" => mark'[wjob'[v]] < epoch'
    BY <1>3, <1>9, <2>1, <2>2, <2>3, <2>4 DEF WriteEpoch
  <2>6. /\ \A c \in Movers : seen'[c] # None => seen'[c] <= epoch'
        /\ \A j \in Jobs : mark'[j] # None => mark'[j] <= epoch'
        /\ \A j \in Jobs : status'[j] = "finished" /\ mark'[j] # None => mark'[j] < epoch'
    BY <2>2, <2>3
  <2>7. QED
    BY <2>5, <2>6
<1>10. CASE AdminReads
  BY <1>3, <1>10 DEF AdminReads, worker, Movers
<1>11. CASE AdminWrites
  <2>1. Admin \in Movers /\ Admin \notin Workers /\ seen[Admin] # None
    BY <1>11 DEF AdminWrites, Movers
  <2>2. ~back /\ epoch' \in Nat /\ epoch <= epoch'
    BY <1>11, <2>1, GrowsUnlessLate DEF AdminWrites
  <2>3. /\ UNCHANGED <<status, mark, wpc, wjob>>
        /\ \A c \in Movers : seen'[c] = IF c = Admin THEN None ELSE seen[c]
    BY <1>11, <2>1 DEF AdminWrites, SetSuccessor, worker
  <2>4. \A v \in Workers : wpc[v] # "idle" /\ mark[wjob[v]] # None => mark[wjob[v]] \in Nat
    BY <1>1
  <2>5. \A v \in Workers : mark'[wjob'[v]] # None =>
            /\ wpc'[v] = "write" => mark'[wjob'[v]] <= seen'[v]
            /\ wpc'[v] = "end" => mark'[wjob'[v]] < epoch'
    BY <1>3, <2>1, <2>2, <2>3, <2>4
  <2>6. /\ \A c \in Movers : seen'[c] # None => seen'[c] <= epoch'
        /\ \A j \in Jobs : mark'[j] # None => mark'[j] <= epoch'
        /\ \A j \in Jobs : status'[j] = "finished" /\ mark'[j] # None => mark'[j] < epoch'
    BY <2>2, <2>3
  <2>7. QED
    BY <2>5, <2>6
<1>12. ASSUME NEW w \in Workers, Die(w) PROVE Covered'
  <2>1. status[wjob[w]] \in {"queued", "started"}
    BY <1>12 DEF Die, HeldStatus, Running
  <2>2. PICK end \in {status[wjob[w]], "failed"} : Settle(w, end)
    BY <1>12 DEF Die
  <2>3. \A c \in Movers : seen'[c] = seen[c] \/ seen'[c] = None
    BY <1>12 DEF Die
  <2>4. QED
    BY <1>4, <1>12, <2>1, <2>2, <2>3 DEF Die
<1>13. ASSUME NEW j \in Jobs, Submit(j) \/ Abandon(j) PROVE Covered'
  BY <1>13 DEF Submit, Abandon, worker, epochs
<1>14. ASSUME NEW j \in Jobs, Expire(j) PROVE Covered'
  <2>1. /\ UNCHANGED <<epoch, seen, back, wpc, wjob>>
        /\ \A k \in Jobs : k # j => mark'[k] = mark[k] /\ status'[k] = status[k]
        /\ mark'[j] = None
    BY <1>14 DEF Expire, worker, epochs
  <2>2. \A w \in Workers : wpc[w] \in {"write", "end"} => wjob[w] \in Jobs /\ wjob[w] # j
    BY <1>1, <1>14 DEF Expire, HeldStatus, Running
  <2>3. QED
    BY <2>1, <2>2
<1>15. CASE Viewing \/ Rerun \/ UNCHANGED vars
  BY <1>15 DEF Viewing, Rerun, Read, Still, Poll, Draw, Tick, vars, worker, epochs
<1>16. QED
  BY <1>5, <1>6, <1>7, <1>8, <1>9, <1>10, <1>11, <1>12, <1>13, <1>14, <1>15 DEF Next, Work

\* What a job that is reported as done wrote to the index was written under
\* epochs below the present one, for any number of workers that read and set
\* the epoch in two steps, unless a late write has taken it back (the order of
\* index_path, bump_epoch and return, runner.py:37-45, cache.py:133-137).
THEOREM DoneIsPublishedHolds == Spec => []DoneIsPublished
<1>1. Init => Covered
  BY DEF Init, Covered
<1>2. Place /\ Covered => DoneIsPublished
  BY DEF Covered, DoneIsPublished
<1>3. QED
  BY PlaceHolds, <1>1, CoveredStep, <1>2, PTL DEF Spec


-----------------------------------------------------------------------------
(* What becomes of the temporary folders *)

Rests(j) == IF j \in Archives THEN {{}} ELSE {{}, {"root"}}

FoldersKept ==
    /\ \A j \in Jobs : status[j] \in {"new", "queued"} => tmp[j] = {}
    /\ \A w \in Workers :
         /\ wpc[w] = "acquire" => tmp[wjob[w]] = {}
         /\ wpc[w] = "index" => tmp[wjob[w]] \in Folders(wjob[w])
         /\ wpc[w] \in {"write", "end"} => tmp[wjob[w]] \in Rests(wjob[w])

LEMMA FoldersStep ==
    Place /\ FoldersKept /\ LeftoversExplained /\ [Next]_vars
      => FoldersKept' /\ LeftoversExplained'
<1> SUFFICES ASSUME Place, FoldersKept, LeftoversExplained, [Next]_vars
             PROVE  FoldersKept' /\ LeftoversExplained'
  OBVIOUS
<1> USE ConstantsAssumption DEF Place, TypeOK, FoldersKept, LeftoversExplained, Rests, Held
<1>1. \A w \in Workers : wpc[w] # "idle" => wjob[w] \in Jobs
  BY Busy
<1>2. \A v, w \in Workers : wpc[v] # "idle" /\ v # w => wjob[v] # wjob[w]
  BY DEF HeldOnce
<1>3. ASSUME NEW w \in Workers, wpc[w] # "idle",
             NEW end \in {"queued", "started", "finished", "failed"}, Settle(w, end),
             \A j \in Jobs : j # wjob[w] => tmp'[j] = tmp[j],
             cut \subseteq cut', wjob[w] \in cut' \/ tmp'[wjob[w]] \in Rests(wjob[w]),
             end = "queued" => tmp'[wjob[w]] = {}
      PROVE  FoldersKept' /\ LeftoversExplained'
  <2>1. \A v \in Workers : v # w => wpc'[v] = wpc[v] /\ wjob'[v] = wjob[v]
    BY <1>3 DEF Settle
  <2>2. wpc'[w] = "idle" /\ wjob'[w] = None
    BY <1>3 DEF Settle
  <2>3. \A j \in Jobs : status'[j] = IF j = wjob[w] THEN end ELSE status[j]
    BY <1>1, <1>3 DEF Settle
  <2>4. FoldersKept'
    BY <1>1, <1>2, <1>3, <2>1, <2>2, <2>3
  <2>5. LeftoversExplained'
    <3> SUFFICES ASSUME NEW j \in Jobs, j # wjob[w], ~Held(j)'
                 PROVE  j \in cut' \/ tmp'[j] \in Rests(j)
      BY <1>3, SMTT(60)
    <3>1. ~Held(j)
      BY <2>1
    <3>2. QED
      BY <1>3, <3>1
  <2>6. QED
    BY <2>4, <2>5
<1>4. ASSUME NEW w \in Workers, Pop(w) PROVE FoldersKept' /\ LeftoversExplained'
  <2>1. Head(queue) \in Jobs /\ status[Head(queue)] = "queued"
    BY <1>4, MembersAfterTail DEF Pop, Queued
  <2>2. \A v \in Workers : v # w => wpc'[v] = wpc[v] /\ wjob'[v] = wjob[v]
    BY <1>4 DEF Pop
  <2>3. wpc'[w] = "popped" /\ wjob[w] = None /\ wjob'[w] = Head(queue)
    BY <1>4 DEF Pop
  <2>4. FoldersKept'
    BY <1>4, <2>2, <2>3 DEF Pop
  <2>5. LeftoversExplained'
    BY <1>4, <2>1, <2>2, <2>3 DEF Pop
  <2>6. QED
    BY <2>4, <2>5
<1>5. ASSUME NEW w \in Workers, Begin(w) PROVE FoldersKept' /\ LeftoversExplained'
  BY <1>1, <1>5 DEF Begin, Goto, HeldStatus
<1>6. ASSUME NEW w \in Workers, Acquire(w) PROVE FoldersKept' /\ LeftoversExplained'
  <2>1. status[wjob[w]] = "started" /\ wjob[w] \in Jobs
    BY <1>1, <1>6 DEF Acquire, HeldStatus, Running
  <2>2. \A j \in Jobs : j # wjob[w] => tmp'[j] = tmp[j]
    BY <1>6 DEF Acquire
  <2>3. tmp'[wjob[w]] \in Folders(wjob[w])
    BY <1>6, <2>1 DEF Acquire
  <2>4. QED
    BY <1>1, <1>2, <1>6, <2>1, <2>2, <2>3 DEF Acquire, Goto
<1>7. ASSUME NEW w \in Workers, AcquireRaises(w)
      PROVE  FoldersKept' /\ LeftoversExplained'
  BY <1>3, <1>7 DEF AcquireRaises
<1>8. ASSUME NEW w \in Workers, IndexWrites(w)
      PROVE  FoldersKept' /\ LeftoversExplained'
  BY <1>8 DEF IndexWrites, worker
<1>9. ASSUME NEW w \in Workers, IndexRaises(w) \/ ReadEpoch(w)
      PROVE  FoldersKept' /\ LeftoversExplained'
  <2>1. status[wjob[w]] = "started" /\ wjob[w] \in Jobs
    BY <1>1, <1>9 DEF IndexRaises, ReadEpoch, HeldStatus, Running
  <2>2. \A j \in Jobs : j # wjob[w] => tmp'[j] = tmp[j]
    BY <1>9 DEF IndexRaises, ReadEpoch, RemoveFolder
  <2>3. tmp'[wjob[w]] \in Rests(wjob[w])
    BY <1>9, <2>1 DEF IndexRaises, ReadEpoch, RemoveFolder, Remaining, Folders
  <2>4. CASE IndexRaises(w)
    BY <1>3, <2>2, <2>3, <2>4 DEF IndexRaises
  <2>5. CASE ReadEpoch(w)
    BY <1>1, <1>2, <2>1, <2>2, <2>3, <2>5 DEF ReadEpoch, Goto
  <2>6. QED
    BY <1>9, <2>4, <2>5
<1>10. ASSUME NEW w \in Workers, WriteEpoch(w) PROVE FoldersKept' /\ LeftoversExplained'
  BY <1>10 DEF WriteEpoch, Goto
<1>11. ASSUME NEW w \in Workers, Finish(w) PROVE FoldersKept' /\ LeftoversExplained'
  <2>1. wpc[w] # "idle" /\ Settle(w, "finished") /\ tmp' = tmp /\ cut' = cut
    BY <1>11 DEF Finish
  <2>2. tmp'[wjob[w]] \in Rests(wjob[w])
    BY <1>11, <2>1 DEF Finish
  <2>3. QED
    BY <1>3, <2>1, <2>2
<1>12. ASSUME NEW w \in Workers, Die(w) PROVE FoldersKept' /\ LeftoversExplained'
  <2>1. status[wjob[w]] \in {"queued", "started"} /\ wjob[w] \in Jobs
    BY <1>1, <1>12 DEF Die, HeldStatus, Running
  <2>2. PICK end \in {status[wjob[w]], "failed"} : Settle(w, end)
    BY <1>12 DEF Die
  <2>3. end = "queued" => tmp'[wjob[w]] = {}
    BY <1>12, <2>1 DEF Die
  <2>4. QED
    BY <1>3, <1>12, <2>1, <2>2, <2>3 DEF Die
<1>13. ASSUME NEW j \in Jobs, Submit(j) \/ Abandon(j) \/ Expire(j)
       PROVE  FoldersKept' /\ LeftoversExplained'
  BY <1>13 DEF Submit, Abandon, Expire, HandOver, worker
<1>14. CASE AdminReads \/ AdminWrites \/ Viewing \/ Rerun \/ UNCHANGED vars
  BY <1>14 DEF AdminReads, AdminWrites, Viewing, Rerun, Read, Still, Poll, Draw, Tick, vars, worker
<1>15. QED
  BY <1>4, <1>5, <1>6, <1>7, <1>8, <1>9, <1>10, <1>11, <1>12, <1>13, <1>14 DEF Next, Work

\* A folder outlives its job only when the job was killed or refused; of a
\* tarball the outer folder always may (acquire.py:34, 74, runner.py:41).
THEOREM LeftoversExplainedHolds == Spec => []LeftoversExplained
<1>1. Init => FoldersKept /\ LeftoversExplained
  BY DEF Init, FoldersKept, LeftoversExplained, Rests
<1>2. QED
  BY PlaceHolds, <1>1, FoldersStep, PTL DEF Spec

-----------------------------------------------------------------------------
(* What list can miss *)

\* A job owed to the list moves only forward, away from what was read.
Ahead ==
    \A j \in owed :
      /\ ppc >= 1 => status[j] # "new"
      /\ ppc >= 2 => j \notin ToSet(queue)
      /\ ppc >= 3 => status[j] \in Ended \cup {"failed"}
      /\ ppc >= 4 => status[j] \in {"failed", "gone"}
      /\ ppc >= 5 => status[j] = "gone"

LEMMA AheadStep == Place /\ Ahead /\ [Next]_vars => Ahead'
<1> SUFFICES ASSUME Place, Ahead, [Next]_vars PROVE Ahead'
  OBVIOUS
<1> USE ConstantsAssumption DEF Place, TypeOK, Ahead
<1>1. CASE UNCHANGED page
  <2>1. \A j \in Jobs : j \in ToSet(queue') => j \in ToSet(queue) \/ status[j] = "new"
    <3>1. CASE queue' = queue
      BY <3>1
    <3>2. CASE \E k \in Jobs : Submit(k)
      BY <3>2, MembersAfterAppend DEF Submit
    <3>3. CASE \E w \in Workers : Pop(w)
      BY <3>3, MembersAfterTail DEF Pop
    <3>4. QED
      BY <3>1, <3>2, <3>3
         DEF Next, Work, Begin, Acquire, AcquireRaises, IndexWrites, IndexRaises, ReadEpoch,
             WriteEpoch, AdminReads, AdminWrites, Finish, Die, Abandon, Expire, Viewing, Rerun, Read, Still, Poll, Draw, Tick, vars
  <2>2. ASSUME NEW j \in owed PROVE Forward(j) /\ j \in Jobs
    BY <2>2, MovesForward
  <2>3. QED
    BY <1>1, <2>1, <2>2 DEF page, Forward, Ended
<1>2. CASE Viewing \/ Rerun
  <2>1. UNCHANGED <<queue, status>>
    BY <1>2 DEF Viewing, Rerun, Read, Still, Poll, Draw, Tick
  <2>2. CASE Read
    <3>1. ppc \in 1..4 /\ ppc' = ppc + 1
      BY <2>2 DEF Read
    <3>2. ASSUME NEW j \in owed' PROVE j \in owed /\ j \notin Part(ppc) /\ ~(ppc = 2 /\ HandOver(j))
      BY <2>2, <3>2 DEF Read
    <3>3. CASE ppc = 1
      BY <2>1, <3>1, <3>2, <3>3 DEF Part
    <3>4. CASE ppc = 2
      BY <2>1, <3>1, <3>2, <3>4 DEF Part, WithStatus, HandOver, Ended
    <3>5. CASE ppc = 3
      BY <2>1, <3>1, <3>2, <3>5 DEF Part, WithStatus, Ended
    <3>6. CASE ppc = 4
      BY <2>1, <3>1, <3>2, <3>6 DEF Part, WithStatus, Ended
    <3>7. QED
      BY <3>1, <3>3, <3>4, <3>5, <3>6
  <2>3. CASE Draw \/ Still
    BY <2>3 DEF Draw, Still
  <2>4. CASE Rerun \/ Poll \/ Tick
    BY <2>1, <2>4 DEF Rerun, Poll, Tick, StartList
  <2>5. QED
    BY <1>2, <2>2, <2>3, <2>4 DEF Viewing
<1>3. QED
  BY <1>1, <1>2
     DEF Next, Work, Submit, Pop, Begin, Acquire, AcquireRaises, IndexWrites, IndexRaises,
         ReadEpoch, WriteEpoch, AdminReads, AdminWrites, Finish, Die, Abandon, Expire, page, vars

\* list misses only a job that was in RQ's hand-over, or has expired, because
\* it reads the registries in the order jobs move (redis_queue.py:119-122).
THEOREM ListMissesOnlyHandOverHolds == Spec => []ListMissesOnlyHandOver
<1>1. Init => Ahead
  BY DEF Init, Ahead
<1>2. Place /\ Ahead => ListMissesOnlyHandOver
  BY DEF Place, TypeOK, Ahead, ListMissesOnlyHandOver
<1>3. QED
  BY PlaceHolds, <1>1, AheadStep, <1>2, PTL DEF Spec

=============================================================================
