------------------------ MODULE InProcessQueueProofs ------------------------
(***************************************************************************)
(* Proofs about InProcessQueue, for any jobs, any size of the ring and any *)
(* number of restarts.                                                     *)
(***************************************************************************)
EXTENDS InProcessQueue, SequenceTheorems, TLAPS

-----------------------------------------------------------------------------
(* Sequences *)

LEMMA MembersBelong ==
    ASSUME NEW S, NEW s \in Seq(S)
    PROVE  ToSet(s) \subseteq S
BY ElementOfSeq DEF ToSet

LEMMA MembersAfterAppend ==
    ASSUME NEW S, NEW s \in Seq(S), NEW e \in S
    PROVE  ToSet(Append(s, e)) = ToSet(s) \cup {e}
BY AppendProperties DEF ToSet

LEMMA MembersAfterTail ==
    ASSUME NEW S, NEW s \in Seq(S), s # <<>>
    PROVE  /\ Head(s) \in S /\ Head(s) \in ToSet(s)
           /\ Tail(s) \in Seq(S)
           /\ ToSet(s) = ToSet(Tail(s)) \cup {Head(s)}
<1>1. Tail(s) \in Seq(S) /\ Len(Tail(s)) = Len(s) - 1 /\ Len(s) \in Nat \ {0}
  BY HeadTailProperties, EmptySeq
<1>2. \A i \in 1..Len(Tail(s)) : Tail(s)[i] = s[i + 1]
  BY HeadTailProperties
<1>3. Head(s) = s[1] /\ 1 \in DOMAIN s
  BY <1>1
<1>4. ToSet(s) \subseteq ToSet(Tail(s)) \cup {Head(s)}
  <2> SUFFICES ASSUME NEW i \in DOMAIN s, i # 1 PROVE s[i] \in ToSet(Tail(s))
    BY <1>3 DEF ToSet
  <2>1. i - 1 \in DOMAIN Tail(s) /\ Tail(s)[i - 1] = s[i]
    BY <1>1, <1>2
  <2>2. QED
    BY <2>1 DEF ToSet
<1>5. ToSet(Tail(s)) \subseteq ToSet(s)
  <2> SUFFICES ASSUME NEW i \in DOMAIN Tail(s) PROVE Tail(s)[i] \in ToSet(s)
    BY DEF ToSet
  <2>1. i + 1 \in DOMAIN s /\ Tail(s)[i] = s[i + 1]
    BY <1>1, <1>2
  <2>2. QED
    BY <2>1 DEF ToSet
<1>6. QED
  BY <1>1, <1>3, <1>4, <1>5 DEF ToSet

\* No element twice.
Distinct(s) == \A i, k \in DOMAIN s : s[i] = s[k] => i = k

LEMMA DistinctAfterAppend ==
    ASSUME NEW S, NEW s \in Seq(S), NEW e \in S, Distinct(s), e \notin ToSet(s)
    PROVE  Distinct(Append(s, e))
BY AppendProperties DEF Distinct, ToSet

LEMMA DistinctAfterTail ==
    ASSUME NEW S, NEW s \in Seq(S), s # <<>>, Distinct(s)
    PROVE  Distinct(Tail(s)) /\ Head(s) \notin ToSet(Tail(s))
<1>1. Tail(s) \in Seq(S) /\ Len(Tail(s)) = Len(s) - 1 /\ Len(s) \in Nat \ {0}
  BY HeadTailProperties, EmptySeq
<1>2. \A i \in DOMAIN Tail(s) : Tail(s)[i] = s[i + 1] /\ i + 1 \in DOMAIN s /\ i \in Nat \ {0}
  BY <1>1, HeadTailProperties
<1>3. Head(s) = s[1] /\ 1 \in DOMAIN s
  BY <1>1
<1>4. QED
  BY <1>2, <1>3 DEF Distinct, ToSet

LEMMA LatestFits ==
    ASSUME NEW S, NEW s \in Seq(S)
    PROVE  Latest(s) \in Seq(S) /\ Len(Latest(s)) <= MaxKeep
BY ConstantsAssumption, SubSeqProperties DEF Latest

-----------------------------------------------------------------------------
(* Types *)

LEMMA TypedInit == Init => TypeOK
BY ConstantsAssumption DEF Init, TypeOK

LEMMA UpdatedTyped ==
    ASSUME TypeOK, NEW j, NEW status \in {"running", "done", "failed"}
    PROVE  Updated(j, status) \in [Jobs -> {"queued", "running", "done", "failed", None}]
BY DEF TypeOK, Updated

LEMMA TypedStep == TypeOK /\ [Next]_vars => TypeOK'
<1> SUFFICES ASSUME TypeOK, [Next]_vars PROVE TypeOK'
  OBVIOUS
<1> USE ConstantsAssumption
<1>1. ASSUME NEW j \in Jobs, Record(j) PROVE TypeOK'
  <2>1. Append(order, j) \in Seq(Jobs)
    BY AppendProperties DEF TypeOK
  <2>2. order' \in Seq(Jobs) /\ Len(order') <= MaxKeep
    BY <1>1, <2>1, LatestFits DEF Record
  <2>3. QED
    BY <1>1, <2>2 DEF Record, TypeOK
<1>2. ASSUME NEW j \in Jobs, HandOver(j) PROVE TypeOK'
  <2>1. backlog' \in Seq(Jobs)
    BY <1>2, AppendProperties DEF HandOver, TypeOK
  <2>2. QED
    BY <1>2, <2>1 DEF HandOver, TypeOK
<1>3. CASE Take
  <2>1. current' \in Jobs /\ backlog' \in Seq(Jobs)
    BY <1>3, MembersAfterTail DEF Take, TypeOK
  <2>2. QED
    BY <1>3, <2>1 DEF Take, TypeOK
<1>4. CASE MarkRunning
  BY <1>4, UpdatedTyped DEF MarkRunning, TypeOK
<1>5. CASE EndIngest
  BY <1>5 DEF EndIngest, TypeOK
<1>6. CASE MarkEnded
  BY <1>6, UpdatedTyped DEF MarkEnded, TypeOK
<1>7. CASE Restart
  BY <1>7, EmptySeq DEF Restart, TypeOK
<1>8. CASE UNCHANGED vars
  BY <1>8 DEF vars, TypeOK
<1>9. QED
  BY <1>1, <1>2, <1>3, <1>4, <1>5, <1>6, <1>7, <1>8 DEF Next, Worker

\* Type correctness; in particular no more than MaxKeep records are kept by any
\* number of overlapping submits.
THEOREM TypeCorrect == Spec => []TypeOK
BY TypedInit, TypedStep, PTL DEF Spec

\* What a submit drops is the oldest record of a full ring.
LEMMA Dropped ==
    ASSUME NEW S, NEW s \in Seq(S), Len(s) <= MaxKeep, NEW e \in S,
           NEW x \in ToSet(Append(s, e)) \ ToSet(Latest(Append(s, e)))
    PROVE  Len(s) = MaxKeep /\ (x = e \/ (s # <<>> /\ x = Head(s)))
<1> DEFINE a == Append(s, e)
<1> USE ConstantsAssumption
<1>1. a \in Seq(S) /\ Len(a) = Len(s) + 1 /\ Len(s) \in Nat
      /\ (\A i \in 1..Len(s) : a[i] = s[i]) /\ a[Len(s) + 1] = e
  BY AppendProperties
<1>2. Len(s) = MaxKeep
  BY <1>1 DEF Latest
<1>3. Latest(a) = SubSeq(a, 2, Len(s) + 1)
  BY <1>1, <1>2 DEF Latest
<1>4. /\ Latest(a) \in Seq(S)
      /\ Len(Latest(a)) = Len(s)
      /\ \A k \in 1..Len(s) : Latest(a)[k] = a[k + 1]
  <2>1. \A i \in 2..(Len(s) + 1) : a[i] \in S
    BY <1>1
  <2> HIDE DEF a
  <2>2. QED
    BY <1>1, <1>3, <2>1, SubSeqProperties
<1>5. PICK i \in DOMAIN a : x = a[i]
  BY DEF ToSet
<1>6. i = 1
  <2> SUFFICES ASSUME i # 1 PROVE FALSE
    OBVIOUS
  <2>1. i - 1 \in DOMAIN Latest(a) /\ Latest(a)[i - 1] = a[i]
    BY <1>1, <1>4, <1>5
  <2>2. QED
    BY <1>5, <2>1 DEF ToSet
<1>7. QED
  BY <1>1, <1>2, <1>5, <1>6

-----------------------------------------------------------------------------
(* Where a job is *)

\* A job is in one place at a time, and its outcome is known from there.
InPlace ==
    /\ worker = "idle" <=> current = None
    /\ Distinct(backlog)
    /\ \A j \in ToSet(backlog) : j # current /\ caller[j] = "returned" /\ outcome[j] = None
    /\ \A j \in Jobs : j = current => caller[j] = "returned"
    /\ \A j \in Jobs : j = current =>
           outcome[j] = IF worker \in {"done", "failed"} THEN worker ELSE None
    /\ \A j \in Jobs : caller[j] # "returned" => outcome[j] = None

LEMMA InPlaceInit == Init => InPlace
BY ConstantsAssumption DEF Init, InPlace, Distinct, ToSet

LEMMA InPlaceStep == TypeOK /\ InPlace /\ [Next]_vars => InPlace'
<1> SUFFICES ASSUME TypeOK, InPlace, [Next]_vars PROVE InPlace'
  OBVIOUS
<1> USE ConstantsAssumption
<1>1. ASSUME NEW j \in Jobs, Record(j) PROVE InPlace'
  BY <1>1 DEF Record, InPlace, TypeOK
<1>2. ASSUME NEW j \in Jobs, HandOver(j) PROVE InPlace'
  <2>1. j \notin ToSet(backlog) /\ j # current /\ outcome[j] = None
    BY <1>2 DEF HandOver, InPlace
  <2>2. ToSet(backlog') = ToSet(backlog) \cup {j} /\ Distinct(backlog')
    BY <1>2, <2>1, MembersAfterAppend, DistinctAfterAppend DEF HandOver, InPlace, TypeOK
  <2>3. QED
    BY <1>2, <2>1, <2>2 DEF HandOver, InPlace, TypeOK
<1>3. CASE Take
  <2>1. /\ current' \in Jobs /\ current' \in ToSet(backlog)
        /\ ToSet(backlog) = ToSet(backlog') \cup {current'}
        /\ Distinct(backlog') /\ current' \notin ToSet(backlog')
    BY <1>3, MembersAfterTail, DistinctAfterTail DEF Take, InPlace, TypeOK
  <2>2. caller[current'] = "returned" /\ outcome[current'] = None
    BY <2>1 DEF InPlace
  <2>3. \A j \in ToSet(backlog') :
           j # current' /\ caller[j] = "returned" /\ outcome[j] = None
    BY <2>1 DEF InPlace
  <2>4. UNCHANGED <<caller, outcome>> /\ worker' = "taken"
    BY <1>3 DEF Take
  <2>5. QED
    BY <2>1, <2>2, <2>3, <2>4 DEF InPlace
<1>4. CASE MarkRunning
  BY <1>4 DEF MarkRunning, InPlace, TypeOK
<1>5. CASE EndIngest
  BY <1>5 DEF EndIngest, InPlace, TypeOK
<1>6. CASE MarkEnded
  <2>1. ToSet(backlog) \subseteq Jobs
    BY MembersBelong DEF TypeOK
  <2>2. /\ UNCHANGED <<backlog, caller, outcome>>
        /\ worker' = "idle" /\ current' = None
    BY <1>6 DEF MarkEnded
  <2>3. QED
    BY <2>1, <2>2 DEF InPlace
<1>7. CASE Restart
  BY <1>7 DEF Restart, InPlace, TypeOK, Distinct, ToSet
<1>8. CASE UNCHANGED vars
  BY <1>8 DEF vars, InPlace
<1>9. QED
  BY <1>1, <1>2, <1>3, <1>4, <1>5, <1>6, <1>7, <1>8 DEF Next, Worker

LEMMA InPlaceCorrect == Spec => [](TypeOK /\ InPlace)
BY TypedInit, TypedStep, InPlaceInit, InPlaceStep, PTL DEF Spec

-----------------------------------------------------------------------------
(* What the records tell *)

\* RecordsTellTruth, made inductive by what the record of the worker's job says.
Truthful ==
    /\ RecordsTellTruth
    /\ \A j \in Jobs : caller[j] = "new" => jobs[j] = None
    /\ \A j \in Jobs : j = current /\ jobs[j] # None =>
           jobs[j] = IF worker = "taken" THEN "queued" ELSE "running"

LEMMA TruthfulInit == Init => Truthful
BY DEF Init, Truthful, RecordsTellTruth

LEMMA TruthfulStep == TypeOK /\ InPlace /\ Truthful /\ [Next]_vars => Truthful'
<1> SUFFICES ASSUME TypeOK, InPlace, Truthful, [Next]_vars PROVE Truthful'
  OBVIOUS
<1> USE ConstantsAssumption DEF Truthful, RecordsTellTruth
<1>1. ASSUME NEW j \in Jobs, Record(j) PROVE Truthful'
  <2>1. /\ jobs'[j] \in {None, "queued"}
        /\ \A i \in Jobs : i # j => jobs'[i] \in {None, jobs[i]}
    BY <1>1 DEF Record
  <2>2. outcome[j] = None /\ j # current
    BY <1>1 DEF Record, InPlace
  <2>3. QED
    BY <1>1, <2>1, <2>2 DEF Record, TypeOK
<1>2. ASSUME NEW j \in Jobs, HandOver(j) PROVE Truthful'
  BY <1>2 DEF HandOver, TypeOK
<1>3. CASE Take
  <2>1. current' \in Jobs /\ current' \in ToSet(backlog)
    BY <1>3, MembersAfterTail DEF Take, TypeOK
  <2>2. caller[current'] = "returned" /\ outcome[current'] = None
    BY <2>1 DEF InPlace
  <2>3. jobs[current'] \in {"queued", None}
    BY <1>3, <2>1, <2>2 DEF Take, InPlace, TypeOK
  <2>4. QED
    BY <1>3, <2>1, <2>2, <2>3 DEF Take, InPlace, TypeOK
<1>4. CASE MarkRunning
  BY <1>4 DEF MarkRunning, Updated, InPlace, TypeOK
<1>5. CASE EndIngest
  BY <1>5 DEF EndIngest, InPlace, TypeOK
<1>6. CASE MarkEnded
  BY <1>6 DEF MarkEnded, Updated, InPlace, TypeOK
<1>7. CASE Restart
  BY <1>7 DEF Restart, TypeOK
<1>8. CASE UNCHANGED vars
  BY <1>8 DEF vars
<1>9. QED
  BY <1>1, <1>2, <1>3, <1>4, <1>5, <1>6, <1>7, <1>8 DEF Next, Worker

\* A record never tells of its job what is not so, however submits, the worker
\* and the dropping of records interleave.
THEOREM RecordsTellTruthHolds == Spec => []RecordsTellTruth
<1>1. TypeOK /\ InPlace /\ Truthful /\ [Next]_vars => Truthful'
  BY TruthfulStep
<1>2. Truthful => RecordsTellTruth
  BY DEF Truthful
<1>3. QED
  BY <1>1, <1>2, TruthfulInit, InPlaceCorrect, PTL DEF Spec

\* One step of RecordsMoveForward.
Forward(j) ==
    jobs'[j] # jobs[j] =>
      \/ jobs[j] = None /\ jobs'[j] = "queued" /\ caller[j] = "new"
      \/ <<jobs[j], jobs'[j]>> \in {"queued"} \X {"running"}
      \/ <<jobs[j], jobs'[j]>> \in {"running"} \X {"done", "failed"}
      \/ jobs'[j] = None /\ Len(order) = MaxKeep /\ j = Head(order)
      \/ jobs'[j] = None /\ restarts' # restarts

LEMMA ForwardStep ==
    ASSUME TypeOK, InPlace, Truthful, [Next]_vars, NEW j \in Jobs
    PROVE  Forward(j)
<1> USE ConstantsAssumption DEF Forward
<1>1. ASSUME NEW i \in Jobs, Record(i) PROVE Forward(j)
  <2>1. order \in Seq(Jobs) /\ Len(order) <= MaxKeep /\ jobs[i] = None
    BY <1>1 DEF Record, TypeOK, Truthful
  <2>2. CASE j \in ToSet(Append(order, i)) \ ToSet(order')
    <3>1. jobs'[j] = None
      BY <1>1, <2>2 DEF Record
    <3>2. Len(order) = MaxKeep /\ (j = i \/ (order # <<>> /\ j = Head(order)))
      BY <1>1, <2>1, <2>2, Dropped DEF Record
    <3>3. QED
      BY <2>1, <3>1, <3>2
  <2>3. CASE j \notin ToSet(Append(order, i)) \ ToSet(order')
    BY <1>1, <2>1, <2>3 DEF Record
  <2>4. QED
    BY <2>2, <2>3
<1>2. ASSUME NEW i \in Jobs, HandOver(i) PROVE Forward(j)
  BY <1>2 DEF HandOver
<1>3. CASE Take
  BY <1>3 DEF Take
<1>4. CASE MarkRunning
  BY <1>4 DEF MarkRunning, Updated, Truthful, TypeOK
<1>5. CASE EndIngest
  BY <1>5 DEF EndIngest
<1>6. CASE MarkEnded
  BY <1>6 DEF MarkEnded, Updated, Truthful, TypeOK
<1>7. CASE Restart
  BY <1>7 DEF Restart, TypeOK
<1>8. CASE UNCHANGED vars
  BY <1>8 DEF vars
<1>9. QED
  BY <1>1, <1>2, <1>3, <1>4, <1>5, <1>6, <1>7, <1>8 DEF Next, Worker

\* A record never moves back, is never brought back by a late update, and is
\* dropped only as the oldest of a full ring or with the process.
THEOREM RecordsMoveForwardHolds == Spec => RecordsMoveForward
<1>1. TypeOK /\ InPlace /\ Truthful /\ [Next]_vars => [\A j \in Jobs : Forward(j)]_vars
  BY ForwardStep
<1>2. TypeOK /\ InPlace /\ Truthful /\ [Next]_vars => Truthful'
  BY TruthfulStep
<1>3. Spec => [][\A j \in Jobs : Forward(j)]_vars
  BY <1>1, <1>2, TruthfulInit, InPlaceCorrect, PTL DEF Spec
<1>4. QED
  BY <1>3 DEF RecordsMoveForward, Forward

-----------------------------------------------------------------------------
(* The queue keeps the promise of JobBoard *)

LEMMA RefinesInit == Init => Board!Init
BY ConstantsAssumption DEF Init, Board!Init, Phase

LEMMA RefinesHandOver ==
    ASSUME TypeOK, InPlace, NEW j \in Jobs, HandOver(j)
    PROVE  Board!Accept(j)
<1>1. Phase[j] = "new"
  BY DEF HandOver, InPlace, Phase
<1>2. j # current /\ outcome[j] = None
  BY DEF HandOver, InPlace
<1>3. ToSet(backlog') = ToSet(backlog) \cup {j}
  BY MembersAfterAppend DEF HandOver, TypeOK
<1>4. /\ backlog' = Append(backlog, j)
      /\ caller' = [caller EXCEPT ![j] = "returned"]
      /\ UNCHANGED <<current, outcome>>
  BY DEF HandOver
<1>5. ASSUME NEW i \in Jobs, i # j PROVE Phase'[i] = Phase[i]
  BY <1>3, <1>4, <1>5 DEF Phase, TypeOK
<1>6. Phase'[j] = "waiting"
  BY <1>2, <1>3, <1>4 DEF Phase, TypeOK
<1>7. Phase' = [Phase EXCEPT ![j] = "waiting"]
  BY <1>5, <1>6 DEF Phase
<1>8. QED
  BY <1>1, <1>4, <1>7 DEF Board!Accept

LEMMA RefinesTake == ASSUME TypeOK, InPlace, Take PROVE Board!Start
<1> DEFINE h == Head(backlog)
<1>1. h \in Jobs /\ h \in ToSet(backlog) /\ ToSet(backlog) = ToSet(backlog') \cup {h}
  BY MembersAfterTail DEF Take, TypeOK
<1>2. caller[h] = "returned" /\ outcome[h] = None
  BY <1>1 DEF InPlace
<1>3. current = None /\ current' = h /\ backlog # <<>> /\ backlog' = Tail(backlog)
      /\ UNCHANGED <<caller, outcome>>
  BY DEF Take, InPlace
<1>4. \A j \in Jobs : Phase[j] # "running"
  BY <1>3, ConstantsAssumption DEF Phase, TypeOK
<1>5. ASSUME NEW i \in Jobs, i # h PROVE Phase'[i] = Phase[i]
  <2>1. i # current /\ i # current' /\ (i \in ToSet(backlog) <=> i \in ToSet(backlog'))
    BY <1>1, <1>3, <1>5, ConstantsAssumption
  <2>2. QED
    BY <1>3, <2>1 DEF Phase
<1>6. Phase'[h] = "running"
  BY <1>1, <1>2, <1>3 DEF Phase
<1>7. Phase' = [Phase EXCEPT ![h] = "running"]
  BY <1>1, <1>5, <1>6 DEF Phase
<1>8. QED
  BY <1>3, <1>4, <1>7 DEF Board!Start

LEMMA RefinesEndIngest ==
    ASSUME TypeOK, InPlace, EndIngest
    PROVE  \E j \in Jobs : Board!End(j)
<1>1. PICK end \in {"done", "failed"} : outcome' = [outcome EXCEPT ![current] = end]
  BY DEF EndIngest
<1>2. /\ current \in Jobs /\ outcome[current] = None /\ caller[current] = "returned"
      /\ UNCHANGED <<backlog, caller, current>>
  BY DEF EndIngest, InPlace, TypeOK
<1>3. Phase[current] = "running"
  BY <1>2 DEF Phase
<1>4. Phase' = [Phase EXCEPT ![current] = end]
  <2>1. ASSUME NEW i \in Jobs, i # current PROVE Phase'[i] = Phase[i]
    BY <1>1, <1>2, <2>1 DEF Phase, TypeOK
  <2>2. Phase'[current] = end
    BY <1>1, <1>2, ConstantsAssumption DEF Phase, TypeOK
  <2>3. QED
    BY <1>2, <2>1, <2>2 DEF Phase
<1>5. QED
  BY <1>2, <1>3, <1>4 DEF Board!End

LEMMA RefinesRestart == ASSUME TypeOK, InPlace, Restart PROVE Board!Die
<1>1. /\ backlog' = <<>> /\ current' = None /\ outcome' = outcome
      /\ caller' = [j \in Jobs |-> IF caller[j] = "recorded" THEN "dead" ELSE caller[j]]
  BY DEF Restart
<1>2. ASSUME NEW i \in Jobs
      PROVE  Phase'[i] = IF Phase[i] \in {"waiting", "running"} THEN "lost" ELSE Phase[i]
  <2>1. i # current' /\ i \notin ToSet(backlog')
    BY <1>1, ConstantsAssumption DEF ToSet
  <2>2. caller'[i] = "returned" <=> caller[i] = "returned"
    BY <1>1
  <2>3. outcome[i] \in {"done", "failed", None}
    BY DEF TypeOK
  <2>4. QED
    BY <1>1, <2>1, <2>2, <2>3 DEF Phase
<1>3. QED
  BY <1>1, <1>2 DEF Board!Die, Phase

LEMMA RefinesStep == TypeOK /\ InPlace /\ [Next]_vars => [Board!Next]_(Board!vars)
<1> SUFFICES ASSUME TypeOK, InPlace, [Next]_vars PROVE [Board!Next]_(Board!vars)
  OBVIOUS
<1>1. ASSUME NEW j \in Jobs, Record(j) PROVE UNCHANGED Board!vars
  <2>1. \A i \in Jobs : caller'[i] = "returned" <=> caller[i] = "returned"
    BY <1>1 DEF Record, TypeOK
  <2>2. UNCHANGED <<backlog, current, outcome>>
    BY <1>1 DEF Record
  <2>3. QED
    BY <2>1, <2>2 DEF Board!vars, Phase
<1>2. ASSUME NEW j \in Jobs, HandOver(j) PROVE Board!Next
  BY <1>2, RefinesHandOver DEF Board!Next
<1>3. CASE Take
  BY <1>3, RefinesTake DEF Board!Next
<1>4. CASE MarkRunning
  BY <1>4 DEF MarkRunning, Board!vars, Phase
<1>5. CASE EndIngest
  BY <1>5, RefinesEndIngest DEF Board!Next
<1>6. CASE MarkEnded
  <2>1. UNCHANGED <<backlog, caller, outcome>> /\ current' = None
    BY <1>6 DEF MarkEnded
  <2>2. outcome[current] # None
    BY <1>6, ConstantsAssumption DEF MarkEnded, InPlace, TypeOK
  <2>3. Phase' = Phase
    BY <2>1, <2>2, ConstantsAssumption DEF Phase
  <2>4. QED
    BY <2>1, <2>3 DEF Board!vars
<1>7. CASE Restart
  BY <1>7, RefinesRestart DEF Board!Next
<1>8. CASE UNCHANGED vars
  BY <1>8 DEF vars, Board!vars, Phase
<1>9. QED
  BY <1>1, <1>2, <1>3, <1>4, <1>5, <1>6, <1>7, <1>8 DEF Next, Worker

\* Jobs are worked off one at a time, each once, in the order in which they were
\* handed to the pool, whatever becomes of their records.
THEOREM KeepsPromise == Spec => BoardSafety
<1>1. TypeOK /\ InPlace /\ [Next]_vars => [Board!Next]_(Board!vars)
  BY RefinesStep
<1>2. QED
  BY <1>1, RefinesInit, InPlaceCorrect, PTL DEF Spec, BoardSafety, Board!Safety
=============================================================================
