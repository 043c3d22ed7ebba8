------------------------ MODULE ConversationsProofs ------------------------
(***************************************************************************)
(* Proofs about Conversations, for any number of turns, readers and        *)
(* askers, with and without foreign keys.                                  *)
(***************************************************************************)
EXTENDS Conversations, TLAPS

-----------------------------------------------------------------------------
(* Types *)

Record ==
    [pc : {"idle", "query", "fill", "model", "ask", "user",
           "assistant", "tomb", "title", "done", "failed"},
     seen : (SUBSET Message) \cup {None}, first : BOOLEAN, page : {"waiting", "ended"}]

\* The searching tab's askers have no part in the chat.
Typed ==
    /\ TypeOK
    /\ req \in [Requests -> Record]
    /\ \A r \in Requests :
         /\ req[r].pc = "fill" => req[r].seen \subseteq Message
         /\ req[r].pc \in {"model", "user", "assistant", "tomb", "title"} => r \in Turns
         /\ req[r].pc \in {"query", "fill"} => r \in Turns \cup Readers
         /\ req[r].pc = "ask" => r \in Askers

LEMMA Kinds == Turns \cap Readers = {} /\ Turns \cap Askers = {} /\ Turns \subseteq Requests
BY ConstantsAssumption DEF Turns, Requests, Streams

\* A request's record with other values in its fields.
LEMMA FieldsTyped ==
    ASSUME NEW q \in Record
    PROVE  /\ Idle \in Record
           /\ \A pc \in {"user", "assistant", "tomb", "title", "done", "failed", "query"} :
                [q EXCEPT !.pc = pc] \in Record
           /\ \A pc \in {"done", "failed"} : [Idle EXCEPT !.pc = pc] \in Record
           /\ \A s \in SUBSET Message : [q EXCEPT !.pc = "fill", !.seen = s] \in Record
           /\ \A pc \in {"query", "ask", "done"}, page \in {"waiting", "ended"} :
                [q EXCEPT !.pc = pc, !.page = page] \in Record
           /\ \A pc \in {"model", "idle"}, first \in BOOLEAN, page \in {"waiting", "ended"} :
                [q EXCEPT !.pc = pc, !.seen = None, !.first = first, !.page = page] \in Record
<1> USE DEF Record
<1>1. Idle \in Record
  BY DEF Idle
<1>2. \A pc \in {"user", "assistant", "tomb", "title", "done", "failed", "query"} :
        [q EXCEPT !.pc = pc] \in Record
  OBVIOUS
<1>3. \A pc \in {"done", "failed"} : [Idle EXCEPT !.pc = pc] \in Record
  BY DEF Idle
<1>4. \A s \in SUBSET Message : [q EXCEPT !.pc = "fill", !.seen = s] \in Record
  OBVIOUS
<1>5. \A pc \in {"query", "ask", "done"}, page \in {"waiting", "ended"} :
        [q EXCEPT !.pc = pc, !.page = page] \in Record
  OBVIOUS
<1>6. \A pc \in {"model", "idle"}, first \in BOOLEAN, page \in {"waiting", "ended"} :
        [q EXCEPT !.pc = pc, !.seen = None, !.first = first, !.page = page] \in Record
  OBVIOUS
<1>7. QED
  BY <1>1, <1>2, <1>3, <1>4, <1>5, <1>6

LEMMA TypedInit == Init => Typed
<1> SUFFICES ASSUME Init PROVE Typed
  OBVIOUS
<1>1. Idle \in Record
  BY DEF Idle, Record
<1>2. req \in [Requests -> Record] /\ \A r \in Requests : req[r].pc = "idle"
  BY <1>1 DEF Init, Idle
<1>3. TypeOK
  BY <1>2 DEF Init, TypeOK, Record
<1>4. QED
  BY <1>2, <1>3 DEF Typed

\* What a step does to the request that takes it, field by field.
Moved(r, pc, seen, first) ==
    /\ req' \in [Requests -> Record]
    /\ \A u \in Requests : u # r => req'[u] = req[u]
    /\ req'[r].pc = pc /\ req'[r].seen = seen /\ req'[r].first = first

LEMMA MovedGoto ==
    ASSUME Typed, NEW r \in Requests,
           NEW to \in {"user", "assistant", "tomb", "title", "done", "failed", "query"}, Goto(r, to)
    PROVE  Moved(r, to, req[r].seen, req[r].first)
<1>1. req[r] \in Record
  BY DEF Typed
<1>2. req' = [req EXCEPT ![r] = [req[r] EXCEPT !.pc = to]]
  BY DEF Goto
<1>3. [req[r] EXCEPT !.pc = to] \in Record
  BY <1>1, FieldsTyped
<1>4. QED
  BY <1>1, <1>2, <1>3 DEF Typed, Moved, Record

LEMMA MovedOver ==
    ASSUME Typed, NEW r \in Requests, NEW as \in {"done", "failed"}, Over(r, as)
    PROVE  Moved(r, as, None, FALSE)
<1>1. [Idle EXCEPT !.pc = as] \in Record
  BY DEF Idle, Record
<1>2. QED
  BY <1>1 DEF Over, Typed, Moved, Idle

LEMMA MovedHave ==
    ASSUME Typed, NEW r \in Requests, NEW list, Have(r, list)
    PROVE  Moved(r, IF r \in Turns THEN "model" ELSE "idle", None,
                 r \in Turns /\ list = {})
<1> DEFINE q == [req[r] EXCEPT !.pc = IF r \in Turns THEN "model" ELSE "idle", !.seen = None,
                               !.first = (r \in Turns /\ list = {}),
                               !.page = IF r \in Turns THEN "waiting" ELSE "ended"]
<1>1. req[r] \in Record
  BY DEF Typed
<1>2. req' = [req EXCEPT ![r] = q]
  BY DEF Have
<1>3. q \in Record
  BY <1>1, FieldsTyped
<1>4. /\ q.pc = (IF r \in Turns THEN "model" ELSE "idle")
      /\ q.seen = None /\ q.first = (r \in Turns /\ list = {})
  BY <1>1 DEF Record
<1> HIDE DEF q
<1>5. QED
  BY <1>2, <1>3, <1>4 DEF Typed, Moved

LEMMA MovedMiss ==
    ASSUME Typed, NEW r \in Requests, Miss(r)
    PROVE  Moved(r, "query", req[r].seen, req[r].first)
<1> DEFINE q == [req[r] EXCEPT !.pc = "query", !.page = IF r \in Turns THEN "waiting" ELSE "ended"]
<1>1. req[r] \in Record
  BY DEF Typed
<1>2. req' = [req EXCEPT ![r] = q]
  BY DEF Miss
<1>3. q \in Record
  BY <1>1, FieldsTyped
<1>4. QED
  BY <1>1, <1>2, <1>3 DEF Typed, Moved, Record

LEMMA MovedQuery ==
    ASSUME Typed, NEW r \in Requests, Query(r)
    PROVE  Moved(r, "fill", msgs, req[r].first)
<1> DEFINE q == [req[r] EXCEPT !.pc = "fill", !.seen = msgs]
<1>1. req[r] \in Record /\ msgs \in SUBSET Message
  BY DEF Typed, TypeOK
<1>2. req' = [req EXCEPT ![r] = q]
  BY DEF Query
<1>3. q \in Record
  BY <1>1, FieldsTyped
<1>4. QED
  BY <1>1, <1>2, <1>3 DEF Typed, Moved, Record

LEMMA MovedAsk ==
    ASSUME Typed, NEW r \in Requests, Ask(r)
    PROVE  \E pc \in {"ask", "done"} : Moved(r, pc, req[r].seen, req[r].first)
<1> DEFINE to == IF answered THEN "done" ELSE "ask"
           q == [req[r] EXCEPT !.pc = to, !.page = IF answered THEN "ended" ELSE "waiting"]
<1>1. req[r] \in Record
  BY DEF Typed
<1>2. req' = [req EXCEPT ![r] = q]
  BY DEF Ask
<1>3. q \in Record
  BY <1>1, FieldsTyped
<1>4. Moved(r, to, req[r].seen, req[r].first)
  BY <1>1, <1>2, <1>3 DEF Typed, Moved, Record
<1>5. QED
  BY <1>4

ChatTypes ==
    /\ tab \in {"chat", "search"}
    /\ open \in BOOLEAN /\ renames \in Nat
    /\ msgs \subseteq Message
    /\ cache \in (SUBSET Message) \cup {None}
    /\ answered \in BOOLEAN
    /\ deleter \in {"idle", "tomb", "done"}
    /\ over \subseteq Turns
    /\ {stained, mixed} \subseteq BOOLEAN

LEMMA TypedMoved ==
    ASSUME Typed, ChatTypes', NEW r \in Requests, NEW pc, NEW seen, NEW first,
           Moved(r, pc, seen, first),
           pc = "fill" => seen \subseteq Message,
           pc \in {"model", "user", "assistant", "tomb", "title"} => r \in Turns,
           pc \in {"query", "fill"} => r \in Turns \cup Readers,
           pc = "ask" => r \in Askers
    PROVE  Typed'
<1>1. req' \in [Requests -> Record]
  BY DEF Moved
<1>2. TypeOK'
  BY <1>1 DEF TypeOK, ChatTypes, Record
<1>3. QED
  BY <1>1, <1>2 DEF Typed, Moved

LEMMA WriteTypes ==
    ASSUME Typed, NEW t \in Requests, At(t, "user") \/ At(t, "assistant"),
           NEW role \in {"user", "assistant"}, NEW to, Write(t, role, to)
    PROVE  [turn |-> t, role |-> role] \in Message /\ ChatTypes'
<1>1. t \in Turns
  BY DEF Typed, At
<1>2. [turn |-> t, role |-> role] \in Message
  BY <1>1 DEF Message
<1>3. QED
  BY <1>2 DEF Write, Typed, TypeOK, ChatTypes, history

LEMMA TypedStep == Typed /\ [Next]_vars => Typed'
<1> SUFFICES ASSUME Typed, [Next]_vars PROVE Typed'
  OBVIOUS
<1>0. ChatTypes /\ \A r \in Requests : req[r] \in Record
  BY DEF Typed, TypeOK, ChatTypes
<1>1. ASSUME NEW t \in Requests, Begin(t) PROVE Typed'
  <2>1. t \in Turns /\ ChatTypes'
    BY <1>0, <1>1 DEF Begin, ChatTypes, chat, table
  <2>2. CASE cache = None
    BY <1>1, <2>1, <2>2, MovedMiss, TypedMoved DEF Begin
  <2>3. CASE cache # None
    BY <1>1, <2>1, <2>3, MovedHave, TypedMoved DEF Begin
  <2>4. QED
    BY <2>2, <2>3
<1>2. ASSUME NEW r \in Requests, Show(r) PROVE Typed'
  <2>1. r \in Readers /\ ChatTypes'
    BY <1>0, <1>2 DEF Show, ChatTypes, chat, table, history
  <2>2. QED
    BY <1>2, <2>1, MovedMiss, TypedMoved DEF Show
<1>3. ASSUME NEW r \in Requests, Ask(r) PROVE Typed'
  <2>1. ChatTypes' /\ r \in Askers
    BY <1>0, <1>3 DEF Ask, ChatTypes, chat, table, history
  <2>2. PICK pc \in {"ask", "done"} : Moved(r, pc, req[r].seen, req[r].first)
    BY <1>3, MovedAsk
  <2>3. QED
    BY <2>1, <2>2, TypedMoved
<1>4. ASSUME NEW r \in Requests, Query(r) PROVE Typed'
  <2>1. ChatTypes' /\ msgs \subseteq Message /\ r \in Turns \cup Readers
    BY <1>0, <1>4 DEF Query, At, ChatTypes, chat, table, history, Typed
  <2>2. QED
    BY <1>4, <2>1, MovedQuery, TypedMoved
<1>5. ASSUME NEW r \in Requests, Fill(r) PROVE Typed'
  <2>1. ChatTypes'
    BY <1>0, <1>5 DEF Fill, At, ChatTypes, table, Typed
  <2>2. QED
    BY <1>5, <2>1, MovedHave, TypedMoved DEF Fill
<1>6. ASSUME NEW r \in Requests, Stream(r) PROVE Typed'
  <2>1. ChatTypes' /\ r \in Turns
    BY <1>0, <1>6 DEF Stream, At, ChatTypes, chat, table, history, Typed
  <2>2. QED
    BY <1>6, <2>1, MovedGoto, TypedMoved DEF Stream
<1>7. ASSUME NEW r \in Requests, Raise(r) PROVE Typed'
  <2>1. ChatTypes'
    BY <1>0, <1>7 DEF Raise, ChatTypes, chat, table, history
  <2>2. QED
    BY <1>7, <2>1, MovedOver, TypedMoved DEF Raise
<1>8. ASSUME NEW t \in Requests, AppendUser(t) PROVE Typed'
  <2>1. ChatTypes' /\ t \in Turns
    BY <1>8, WriteTypes DEF AppendUser, At, Typed
  <2>2. QED
    BY <1>8, <2>1, MovedGoto, TypedMoved DEF AppendUser, Write
<1>9. ASSUME NEW t \in Requests, AppendAnswer(t) PROVE Typed'
  <2>1. ChatTypes' /\ t \in Turns
    BY <1>9, WriteTypes DEF AppendAnswer, At, Typed
  <2>2. QED
    BY <1>9, <2>1, MovedGoto, TypedMoved DEF AppendAnswer, Write
<1>10. ASSUME NEW t \in Requests, Invalidate(t) PROVE Typed'
  <2>1. ChatTypes' /\ t \in Turns
    BY <1>0, <1>10 DEF Invalidate, At, ChatTypes, table, history, Typed
  <2>2. CASE req[t].first
    BY <1>10, <2>1, <2>2, MovedGoto, TypedMoved DEF Invalidate, AfterReset
  <2>3. CASE ~req[t].first
    BY <1>10, <2>1, <2>3, MovedOver, TypedMoved DEF Invalidate, AfterReset
  <2>4. QED
    BY <2>2, <2>3
<1>11. ASSUME NEW t \in Requests, Rename(t) PROVE Typed'
  <2>1. ChatTypes'
    BY <1>0, <1>11 DEF Rename, Renamed, ChatTypes, history
  <2>2. QED
    BY <1>11, <2>1, MovedOver, TypedMoved DEF Rename
<1>12. ASSUME NEW t \in Requests, Break(t) PROVE Typed'
  <2>1. ChatTypes'
    BY <1>0, <1>12 DEF Break, ChatTypes, table
  <2>2. QED
    BY <1>12, <2>1, MovedOver, TypedMoved DEF Break
<1>13. ASSUME NEW r \in Requests, Store(r) PROVE Typed'
  <2>1. ChatTypes'
    BY <1>0, <1>13 DEF Store, ChatTypes, chat, table, history
  <2>2. QED
    BY <1>13, <2>1, MovedOver, TypedMoved DEF Store
<1>14. CASE Expire \/ DeleteRows \/ DeleteCache \/ UNCHANGED vars
  <2>1. ChatTypes' /\ req' = req
    BY <1>0, <1>14
       DEF Expire, DeleteRows, DeleteCache, vars, ChatTypes, table, history
  <2>2. QED
    BY <2>1 DEF Typed, TypeOK, ChatTypes
<1>15. QED
  BY <1>1, <1>2, <1>3, <1>4, <1>5, <1>6, <1>7, <1>8, <1>9, <1>10, <1>11, <1>12, <1>13, <1>14
     DEF Next, Going

LEMMA TypedHolds == Spec => []Typed
BY TypedInit, TypedStep, PTL DEF Spec

\* Type correctness of the message table, the caches and the requests
\* (clients/backend.py).
THEOREM TypeCorrect == Spec => []TypeOK
<1>1. Typed => TypeOK
  BY DEF Typed
<1>2. QED
  BY TypedHolds, <1>1, PTL

-----------------------------------------------------------------------------
(* What the steps do to the transcript *)

\* A turn writes one message.
Writes(t, role, from, to) ==
    /\ t \in Turns /\ req[t].pc = from /\ (open \/ ~ForeignKeys)
    /\ UNCHANGED <<open, renames, cache, deleter, stained, over, mixed>>
    /\ msgs' = msgs \cup {[turn |-> t, role |-> role]}
    /\ Moved(t, to, req[t].seen, req[t].first)

LEMMA WriteEffect ==
    ASSUME Typed, NEW t \in Requests
    PROVE  /\ AppendUser(t) => Writes(t, "user", "user", "assistant")
           /\ AppendAnswer(t) => Writes(t, "assistant", "assistant", "tomb")
<1>1. ASSUME NEW role \in {"user", "assistant"}, NEW to \in {"assistant", "tomb"},
             At(t, role), Write(t, role, to)
      PROVE  Writes(t, role, role, to)
  <2>1. t \in Turns
    BY <1>1 DEF Typed, At
  <2>2. Moved(t, to, req[t].seen, req[t].first)
    BY <1>1, MovedGoto DEF Write
  <2>3. QED
    BY <1>1, <2>1, <2>2 DEF Writes, Write, At, history
<1>2. QED
  BY <1>1 DEF AppendUser, AppendAnswer

\* Every other step leaves it alone, or deletes it.
LEMMA QuietStep ==
    ASSUME Typed, [Next]_vars
    PROVE  \/ \E t \in Requests : AppendUser(t) \/ AppendAnswer(t)
           \/ DeleteRows
           \/ /\ UNCHANGED <<open, msgs, over>>
              /\ \A t \in Requests :
                   req[t].pc \in {"done", "failed"} /\ t \in Turns => req'[t].pc = req[t].pc
<1> DEFINE Quiet == /\ UNCHANGED <<open, msgs, over>>
                    /\ \A t \in Requests :
                         req[t].pc \in {"done", "failed"} /\ t \in Turns => req'[t].pc = req[t].pc
<1>1. ASSUME NEW r \in Requests, NEW pc, NEW seen, NEW first,
             Moved(r, pc, seen, first),
             r \in Turns => req[r].pc \notin {"done", "failed"},
             UNCHANGED <<open, msgs, over>>
      PROVE  Quiet
  BY <1>1 DEF Moved
<1>2. ASSUME NEW t \in Requests, Begin(t) PROVE Quiet
  <2>1. UNCHANGED <<open, msgs, over>> /\ req[t].pc = "idle"
    BY <1>2 DEF Begin, At, chat, table
  <2>2. CASE cache = None
    BY <1>1, <1>2, <2>1, <2>2, MovedMiss DEF Begin
  <2>3. CASE cache # None
    BY <1>1, <1>2, <2>1, <2>3, MovedHave DEF Begin
  <2>4. QED
    BY <2>2, <2>3
<1>3. ASSUME NEW r \in Requests, Show(r) PROVE Quiet
  BY <1>1, <1>3, MovedMiss DEF Show, At, chat, table, history
<1>4. ASSUME NEW r \in Requests, Ask(r) PROVE Quiet
  <2>1. PICK pc \in {"ask", "done"} : Moved(r, pc, req[r].seen, req[r].first)
    BY <1>4, MovedAsk
  <2>2. QED
    BY <1>1, <1>4, <2>1 DEF Ask, At, chat, table, history
<1>5. ASSUME NEW r \in Requests, Query(r) PROVE Quiet
  BY <1>1, <1>5, MovedQuery DEF Query, At, chat, table, history
<1>6. ASSUME NEW r \in Requests, Fill(r) PROVE Quiet
  BY <1>1, <1>6, MovedHave DEF Fill, At, table
<1>7. ASSUME NEW r \in Requests, Stream(r) PROVE Quiet
  BY <1>1, <1>7, MovedGoto DEF Stream, At, chat, table, history
<1>8. ASSUME NEW r \in Requests, Raise(r) PROVE Quiet
  BY <1>1, <1>8, MovedOver DEF Raise, chat, table, history
<1>9. ASSUME NEW t \in Requests, Invalidate(t) PROVE Quiet
  <2>1. CASE req[t].first
    BY <1>1, <1>9, <2>1, MovedGoto DEF Invalidate, AfterReset, At, table, history
  <2>2. CASE ~req[t].first
    BY <1>1, <1>9, <2>2, MovedOver DEF Invalidate, AfterReset, At, table, history
  <2>3. QED
    BY <2>1, <2>2
<1>10. ASSUME NEW t \in Requests, Rename(t) PROVE Quiet
  BY <1>1, <1>10, MovedOver DEF Rename, At, history
<1>11. ASSUME NEW t \in Requests, Break(t) PROVE Quiet
  BY <1>1, <1>11, MovedOver DEF Break, table
<1>12. ASSUME NEW r \in Requests, Store(r) PROVE Quiet
  BY <1>1, <1>12, MovedOver DEF Store, At, chat, table, history
<1>13. CASE Expire \/ DeleteCache \/ UNCHANGED vars
  BY <1>13 DEF Expire, DeleteCache, vars, table, history
<1>14. QED
  BY <1>2, <1>3, <1>4, <1>5, <1>6, <1>7, <1>8, <1>9, <1>10, <1>11, <1>12, <1>13
     DEF Next, Going

-----------------------------------------------------------------------------
(* The transcript *)

\* A turn that had ended does not come back.
StaysOver ==
    /\ \A t \in over : t \in Turns /\ req[t].pc \in {"done", "failed"}
    /\ NoOrphans

LEMMA StaysOverStep == Typed /\ StaysOver /\ [Next]_vars => StaysOver'
<1> SUFFICES ASSUME Typed, StaysOver, [Next]_vars PROVE StaysOver'
  OBVIOUS
<1>1. Turns \subseteq Requests
  BY DEF Requests, Streams
<1>2. ASSUME NEW t \in Requests, NEW role, NEW from \in {"user", "assistant"}, NEW to,
             Writes(t, role, from, to)
      PROVE  StaysOver'
  <2>1. t \notin over
    BY <1>2 DEF StaysOver, Writes
  <2>2. \A u \in over : req'[u] = req[u]
    BY <1>1, <1>2, <2>1 DEF StaysOver, Writes, Moved
  <2>3. NoOrphans'
    BY <1>2, <2>1 DEF StaysOver, NoOrphans, Writes
  <2>4. QED
    BY <1>2, <2>2, <2>3 DEF StaysOver, Writes
<1>3. CASE DeleteRows
  <2>1. /\ over' = {t \in Turns : ~Active(t) /\ ~At(t, "idle")} /\ req' = req
        /\ msgs' = {}
    BY <1>3 DEF DeleteRows
  <2>2. QED
    BY <2>1 DEF StaysOver, NoOrphans, Active, At
<1>4. CASE /\ UNCHANGED <<open, msgs, over>>
           /\ \A t \in Requests : req[t].pc \in {"done", "failed"} /\ t \in Turns => req'[t].pc = req[t].pc
  BY <1>1, <1>4 DEF StaysOver, NoOrphans
<1>5. QED
  BY <1>2, <1>3, <1>4, QuietStep, WriteEffect

\* No message of a turn that had ended outlives its chat, and none at all
\* where foreign keys are enforced (delete_chat, history_repo.py:62).
THEOREM NoOrphansHolds == Spec => []NoOrphans
<1>1. Init => StaysOver
  BY DEF Init, StaysOver, NoOrphans
<1>2. StaysOver => NoOrphans
  BY DEF StaysOver
<1>3. QED
  BY TypedHolds, <1>1, StaysOverStep, <1>2, PTL DEF Spec

-----------------------------------------------------------------------------
(* The cached list *)

\* A step of a request that is at no message leaves the writing turns alone.
LEMMA OthersWrite ==
    ASSUME NEW r \in Requests, NEW pc, NEW seen, NEW first,
           Moved(r, pc, seen, first), req[r].pc \notin {"assistant", "tomb"}
    PROVE  \A t \in Turns : req[t].pc \in {"assistant", "tomb"} => req'[t].pc \in {"assistant", "tomb"}
BY DEF Moved, Requests, Streams

LEMMA CleanStep == Typed /\ CleanCacheIsCurrent /\ [Next]_vars => CleanCacheIsCurrent'
<1> SUFFICES ASSUME Typed, CleanCacheIsCurrent, [Next]_vars PROVE CleanCacheIsCurrent'
  OBVIOUS
<1> DEFINE Writing == \A t \in Turns : req[t].pc \in {"assistant", "tomb"} => req'[t].pc \in {"assistant", "tomb"}
<1>0. \A m \in Message : m.turn \in Turns
  BY DEF Message
<1>1. ASSUME UNCHANGED <<msgs, cache, stained, deleter>>, Writing PROVE CleanCacheIsCurrent'
  BY <1>0, <1>1 DEF CleanCacheIsCurrent, At, Typed, TypeOK
<1>2. ASSUME NEW t \in Requests, Begin(t) PROVE CleanCacheIsCurrent'
  <2>1. CASE cache = None
    BY <1>1, <1>2, <2>1, MovedMiss, OthersWrite DEF Begin, At, chat, table
  <2>2. CASE cache # None
    BY <1>1, <1>2, <2>2, MovedHave, OthersWrite DEF Begin, At, chat, table
  <2>3. QED
    BY <2>1, <2>2
<1>3. ASSUME NEW r \in Requests, Show(r) PROVE CleanCacheIsCurrent'
  BY <1>1, <1>3, MovedMiss, OthersWrite DEF Show, At, chat, table
<1>4. ASSUME NEW r \in Requests, Ask(r) PROVE CleanCacheIsCurrent'
  BY <1>1, <1>4, MovedAsk, OthersWrite DEF Ask, At, chat, table
<1>5. ASSUME NEW r \in Requests, Query(r) PROVE CleanCacheIsCurrent'
  BY <1>1, <1>5, MovedQuery, OthersWrite DEF Query, At, chat, table
<1>6. ASSUME NEW r \in Requests, Fill(r) PROVE CleanCacheIsCurrent'
  BY <1>6 DEF Fill, table, CleanCacheIsCurrent, Typed, TypeOK
<1>7. ASSUME NEW r \in Requests, Stream(r) PROVE CleanCacheIsCurrent'
  BY <1>1, <1>7, MovedGoto, OthersWrite DEF Stream, At, chat, table
<1>8. ASSUME NEW r \in Requests, Raise(r) PROVE CleanCacheIsCurrent'
  BY <1>1, <1>8, MovedOver, OthersWrite DEF Raise, chat, table
<1>9. ASSUME NEW t \in Requests, AppendUser(t) \/ AppendAnswer(t) PROVE CleanCacheIsCurrent'
  <2>1. PICK role, from \in {"user", "assistant"}, to \in {"assistant", "tomb"} :
           Writes(t, role, from, to)
    BY <1>9, WriteEffect
  <2>2. Writing /\ req'[t].pc \in {"assistant", "tomb"}
    BY <2>1 DEF Writes, Moved, Requests, Streams
  <2>3. \A m \in msgs' : m \in Message /\ (m \in msgs \/ m.turn = t)
    <3>1. msgs' = msgs \cup {[turn |-> t, role |-> role]} /\ t \in Turns /\ msgs \subseteq Message
      BY <2>1 DEF Writes, Typed, TypeOK
    <3>2. [turn |-> t, role |-> role] \in Message /\ [turn |-> t, role |-> role].turn = t
      BY <3>1 DEF Message
    <3>3. QED
      BY <3>1, <3>2
  <2>4. cache' = cache /\ stained' = stained /\ deleter' = deleter /\ msgs \subseteq msgs'
    BY <2>1 DEF Writes
  <2>5. ASSUME cache # None, ~stained, NEW m \in msgs' \ cache
        PROVE  req'[m.turn].pc \in {"assistant", "tomb"}
    <3>1. CASE m.turn = t
      BY <2>2, <3>1
    <3>2. CASE m \in msgs
      BY <1>0, <2>2, <2>3, <2>5, <3>2 DEF CleanCacheIsCurrent, At
    <3>3. QED
      BY <2>3, <3>1, <3>2
  <2>6. QED
    BY <2>4, <2>5 DEF CleanCacheIsCurrent, At
<1>10. CASE Expire \/ DeleteCache \/ \E t \in Requests : Invalidate(t)
  BY <1>10 DEF Expire, DeleteCache, Invalidate, CleanCacheIsCurrent
<1>11. ASSUME NEW t \in Requests, Rename(t) PROVE CleanCacheIsCurrent'
  <2>1. Writing
    BY <1>11, MovedOver, OthersWrite DEF Rename, At
  <2>2. QED
    BY <1>1, <1>11, <2>1 DEF Rename
<1>12. ASSUME NEW t \in Requests, Break(t) PROVE CleanCacheIsCurrent'
  <2>1. CASE req[t].pc \in {"assistant", "tomb"}
    BY <1>12, <2>1 DEF Break, CleanCacheIsCurrent
  <2>2. CASE req[t].pc \notin {"assistant", "tomb"}
    <3>1. Writing
      BY <1>12, <2>2, MovedOver, OthersWrite DEF Break
    <3>2. QED
      BY <1>1, <1>12, <2>2, <3>1 DEF Break, table, Typed, TypeOK
  <2>3. QED
    BY <2>1, <2>2
<1>13. ASSUME NEW r \in Requests, Store(r) PROVE CleanCacheIsCurrent'
  BY <1>1, <1>13, MovedOver, OthersWrite DEF Store, At, chat, table
<1>14. CASE DeleteRows
  BY <1>14 DEF DeleteRows, CleanCacheIsCurrent
<1>15. CASE UNCHANGED vars
  BY <1>1, <1>15 DEF vars, chat, table
<1>16. QED
  BY <1>2, <1>3, <1>4, <1>5, <1>6, <1>7, <1>8, <1>9, <1>10, <1>11, <1>12, <1>13, <1>14, <1>15
     DEF Next, Going

LEMMA CleanHolds == Spec => [](Typed /\ CleanCacheIsCurrent)
<1>1. Init => CleanCacheIsCurrent
  BY DEF Init, CleanCacheIsCurrent
<1>2. QED
  BY TypedHolds, <1>1, CleanStep, PTL DEF Spec

\* An unstained cached list lacks only messages of turns that are about to
\* reset it, and holds deleted ones only until their deletion does
\* (get_messages and _invalidate_chat, backend.py:182, 230).
THEOREM CleanCacheIsCurrentHolds == Spec => []CleanCacheIsCurrent
BY CleanHolds, PTL

-----------------------------------------------------------------------------
(* The name of a chat *)

\* Where the turns are, while they do not mix: a turn is first where the
\* chat has no message when it begins, and no name when it ends.
Stands(t) ==
    /\ req[t].pc = "done" => renames = 1
    /\ req[t].pc \in {"model", "user"} => (req[t].first <=> msgs = {})
    /\ req[t].pc \in {"assistant", "tomb", "title"} => msgs # {} /\ (req[t].first <=> renames = 0)
    /\ req[t].pc = "title" => req[t].first

Unwritten == \A t \in Turns : req[t].pc \notin {"assistant", "tomb", "title"}

OneAtATime ==
    /\ ~stained
    /\ \A t, u \in Turns : Active(t) /\ Active(u) => t = u
    /\ open => /\ deleter = "idle"
               /\ renames \in {0, 1}
               /\ \A t \in Turns : Stands(t)
               /\ Unwritten => (msgs = {} <=> renames = 0)

LEMMA OneStep ==
    Typed /\ CleanCacheIsCurrent /\ (~mixed => OneAtATime) /\ [Next]_vars => (~mixed' => OneAtATime')
<1> SUFFICES ASSUME Typed, CleanCacheIsCurrent, ~mixed => OneAtATime, [Next]_vars, ~mixed'
             PROVE  OneAtATime'
  OBVIOUS
<1>0. ~mixed /\ OneAtATime /\ Turns \subseteq Requests
  <2>1. mixed => mixed'
    BY DEF Next, Going, Begin, Show, Ask, Query, Fill, Stream, Raise, AppendUser, AppendAnswer,
           Write, Invalidate, Rename, Break, Store, Expire, DeleteRows, DeleteCache, vars, history,
           Typed, TypeOK
  <2>2. QED
    BY <2>1 DEF Requests, Streams
\* It is enough to look at the request that moves.
<1>1. ASSUME NEW r \in Requests, NEW pc, NEW seen, NEW first,
             Moved(r, pc, seen, first), ~stained', UNCHANGED <<open, deleter>>,
             r \in Turns => \/ pc \in {"done", "failed"} \/ Active(r)
                           \/ \A u \in Turns : ~Active(u),
             r \notin Turns \/ open =>
               /\ msgs' = msgs \/ (msgs' # {} /\ Active(r) /\ r \in Turns)
               /\ renames' = renames \/ (Active(r) /\ r \in Turns),
             open =>
               /\ renames' \in {0, 1}
               /\ renames = 1 => renames' = 1
               /\ r \in Turns => Stands(r)'
               /\ Unwritten' => (msgs' = {} <=> renames' = 0)
      PROVE  OneAtATime'
  <2>1. \A u \in Turns : u # r => req'[u] = req[u]
    BY <1>0, <1>1 DEF Moved
  <2>2. \A t, u \in Turns : Active(t)' /\ Active(u)' => t = u
    BY <1>0, <1>1, <2>1 DEF Moved, OneAtATime, Active
  <2>3. ASSUME open, NEW u \in Turns, u # r PROVE Stands(u)'
    BY <1>0, <1>1, <2>1, <2>3 DEF OneAtATime, Stands, Active
  <2>4. QED
    BY <1>0, <1>1, <2>2, <2>3 DEF OneAtATime
<1>2. ASSUME NEW r \in Requests, r \notin Turns, NEW pc, NEW seen, NEW first,
             Moved(r, pc, seen, first), ~stained', UNCHANGED <<table, deleter>>
      PROVE  OneAtATime'
  <2>1. Unwritten' => Unwritten
    BY <1>0, <1>2 DEF Moved, Unwritten
  <2>2. QED
    BY <1>0, <1>1, <1>2, <2>1 DEF OneAtATime, table
<1>3. ASSUME NEW t \in Requests, Begin(t) PROVE OneAtATime'
  <2>1. t \in Turns /\ req[t].pc = "idle" /\ UNCHANGED chat
    BY <1>3 DEF Begin, At
  <2>2. \A u \in Turns : ~Active(u)
    BY <1>3 DEF Begin
  <2>3. Unwritten
    BY <2>2 DEF Unwritten, Active
  <2>4. CASE cache = None
    <3>1. Moved(t, "query", req[t].seen, req[t].first)
      BY <1>3, <2>4, MovedMiss DEF Begin
    <3>2. Stands(t)'
      BY <3>1 DEF Stands, Moved
    <3>3. QED
      BY <1>0, <1>1, <2>1, <2>2, <2>3, <3>1, <3>2 DEF OneAtATime, chat, table
  <2>5. CASE cache # None
    <3>1. Moved(t, "model", None, cache = {})
      BY <1>3, <2>1, <2>5, MovedHave DEF Begin
    <3>2. open => cache = msgs
      BY <1>0, <2>2, <2>5 DEF OneAtATime, CleanCacheIsCurrent, Active, At, Typed, TypeOK, Message
    <3>3. open => Stands(t)'
      BY <2>1, <3>1, <3>2 DEF Stands, Moved, chat, table
    <3>4. QED
      BY <1>0, <1>1, <2>1, <2>2, <2>3, <3>1, <3>3 DEF OneAtATime, chat, table
  <2>6. QED
    BY <2>4, <2>5
<1>4. ASSUME NEW r \in Requests, Show(r) \/ Ask(r) \/ Store(r) PROVE OneAtATime'
  <2>1. r \notin Turns /\ UNCHANGED chat
    BY <1>4, Kinds DEF Show, Ask, Store, At, Typed
  <2>2. CASE Show(r)
    BY <1>0, <1>2, <2>1, <2>2, MovedMiss DEF Show, OneAtATime, chat
  <2>3. CASE Ask(r)
    BY <1>0, <1>2, <2>1, <2>3, MovedAsk DEF OneAtATime, chat
  <2>4. CASE Store(r)
    <3>1. Moved(r, "done", None, FALSE)
      BY <2>4, MovedOver DEF Store
    <3>2. ~stained' /\ UNCHANGED <<table, deleter>>
      BY <1>0, <2>1 DEF OneAtATime, chat
    <3>3. QED
      BY <1>2, <2>1, <3>1, <3>2
  <2>5. QED
    BY <1>4, <2>2, <2>3, <2>4
<1>5. ASSUME NEW r \in Requests, Query(r) PROVE OneAtATime'
  <2>1. Moved(r, "fill", msgs, req[r].first) /\ UNCHANGED chat /\ req[r].pc = "query"
    BY <1>5, MovedQuery DEF Query, At
  <2>2. CASE r \notin Turns
    BY <1>0, <1>2, <2>1, <2>2 DEF OneAtATime, chat
  <2>3. CASE r \in Turns
    <3>1. Stands(r)' /\ Active(r) /\ (Unwritten' => Unwritten)
      BY <1>0, <2>1, <2>3 DEF Stands, Moved, Active, Unwritten
    <3>2. QED
      BY <1>0, <1>1, <2>1, <2>3, <3>1 DEF OneAtATime, chat, table
  <2>4. QED
    BY <2>2, <2>3
<1>6. ASSUME NEW r \in Requests, Fill(r) PROVE OneAtATime'
  <2>1. /\ Moved(r, IF r \in Turns THEN "model" ELSE "idle", None,
                  r \in Turns /\ req[r].seen = {})
        /\ UNCHANGED <<table, deleter>> /\ req[r].pc = "fill"
    BY <1>6, MovedHave DEF Fill, At
  <2>2. req[r].seen = msgs /\ ~stained'
    BY <1>0, <1>6 DEF Fill, OneAtATime
  <2>3. CASE r \notin Turns
    BY <1>0, <1>2, <2>1, <2>2, <2>3
  <2>4. CASE r \in Turns
    <3>1. Stands(r)' /\ Active(r) /\ (Unwritten' => Unwritten)
      BY <1>0, <2>1, <2>2, <2>4 DEF Stands, Moved, Active, Unwritten, table
    <3>2. QED
      BY <1>0, <1>1, <2>1, <2>2, <2>4, <3>1 DEF OneAtATime, table
  <2>5. QED
    BY <2>3, <2>4
<1>7. ASSUME NEW r \in Requests, Stream(r) PROVE OneAtATime'
  <2>1. Moved(r, "user", req[r].seen, req[r].first)
    BY <1>7, MovedGoto DEF Stream
  <2>2. UNCHANGED chat /\ req[r].pc = "model" /\ r \in Turns
    BY <1>7 DEF Stream, At, Typed
  <2>3. Active(r) /\ (Unwritten' => Unwritten) /\ (open => Stands(r)')
    BY <1>0, <2>1, <2>2 DEF OneAtATime, Stands, Moved, Active, Unwritten, chat, table
  <2>4. QED
    BY <1>0, <1>1, <2>1, <2>2, <2>3 DEF OneAtATime, chat, table
<1>8. ASSUME NEW r \in Requests, Raise(r) \/ (Break(r) /\ req[r].pc = "user") PROVE OneAtATime'
  <2>1. Moved(r, "failed", None, FALSE) /\ req[r].pc \in {"model", "ask", "user"}
    BY <1>8, MovedOver DEF Raise, Break
  <2>2. UNCHANGED <<table, deleter>> /\ ~stained'
    BY <1>0, <1>8 DEF Raise, Break, OneAtATime, chat
  <2>3. Stands(r)' /\ (Unwritten' => Unwritten)
    BY <1>0, <2>1 DEF Stands, Moved, Unwritten
  <2>4. QED
    BY <1>0, <1>1, <2>1, <2>2, <2>3 DEF OneAtATime, table
<1>9. ASSUME NEW t \in Requests, AppendUser(t) PROVE OneAtATime'
  <2>1. Writes(t, "user", "user", "assistant")
    BY <1>9, WriteEffect
  <2>2. msgs' # {} /\ Active(t) /\ t \in Turns
    BY <2>1 DEF Writes, Active
  <2>3. open => Unwritten
    BY <1>0, <2>1, <2>2 DEF OneAtATime, Active, Unwritten, Writes
  <2>4. open => Stands(t)'
    BY <1>0, <2>1, <2>2, <2>3 DEF OneAtATime, Stands, Writes, Moved
  <2>5. ~Unwritten'
    BY <2>1, <2>2 DEF Unwritten, Writes, Moved
  <2>6. QED
    BY <1>0, <1>1, <2>1, <2>2, <2>4, <2>5 DEF OneAtATime, Writes
<1>10. ASSUME NEW t \in Requests, AppendAnswer(t) PROVE OneAtATime'
  <2>1. Writes(t, "assistant", "assistant", "tomb")
    BY <1>10, WriteEffect
  <2>2. msgs' # {} /\ Active(t) /\ t \in Turns
    BY <2>1 DEF Writes, Active
  <2>3. open => Stands(t)'
    BY <1>0, <2>1, <2>2 DEF OneAtATime, Stands, Writes, Moved
  <2>4. ~Unwritten'
    BY <2>1, <2>2 DEF Unwritten, Writes, Moved
  <2>5. QED
    BY <1>0, <1>1, <2>1, <2>2, <2>3, <2>4 DEF OneAtATime, Writes
<1>11. ASSUME NEW t \in Requests, Invalidate(t) PROVE OneAtATime'
  <2>1. UNCHANGED <<table, deleter>> /\ ~stained' /\ req[t].pc = "tomb" /\ t \in Turns
    BY <1>11 DEF Invalidate, At, Typed
  <2>2. Active(t) /\ (open => msgs # {} /\ (req[t].first <=> renames = 0))
    BY <1>0, <2>1 DEF OneAtATime, Stands, Active
  <2>3. CASE req[t].first
    <3>1. Moved(t, "title", req[t].seen, req[t].first)
      BY <1>11, <2>3, MovedGoto DEF Invalidate, AfterReset
    <3>2. ~Unwritten' /\ (open => Stands(t)')
      BY <2>1, <2>2, <2>3, <3>1 DEF Unwritten, Stands, Moved, table
    <3>3. QED
      BY <1>0, <1>1, <2>1, <2>2, <3>1, <3>2 DEF OneAtATime, table
  <2>4. CASE ~req[t].first
    <3>1. Moved(t, "done", None, FALSE)
      BY <1>11, <2>4, MovedOver DEF Invalidate, AfterReset
    <3>2. open => Stands(t)' /\ renames = 1
      BY <1>0, <2>1, <2>2, <2>4, <3>1 DEF OneAtATime, Stands, Moved, table
    <3>3. UNCHANGED <<open, msgs, renames, deleter>>
      BY <2>1 DEF table
    <3>4. open /\ Unwritten' => (msgs' = {} <=> renames' = 0)
      BY <2>2, <3>2, <3>3
    <3>5. open => renames' \in {0, 1} /\ (renames = 1 => renames' = 1)
      BY <3>2, <3>3
    <3>6. open => Stands(t)'
      BY <3>2
    <3>7. QED
      BY <1>1, <2>1, <2>2, <3>1, <3>3, <3>4, <3>5, <3>6
  <2>5. QED
    BY <2>3, <2>4
<1>12. ASSUME NEW t \in Requests, Rename(t) PROVE OneAtATime'
  <2>1. /\ Moved(t, "done", None, FALSE) /\ req[t].pc = "title" /\ t \in Turns
        /\ renames' = Renamed /\ UNCHANGED <<open, msgs, deleter, stained>>
    BY <1>12, MovedOver DEF Rename, At, Typed
  <2>2. Active(t) /\ (open => msgs # {} /\ renames = 0 /\ renames' = 1)
    BY <1>0, <2>1 DEF OneAtATime, Stands, Active, Renamed
  <2>3. open => Stands(t)'
    BY <2>1, <2>2 DEF Stands, Moved
  <2>4. ~stained'
    BY <1>0, <2>1 DEF OneAtATime
  <2>5. open /\ Unwritten' => (msgs' = {} <=> renames' = 0)
    BY <2>1, <2>2
  <2>6. open => renames' \in {0, 1} /\ (renames = 1 => renames' = 1)
    BY <2>2
  <2>7. QED
    BY <1>1, <2>1, <2>2, <2>3, <2>4, <2>5, <2>6
<1>13. CASE DeleteRows
  BY <1>0, <1>13 DEF DeleteRows, OneAtATime, Active
<1>14. CASE Expire \/ DeleteCache \/ UNCHANGED vars
  <2>1. UNCHANGED <<table, req>> /\ ~stained' /\ (open => deleter' = deleter)
    BY <1>0, <1>14 DEF Expire, DeleteCache, vars, OneAtATime
  <2>2. QED
    BY <1>0, <2>1 DEF OneAtATime, Active, Stands, Unwritten, table
<1>15. ASSUME NEW t \in Requests, Break(t) PROVE req[t].pc = "user"
  BY <1>15 DEF Break
<1>16. QED
  BY <1>3, <1>4, <1>5, <1>6, <1>7, <1>8, <1>9, <1>10, <1>11, <1>12, <1>13, <1>14, <1>15
     DEF Next, Going

\* Turns that do not overlap, fail half way or meet a late fill name their
\* chat once (the first turn's rename, backend.py:217).
THEOREM NamedOnceHolds == Spec => []NamedOnce
<1>1. Init => (~mixed => OneAtATime)
  <2>1. Init => \A t \in Turns : req[t].pc = "idle"
    BY DEF Init, Idle, Requests, Streams
  <2>2. QED
    BY <2>1 DEF Init, OneAtATime, Active, Stands, Unwritten
<1>2. (~mixed => OneAtATime) => NamedOnce
  BY DEF OneAtATime, Stands, NamedOnce, At
<1>3. QED
  BY CleanHolds, <1>1, OneStep, <1>2, PTL DEF Spec

=============================================================================
