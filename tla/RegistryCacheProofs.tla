------------------------ MODULE RegistryCacheProofs ------------------------
(***************************************************************************)
(* Proofs about RegistryCache, for any callers, files, hashes and number   *)
(* of failing calls.                                                       *)
(***************************************************************************)
EXTENDS RegistryCache, TLAPS

-----------------------------------------------------------------------------
(* Types *)

\* What a call needs is there while it runs.
Ready(c) ==
    /\ pc[c] \in {"lookup", "read", "fill", "answered", "row", "commit", "store"}
          => file[c] \in Files
    /\ pc[c] \in {"row", "commit", "store"} => hash[c] \in Hashes
    /\ pc[c] = "fill" => found[c] \in {file[c]} \X Hashes
    /\ pc[c] \notin {"fill", "answered"} => found[c] = None
    /\ pc[c] \in {"delete", "forget"} => targets[c] \subseteq Scope(c)

Typed == TypeOK /\ \A c \in Callers : Ready(c)

LEMMA TypedInit == Init => Typed
BY ConstantsAssumption DEF Init, Typed, TypeOK, Ready

LEMMA ScopeType == ASSUME TypeOK, NEW c \in Callers PROVE Scope(c) \subseteq Files
BY DEF Scope, TypeOK

LEMMA TypedBegin ==
    ASSUME Typed, NEW c \in Callers, NEW f \in Files \cup {None},
           NEW h \in Hashes \cup {None}, NEW s \in {"lookup", "row", "list"},
           s # "list" => f \in Files, s = "row" => h \in Hashes,
           Begin(c, s, f, h)
    PROVE  Typed'
<1>1. /\ pc[c] = "idle" /\ pc' = [pc EXCEPT ![c] = s]
      /\ file' = [file EXCEPT ![c] = f]
      /\ hash' = [hash EXCEPT ![c] = h]
      /\ UNCHANGED <<db, cache, row, targets, found, fails>>
  BY DEF Begin
<1>2. dirty' \subseteq Files
  BY ScopeType DEF Begin, Meets, Typed, TypeOK
<1>3. alone' \in [Callers -> BOOLEAN]
  BY Zenon DEF Begin, Typed, TypeOK
<1>4. TypeOK'
  BY <1>1, <1>2, <1>3 DEF Typed, TypeOK
<1>5. ASSUME NEW d \in Callers PROVE Ready(d)'
  BY <1>1 DEF Typed, TypeOK, Ready, Scope
<1>6. QED
  BY <1>4, <1>5 DEF Typed

LEMMA TypedReturn ==
    ASSUME Typed, NEW c \in Callers, Return(c),
           db' \in [Files -> Hashes \cup {None}], cache' \in [Files -> Hashes \cup {None}],
           fails' \in 0..MaxFails, dirty' \subseteq Files
    PROVE  Typed'
<1>1. TypeOK'
  BY DEF Return, Goto, Typed, TypeOK
<1>2. ASSUME NEW d \in Callers PROVE Ready(d)'
  BY DEF Return, Goto, Typed, TypeOK, Ready, Scope
<1>3. QED
  BY <1>1, <1>2 DEF Typed

LEMMA TypedCall == ASSUME Typed, NEW c \in Callers, Call(c) PROVE Typed'
<1> USE ConstantsAssumption
<1>1. ASSUME NEW f \in Files, StartGet(c, f) PROVE Typed'
  BY <1>1, TypedBegin DEF StartGet
<1>2. ASSUME NEW f \in Files \cup {None}, StartRemove(c, f) PROVE Typed'
  BY <1>2, TypedBegin DEF StartRemove
<1>3. ASSUME NEW f \in Files, NEW h \in Hashes, StartSet(c, f, h) PROVE Typed'
  BY <1>3, TypedBegin DEF StartSet
<1>4. CASE Hit(c)
  BY <1>4 DEF Hit, Goto, Typed, TypeOK, Ready, Scope
<1>5. CASE Miss(c)
  BY <1>5 DEF Miss, Goto, Typed, TypeOK, Ready, Scope
<1>6. CASE ReadBase(c)
  BY <1>6 DEF ReadBase, Goto, Typed, TypeOK, Ready, Scope
<1>7. CASE Fill(c)
  BY <1>7 DEF Fill, Goto, Typed, TypeOK, Ready, Scope
<1>8. CASE EndGet(c)
  BY <1>8, TypedReturn DEF EndGet, Typed, TypeOK
<1>9. CASE ReadRow(c)
  BY <1>9 DEF ReadRow, Goto, Typed, TypeOK, Ready, Scope
<1>10. CASE Commit(c)
  BY <1>10 DEF Commit, Goto, Typed, TypeOK, Ready, Scope
<1>11. CASE Conflict(c)
  BY <1>11, TypedReturn DEF Conflict, Typed, TypeOK
<1>12. CASE Store(c)
  BY <1>12, TypedReturn DEF Store, Repaired, Typed, TypeOK, Ready
<1>13. CASE ListTargets(c)
  BY <1>13 DEF ListTargets, Goto, Typed, TypeOK, Ready, Scope
<1>14. CASE DeleteRows(c)
  BY <1>14 DEF DeleteRows, Goto, Typed, TypeOK, Ready, Scope
<1>15. CASE Tombstone(c)
  BY <1>15 DEF Tombstone, Repaired, Typed, TypeOK, Ready, Scope
<1>16. CASE EndRemove(c)
  BY <1>16, TypedReturn DEF EndRemove, Typed, TypeOK
<1>17. CASE Fail(c)
  BY <1>17, TypedReturn DEF Fail, Typed, TypeOK, Ready
<1>18. QED
  BY <1>1, <1>2, <1>3, <1>4, <1>5, <1>6, <1>7, <1>8, <1>9, <1>10, <1>11, <1>12,
     <1>13, <1>14, <1>15, <1>16, <1>17 DEF Call

LEMMA TypedStep == Typed /\ [Next]_vars => Typed'
<1> SUFFICES ASSUME Typed, [Next]_vars PROVE Typed'
  OBVIOUS
<1>1. ASSUME NEW f \in Files, Expire(f) PROVE Typed'
  BY <1>1 DEF Expire, calls, Typed, TypeOK, Ready, Scope
<1>2. CASE UNCHANGED vars
  BY <1>2 DEF vars, calls, Typed, TypeOK, Ready, Scope
<1>3. QED
  BY <1>1, <1>2, TypedCall DEF Next

LEMMA TypedCorrect == Spec => []Typed
BY TypedInit, TypedStep, PTL DEF Spec

\* Type correctness; in particular only hashes are cached for files, however calls
\* interleave and fail.
THEOREM TypeCorrect == Spec => []TypeOK
BY TypedCorrect, PTL DEF Typed

-----------------------------------------------------------------------------
(* What is in the cache *)

Agree(f) == cache[f] \in {None, db[f]}

\* Calls that meet are marked, at the file and at the writing call.
Marked ==
    \A c, d \in Callers : \A f \in Scope(c) \cap Scope(d) :
        c # d /\ Writing(c) => f \in dirty /\ ~alone[c]

\* What call c knows of file f, as long as no other call meets it there.
Knows(c, f) ==
    /\ pc[c] = "fill" => found[c][2] = db[f]
    /\ pc[c] = "commit" => row[c] = db[f]
    /\ pc[c] = "store" => hash[c] = db[f]
    /\ pc[c] = "delete" /\ f \notin targets[c] => db[f] = None
    /\ pc[c] = "forget" => db[f] = None /\ (f \notin targets[c] \cup dirty => Agree(f))

\* A clean file has a true entry, except between the write of its row and the
\* write of its entry.
Entries ==
    \A f \in Files \ dirty :
        (\A c \in Callers : f \in Scope(c) => pc[c] \notin {"store", "forget"}) => Agree(f)

Known ==
    \A c \in Callers : \A f \in Scope(c) :
        f \notin dirty \/ (Writing(c) /\ alone[c]) => Knows(c, f)

CacheInv == Marked /\ Entries /\ Known

LEMMA CacheInvInit == Init => CacheInv
BY DEF Init, CacheInv, Marked, Entries, Known, Scope, Agree

\* A call that begins changes what is marked and nothing that others know.
LEMMA CacheInvBegin ==
    ASSUME Typed, CacheInv, NEW c \in Callers, NEW f \in Files \cup {None},
           NEW h \in Hashes \cup {None}, NEW s \in {"lookup", "row", "list"},
           s # "list" => f \in Files, Begin(c, s, f, h)
    PROVE  CacheInv'
<1> USE ConstantsAssumption
<1>1. /\ pc[c] = "idle" /\ pc' = [pc EXCEPT ![c] = s]
      /\ file' = [file EXCEPT ![c] = f]
      /\ hash' = [hash EXCEPT ![c] = h]
      /\ UNCHANGED <<db, cache, row, targets, found, fails>>
  BY DEF Begin
<1>2. \A d \in Callers : d # c => /\ Scope(d)' = Scope(d) /\ (Writing(d)' <=> Writing(d))
                                 /\ (alone'[d] => alone[d])
  BY <1>1 DEF Begin, Scope, Writing, Typed, TypeOK
<1>3. Scope(c)' = (IF f = None THEN Files ELSE {f}) /\ (Writing(c)' <=> s # "lookup")
  BY <1>1 DEF Scope, Writing, Typed, TypeOK
<1>4. dirty \subseteq dirty'
  BY DEF Begin
<1>5. ASSUME NEW d \in Callers, d # c, NEW g \in Scope(d), g \in Scope(c)',
             Writing(d) \/ s # "lookup"
      PROVE  g \in dirty' /\ ~alone'[d] /\ ~alone'[c]
  <2>1. g \in Meets(c, s, f, d)
    BY <1>3, <1>5 DEF Meets
  <2>2. g \in dirty'
    BY <2>1 DEF Begin
  <2>3. ~alone'[d] /\ ~alone'[c]
    BY <1>5, <2>1 DEF Begin
  <2>4. QED
    BY <2>2, <2>3
<1>6. Marked'
  <2> SUFFICES ASSUME NEW d \in Callers, NEW e \in Callers, d # e,
                      NEW g \in Scope(d)' \cap Scope(e)', Writing(d)'
               PROVE  g \in dirty' /\ ~alone'[d]
    BY DEF Marked
  <2>1. CASE d = c
    BY <1>2, <1>3, <1>5, <2>1
  <2>2. CASE e = c
    BY <1>2, <1>5, <2>2
  <2>3. CASE d # c /\ e # c
    BY <1>2, <1>4, <2>3 DEF CacheInv, Marked
  <2>4. QED
    BY <2>1, <2>2, <2>3
<1>7. Entries'
  <2> SUFFICES ASSUME NEW g \in Files \ dirty',
                      \A d \in Callers : g \in Scope(d)' => pc'[d] \notin {"store", "forget"}
               PROVE  Agree(g)'
    BY DEF Entries
  <2>1. \A d \in Callers : g \in Scope(d) => pc[d] \notin {"store", "forget"}
    BY <1>1, <1>2 DEF Typed, TypeOK
  <2>2. QED
    BY <1>1, <1>4, <2>1 DEF CacheInv, Entries, Agree
<1>8. Known'
  <2> SUFFICES ASSUME NEW d \in Callers, NEW g \in Scope(d)',
                      g \notin dirty' \/ (Writing(d)' /\ alone'[d])
               PROVE  Knows(d, g)'
    BY DEF Known
  <2>1. CASE d = c
    BY <1>1, <2>1 DEF Knows, Typed, TypeOK
  <2>2. CASE d # c
    <3>1. Knows(d, g) /\ g \in Scope(d)
      BY <1>2, <1>4, <2>2 DEF CacheInv, Known
    <3>2. QED
      BY <1>1, <1>4, <2>2, <3>1 DEF Knows, Agree, Typed, TypeOK
  <2>3. QED
    BY <2>1, <2>2
<1>9. QED
  BY <1>6, <1>7, <1>8 DEF CacheInv

\* A step of c inside its call: the other calls stay as they are, only a write
\* touches the database, and only an unmet write makes a file clean.
Inside(c) ==
    /\ \A d \in Callers \ {c} :
          /\ Scope(d)' = Scope(d) /\ (Writing(d)' <=> Writing(d)) /\ alone'[d] = alone[d]
          /\ pc'[d] = pc[d] /\ hash'[d] = hash[d] /\ row'[d] = row[d]
          /\ targets'[d] = targets[d] /\ found'[d] = found[d]
    /\ Scope(c)' \subseteq Scope(c)
    /\ Writing(c)' => Writing(c) /\ alone'[c] = alone[c]
    /\ \A g \in dirty \ dirty' : Writing(c) /\ alone[c] /\ g \in Scope(c)
    /\ \A g \in Files : db'[g] # db[g] => Writing(c) /\ g \in Scope(c)
    /\ \A g \in Files : cache'[g] # cache[g] => g \in Scope(c)

LEMMA InsideMarked ==
    ASSUME Typed, CacheInv, NEW c \in Callers, Inside(c)
    PROVE  Marked'
<1> SUFFICES ASSUME NEW d \in Callers, NEW e \in Callers, d # e,
                    NEW g \in Scope(d)' \cap Scope(e)', Writing(d)'
             PROVE  g \in dirty' /\ ~alone'[d]
  BY DEF Marked
<1>1. g \in Scope(d) /\ g \in Scope(e) /\ Writing(d) /\ alone'[d] = alone[d]
  BY DEF Inside
<1>2. g \in dirty /\ ~alone[d]
  BY <1>1 DEF CacheInv, Marked
<1>3. ~(Writing(c) /\ alone[c] /\ g \in Scope(c))
  BY <1>1, <1>2 DEF CacheInv, Marked
<1>4. QED
  BY <1>1, <1>2, <1>3 DEF Inside

LEMMA InsideKnown ==
    ASSUME Typed, CacheInv, NEW c \in Callers, Inside(c),
           NEW d \in Callers \ {c}, NEW g \in Scope(d)',
           g \notin dirty' \/ (Writing(d)' /\ alone'[d])
    PROVE  Knows(d, g)'
<1>1. /\ g \in Scope(d) /\ g \in Files
      /\ (Writing(d)' <=> Writing(d)) /\ alone'[d] = alone[d]
      /\ pc'[d] = pc[d] /\ hash'[d] = hash[d] /\ row'[d] = row[d]
      /\ targets'[d] = targets[d] /\ found'[d] = found[d]
  BY ScopeType DEF Inside, Typed
<1>2. CASE g \notin Scope(c)
  <2>1. db'[g] = db[g] /\ cache'[g] = cache[g] /\ (g \notin dirty' => g \notin dirty)
    BY <1>1, <1>2 DEF Inside
  <2>2. Knows(d, g)
    BY <1>1, <2>1 DEF CacheInv, Known
  <2>3. QED
    BY <1>1, <2>1, <2>2 DEF Knows, Agree
<1>3. CASE g \in Scope(c) /\ (Writing(c) \/ Writing(d))
  <2>1. g \in dirty /\ (Writing(c) => ~alone[c]) /\ (Writing(d) => ~alone[d])
    BY <1>1, <1>3 DEF CacheInv, Marked
  <2>2. g \in dirty'
    BY <2>1 DEF Inside
  <2>3. QED
    BY <1>1, <2>1, <2>2
<1>4. CASE g \in Scope(c) /\ ~Writing(c) /\ ~Writing(d)
  <2>1. db'[g] = db[g] /\ (g \notin dirty' => g \notin dirty)
    BY <1>1, <1>4 DEF Inside
  <2>2. Knows(d, g)
    BY <1>1, <1>4, <2>1 DEF CacheInv, Known
  <2>3. QED
    BY <1>1, <1>4, <2>1, <2>2 DEF Knows, Writing
<1>5. QED
  BY <1>2, <1>3, <1>4

LEMMA InsideEntries ==
    ASSUME Typed, CacheInv, NEW c \in Callers, Inside(c),
           \A g \in Scope(c) \ dirty' :
               Agree(g)' \/ (g \in Scope(c)' /\ pc'[c] \in {"store", "forget"})
    PROVE  Entries'
<1> SUFFICES ASSUME NEW g \in Files \ dirty',
                    \A d \in Callers : g \in Scope(d)' => pc'[d] \notin {"store", "forget"}
             PROVE  Agree(g)'
  BY DEF Entries
<1>1. CASE g \in Scope(c)
  BY <1>1
<1>2. CASE g \notin Scope(c)
  <2>1. g \notin dirty /\ db'[g] = db[g] /\ cache'[g] = cache[g]
    BY <1>2 DEF Inside
  <2>2. \A d \in Callers : g \in Scope(d) => pc[d] \notin {"store", "forget"}
    BY <1>2 DEF Inside
  <2>3. QED
    BY <2>1, <2>2 DEF CacheInv, Entries, Agree
<1>3. QED
  BY <1>1, <1>2

\* So it remains to look at the call itself and at the entries of its files.
LEMMA InsideStep ==
    ASSUME Typed, CacheInv, NEW c \in Callers, Inside(c),
           \A g \in Scope(c) \ dirty' :
               Agree(g)' \/ (g \in Scope(c)' /\ pc'[c] \in {"store", "forget"}),
           \A g \in Scope(c)' :
               g \notin dirty' \/ (Writing(c)' /\ alone'[c]) => Knows(c, g)'
    PROVE  CacheInv'
<1>1. Known'
  BY InsideKnown DEF Known
<1>2. QED
  BY <1>1, InsideMarked, InsideEntries DEF CacheInv

\* A clean file of a call that is not between row and entry has a true entry.
LEMMA CleanHere ==
    ASSUME Typed, CacheInv, NEW c \in Callers, pc[c] \notin {"store", "forget"},
           NEW g \in Scope(c) \ dirty
    PROVE  Agree(g)
<1>1. g \in Files
  BY ScopeType DEF Typed
<1>2. ASSUME NEW d \in Callers, g \in Scope(d) PROVE pc[d] \notin {"store", "forget"}
  BY <1>2 DEF CacheInv, Marked, Writing
<1>3. QED
  BY <1>1, <1>2 DEF CacheInv, Entries

LEMMA ReturnInside ==
    ASSUME Typed, NEW c \in Callers, Return(c), db' = db,
           \A g \in Files : cache'[g] # cache[g] => g \in Scope(c),
           \A g \in dirty \ dirty' : Writing(c) /\ alone[c] /\ g \in Scope(c)
    PROVE  Inside(c) /\ Scope(c)' = {}
<1>1. pc'[c] = "idle"
  BY DEF Return, Goto, Typed, TypeOK
<1>2. Scope(c)' = {} /\ ~Writing(c)'
  BY <1>1 DEF Scope, Writing
<1>3. \A d \in Callers \ {c} :
          /\ Scope(d)' = Scope(d) /\ (Writing(d)' <=> Writing(d)) /\ alone'[d] = alone[d]
          /\ pc'[d] = pc[d] /\ hash'[d] = hash[d] /\ row'[d] = row[d]
          /\ targets'[d] = targets[d] /\ found'[d] = found[d]
  BY DEF Return, Goto, Typed, TypeOK, Scope, Writing
<1>4. QED
  BY <1>2, <1>3 DEF Inside

LEMMA GotoInside ==
    ASSUME Typed, NEW c \in Callers, pc[c] # "idle",
           NEW s, s # "idle", Goto(c, s), UNCHANGED <<file, hash, alone>>,
           \A d \in Callers \ {c} :
               row'[d] = row[d] /\ targets'[d] = targets[d] /\ found'[d] = found[d],
           s \in {"row", "commit", "store", "list", "delete", "forget"} => Writing(c),
           \A g \in Files : db'[g] # db[g] => Writing(c) /\ g \in Scope(c),
           \A g \in Files : cache'[g] # cache[g] => g \in Scope(c),
           \A g \in dirty \ dirty' : Writing(c) /\ alone[c] /\ g \in Scope(c)
    PROVE  Inside(c) /\ Scope(c)' = Scope(c) /\ pc'[c] = s
<1>1. pc'[c] = s /\ \A d \in Callers \ {c} : pc'[d] = pc[d]
  BY DEF Goto, Typed, TypeOK
<1>2. Scope(c)' = Scope(c) /\ (Writing(c)' => Writing(c))
  BY <1>1 DEF Scope, Writing
<1>3. \A d \in Callers \ {c} : Scope(d)' = Scope(d) /\ (Writing(d)' <=> Writing(d))
  BY <1>1 DEF Scope, Writing
<1>4. QED
  BY <1>1, <1>2, <1>3 DEF Inside

LEMMA CacheInvGet ==
    ASSUME Typed, CacheInv, NEW c \in Callers,
           Hit(c) \/ Miss(c) \/ ReadBase(c) \/ Fill(c) \/ EndGet(c)
    PROVE  CacheInv'
<1> USE ConstantsAssumption
<1>1. CASE Hit(c) \/ Miss(c) \/ ReadBase(c)
  <2>1. /\ pc[c] \in {"lookup", "read"} /\ pc'[c] \in {"read", "fill", "answered"}
        /\ pc'[c] = "fill" => found'[c][2] = db[file[c]]
        /\ UNCHANGED <<db, cache, dirty>> /\ file[c] \in Files /\ file'[c] = file[c]
    BY <1>1 DEF Hit, Miss, ReadBase, Goto, Typed, TypeOK, Ready
  <2>2. PICK s \in {"read", "fill", "answered"} : Goto(c, s)
    BY <1>1 DEF Hit, Miss, ReadBase
  <2>3. /\ UNCHANGED <<file, hash, alone, row, targets>>
        /\ \A d \in Callers \ {c} : found'[d] = found[d]
    BY <1>1 DEF Hit, Miss, ReadBase, Typed, TypeOK
  <2>4. Inside(c) /\ Scope(c) = {file[c]} /\ Scope(c)' = {file[c]}
    BY <2>1, <2>2, <2>3, GotoInside DEF Scope
  <2>5. \A g \in Scope(c) \ dirty : Agree(g)
    BY <2>1, CleanHere
  <2>6. \A g \in Scope(c)' : Knows(c, g)'
    BY <2>1, <2>4 DEF Knows
  <2>7. QED
    BY <2>1, <2>4, <2>5, <2>6, InsideStep DEF Agree
<1>2. CASE Fill(c)
  <2>1. /\ pc[c] = "fill" /\ pc'[c] = "answered" /\ file[c] \in Files
        /\ file'[c] = file[c] /\ UNCHANGED <<db, dirty>>
        /\ cache' = [cache EXCEPT ![file[c]] = found[c][2]]
    BY <1>2 DEF Fill, Goto, Typed, TypeOK, Ready
  <2>2. Scope(c) = {file[c]} /\ Scope(c)' = {file[c]}
    BY <2>1 DEF Scope
  <2>3. Inside(c)
    BY <1>2, <2>1, <2>2, GotoInside DEF Fill, Typed, TypeOK
  <2>4. ASSUME NEW g \in Scope(c) \ dirty' PROVE Agree(g)'
    <3>1. found[c][2] = db[g]
      BY <2>1, <2>2 DEF CacheInv, Known, Knows
    <3>2. QED
      BY <2>1, <2>2, <3>1 DEF Agree, Typed, TypeOK
  <2>5. \A g \in Scope(c)' : Knows(c, g)'
    BY <2>1 DEF Knows
  <2>6. QED
    BY <2>3, <2>4, <2>5, InsideStep
<1>3. CASE EndGet(c)
  <2>1. pc[c] = "answered" /\ UNCHANGED <<db, cache, dirty>>
    BY <1>3 DEF EndGet
  <2>2. Inside(c) /\ Scope(c)' = {}
    BY <1>3, <2>1, ReturnInside DEF EndGet
  <2>3. \A g \in Scope(c) \ dirty : Agree(g)
    BY <2>1, CleanHere
  <2>4. QED
    BY <2>1, <2>2, <2>3, InsideStep DEF Agree
<1>4. QED
  BY <1>1, <1>2, <1>3

LEMMA CacheInvSet ==
    ASSUME Typed, CacheInv, NEW c \in Callers,
           ReadRow(c) \/ Commit(c) \/ Conflict(c) \/ Store(c)
    PROVE  CacheInv'
<1> USE ConstantsAssumption
<1>1. CASE ReadRow(c)
  <2>1. /\ pc[c] = "row" /\ file[c] \in Files /\ row'[c] = db[file[c]]
        /\ Goto(c, "commit") /\ UNCHANGED <<db, cache, dirty>>
    BY <1>1 DEF ReadRow, Typed, TypeOK, Ready
  <2>2. Scope(c) = {file[c]} /\ Writing(c)
    BY <2>1 DEF Scope, Writing
  <2>3. /\ UNCHANGED <<file, hash, targets, found, alone>>
        /\ \A d \in Callers \ {c} : row'[d] = row[d]
    BY <1>1 DEF ReadRow, Typed, TypeOK
  <2>4. Inside(c) /\ pc'[c] = "commit" /\ Scope(c)' = Scope(c)
    BY <2>1, <2>2, <2>3, GotoInside
  <2>5. \A g \in Scope(c) \ dirty : Agree(g)
    BY <2>1, CleanHere
  <2>6. \A g \in Scope(c)' : Knows(c, g)'
    BY <2>1, <2>2, <2>4 DEF Knows
  <2>7. QED
    BY <2>1, <2>4, <2>5, <2>6, InsideStep DEF Agree
<1>2. CASE Commit(c)
  <2>1. /\ pc[c] = "commit" /\ file[c] \in Files /\ Goto(c, "store")
        /\ db' = IF row[c] = hash[c] THEN db ELSE [db EXCEPT ![file[c]] = hash[c]]
        /\ UNCHANGED <<cache, dirty, file, hash, alone>>
    BY <1>2 DEF Commit, Typed, TypeOK, Ready
  <2>2. Scope(c) = {file[c]} /\ Writing(c)
    BY <2>1 DEF Scope, Writing
  <2>3. \A g \in Files : db'[g] # db[g] => g = file[c]
    BY <2>1 DEF Typed, TypeOK
  <2>4. UNCHANGED <<row, targets, found>>
    BY <1>2 DEF Commit
  <2>5. Inside(c) /\ pc'[c] = "store" /\ Scope(c)' = Scope(c)
    BY <2>1, <2>2, <2>3, <2>4, GotoInside
  <2>6. ASSUME NEW g \in Scope(c)', g \notin dirty' \/ (Writing(c)' /\ alone'[c])
        PROVE  Knows(c, g)'
    <3>1. row[c] = db[g] /\ g = file[c]
      BY <2>1, <2>2, <2>5, <2>6 DEF CacheInv, Known, Knows
    <3>2. hash'[c] = db'[g]
      BY <2>1, <3>1 DEF Typed, TypeOK
    <3>3. QED
      BY <2>5, <3>2 DEF Knows
  <2>7. QED
    BY <2>5, <2>6, InsideStep
<1>3. CASE Conflict(c)
  <2>1. pc[c] = "commit" /\ UNCHANGED <<db, cache, dirty>>
    BY <1>3 DEF Conflict
  <2>2. Inside(c) /\ Scope(c)' = {}
    BY <1>3, <2>1, ReturnInside DEF Conflict
  <2>3. \A g \in Scope(c) \ dirty : Agree(g)
    BY <2>1, CleanHere
  <2>4. QED
    BY <2>1, <2>2, <2>3, InsideStep DEF Agree
<1>4. CASE Store(c)
  <2>1. /\ pc[c] = "store" /\ file[c] \in Files /\ db' = db /\ Return(c)
        /\ cache' = [cache EXCEPT ![file[c]] = hash[c]]
        /\ dirty' = IF alone[c] THEN dirty \ {file[c]} ELSE dirty
    BY <1>4 DEF Store, Repaired, Typed, TypeOK, Ready
  <2>2. Scope(c) = {file[c]} /\ Writing(c)
    BY <2>1 DEF Scope, Writing
  <2>3. Inside(c) /\ Scope(c)' = {}
    BY <2>1, <2>2, ReturnInside DEF Typed, TypeOK
  <2>4. ASSUME NEW g \in Scope(c) \ dirty' PROVE Agree(g)'
    <3>1. hash[c] = db[g] /\ g = file[c]
      BY <2>1, <2>2 DEF CacheInv, Known, Knows
    <3>2. QED
      BY <2>1, <3>1 DEF Agree, Typed, TypeOK
  <2>5. QED
    BY <2>3, <2>4, InsideStep
<1>5. QED
  BY <1>1, <1>2, <1>3, <1>4

LEMMA CacheInvRemove ==
    ASSUME Typed, CacheInv, NEW c \in Callers,
           ListTargets(c) \/ DeleteRows(c) \/ Tombstone(c) \/ EndRemove(c)
    PROVE  CacheInv'
<1> USE ConstantsAssumption
<1>1. CASE ListTargets(c)
  <2>1. /\ pc[c] = "list" /\ Goto(c, "delete") /\ UNCHANGED <<db, cache, dirty>>
        /\ targets'[c] = IF file[c] = None THEN {f \in Files : db[f] # None} ELSE {file[c]}
    BY <1>1 DEF ListTargets, Typed, TypeOK
  <2>2. Writing(c) /\ Scope(c) = IF file[c] = None THEN Files ELSE {file[c]}
    BY <2>1 DEF Scope, Writing
  <2>3. /\ UNCHANGED <<file, hash, row, found, alone>>
        /\ \A d \in Callers \ {c} : targets'[d] = targets[d]
    BY <1>1 DEF ListTargets, Typed, TypeOK
  <2>4. Inside(c) /\ pc'[c] = "delete" /\ Scope(c)' = Scope(c)
    BY <2>1, <2>2, <2>3, GotoInside
  <2>5. \A g \in Scope(c) \ dirty : Agree(g)
    BY <2>1, CleanHere
  <2>6. \A g \in Scope(c)' : Knows(c, g)'
    <3> SUFFICES ASSUME NEW g \in Scope(c), g \notin targets'[c] PROVE db[g] = None
      BY <2>1, <2>4 DEF Knows
    <3>1. QED
      BY <2>1, <2>2
  <2>7. QED
    BY <2>1, <2>4, <2>5, <2>6, InsideStep DEF Agree
<1>2. CASE DeleteRows(c)
  <2>1. /\ pc[c] = "delete" /\ Goto(c, "forget")
        /\ db' = [f \in Files |-> IF f \in Scope(c) THEN None ELSE db[f]]
        /\ UNCHANGED <<cache, dirty, targets, alone>>
    BY <1>2 DEF DeleteRows
  <2>2. Writing(c) /\ Scope(c) \subseteq Files
    BY <2>1, ScopeType DEF Writing, Typed
  <2>3. \A g \in Files : db'[g] # db[g] => g \in Scope(c)
    BY <2>1
  <2>4. UNCHANGED <<file, hash, row, targets, found, alone>>
    BY <1>2 DEF DeleteRows
  <2>5. Inside(c) /\ pc'[c] = "forget" /\ Scope(c)' = Scope(c)
    BY <2>1, <2>2, <2>3, <2>4, GotoInside
  <2>6. ASSUME NEW g \in Scope(c)', g \notin dirty' \/ (Writing(c)' /\ alone'[c])
        PROVE  Knows(c, g)'
    <3>1. db'[g] = None
      BY <2>1, <2>2, <2>5
    <3>2. ASSUME g \notin targets[c] \cup dirty PROVE Agree(g)'
      <4>1. Agree(g) /\ db[g] = None
        BY <2>1, <2>5, <3>2, CleanHere DEF CacheInv, Known, Knows
      <4>2. QED
        BY <2>1, <3>1, <4>1 DEF Agree
    <3>3. QED
      BY <2>1, <2>5, <3>1, <3>2 DEF Knows
  <2>7. QED
    BY <2>5, <2>6, InsideStep
<1>3. CASE Tombstone(c)
  <2>1. PICK f \in targets[c] :
          /\ cache' = [cache EXCEPT ![f] = None]
          /\ targets' = [targets EXCEPT ![c] = @ \ {f}]
          /\ dirty' = IF alone[c] THEN dirty \ {f} ELSE dirty
    BY <1>3 DEF Tombstone, Repaired
  <2>2. /\ pc[c] = "forget" /\ f \in Scope(c) /\ f \in Files
        /\ UNCHANGED <<db, pc, file, hash, row, found, alone>>
    BY <1>3, ScopeType DEF Tombstone, Typed, TypeOK, Ready
  <2>3. Scope(c)' = Scope(c) /\ Writing(c) /\ pc'[c] = "forget"
    BY <2>2 DEF Scope, Writing
  <2>4. \A d \in Callers \ {c} : Scope(d)' = Scope(d) /\ (Writing(d)' <=> Writing(d))
                                /\ targets'[d] = targets[d]
    BY <2>1, <2>2 DEF Scope, Writing, Typed, TypeOK
  <2>5. /\ \A g \in dirty \ dirty' : g = f /\ alone[c]
        /\ \A g \in Files : cache'[g] # cache[g] => g = f
        /\ cache'[f] = None
    BY <2>1, <2>2 DEF Typed, TypeOK
  <2>6. Inside(c)
    BY <2>2, <2>3, <2>4, <2>5 DEF Inside
  <2>7. ASSUME NEW g \in Scope(c)', g \notin dirty' \/ (Writing(c)' /\ alone'[c])
        PROVE  Knows(c, g)'
    <3>1. g \in Scope(c) /\ (g \notin dirty \/ (Writing(c) /\ alone[c]))
      BY <2>2, <2>3, <2>5, <2>7
    <3>2. db'[g] = None /\ (g \notin targets[c] \cup dirty => Agree(g))
      BY <2>2, <3>1 DEF CacheInv, Known, Knows
    <3>3. ASSUME g \notin targets'[c] \cup dirty' PROVE Agree(g)'
      <4>1. CASE g = f
        BY <2>5, <4>1 DEF Agree
      <4>2. CASE g # f
        <5>1. g \notin targets[c] \cup dirty /\ g \in Files
          BY <2>1, <2>5, <3>1, <3>3, <4>2, ScopeType DEF Typed, TypeOK
        <5>2. cache'[g] = cache[g] /\ db'[g] = db[g]
          BY <2>2, <2>5, <4>2, <5>1
        <5>3. QED
          BY <3>2, <5>1, <5>2 DEF Agree
      <4>3. QED
        BY <4>1, <4>2
    <3>4. QED
      BY <2>3, <3>2, <3>3 DEF Knows
  <2>8. QED
    BY <2>3, <2>6, <2>7, InsideStep
<1>4. CASE EndRemove(c)
  <2>1. pc[c] = "forget" /\ targets[c] = {} /\ UNCHANGED <<db, cache, dirty>>
    BY <1>4 DEF EndRemove
  <2>2. Inside(c) /\ Scope(c)' = {}
    BY <1>4, <2>1, ReturnInside DEF EndRemove
  <2>3. \A g \in Scope(c) \ dirty : Agree(g)
    BY <2>1 DEF CacheInv, Known, Knows
  <2>4. QED
    BY <2>1, <2>2, <2>3, InsideStep DEF Agree
<1>5. QED
  BY <1>1, <1>2, <1>3, <1>4

LEMMA CacheInvFail ==
    ASSUME Typed, CacheInv, NEW c \in Callers, Fail(c)
    PROVE  CacheInv'
<1>1. UNCHANGED <<db, cache>> /\ Return(c) /\ dirty \subseteq dirty'
  BY DEF Fail
<1>2. Inside(c) /\ Scope(c)' = {}
  BY <1>1, ReturnInside
<1>3. ASSUME NEW g \in Scope(c) \ dirty' PROVE Agree(g)
  <2>1. CASE pc[c] = "store"
    <3>1. Scope(c) = {file[c]} /\ file[c] \in dirty'
      BY <2>1, ConstantsAssumption DEF Fail, Scope, Typed, Ready
    <3>2. QED
      BY <3>1
  <2>2. CASE pc[c] = "forget"
    <3>1. g \notin targets[c]
      BY <2>2 DEF Fail
    <3>2. QED
      BY <1>1, <2>2, <3>1 DEF CacheInv, Known, Knows
  <2>3. CASE pc[c] \notin {"store", "forget"}
    BY <1>1, <2>3, CleanHere
  <2>4. QED
    BY <2>1, <2>2, <2>3
<1>4. QED
  BY <1>1, <1>2, <1>3, InsideStep DEF Agree

LEMMA CacheInvExpire ==
    ASSUME Typed, CacheInv, NEW f \in Files, Expire(f)
    PROVE  CacheInv'
<1>1. /\ UNCHANGED <<db, pc, file, hash, row, targets, found, alone>>
      /\ cache' = [cache EXCEPT ![f] = None]
      /\ \A g \in dirty \ dirty' : g = f /\ \A c \in Callers : f \notin Scope(c)
      /\ dirty' \subseteq dirty
  BY DEF Expire, calls
<1>2. \A c \in Callers : Scope(c)' = Scope(c) /\ (Writing(c)' <=> Writing(c))
  BY <1>1 DEF Scope, Writing
<1>3. cache'[f] = None /\ \A g \in Files \ {f} : cache'[g] = cache[g]
  BY <1>1 DEF Typed, TypeOK
<1>4. Marked'
  BY <1>1, <1>2 DEF CacheInv, Marked
<1>5. Entries'
  <2> SUFFICES ASSUME NEW g \in Files \ dirty', g # f,
                      \A c \in Callers : g \in Scope(c)' => pc'[c] \notin {"store", "forget"}
               PROVE  Agree(g)'
    BY <1>3 DEF Entries, Agree
  <2>1. g \notin dirty /\ \A c \in Callers : g \in Scope(c) => pc[c] \notin {"store", "forget"}
    BY <1>1, <1>2
  <2>2. QED
    BY <1>1, <1>3, <2>1 DEF CacheInv, Entries, Agree
<1>6. Known'
  <2> SUFFICES ASSUME NEW c \in Callers, NEW g \in Scope(c)',
                      g \notin dirty' \/ (Writing(c)' /\ alone'[c])
               PROVE  Knows(c, g)'
    BY DEF Known
  <2>1. g \in Scope(c) /\ g \in Files /\ (g \notin dirty' => g \notin dirty)
    BY <1>1, <1>2, ScopeType DEF Typed
  <2>2. Knows(c, g)
    BY <1>1, <1>2, <2>1 DEF CacheInv, Known
  <2>3. Agree(g) => Agree(g)'
    BY <1>1, <1>3, <2>1 DEF Agree
  <2>4. QED
    BY <1>1, <2>1, <2>2, <2>3 DEF Knows
<1>7. QED
  BY <1>4, <1>5, <1>6 DEF CacheInv

LEMMA CacheInvStep == Typed /\ CacheInv /\ [Next]_vars => CacheInv'
<1> SUFFICES ASSUME Typed, CacheInv, [Next]_vars PROVE CacheInv'
  OBVIOUS
<1>1. ASSUME NEW c \in Callers, Call(c) PROVE CacheInv'
  <2>1. ASSUME NEW f \in Files, StartGet(c, f) PROVE CacheInv'
    BY <2>1, CacheInvBegin DEF StartGet
  <2>2. ASSUME NEW f \in Files \cup {None}, StartRemove(c, f) PROVE CacheInv'
    BY <2>2, CacheInvBegin DEF StartRemove
  <2>3. ASSUME NEW f \in Files, NEW h \in Hashes, StartSet(c, f, h) PROVE CacheInv'
    BY <2>3, CacheInvBegin DEF StartSet
  <2>4. QED
    BY <1>1, <2>1, <2>2, <2>3, CacheInvGet, CacheInvSet, CacheInvRemove, CacheInvFail
       DEF Call
<1>2. CASE UNCHANGED vars
  <2>1. \A c \in Callers : Scope(c)' = Scope(c) /\ (Writing(c)' <=> Writing(c))
    BY <1>2 DEF vars, calls, Scope, Writing
  <2>2. \A c \in Callers, g \in Files : Knows(c, g)' <=> Knows(c, g)
    BY <1>2 DEF vars, calls, Knows, Agree
  <2>3. QED
    BY <1>2, <2>1, <2>2, ScopeType
       DEF vars, calls, CacheInv, Marked, Entries, Known, Agree, Typed
<1>3. QED
  BY <1>1, <1>2, CacheInvExpire DEF Next

LEMMA CacheInvCorrect == Spec => [](Typed /\ CacheInv)
BY TypedInit, TypedStep, CacheInvInit, CacheInvStep, PTL DEF Spec

\* A cached hash is the one in the database, unless the last write of its file
\* raised half way or met another call for it; the next write of the file that
\* does neither, or the TTL, repairs the entry.
THEOREM CleanHashesAgreeHolds == Spec => []CleanHashesAgree
<1>1. Typed /\ CacheInv => CleanHashesAgree
  BY DEF CacheInv, Entries, Agree, CleanHashesAgree
<1>2. QED
  BY <1>1, CacheInvCorrect, PTL

-----------------------------------------------------------------------------
(* The refinement of HashTable *)

LEMMA RefinesInit == Init => Table!Init
BY DEF Init, Table!Init, Replies

\* Replies that stay or go are what HashTable allows at any moment.
LEMMA RepliesFade ==
    ASSUME db' = db, \A d \in Callers : Replies'[d] \in {None, Replies[d]}
    PROVE  Table!Next
<1> DEFINE gone == {d \in Callers : Replies'[d] = None}
<1>1. Replies' = [d \in Callers |-> IF d \in gone THEN None ELSE Replies[d]]
  BY DEF Replies
<1>2. Table!Return
  BY <1>1 DEF Table!Return
<1>3. QED
  BY <1>2 DEF Table!Next

\* Only an unmet write cleans a file, and nobody holds a reply about it then.
LEMMA CleanedUnheld ==
    ASSUME Typed, CacheInv, NEW c \in Callers, Writing(c), alone[c],
           NEW d \in Callers, d # c, file[d] \in Scope(c)
    PROVE  found[d] = None
<1>1. ASSUME found[d] # None PROVE FALSE
  <2>1. pc[d] \in {"fill", "answered"} /\ file[d] \in Files
    BY <1>1 DEF Typed, Ready
  <2>2. file[d] \in Scope(d)
    BY <2>1, ConstantsAssumption DEF Scope
  <2>3. QED
    BY <2>2 DEF CacheInv, Marked
<1>2. QED
  BY <1>1

LEMMA RefinesReturn ==
    ASSUME Typed, CacheInv, NEW c \in Callers, Return(c), db' = db,
           \A g \in dirty \ dirty' : Writing(c) /\ alone[c] /\ g \in Scope(c)
    PROVE  Table!Next
<1>1. found'[c] = None
  BY DEF Return, Typed, TypeOK
<1>2. \A d \in Callers \ {c} : found'[d] = found[d] /\ file'[d] = file[d]
  BY DEF Return, Typed, TypeOK
<1>3. ASSUME NEW d \in Callers \ {c} PROVE Replies'[d] \in {None, Replies[d]}
  <2>1. CASE file[d] \in dirty \ dirty'
    <3>1. found[d] = None
      BY <2>1, CleanedUnheld
    <3>2. QED
      BY <1>2, <3>1 DEF Replies
  <2>2. CASE file[d] \notin dirty \ dirty'
    BY <1>2, <2>2 DEF Replies
  <2>3. QED
    BY <2>1, <2>2
<1>4. Replies'[c] = None
  BY <1>1 DEF Replies
<1>5. QED
  BY <1>3, <1>4, RepliesFade

\* A reply about a clean file is given from the table.
LEMMA RefinesGet ==
    ASSUME Typed, NEW c \in Callers, pc[c] \in {"lookup", "read"},
           UNCHANGED <<db, file, dirty>>, NEW h,
           found' = [found EXCEPT ![c] = <<file[c], h>>],
           file[c] \notin dirty => h = db[file[c]]
    PROVE  Table!Next
<1>1. found[c] = None /\ file[c] \in Files
  BY DEF Typed, Ready
<1>2. CASE file[c] \in dirty
  <2>1. \A d \in Callers : Replies'[d] = Replies[d]
    BY <1>2 DEF Replies, Typed, TypeOK
  <2>2. QED
    BY <2>1, RepliesFade
<1>3. CASE file[c] \notin dirty
  <2>1. Replies[c] = None
    BY <1>1, <1>3 DEF Replies
  <2>2. Replies' = [Replies EXCEPT ![c] = <<file[c], db[file[c]]>>]
    BY <1>3 DEF Replies, Typed, TypeOK
  <2>3. Table!Get(c)
    BY <1>1, <2>1, <2>2 DEF Table!Get
  <2>4. QED
    BY <2>3 DEF Table!Next
<1>4. QED
  BY <1>2, <1>3

LEMMA RefinesBegin ==
    ASSUME Typed, NEW c \in Callers, NEW s, NEW f, NEW h, Begin(c, s, f, h)
    PROVE  Table!Next
<1>1. /\ pc[c] = "idle" /\ UNCHANGED <<db, found>> /\ dirty \subseteq dirty'
      /\ \A d \in Callers \ {c} : file'[d] = file[d]
  BY DEF Begin, Typed, TypeOK
<1>2. found[c] = None
  BY <1>1 DEF Typed, Ready
<1>3. \A d \in Callers : Replies'[d] \in {None, Replies[d]}
  BY <1>1, <1>2 DEF Replies
<1>4. QED
  BY <1>1, <1>3, RepliesFade

LEMMA RefinesCall ==
    ASSUME Typed, CacheInv, NEW c \in Callers, Call(c)
    PROVE  [Table!Next]_(Table!vars)
<1> USE ConstantsAssumption
<1>1. ASSUME NEW f, NEW h, StartGet(c, f) \/ StartSet(c, f, h) \/ StartRemove(c, f)
      PROVE  Table!Next
  BY <1>1, RefinesBegin DEF StartGet, StartSet, StartRemove
<1>2. CASE Hit(c)
  <2>1. pc[c] = "lookup" /\ file[c] \in Files
    BY <1>2 DEF Hit, Typed, Ready
  <2>2. file[c] \in Scope(c)
    BY <2>1 DEF Scope
  <2>3. file[c] \notin dirty => cache[file[c]] = db[file[c]]
    BY <1>2, <2>1, <2>2, CleanHere DEF Hit, Agree
  <2>4. QED
    BY <1>2, <2>1, <2>3, RefinesGet DEF Hit
<1>3. CASE ReadBase(c)
  BY <1>3, RefinesGet DEF ReadBase
<1>4. CASE Miss(c) \/ Fill(c) \/ ReadRow(c) \/ ListTargets(c)
  <2>1. UNCHANGED <<db, file, found, dirty>>
    BY <1>4 DEF Miss, Fill, ReadRow, ListTargets
  <2>2. QED
    BY <2>1 DEF Table!vars, Replies
<1>5. CASE Commit(c)
  <2>1. /\ pc[c] = "commit" /\ hash[c] \in Hashes /\ file[c] \in Files
        /\ UNCHANGED <<file, found, dirty>>
    BY <1>5 DEF Commit, Typed, Ready
  <2>2. Replies' = Replies
    BY <2>1 DEF Replies
  <2>3. CASE row[c] = hash[c]
    BY <1>5, <2>2, <2>3 DEF Commit, Table!vars
  <2>4. CASE row[c] # hash[c]
    <3>1. Table!Set
      BY <1>5, <2>1, <2>2, <2>4 DEF Commit, Table!Set
    <3>2. QED
      BY <3>1 DEF Table!Next
  <2>5. QED
    BY <2>3, <2>4
<1>6. CASE DeleteRows(c)
  <2>1. Scope(c) \in SUBSET Files
    BY ScopeType DEF Typed
  <2>2. Replies' = Replies
    BY <1>6 DEF DeleteRows, Replies
  <2>3. Table!Remove
    BY <1>6, <2>1, <2>2 DEF DeleteRows, Table!Remove
  <2>4. QED
    BY <2>3 DEF Table!Next
<1>7. CASE Tombstone(c)
  <2>1. PICK f \in targets[c] : dirty' = IF alone[c] THEN dirty \ {f} ELSE dirty
    BY <1>7 DEF Tombstone, Repaired
  <2>2. pc[c] = "forget" /\ f \in Scope(c) /\ found[c] = None /\ Writing(c)
    BY <1>7 DEF Tombstone, Typed, Ready, Writing
  <2>3. UNCHANGED <<db, file, found>>
    BY <1>7 DEF Tombstone
  <2>4. ASSUME NEW d \in Callers PROVE Replies'[d] \in {None, Replies[d]}
    <3>1. CASE file[d] \in dirty \ dirty'
      <4>1. found[d] = None
        BY <2>1, <2>2, <3>1, CleanedUnheld
      <4>2. QED
        BY <2>3, <4>1 DEF Replies
    <3>2. CASE file[d] \notin dirty \ dirty'
      BY <2>3, <3>2 DEF Replies
    <3>3. QED
      BY <3>1, <3>2
  <2>5. QED
    BY <2>3, <2>4, RepliesFade
<1>8. CASE Store(c)
  <2>1. /\ pc[c] = "store" /\ file[c] \in Files /\ db' = db /\ Return(c)
        /\ dirty' = IF alone[c] THEN dirty \ {file[c]} ELSE dirty
    BY <1>8 DEF Store, Repaired, Typed, Ready
  <2>2. Writing(c) /\ file[c] \in Scope(c)
    BY <2>1 DEF Writing, Scope
  <2>3. QED
    BY <2>1, <2>2, RefinesReturn
<1>9. CASE EndGet(c) \/ Conflict(c) \/ EndRemove(c) \/ Fail(c)
  <2>1. Return(c) /\ db' = db /\ dirty \subseteq dirty'
    BY <1>9 DEF EndGet, Conflict, EndRemove, Fail
  <2>2. QED
    BY <2>1, RefinesReturn
<1>10. QED
  BY <1>1, <1>2, <1>3, <1>4, <1>5, <1>6, <1>7, <1>8, <1>9 DEF Call

LEMMA RefinesExpire ==
    ASSUME Typed, NEW f \in Files, Expire(f)
    PROVE  Table!Next
<1>1. /\ UNCHANGED <<db, pc, file, found>>
      /\ \A g \in dirty \ dirty' : g = f /\ \A c \in Callers : f \notin Scope(c)
      /\ dirty' \subseteq dirty
  BY DEF Expire, calls
<1>2. ASSUME NEW d \in Callers, file[d] \in dirty \ dirty' PROVE found[d] = None
  <2>1. file[d] \in Files /\ file[d] \notin Scope(d)
    BY <1>1, <1>2
  <2>2. pc[d] = "idle"
    BY <2>1, ConstantsAssumption DEF Scope
  <2>3. QED
    BY <2>2 DEF Typed, Ready
<1>3. \A d \in Callers : Replies'[d] \in {None, Replies[d]}
  BY <1>1, <1>2 DEF Replies
<1>4. QED
  BY <1>1, <1>3, RepliesFade

\* Cache and database together are one atomic table for every read of a file
\* whose last write is whole and unmet: get_hash answers with the hash in the
\* database at some moment of the call.
THEOREM Refinement == Spec => TableSpec
<1>1. Typed /\ CacheInv /\ [Next]_vars => [Table!Next]_(Table!vars)
  <2> SUFFICES ASSUME Typed, CacheInv, [Next]_vars PROVE [Table!Next]_(Table!vars)
    OBVIOUS
  <2>1. CASE UNCHANGED vars
    BY <2>1 DEF vars, calls, Table!vars, Replies
  <2>2. QED
    BY <2>1, RefinesCall, RefinesExpire DEF Next
<1>2. QED
  BY <1>1, RefinesInit, CacheInvCorrect, PTL DEF Spec, TableSpec, Table!Spec
=============================================================================
