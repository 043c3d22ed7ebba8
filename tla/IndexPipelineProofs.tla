------------------------- MODULE IndexPipelineProofs -------------------------
(***************************************************************************)
(* Proofs about IndexPipeline, for every set of sources, files, versions,  *)
(* chunks and writers, any batch size and any number of failing runs.      *)
(***************************************************************************)
EXTENDS IndexPipeline, TLAPS

StoreType == [Sources -> [Chunks -> Versions \cup {None}]]
RegistryType == [Sources -> Folders]

\* What the label of a writer says about its locals.
Shape ==
    \A w \in Writers :
        /\ pc[w] = "idle" <=> src[w] = None
        /\ pc[w] \in {"delete", "record", "forget"} => cur[w] \in Files
        /\ pc[w] \in {"delete", "record"} => folder[w][cur[w]] # None
        /\ pc[w] = "forget" => folder[w][cur[w]] = None
        /\ pc[w] \in {"scan", "delete", "record"} =>
              \A f \in todo[w] : folder[w][f] # None
        /\ pc[w] \in {"purge", "forget"} => \A f \in todo[w] : folder[w][f] = None
        /\ pc[w] \in {"remove", "unregister"} => folder[w] = EmptyFolder
        /\ buf[w] # {} => pc[w] \in {"scan", "delete", "record"}

\* The updates of store and registry stay within their types.
LEMMA DeleteFileType ==
    ASSUME store \in StoreType, NEW s \in Sources, NEW f
    PROVE  DeleteFile(s, f) \in StoreType
BY DEF DeleteFile, StoreType

LEMMA AddChunksType ==
    ASSUME store \in StoreType, NEW s \in Sources, NEW cs, NEW d \in Folders
    PROVE  AddChunks(s, cs, d) \in StoreType
BY ConstantsAssumption DEF AddChunks, StoreType, Folders

LEMMA SetHashType ==
    ASSUME registry \in RegistryType, NEW s \in Sources, NEW f \in Files,
           NEW v \in Versions \cup {None}
    PROVE  [registry EXCEPT ![s][f] = v] \in RegistryType
BY DEF RegistryType, Folders

LEMMA EmptyFolderType == EmptyFolder \in Folders
BY DEF EmptyFolder, Folders

Typed == TypeOK /\ Shape

LEMMA TypedInit == Init => Typed
BY ConstantsAssumption, EmptyFolderType
   DEF Init, Typed, TypeOK, Shape, Folders, EmptyFolder, Labels

LEMMA TypedStep == Typed /\ [Next]_vars => Typed'
<1> SUFFICES ASSUME Typed, [Next]_vars PROVE Typed'
  OBVIOUS
<1> USE ConstantsAssumption, EmptyFolderType DEF Typed
<1>0. /\ store \in StoreType /\ registry \in RegistryType
      /\ \A w \in Writers : pc[w] # "idle" => src[w] \in Sources
      /\ \A w \in Writers : folder[w] \in Folders
  BY DEF TypeOK, Shape, StoreType, RegistryType
<1>1. ASSUME NEW w \in Writers, NEW s \in Sources, NEW d \in Folders,
             NEW inc \in BOOLEAN, NEW label \in {"scan", "remove"},
             label = "remove" => d = EmptyFolder,
             Begin(w, s, d, inc, label)
      PROVE  Typed'
  <2>1. TypeOK'
    BY <1>1 DEF Begin, TypeOK, Labels
  <2>2. Shape'
    BY <1>1 DEF Begin, TypeOK, Shape
  <2>3. QED
    BY <2>1, <2>2
<1>2. ASSUME NEW w \in Writers, Start(w) PROVE Typed'
  BY <1>1, <1>2 DEF Start, StartIngest, StartIndex, StartRemove
<1>3. ASSUME NEW w \in Writers, NEW f \in Files, SkipFile(w, f) PROVE Typed'
  <2>1. TypeOK'
    BY <1>3 DEF SkipFile, TypeOK
  <2>2. Shape'
    BY <1>3 DEF SkipFile, TypeOK, Shape
  <2>3. QED
    BY <2>1, <2>2
<1>4. ASSUME NEW w \in Writers, NEW f \in Files, TakeFile(w, f) PROVE Typed'
  <2>1. TypeOK'
    BY <1>4 DEF TakeFile, TypeOK, Labels
  <2>2. Shape'
    BY <1>4 DEF TakeFile, TypeOK, Shape, Folders
  <2>3. QED
    BY <2>1, <2>2
<1>5. ASSUME NEW w \in Writers, DeleteOld(w) PROVE Typed'
  <2>1. store' \in StoreType
    BY <1>0, <1>5, DeleteFileType DEF DeleteOld
  <2>2. TypeOK'
    BY <1>5, <2>1 DEF DeleteOld, TypeOK, StoreType, Labels
  <2>3. Shape'
    BY <1>5 DEF DeleteOld, TypeOK, Shape
  <2>4. QED
    BY <2>2, <2>3
<1>6. ASSUME NEW w \in Writers, RecordHash(w) PROVE Typed'
  <2>0. cur[w] \in Files /\ src[w] \in Sources
    BY <1>0, <1>6 DEF RecordHash, Shape
  <2>1. registry' \in RegistryType
    BY <1>0, <1>6, <2>0, SetHashType DEF RecordHash, Folders
  <2>2. TypeOK'
    BY <1>6, <2>1 DEF RecordHash, Parse, TypeOK, RegistryType, Labels
  <2>3. Shape'
    BY <1>6 DEF RecordHash, TypeOK, Shape
  <2>4. QED
    BY <2>2, <2>3
<1>7. ASSUME NEW w \in Writers, AddBatch(w) PROVE Typed'
  <2>1. store' \in StoreType
    BY <1>0, <1>7, AddChunksType DEF AddBatch
  <2>2. TypeOK'
    BY <1>7, <2>1 DEF AddBatch, TypeOK, StoreType
  <2>3. Shape'
    BY <1>7 DEF AddBatch, TypeOK, Shape
  <2>4. QED
    BY <2>2, <2>3
<1>8. ASSUME NEW w \in Writers, ListGone(w) PROVE Typed'
  <2>1. TypeOK'
    BY <1>8 DEF ListGone, TypeOK, Labels
  <2>2. Shape'
    BY <1>8 DEF ListGone, TypeOK, Shape
  <2>3. QED
    BY <2>1, <2>2
<1>9. ASSUME NEW w \in Writers, NEW f \in Files, PurgeChunks(w, f) PROVE Typed'
  <2>1. store' \in StoreType
    BY <1>0, <1>9, DeleteFileType DEF PurgeChunks
  <2>2. TypeOK'
    BY <1>9, <2>1 DEF PurgeChunks, TypeOK, StoreType, Labels
  <2>3. Shape'
    BY <1>9 DEF PurgeChunks, TypeOK, Shape
  <2>4. QED
    BY <2>2, <2>3
<1>10. ASSUME NEW w \in Writers, PurgeHash(w) PROVE Typed'
  <2>0. cur[w] \in Files /\ src[w] \in Sources
    BY <1>0, <1>10 DEF PurgeHash, Shape
  <2>1. registry' \in RegistryType
    BY <1>0, <1>10, <2>0, SetHashType DEF PurgeHash
  <2>2. TypeOK'
    BY <1>10, <2>1 DEF PurgeHash, TypeOK, RegistryType, Labels
  <2>3. Shape'
    BY <1>10 DEF PurgeHash, TypeOK, Shape
  <2>4. QED
    BY <2>2, <2>3
<1>11. ASSUME NEW w \in Writers, ReturnIndex(w) PROVE Typed'
  <2>1. TypeOK'
    BY <1>11 DEF ReturnIndex, TypeOK, Labels
  <2>2. Shape'
    BY <1>11 DEF ReturnIndex, TypeOK, Shape
  <2>3. QED
    BY <2>1, <2>2
<1>12. ASSUME NEW w \in Writers, RemoveChunks(w) PROVE Typed'
  <2>1. store' \in StoreType
    BY <1>0, <1>12, EmptyFolderType DEF RemoveChunks, StoreType
  <2>2. TypeOK'
    BY <1>12, <2>1 DEF RemoveChunks, TypeOK, StoreType, Labels
  <2>3. Shape'
    BY <1>12 DEF RemoveChunks, TypeOK, Shape
  <2>4. QED
    BY <2>2, <2>3
<1>13. ASSUME NEW w \in Writers, RemoveHashes(w) PROVE Typed'
  <2>1. registry' \in RegistryType
    BY <1>0, <1>13, EmptyFolderType DEF RemoveHashes, RegistryType
  <2>2. TypeOK'
    BY <1>13, <2>1 DEF RemoveHashes, TypeOK, RegistryType, Labels
  <2>3. Shape'
    BY <1>13 DEF RemoveHashes, TypeOK, Shape
  <2>4. QED
    BY <2>2, <2>3
<1>14. ASSUME NEW w \in Writers, Finish(w) \/ Fail(w) PROVE Typed'
  <2>0. Forget(w) /\ fails' \in 0..MaxFails
    BY <1>14 DEF Finish, Fail, TypeOK
  <2>1. TypeOK'
    BY <2>0 DEF Forget, TypeOK, Labels
  <2>2. Shape'
    BY <2>0 DEF Forget, TypeOK, Shape
  <2>3. QED
    BY <2>1, <2>2
<1>15. CASE UNCHANGED vars
  BY <1>15 DEF vars, writerVars, TypeOK, Shape
<1>16. QED
  BY <1>2, <1>3, <1>4, <1>5, <1>6, <1>7, <1>8, <1>9, <1>10, <1>11, <1>12,
     <1>13, <1>14, <1>15 DEF Next, IndexStep, RemoveStep

LEMMA TypedCorrect == Spec => []Typed
BY TypedInit, TypedStep, PTL DEF Spec

\* Type correctness: no interleaving of index, remove, ingest and failing
\* calls takes a variable out of its range.
THEOREM TypeCorrect == Spec => []TypeOK
<1>1. Typed => TypeOK
  BY DEF Typed
<1>2. QED
  BY <1>1, TypedCorrect, PTL

-----------------------------------------------------------------------------
(* Taking turns: what holds when no two calls on one source overlap. *)

Turns ==
    \A w, o \in Writers : src[w] # None /\ src[w] = src[o] => w = o

\* A writer about to move a hash has emptied the store of that file's chunks.
Cleared ==
    \A w \in Writers : \A c \in Chunks :
        \/ pc[w] \in {"record", "forget"} /\ FileOf[c] = cur[w]
        \/ pc[w] = "unregister"
        => store[src[w]][c] = None

\* The registry already holds the versions whose chunks are still buffered.
BufRecorded ==
    \A w \in Writers : \A c \in buf[w] :
        /\ folder[w][FileOf[c]] # None
        /\ registry[src[w]][FileOf[c]] = folder[w][FileOf[c]]
        /\ c \in Parse(FileOf[c], folder[w][FileOf[c]])

Agreement == Turns /\ Cleared /\ BufRecorded /\ NoStaleChunks

LEMMA AgreementInit == Init => Agreement
BY DEF Init, Agreement, Turns, Cleared, BufRecorded, NoStaleChunks

LEMMA AgreementStep ==
    ASSUME Serial = TRUE, Typed, Agreement, [Next]_vars
    PROVE  Agreement'
<1> USE ConstantsAssumption DEF Typed, Agreement, Parse
<1>0. /\ \A w \in Writers : pc[w] # "idle" => src[w] \in Sources
      /\ \A w \in Writers : src[w] \in Sources \cup {None}
  BY DEF TypeOK, Shape
<1>1. ASSUME NEW w \in Writers, NEW s \in Sources, NEW d \in Folders,
             NEW inc \in BOOLEAN, NEW label \in {"scan", "remove"},
             Begin(w, s, d, inc, label)
      PROVE  Agreement'
  <2>0. buf[w] = {} /\ UNCHANGED <<registry, store, cur, buf>>
    BY <1>1 DEF Begin, Shape
  <2>1. Turns'
    BY <1>1 DEF Begin, Turns, Busy, TypeOK
  <2>2. Cleared'
    BY <1>1, <2>0 DEF Begin, Cleared, TypeOK
  <2>3. BufRecorded'
    BY <1>1, <2>0 DEF Begin, BufRecorded, TypeOK
  <2>4. NoStaleChunks'
    BY <2>0 DEF NoStaleChunks
  <2>5. QED
    BY <2>1, <2>2, <2>3, <2>4
<1>2. ASSUME NEW w \in Writers, Start(w) PROVE Agreement'
  BY <1>1, <1>2, EmptyFolderType DEF Start, StartIngest, StartIndex, StartRemove
<1>3. ASSUME NEW w \in Writers, NEW f \in Files, SkipFile(w, f) PROVE Agreement'
  <2>1. Turns'
    BY <1>3 DEF SkipFile, Turns
  <2>2. Cleared'
    BY <1>0, <1>3 DEF SkipFile, Cleared, Shape, TypeOK
  <2>3. BufRecorded'
    BY <1>0, <1>3 DEF SkipFile, BufRecorded, Shape, TypeOK
  <2>4. NoStaleChunks'
    BY <1>0, <1>3 DEF SkipFile, NoStaleChunks, Shape, TypeOK
  <2>5. QED
    BY <2>1, <2>2, <2>3, <2>4
<1>4. ASSUME NEW w \in Writers, NEW f \in Files, TakeFile(w, f) PROVE Agreement'
  <2>1. Turns'
    BY <1>4 DEF TakeFile, Turns
  <2>2. Cleared'
    BY <1>0, <1>4 DEF TakeFile, Cleared, Shape, TypeOK
  <2>3. BufRecorded'
    BY <1>0, <1>4 DEF TakeFile, BufRecorded, Shape, TypeOK
  <2>4. NoStaleChunks'
    BY <1>0, <1>4 DEF TakeFile, NoStaleChunks, Shape, TypeOK
  <2>5. QED
    BY <2>1, <2>2, <2>3, <2>4
<1>5. ASSUME NEW w \in Writers, DeleteOld(w) PROVE Agreement'
  <2>1. Turns'
    BY <1>5 DEF DeleteOld, Turns
  <2>2. Cleared'
    BY <1>0, <1>5 DEF DeleteOld, Cleared, Shape, TypeOK, DeleteFile
  <2>3. BufRecorded'
    BY <1>0, <1>5 DEF DeleteOld, BufRecorded, Shape, TypeOK
  <2>4. NoStaleChunks'
    BY <1>0, <1>5 DEF DeleteOld, NoStaleChunks, Shape, TypeOK, DeleteFile
  <2>5. QED
    BY <2>1, <2>2, <2>3, <2>4
<1>6. ASSUME NEW w \in Writers, RecordHash(w) PROVE Agreement'
  <2>1. Turns'
    BY <1>6 DEF RecordHash, Turns
  <2>2. Cleared'
    BY <1>0, <1>6 DEF RecordHash, Cleared, Shape, TypeOK, Turns
  <2>3. BufRecorded'
    <3>1. /\ cur[w] \in Files /\ src[w] \in Sources
          /\ folder[w][cur[w]] # None
      BY <1>0, <1>6 DEF RecordHash, Shape
    <3>2. registry'[src[w]] = [registry[src[w]] EXCEPT ![cur[w]] = folder[w][cur[w]]]
      BY <1>6, <3>1 DEF RecordHash, TypeOK
    <3>3. SUFFICES ASSUME NEW o \in Writers, NEW c \in Chunks, c \in buf'[o]
                   PROVE  /\ folder[o][FileOf[c]] # None
                          /\ registry'[src[o]][FileOf[c]] = folder[o][FileOf[c]]
                          /\ c \in Parse(FileOf[c], folder[o][FileOf[c]])
      BY <1>6 DEF RecordHash, BufRecorded, TypeOK
    <3>4. CASE o = w
      <4>0. buf'[w] = buf[w] \cup Parse(cur[w], folder[w][cur[w]])
        BY <1>6 DEF RecordHash, TypeOK
      <4>1. c \in buf[w] \/ c \in Parse(cur[w], folder[w][cur[w]])
        BY <3>3, <3>4, <4>0
      <4>2. registry[src[w]] \in Folders
        BY <3>1 DEF TypeOK
      <4>3. QED
        BY <3>1, <3>2, <3>4, <4>1, <4>2 DEF BufRecorded, Folders
    <3>5. CASE o # w
      <4>1. c \in buf[o] /\ src[o] # src[w]
        BY <1>6, <3>1, <3>3, <3>5 DEF RecordHash, TypeOK, Turns
      <4>2. registry'[src[o]] = registry[src[o]]
        BY <1>0, <1>6, <3>1, <4>1 DEF RecordHash, TypeOK, Shape
      <4>3. QED
        BY <4>1, <4>2 DEF BufRecorded
    <3>6. QED
      BY <3>4, <3>5
  <2>4. NoStaleChunks'
    BY <1>0, <1>6 DEF RecordHash, NoStaleChunks, Shape, TypeOK, Cleared
  <2>5. QED
    BY <2>1, <2>2, <2>3, <2>4
<1>7. ASSUME NEW w \in Writers, AddBatch(w) PROVE Agreement'
  <2>1. Turns'
    BY <1>7 DEF AddBatch, Turns
  <2>2. Cleared'
    BY <1>0, <1>7 DEF AddBatch, Cleared, Shape, TypeOK, AddChunks, Turns
  <2>3. BufRecorded'
    BY <1>0, <1>7 DEF AddBatch, BufRecorded, Shape, TypeOK
  <2>4. NoStaleChunks'
    BY <1>0, <1>7 DEF AddBatch, NoStaleChunks, Shape, TypeOK, AddChunks, BufRecorded
  <2>5. QED
    BY <2>1, <2>2, <2>3, <2>4
<1>8. ASSUME NEW w \in Writers, ListGone(w) PROVE Agreement'
  <2>1. Turns'
    BY <1>8 DEF ListGone, Turns
  <2>2. Cleared'
    BY <1>0, <1>8 DEF ListGone, Cleared, Shape, TypeOK
  <2>3. BufRecorded'
    BY <1>0, <1>8 DEF ListGone, BufRecorded, Shape, TypeOK
  <2>4. NoStaleChunks'
    BY <1>0, <1>8 DEF ListGone, NoStaleChunks, Shape, TypeOK
  <2>5. QED
    BY <2>1, <2>2, <2>3, <2>4
<1>9. ASSUME NEW w \in Writers, NEW f \in Files, PurgeChunks(w, f) PROVE Agreement'
  <2>1. Turns'
    BY <1>9 DEF PurgeChunks, Turns
  <2>2. Cleared'
    BY <1>0, <1>9 DEF PurgeChunks, Cleared, Shape, TypeOK, DeleteFile
  <2>3. BufRecorded'
    BY <1>0, <1>9 DEF PurgeChunks, BufRecorded, Shape, TypeOK
  <2>4. NoStaleChunks'
    BY <1>0, <1>9 DEF PurgeChunks, NoStaleChunks, Shape, TypeOK, DeleteFile
  <2>5. QED
    BY <2>1, <2>2, <2>3, <2>4
<1>10. ASSUME NEW w \in Writers, PurgeHash(w) PROVE Agreement'
  <2>1. Turns'
    BY <1>10 DEF PurgeHash, Turns
  <2>2. Cleared'
    BY <1>0, <1>10 DEF PurgeHash, Cleared, Shape, TypeOK
  <2>3. BufRecorded'
    BY <1>0, <1>10 DEF PurgeHash, BufRecorded, Shape, TypeOK, Turns
  <2>4. NoStaleChunks'
    BY <1>0, <1>10 DEF PurgeHash, NoStaleChunks, Shape, TypeOK, Cleared
  <2>5. QED
    BY <2>1, <2>2, <2>3, <2>4
<1>11. ASSUME NEW w \in Writers, ReturnIndex(w) PROVE Agreement'
  <2>1. Turns'
    BY <1>11 DEF ReturnIndex, Turns
  <2>2. Cleared'
    BY <1>0, <1>11 DEF ReturnIndex, Cleared, Shape, TypeOK
  <2>3. BufRecorded'
    BY <1>0, <1>11 DEF ReturnIndex, BufRecorded, Shape, TypeOK
  <2>4. NoStaleChunks'
    BY <1>0, <1>11 DEF ReturnIndex, NoStaleChunks, Shape, TypeOK
  <2>5. QED
    BY <2>1, <2>2, <2>3, <2>4
<1>12. ASSUME NEW w \in Writers, RemoveChunks(w) PROVE Agreement'
  <2>1. Turns'
    BY <1>12 DEF RemoveChunks, Turns
  <2>2. Cleared'
    BY <1>0, <1>12 DEF RemoveChunks, Cleared, Shape, TypeOK
  <2>3. BufRecorded'
    BY <1>0, <1>12 DEF RemoveChunks, BufRecorded, Shape, TypeOK
  <2>4. NoStaleChunks'
    BY <1>0, <1>12 DEF RemoveChunks, NoStaleChunks, Shape, TypeOK
  <2>5. QED
    BY <2>1, <2>2, <2>3, <2>4
<1>13. ASSUME NEW w \in Writers, RemoveHashes(w) PROVE Agreement'
  <2>1. Turns'
    BY <1>13 DEF RemoveHashes, Turns
  <2>2. Cleared'
    BY <1>0, <1>13 DEF RemoveHashes, Cleared, Shape, TypeOK
  <2>3. BufRecorded'
    BY <1>0, <1>13 DEF RemoveHashes, BufRecorded, Shape, TypeOK, Turns
  <2>4. NoStaleChunks'
    BY <1>0, <1>13 DEF RemoveHashes, NoStaleChunks, Shape, TypeOK, Cleared
  <2>5. QED
    BY <2>1, <2>2, <2>3, <2>4
<1>14. ASSUME NEW w \in Writers, Finish(w) \/ Fail(w) PROVE Agreement'
  <2>0. Forget(w)
    BY <1>14 DEF Finish, Fail
  <2>1. Turns'
    BY <2>0 DEF Forget, Turns, TypeOK
  <2>2. Cleared'
    BY <2>0 DEF Forget, Cleared, TypeOK
  <2>3. BufRecorded'
    BY <2>0 DEF Forget, BufRecorded, TypeOK
  <2>4. NoStaleChunks'
    BY <2>0 DEF Forget, NoStaleChunks
  <2>5. QED
    BY <2>1, <2>2, <2>3, <2>4
<1>15. CASE UNCHANGED vars
  BY <1>15 DEF vars, writerVars, Turns, Cleared, BufRecorded, NoStaleChunks
<1>16. QED
  BY <1>2, <1>3, <1>4, <1>5, <1>6, <1>7, <1>8, <1>9, <1>10, <1>11, <1>12,
     <1>13, <1>14, <1>15 DEF Next, IndexStep, RemoveStep

LEMMA AgreementCorrect == ASSUME Serial = TRUE PROVE Spec => []Agreement
<1>1. Typed /\ Agreement /\ [Next]_vars => Agreement'
  BY AgreementStep
<1>2. QED
  BY <1>1, AgreementInit, TypedCorrect, PTL DEF Spec

\* When callers of a source take turns, the store never holds a chunk of any
\* version but the one the registry records: no stale fragment is searchable
\* during an index_path or remove_source, nor after one that failed.
THEOREM NoStaleChunksHolds ==
    ASSUME Serial = TRUE PROVE Spec => []NoStaleChunks
<1>1. Agreement => NoStaleChunks
  BY DEF Agreement
<1>2. QED
  BY <1>1, AgreementCorrect, PTL

-----------------------------------------------------------------------------
(* A call leaves the calls on other sources alone. *)

SameLocals(o) ==
    /\ pc'[o] = pc[o] /\ src'[o] = src[o] /\ folder'[o] = folder[o]
    /\ incremental'[o] = incremental[o] /\ todo'[o] = todo[o] /\ cur'[o] = cur[o]
    /\ skipped'[o] = skipped[o] /\ buf'[o] = buf[o]

LEMMA OthersStay ==
    ASSUME Typed, Agreement, NEW w \in Writers, IndexStep(w) \/ RemoveStep(w),
           NEW o \in Writers, o # w
    PROVE  /\ SameLocals(o)
           /\ src[o] # None => registry'[src[o]] = registry[src[o]] /\ store'[src[o]] = store[src[o]]
           /\ src'[w] = src[w] /\ folder'[w] = folder[w] /\ incremental'[w] = incremental[w]
<1> USE DEF IndexStep, RemoveStep, SkipFile, TakeFile, PurgeChunks, DeleteOld, RecordHash, AddBatch,
            ListGone, PurgeHash, ReturnIndex, RemoveChunks, RemoveHashes
<1>1. SameLocals(o)
  BY DEF SameLocals, Typed, TypeOK
<1>2. src[w] \in Sources /\ (src[o] # None => src[o] \in Sources /\ src[o] # src[w])
  BY ConstantsAssumption DEF Typed, TypeOK, Shape, Agreement, Turns
<1>3. src[o] # None => registry'[src[o]] = registry[src[o]]
  BY <1>2 DEF Typed, TypeOK
<1>4. src[o] # None => store'[src[o]] = store[src[o]]
  BY <1>2 DEF Typed, TypeOK, DeleteFile, AddChunks
<1>5. QED
  BY <1>1, <1>3, <1>4

-----------------------------------------------------------------------------
(* Unchanged files *)

\* A file that was taken differed from the registry, or the run is a full one.
Taken ==
    \A w \in Writers :
        pc[w] = "delete" => ~incremental[w] \/ registry[src[w]][cur[w]] # folder[w][cur[w]]

LEMMA TakenStep ==
    ASSUME Typed, Agreement, Taken, [Next]_vars
    PROVE  Taken'
<1>1. ASSUME NEW w \in Writers, IndexStep(w) \/ RemoveStep(w) PROVE Taken'
  <2>1. ASSUME NEW o \in Writers, o # w, pc'[o] = "delete"
        PROVE  ~incremental'[o] \/ registry'[src'[o]][cur'[o]] # folder'[o][cur'[o]]
    <3>1. pc[o] = "delete" /\ src[o] # None
      BY <1>1, <2>1, OthersStay DEF SameLocals, Typed, Shape
    <3>2. QED
      BY <1>1, <2>1, <3>1, OthersStay DEF SameLocals, Taken
  <2>2. ASSUME pc'[w] = "delete"
        PROVE  ~incremental'[w] \/ registry'[src'[w]][cur'[w]] # folder'[w][cur'[w]]
    <3>1. PICK f \in Files : TakeFile(w, f)
      BY <1>1, <2>2
         DEF IndexStep, RemoveStep, SkipFile, PurgeChunks, DeleteOld, RecordHash, AddBatch,
             ListGone, PurgeHash, ReturnIndex, RemoveChunks, RemoveHashes, Typed, TypeOK
    <3>2. QED
      BY <3>1 DEF TakeFile, Unchanged, Typed, TypeOK
  <2>3. QED
    BY <2>1, <2>2 DEF Taken
<1>2. ASSUME NEW w \in Writers, NEW s \in Sources, NEW d, NEW inc,
             NEW label \in {"scan", "remove"}, Begin(w, s, d, inc, label)
      PROVE  Taken'
  BY <1>2 DEF Begin, Taken, Typed, TypeOK
<1>3. ASSUME NEW w \in Writers, Finish(w) \/ Fail(w) PROVE Taken'
  BY <1>3 DEF Finish, Fail, Forget, Taken, Typed, TypeOK
<1>4. CASE UNCHANGED vars
  BY <1>4 DEF vars, writerVars, Taken
<1>5. QED
  BY <1>1, <1>2, <1>3, <1>4 DEF Next, Start, StartIngest, StartIndex, StartRemove

\* When callers take turns, an incremental run never takes a chunk of an
\* unchanged file out of search.
THEOREM UnchangedFilesStaySearchableHolds ==
    ASSUME Serial = TRUE PROVE Spec => UnchangedFilesStaySearchable
<1>1. Init => Taken
  BY DEF Init, Taken
<1>2. ASSUME Typed, Agreement, Taken, Next, NEW s \in Sources, NEW c \in Chunks,
             store[s][c] # None, store'[s][c] = None
      PROVE  \E w \in Writers :
                /\ Busy(w, s)
                /\ \/ pc[w] = "remove"
                   \/ registry[s][FileOf[c]] # folder[w][FileOf[c]]
                   \/ ~incremental[w]
  <2>1. PICK w \in Writers : DeleteOld(w) \/ AddBatch(w) \/ RemoveChunks(w) \/ \E f \in Files : PurgeChunks(w, f)
    BY <1>2
       DEF Next, Start, StartIngest, StartIndex, StartRemove, Begin, IndexStep, RemoveStep,
           SkipFile, TakeFile, RecordHash, ListGone, PurgeHash, ReturnIndex, RemoveHashes,
           Finish, Fail, Forget
  <2>2. src[w] \in Sources /\ folder[w] \in Folders /\ buf[w] \subseteq Chunks
    BY <1>2, <2>1 DEF DeleteOld, AddBatch, RemoveChunks, PurgeChunks, Typed, TypeOK, Shape
  <2>3. CASE DeleteOld(w)
    <3>1. s = src[w] /\ FileOf[c] = cur[w]
      BY <1>2, <2>2, <2>3 DEF DeleteOld, DeleteFile, Typed, TypeOK
    <3>2. QED
      BY <1>2, <2>3, <3>1 DEF DeleteOld, Taken, Busy
  <2>4. CASE AddBatch(w)
    <3>1. PICK b \in SUBSET buf[w] : store' = AddChunks(src[w], b, folder[w])
      BY <2>4 DEF AddBatch
    <3>2. s = src[w] /\ c \in b /\ folder[w][FileOf[c]] = None
      BY <1>2, <2>2, <3>1 DEF AddChunks, Typed, TypeOK
    <3>3. QED
      BY <1>2, <3>2 DEF Agreement, BufRecorded
  <2>5. CASE RemoveChunks(w)
    <3>1. s = src[w]
      BY <1>2, <2>2, <2>5 DEF RemoveChunks, Typed, TypeOK
    <3>2. QED
      BY <2>5, <3>1 DEF RemoveChunks, Busy
  <2>6. ASSUME NEW f \in Files, PurgeChunks(w, f)
        PROVE  Busy(w, s) /\ registry[s][FileOf[c]] # folder[w][FileOf[c]]
    <3>1. s = src[w] /\ FileOf[c] = f
      BY <1>2, <2>2, <2>6 DEF PurgeChunks, DeleteFile, Typed, TypeOK
    <3>2. folder[w][f] = None
      BY <1>2, <2>6 DEF PurgeChunks, Typed, Shape
    <3>3. registry[s][f] # None
      BY <1>2, <3>1 DEF Agreement, NoStaleChunks
    <3>4. QED
      BY <3>1, <3>2, <3>3 DEF Busy
  <2>7. QED
    BY <2>1, <2>3, <2>4, <2>5, <2>6
<1>3. Typed /\ Agreement /\ Taken /\ [Next]_vars =>
        [\A s \in Sources, c \in Chunks :
            store[s][c] # None /\ store'[s][c] = None =>
                \E w \in Writers :
                    /\ Busy(w, s)
                    /\ \/ pc[w] = "remove"
                       \/ registry[s][FileOf[c]] # folder[w][FileOf[c]]
                       \/ ~incremental[w]]_vars
  BY <1>2
<1>4. Typed /\ Agreement /\ Taken /\ [Next]_vars => Taken'
  BY TakenStep
<1>5. QED
  BY <1>1, <1>3, <1>4, TypedCorrect, AgreementCorrect, PTL DEF Spec, UnchangedFilesStaySearchable

-----------------------------------------------------------------------------
(* Recorded hashes *)

LEMMA BackedStep ==
    ASSUME Typed, Agreement, RegistryBacked, [Next]_vars
    PROVE  RegistryBacked'
<1> SUFFICES ASSUME fails' = 0, NEW s \in Sources, NEW c \in Chunks,
                    registry'[s][FileOf[c]] # None,
                    c \in Parse(FileOf[c], registry'[s][FileOf[c]]),
                    store'[s][c] # registry'[s][FileOf[c]]
             PROVE  \E w \in Writers : InFlight(w, s, c)'
  BY DEF RegistryBacked
<1> DEFINE f == FileOf[c]
<1>0. f \in Files
  BY ConstantsAssumption
<1>1. fails = 0
  <2>1. ASSUME NEW w \in Writers, IndexStep(w) \/ RemoveStep(w) PROVE fails' = fails
    BY <2>1
       DEF IndexStep, RemoveStep, SkipFile, TakeFile, DeleteOld, RecordHash, AddBatch, ListGone,
           PurgeChunks, PurgeHash, ReturnIndex, RemoveChunks, RemoveHashes
  <2>2. ASSUME NEW w \in Writers, Start(w) \/ Finish(w) PROVE fails' = fails
    BY <2>2 DEF Start, StartIngest, StartIndex, StartRemove, Begin, Finish
  <2>3. ASSUME NEW w \in Writers, Fail(w) PROVE FALSE
    <3>1. fails \in Nat
      BY ConstantsAssumption DEF Typed, TypeOK
    <3>2. QED
      BY <2>3, <3>1 DEF Fail
  <2>4. CASE UNCHANGED vars
    BY <2>4 DEF vars
  <2>5. QED
    BY <2>1, <2>2, <2>3, <2>4 DEF Next
\* The chunk was backed before, if its hash was the same.
<1>2. registry[s][f] = registry'[s][f] =>
        store[s][c] = registry'[s][f] \/ \E w \in Writers : InFlight(w, s, c)
  BY <1>1 DEF RegistryBacked
<1>3. ASSUME NEW w \in Writers, IndexStep(w) \/ RemoveStep(w)
      PROVE  \E o \in Writers : InFlight(o, s, c)'
  <2>1. src[w] \in Sources /\ pc[w] # "idle" /\ src'[w] = src[w]
    BY <1>3, OthersStay
       DEF IndexStep, RemoveStep, SkipFile, TakeFile, DeleteOld, RecordHash, AddBatch, ListGone,
           PurgeChunks, PurgeHash, ReturnIndex, RemoveChunks, RemoveHashes, Typed, TypeOK, Shape
  <2>2. CASE s # src[w]
    <3>1. registry'[s] = registry[s] /\ store'[s] = store[s]
      BY <1>3, <2>1, <2>2
         DEF IndexStep, RemoveStep, SkipFile, TakeFile, DeleteOld, RecordHash, AddBatch, ListGone,
             PurgeChunks, PurgeHash, ReturnIndex, RemoveChunks, RemoveHashes, Typed, TypeOK,
             DeleteFile, AddChunks
    <3>2. PICK o \in Writers : InFlight(o, s, c)
      BY <1>2, <3>1
    <3>3. o # w
      BY <2>2, <3>2 DEF InFlight, Busy
    <3>4. SameLocals(o)
      BY <1>3, <3>3, OthersStay
    <3>5. InFlight(o, s, c)'
      BY <3>2, <3>4 DEF InFlight, Busy, SameLocals
    <3>6. QED
      BY <3>5
  <2>3. CASE s = src[w]
    <3>1. \A o \in Writers : InFlight(o, s, c) => o = w
      BY <2>1, <2>3, ConstantsAssumption DEF InFlight, Busy, Agreement, Turns
    <3>2. Busy(w, s)'
      BY <2>1, <2>3 DEF Busy
    <3>3. registry[s] \in Folders /\ store[s] \in [Chunks -> Versions \cup {None}]
      BY DEF Typed, TypeOK
    <3>4. CASE \E g \in Files : SkipFile(w, g) \/ TakeFile(w, g)
      <4>1. UNCHANGED <<registry, store, buf>> /\ pc[w] = "scan"
        BY <3>4 DEF SkipFile, TakeFile
      <4>2. c \in buf[w]
        BY <1>2, <3>1, <4>1 DEF InFlight
      <4>3. QED
        BY <3>2, <4>1, <4>2 DEF InFlight
    <3>5. CASE DeleteOld(w)
      <4>1. registry' = registry /\ buf' = buf /\ cur' = cur /\ pc[w] = "delete" /\ pc'[w] = "record"
        BY <3>5 DEF DeleteOld, Typed, TypeOK
      <4>2. CASE f = cur[w]
        BY <3>2, <4>1, <4>2 DEF InFlight
      <4>3. CASE f # cur[w]
        <5>1. store'[s][c] = store[s][c]
          BY <2>1, <2>3, <3>5, <4>3 DEF DeleteOld, DeleteFile, Typed, TypeOK
        <5>2. c \in buf[w]
          BY <1>2, <3>1, <4>1, <5>1 DEF InFlight
        <5>3. QED
          BY <3>2, <4>1, <5>2 DEF InFlight
      <4>4. QED
        BY <4>2, <4>3
    <3>6. CASE RecordHash(w)
      <4>1. /\ store' = store /\ buf'[w] = buf[w] \cup Parse(cur[w], folder[w][cur[w]])
            /\ registry'[s] = [registry[s] EXCEPT ![cur[w]] = folder[w][cur[w]]]
            /\ pc[w] = "record"
        BY <2>1, <2>3, <3>6 DEF RecordHash, Typed, TypeOK
      <4>2. CASE f = cur[w]
        <5>1. registry'[s][f] = folder[w][f]
          BY <1>0, <3>3, <4>1, <4>2 DEF Folders
        <5>2. QED
          BY <3>2, <4>1, <4>2, <5>1 DEF InFlight
      <4>3. CASE f # cur[w]
        <5>1. registry'[s][f] = registry[s][f]
          BY <1>0, <3>3, <4>1, <4>3 DEF Folders
        <5>2. c \in buf[w]
          BY <1>2, <3>1, <4>1, <4>3, <5>1 DEF InFlight
        <5>3. QED
          BY <3>2, <4>1, <5>2 DEF InFlight
      <4>4. QED
        BY <4>2, <4>3
    <3>7. CASE AddBatch(w)
      <4>1. PICK b \in SUBSET buf[w] :
              store' = AddChunks(src[w], b, folder[w]) /\ buf' = [buf EXCEPT ![w] = @ \ b]
        BY <3>7 DEF AddBatch
      <4>2. registry' = registry /\ pc[w] = "scan" /\ buf'[w] = buf[w] \ b
        BY <3>7, <4>1 DEF AddBatch, Typed, TypeOK
      <4>3. store'[s][c] = IF c \in b /\ (Upsert \/ store[s][c] = None) THEN folder[w][f] ELSE store[s][c]
        BY <2>1, <2>3, <4>1 DEF AddChunks, Typed, TypeOK
      <4>4. c \notin b
        <5>1. c \in b => folder[w][f] = registry[s][f] /\ (store[s][c] # None => store[s][c] = registry[s][f])
          BY <2>3 DEF Agreement, BufRecorded, NoStaleChunks
        <5>2. QED
          BY <4>2, <4>3, <5>1
      <4>5. c \in buf[w]
        BY <1>2, <3>1, <4>2, <4>3, <4>4 DEF InFlight
      <4>6. QED
        BY <3>2, <4>2, <4>4, <4>5 DEF InFlight
    <3>8. CASE ListGone(w) \/ ReturnIndex(w)
      <4>1. UNCHANGED <<registry, store>> /\ pc[w] \in {"scan", "purge"}
        BY <3>8 DEF ListGone, ReturnIndex
      <4>2. buf[w] = {}
        BY <3>8 DEF ListGone, ReturnIndex, Typed, Shape
      <4>3. QED
        BY <1>2, <3>1, <4>1, <4>2 DEF InFlight
    <3>9. ASSUME NEW g \in Files, PurgeChunks(w, g) PROVE InFlight(w, s, c)'
      <4>1. registry' = registry /\ pc'[w] = "forget" /\ cur'[w] = g /\ pc[w] = "purge"
        BY <3>9 DEF PurgeChunks, Typed, TypeOK
      <4>2. CASE f = g
        BY <3>2, <4>1, <4>2 DEF InFlight
      <4>3. CASE f # g
        <5>1. store'[s][c] = store[s][c]
          BY <2>1, <2>3, <3>9, <4>3 DEF PurgeChunks, DeleteFile, Typed, TypeOK
        <5>2. QED
          BY <1>2, <3>1, <4>1, <5>1 DEF InFlight, Typed, Shape
      <4>4. QED
        BY <4>2, <4>3
    <3>10. CASE PurgeHash(w)
      <4>1. /\ store' = store /\ pc[w] = "forget"
            /\ registry'[s] = [registry[s] EXCEPT ![cur[w]] = None]
        BY <2>1, <2>3, <3>10 DEF PurgeHash, Typed, TypeOK
      <4>2. f # cur[w] /\ registry'[s][f] = registry[s][f]
        BY <1>0, <3>3, <4>1 DEF Folders
      <4>3. QED
        BY <1>2, <3>1, <4>1, <4>2 DEF InFlight, Typed, Shape
    <3>11. CASE RemoveChunks(w)
      <4>1. pc'[w] = "unregister"
        BY <3>11 DEF RemoveChunks, Typed, TypeOK
      <4>2. QED
        BY <3>2, <4>1 DEF InFlight
    <3>12. CASE RemoveHashes(w)
      <4>1. registry'[s] = EmptyFolder
        BY <2>1, <2>3, <3>12 DEF RemoveHashes, Typed, TypeOK
      <4>2. QED
        BY <1>0, <4>1 DEF EmptyFolder
    <3>13. QED
      BY <1>3, <3>4, <3>5, <3>6, <3>7, <3>8, <3>9, <3>10, <3>11, <3>12 DEF IndexStep, RemoveStep
  <2>4. QED
    BY <2>2, <2>3
\* A call that begins or ends had nothing in flight.
<1>4. ASSUME NEW w \in Writers, UNCHANGED <<registry, store>>,
             pc[w] \in {"idle", "returned"}, \A o \in Writers : o # w => SameLocals(o)
      PROVE  \E o \in Writers : InFlight(o, s, c)'
  <2>1. PICK o \in Writers : InFlight(o, s, c)
    BY <1>2, <1>4
  <2>2. o # w
    BY <1>4, <2>1, ConstantsAssumption DEF InFlight, Busy, Typed, Shape
  <2>3. InFlight(o, s, c)'
    BY <1>4, <2>1, <2>2 DEF InFlight, Busy, SameLocals
  <2>4. QED
    BY <2>3
<1>5. ASSUME NEW w \in Writers, NEW r \in Sources, NEW d, NEW inc, NEW label,
             Begin(w, r, d, inc, label)
      PROVE  \E o \in Writers : InFlight(o, s, c)'
  BY <1>4, <1>5 DEF Begin, SameLocals, Typed, TypeOK
<1>6. ASSUME NEW w \in Writers, Finish(w) PROVE \E o \in Writers : InFlight(o, s, c)'
  BY <1>4, <1>6 DEF Finish, Forget, SameLocals, Typed, TypeOK
<1>7. ASSUME NEW w \in Writers, Fail(w) PROVE FALSE
  BY <1>1, <1>7 DEF Fail
<1>8. CASE UNCHANGED vars
  <2>1. PICK o \in Writers : InFlight(o, s, c)
    BY <1>2, <1>8 DEF vars
  <2>2. InFlight(o, s, c)'
    BY <1>8, <2>1 DEF vars, writerVars, InFlight, Busy
  <2>3. QED
    BY <2>2
<1>9. QED
  BY <1>3, <1>5, <1>6, <1>7, <1>8 DEF Next, Start, StartIngest, StartIndex, StartRemove

\* When callers take turns and no run has failed, every recorded hash has
\* its chunks in the store or on their way there.
THEOREM RegistryBackedHolds ==
    ASSUME Serial = TRUE PROVE Spec => []RegistryBacked
<1>1. Init => RegistryBacked
  BY ConstantsAssumption DEF Init, RegistryBacked, EmptyFolder
<1>2. Typed /\ Agreement /\ RegistryBacked /\ [Next]_vars => RegistryBacked'
  BY BackedStep
<1>3. QED
  BY <1>1, <1>2, TypedCorrect, AgreementCorrect, PTL DEF Spec

-----------------------------------------------------------------------------
(* Runs that return *)

\* File f is in step with the folder of w, but for the chunks w still buffers.
DoneFile(w, f) ==
    /\ registry[src[w]][f] = folder[w][f]
    /\ \A c \in Chunks : FileOf[c] = f =>
          store[src[w]][c] =
              IF folder[w][f] # None /\ c \in Parse(f, folder[w][f]) /\ c \notin buf[w]
              THEN folder[w][f] ELSE None

\* The files that w has dealt with: present ones in the scan, all in the purge.
Due(w, f) ==
    \/ /\ f \notin todo[w] \cup skipped[w]
       /\ pc[w] \in {"delete", "record", "forget"} => f # cur[w]
       /\ \/ pc[w] \in {"scan", "delete", "record"} /\ folder[w][f] # None
          \/ pc[w] \in {"purge", "forget"}
    \/ pc[w] = "returned" /\ f \notin skipped[w]

Progress == \A w \in Writers, f \in Files : Due(w, f) => DoneFile(w, f)

\* Progress survives a step of another call, one that begins or one that ends.
LEMMA ProgressOfOthers ==
    ASSUME Progress, NEW o \in Writers, SameLocals(o), NEW f \in Files, Due(o, f)',
           registry'[src[o]] = registry[src[o]], store'[src[o]] = store[src[o]]
    PROVE  DoneFile(o, f)'
<1>1. Due(o, f)
  BY DEF Due, SameLocals
<1>2. QED
  BY <1>1 DEF Progress, DoneFile, SameLocals

LEMMA ProgressOfRun ==
    ASSUME Typed, Agreement, Progress, NEW w \in Writers, IndexStep(w) \/ RemoveStep(w),
           NEW f \in Files, Due(w, f)'
    PROVE  DoneFile(w, f)'
<1> USE ConstantsAssumption
<1>1. src[w] \in Sources /\ src'[w] = src[w] /\ folder'[w] = folder[w] /\ folder[w] \in Folders
  BY DEF IndexStep, RemoveStep, SkipFile, TakeFile, PurgeChunks, DeleteOld, RecordHash, AddBatch,
         ListGone, PurgeHash, ReturnIndex, RemoveChunks, RemoveHashes, Typed, TypeOK, Shape
<1>2. registry[src[w]] \in Folders /\ store[src[w]] \in [Chunks -> Versions \cup {None}]
  BY <1>1 DEF Typed, TypeOK
\* Nothing of f moves.
<1>3. ASSUME Due(w, f), registry'[src[w]][f] = registry[src[w]][f],
             \A c \in Chunks : FileOf[c] = f => store'[src[w]][c] = store[src[w]][c],
             \A c \in Chunks : FileOf[c] = f => (c \in buf'[w] <=> c \in buf[w])
      PROVE  DoneFile(w, f)'
  BY <1>1, <1>3 DEF Progress, DoneFile
<1>4. ASSUME NEW g \in Files, SkipFile(w, g) \/ TakeFile(w, g) PROVE DoneFile(w, f)'
  <2>1. Due(w, f)
    BY <1>1, <1>4 DEF SkipFile, TakeFile, Due, Typed, TypeOK
  <2>2. QED
    BY <1>3, <1>4, <2>1 DEF SkipFile, TakeFile
<1>5. CASE DeleteOld(w)
  <2>1. Due(w, f) /\ f # cur[w]
    BY <1>1, <1>5 DEF DeleteOld, Due, Typed, TypeOK
  <2>2. \A c \in Chunks : FileOf[c] = f => store'[src[w]][c] = store[src[w]][c]
    BY <1>1, <1>5, <2>1 DEF DeleteOld, DeleteFile, Typed, TypeOK
  <2>3. QED
    BY <1>3, <1>5, <2>1, <2>2 DEF DeleteOld
<1>6. CASE RecordHash(w)
  <2>1. /\ store' = store /\ buf'[w] = buf[w] \cup Parse(cur[w], folder[w][cur[w]])
        /\ registry'[src[w]] = [registry[src[w]] EXCEPT ![cur[w]] = folder[w][cur[w]]]
        /\ pc[w] = "record" /\ pc'[w] = "scan" /\ todo' = todo /\ skipped' = skipped
    BY <1>1, <1>6 DEF RecordHash, Typed, TypeOK
  <2>2. CASE f = cur[w]
    <3>1. registry'[src[w]][f] = folder[w][f]
      BY <1>2, <2>1, <2>2 DEF Folders
    <3>2. \A c \in Chunks : FileOf[c] = f => store'[src[w]][c] = None
      BY <2>1, <2>2 DEF Agreement, Cleared
    <3>3. \A c \in Parse(f, folder[w][f]) : c \in buf'[w]
      BY <2>1, <2>2
    <3>4. QED
      BY <1>1, <3>1, <3>2, <3>3 DEF DoneFile
  <2>3. CASE f # cur[w]
    <3>1. Due(w, f)
      BY <1>1, <2>1, <2>3 DEF Due
    <3>2. registry'[src[w]][f] = registry[src[w]][f]
      BY <1>2, <2>1, <2>3 DEF Folders
    <3>3. \A c \in Chunks : FileOf[c] = f => (c \in buf'[w] <=> c \in buf[w])
      BY <2>1, <2>3 DEF Parse
    <3>4. QED
      BY <1>3, <2>1, <3>1, <3>2, <3>3
  <2>4. QED
    BY <2>2, <2>3
<1>7. CASE AddBatch(w)
  <2>1. PICK b \in SUBSET buf[w] :
          store' = AddChunks(src[w], b, folder[w]) /\ buf' = [buf EXCEPT ![w] = @ \ b]
    BY <1>7 DEF AddBatch
  <2>2. registry' = registry /\ buf'[w] = buf[w] \ b /\ buf[w] \subseteq Chunks
    BY <1>7, <2>1 DEF AddBatch, Typed, TypeOK
  <2>3. \A c \in Chunks : store'[src[w]][c] =
            IF c \in b /\ (Upsert \/ store[src[w]][c] = None)
            THEN folder[w][FileOf[c]] ELSE store[src[w]][c]
    BY <1>1, <2>1 DEF AddChunks, Typed, TypeOK
  <2>4. Due(w, f)
    BY <1>1, <1>7 DEF AddBatch, Due
  <2>5. DoneFile(w, f)
    BY <2>4 DEF Progress
  <2>6. \A c \in b : folder[w][FileOf[c]] # None /\ c \in Parse(FileOf[c], folder[w][FileOf[c]])
    BY DEF Agreement, BufRecorded
  <2>7. ASSUME NEW c \in Chunks, FileOf[c] = f
        PROVE  store'[src[w]][c] =
                  IF folder[w][f] # None /\ c \in Parse(f, folder[w][f]) /\ c \notin buf'[w]
                  THEN folder[w][f] ELSE None
    BY <2>2, <2>3, <2>5, <2>6, <2>7 DEF DoneFile
  <2>8. QED
    BY <1>1, <2>2, <2>5, <2>7 DEF DoneFile
<1>8. CASE ListGone(w)
  <2>1. /\ UNCHANGED <<registry, store, skipped, buf>> /\ pc[w] = "scan" /\ todo[w] = {}
        /\ pc'[w] = "purge" /\ buf[w] = {}
        /\ todo'[w] = {g \in Files : registry[src[w]][g] # None /\ folder[w][g] = None}
    BY <1>8 DEF ListGone, Typed, TypeOK
  <2>2. CASE folder[w][f] # None
    <3>1. Due(w, f)
      BY <2>1, <2>2 DEF Due
    <3>2. QED
      BY <1>3, <2>1, <3>1
  <2>3. CASE folder[w][f] = None
    <3>1. registry[src[w]][f] = None
      BY <2>1, <2>3 DEF Due
    <3>2. \A c \in Chunks : FileOf[c] = f => store[src[w]][c] = None
      BY <1>1, <3>1 DEF Agreement, NoStaleChunks
    <3>3. QED
      BY <1>1, <2>1, <2>3, <3>1, <3>2 DEF DoneFile
  <2>4. QED
    BY <2>2, <2>3
<1>9. ASSUME NEW g \in Files, PurgeChunks(w, g) PROVE DoneFile(w, f)'
  <2>1. /\ pc[w] = "purge" /\ pc'[w] = "forget" /\ cur'[w] = g /\ todo'[w] = todo[w] \ {g}
        /\ UNCHANGED <<registry, skipped, buf>>
    BY <1>9 DEF PurgeChunks, Typed, TypeOK
  <2>2. f # g /\ Due(w, f)
    BY <2>1 DEF Due
  <2>3. \A c \in Chunks : FileOf[c] = f => store'[src[w]][c] = store[src[w]][c]
    BY <1>1, <1>9, <2>2 DEF PurgeChunks, DeleteFile, Typed, TypeOK
  <2>4. QED
    BY <1>3, <2>1, <2>2, <2>3
<1>10. CASE PurgeHash(w)
  <2>1. /\ UNCHANGED <<store, todo, skipped, buf>> /\ pc[w] = "forget" /\ pc'[w] = "purge"
        /\ registry'[src[w]] = [registry[src[w]] EXCEPT ![cur[w]] = None]
    BY <1>1, <1>10 DEF PurgeHash, Typed, TypeOK
  <2>2. CASE f = cur[w]
    <3>1. registry'[src[w]][f] = None /\ folder[w][f] = None
      BY <1>2, <2>1, <2>2 DEF Folders, Typed, Shape
    <3>2. \A c \in Chunks : FileOf[c] = f => store'[src[w]][c] = None
      BY <2>1, <2>2 DEF Agreement, Cleared
    <3>3. QED
      BY <1>1, <3>1, <3>2 DEF DoneFile
  <2>3. CASE f # cur[w]
    <3>1. Due(w, f)
      BY <2>1, <2>3 DEF Due
    <3>2. registry'[src[w]][f] = registry[src[w]][f]
      BY <1>2, <2>1, <2>3 DEF Folders
    <3>3. QED
      BY <1>3, <2>1, <3>1, <3>2
  <2>4. QED
    BY <2>2, <2>3
<1>11. CASE ReturnIndex(w)
  <2>1. Due(w, f)
    BY <1>11 DEF ReturnIndex, Due, Typed, TypeOK
  <2>2. QED
    BY <1>3, <1>11, <2>1 DEF ReturnIndex
<1>12. CASE RemoveChunks(w)
  BY <1>12 DEF RemoveChunks, Due, Typed, TypeOK
<1>13. CASE RemoveHashes(w)
  <2>1. store' = store /\ pc[w] = "unregister" /\ registry'[src[w]] = EmptyFolder
    BY <1>1, <1>13 DEF RemoveHashes, Typed, TypeOK
  <2>2. \A c \in Chunks : store'[src[w]][c] = None
    BY <2>1 DEF Agreement, Cleared
  <2>3. folder[w][f] = None /\ registry'[src[w]][f] = None
    BY <2>1 DEF EmptyFolder, Typed, Shape
  <2>4. QED
    BY <1>1, <2>2, <2>3 DEF DoneFile
<1>14. QED
  BY <1>4, <1>5, <1>6, <1>7, <1>8, <1>9, <1>10, <1>11, <1>12, <1>13 DEF IndexStep, RemoveStep

LEMMA ProgressStep ==
    ASSUME Typed, Agreement, Progress, [Next]_vars
    PROVE  Progress'
<1> SUFFICES ASSUME NEW o \in Writers, NEW f \in Files, Due(o, f)'
             PROVE  DoneFile(o, f)'
  BY DEF Progress
<1>1. ASSUME NEW w \in Writers, IndexStep(w) \/ RemoveStep(w) PROVE DoneFile(o, f)'
  <2>1. CASE o = w
    BY <1>1, <2>1, ProgressOfRun
  <2>2. CASE o # w
    <3>1. SameLocals(o) /\ pc[o] # "idle"
      BY <1>1, <2>2, OthersStay DEF SameLocals, Due
    <3>2. src[o] # None
      BY <3>1 DEF Typed, Shape
    <3>3. QED
      BY <1>1, <2>2, <3>1, <3>2, OthersStay, ProgressOfOthers
  <2>3. QED
    BY <2>1, <2>2
<1>2. ASSUME NEW w \in Writers, NEW s \in Sources, NEW d, NEW inc,
             NEW label \in {"scan", "remove"}, Begin(w, s, d, inc, label)
      PROVE  DoneFile(o, f)'
  <2>1. o # w
    BY <1>2 DEF Begin, Due, Typed, TypeOK
  <2>2. SameLocals(o) /\ UNCHANGED <<registry, store>>
    BY <1>2, <2>1 DEF Begin, SameLocals, Typed, TypeOK
  <2>3. QED
    BY <2>2, ProgressOfOthers
<1>3. ASSUME NEW w \in Writers, Finish(w) \/ Fail(w) PROVE DoneFile(o, f)'
  <2>1. o # w
    BY <1>3 DEF Finish, Fail, Forget, Due, Typed, TypeOK
  <2>2. SameLocals(o) /\ UNCHANGED <<registry, store>>
    BY <1>3, <2>1 DEF Finish, Fail, Forget, SameLocals, Typed, TypeOK
  <2>3. QED
    BY <2>2, ProgressOfOthers
<1>4. CASE UNCHANGED vars
  <2>1. SameLocals(o) /\ UNCHANGED <<registry, store>>
    BY <1>4 DEF vars, writerVars, SameLocals
  <2>2. QED
    BY <2>1, ProgressOfOthers
<1>5. QED
  BY <1>1, <1>2, <1>3, <1>4 DEF Next, Start, StartIngest, StartIndex, StartRemove

\* When callers take turns, a call that returns has brought every file it did
\* not skip in step with its folder, whatever calls failed before.
THEOREM ReturnedRunIsInSyncHolds ==
    ASSUME Serial = TRUE PROVE Spec => []ReturnedRunIsInSync
<1>1. Init => Progress
  BY DEF Init, Progress, Due
<1>2. Typed /\ Agreement /\ Progress /\ [Next]_vars => Progress'
  BY ProgressStep
<1>3. Typed /\ Progress => ReturnedRunIsInSync
  <2> SUFFICES ASSUME Typed, Progress, NEW w \in Writers, pc[w] = "returned",
                      NEW f \in Files \ skipped[w]
               PROVE  InSync(src[w], folder[w], f)
    BY DEF ReturnedRunIsInSync
  <2>1. DoneFile(w, f)
    BY DEF Progress, Due
  <2>2. buf[w] = {}
    BY DEF Typed, Shape
  <2>3. QED
    BY <2>1, <2>2 DEF DoneFile, InSync
<1>4. QED
  BY <1>1, <1>2, <1>3, TypedCorrect, AgreementCorrect, PTL DEF Spec
=============================================================================
