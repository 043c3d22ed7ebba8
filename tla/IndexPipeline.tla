---------------------------- MODULE IndexPipeline ----------------------------
(***************************************************************************)
(* Indexing of code folders into the vector store (indexing/pipeline.py):  *)
(* index_path and remove_source, run by queue workers and by the request   *)
(* threads of the admin API, against the two stores they keep in step:     *)
(* the registry of file hashes and the vector store of chunks.             *)
(*                                                                         *)
(* Each action is one call that other threads can observe: a registry or   *)
(* store operation together with the local bookkeeping around it.  File    *)
(* contents are versions (SHA1 is injective on them); a chunk is its id,   *)
(* so one chunk id may occur in several versions of its file.              *)
(***************************************************************************)
EXTENDS Naturals, FiniteSets

CONSTANTS
    Sources,    \* names of indexed code bases
    Files,      \* relative paths that have a parser
    Versions,   \* distinguishable contents of a file
    None,       \* no hash in the registry, no chunk in the store, no file
    Chunks,     \* chunk ids, rel:qualified_name:line
    FileOf,     \* the file a chunk id belongs to
    In,         \* In[c]: the versions of its file whose parse yields c
    Workers,    \* ingest queue workers (run_ingest)
    Admins,     \* request threads (LocalBackend.index and .remove)
    Upsert,     \* store.add overwrites an id (Qdrant) or keeps the old (Chroma)
    Serial,     \* callers of one source take turns
    Batch,      \* chunks per embedding batch
    MaxFails    \* bound: how many runs end by an exception or a crash

Writers == Workers \cup Admins

ASSUME ConstantsAssumption ==
    /\ FileOf \in [Chunks -> Files]
    /\ In \in [Chunks -> SUBSET Versions]
    /\ None \notin Versions \cup Files \cup Sources
    /\ Upsert \in BOOLEAN /\ Serial \in BOOLEAN
    /\ Batch \in Nat \ {0} /\ MaxFails \in Nat

VARIABLES
    registry,     \* registry[s][f]: recorded version or None
    store,        \* store[s][c]: version whose text is stored, or None
    pc,           \* what each writer does next
    src,          \* its source argument, None when idle
    folder,       \* the folder it reads: version of each file, None if absent
    incremental,  \* its incremental argument
    todo,         \* files the current loop has still to process
    cur,          \* the file being processed, or None
    skipped,      \* files found unchanged
    buf,          \* chunks parsed and not yet in the store (texts/ids/metas)
    fails         \* runs that ended early so far

writerVars == <<pc, src, folder, incremental, todo, cur, skipped, buf>>
vars == <<registry, store, writerVars, fails>>

Folders == [Files -> Versions \cup {None}]
EmptyFolder == [f \in Files |-> None]

\* get_parser(p.suffix).parse(rel, text, source): the chunk ids of a content.
Parse(f, v) == {c \in Chunks : FileOf[c] = f /\ v \in In[c]}

\* Mutations of DeleteFile: the call is forgotten, the source condition is
\* forgotten.
KeepOldChunks(s, f) == store
DeleteInAnySource(s, f) ==
    [x \in Sources |->
        [c \in Chunks |-> IF FileOf[c] = f THEN None ELSE store[x][c]]]

\* store.delete_where(source=s, file=f)
DeleteFile(s, f) ==
    [store EXCEPT ![s] =
        [c \in Chunks |-> IF FileOf[c] = f THEN None ELSE store[s][c]]]

\* store.add of the chunks cs, read from folder d
AddChunks(s, cs, d) ==
    [store EXCEPT ![s] =
        [c \in Chunks |-> IF c \in cs /\ (Upsert \/ store[s][c] = None)
                          THEN d[FileOf[c]] ELSE store[s][c]]]

\* the next batch: a full one, or all that is left
NextBatch(b, rest) ==
    /\ b \subseteq rest /\ b # {}
    /\ \/ Cardinality(b) = Batch
       \/ b = rest /\ Cardinality(rest) < Batch

Busy(w, s) == src[w] = s

Init ==
    /\ registry = [s \in Sources |-> EmptyFolder]
    /\ store = [s \in Sources |-> [c \in Chunks |-> None]]
    /\ pc = [w \in Writers |-> "idle"]
    /\ src = [w \in Writers |-> None]
    /\ folder = [w \in Writers |-> EmptyFolder]
    /\ incremental = [w \in Writers |-> FALSE]
    /\ todo = [w \in Writers |-> {}]
    /\ cur = [w \in Writers |-> None]
    /\ skipped = [w \in Writers |-> {}]
    /\ buf = [w \in Writers |-> {}]
    /\ fails = 0

-----------------------------------------------------------------------------
(* A call begins. *)

\* What every call sets up; the taking of turns is the caller's discipline.
Begin(w, s, d, inc, label) ==
    /\ pc[w] = "idle"
    /\ Serial => \A o \in Writers : ~Busy(o, s)
    /\ pc' = [pc EXCEPT ![w] = label]
    /\ src' = [src EXCEPT ![w] = s]
    /\ folder' = [folder EXCEPT ![w] = d]
    /\ incremental' = [incremental EXCEPT ![w] = inc]
    /\ todo' = [todo EXCEPT ![w] = {f \in Files : d[f] # None}]
    /\ UNCHANGED <<registry, store, cur, skipped, buf, fails>>

\* run_ingest: a queue worker indexes an unpacked folder, always incrementally.
StartIngest(w, s, d) == w \in Workers /\ Begin(w, s, d, TRUE, "scan")

\* LocalBackend.index: an admin request indexes a folder.
StartIndex(w, s, d, inc) == w \in Admins /\ Begin(w, s, d, inc, "scan")

\* LocalBackend.remove: an admin request removes a source.
StartRemove(w, s) == w \in Admins /\ Begin(w, s, EmptyFolder, FALSE, "remove")

-----------------------------------------------------------------------------
(* index_path, phase 1: registry lookup, parsing into the buffers. *)

\* Mutation of Unchanged: the incremental test is forgotten.
NeverUnchanged(w, f) == FALSE

Unchanged(w, f) == incremental[w] /\ registry[src[w]][f] = folder[w][f]

SkipFile(w, f) ==
    /\ pc[w] = "scan" /\ f \in todo[w]
    /\ Unchanged(w, f)
    /\ todo' = [todo EXCEPT ![w] = @ \ {f}]
    /\ skipped' = [skipped EXCEPT ![w] = @ \cup {f}]
    /\ UNCHANGED <<registry, store, pc, src, folder, incremental, cur, buf, fails>>

TakeFile(w, f) ==
    /\ pc[w] = "scan" /\ f \in todo[w]
    /\ ~Unchanged(w, f)
    /\ pc' = [pc EXCEPT ![w] = "delete"]
    /\ cur' = [cur EXCEPT ![w] = f]
    /\ todo' = [todo EXCEPT ![w] = @ \ {f}]
    /\ UNCHANGED <<registry, store, src, folder, incremental, skipped, buf, fails>>

DeleteOld(w) ==
    /\ pc[w] = "delete"
    /\ store' = DeleteFile(src[w], cur[w])
    /\ pc' = [pc EXCEPT ![w] = "record"]
    /\ UNCHANGED <<registry, src, folder, incremental, todo, cur, skipped, buf, fails>>

\* The hash is recorded while the chunks are still in the buffer.
RecordHash(w) ==
    /\ pc[w] = "record"
    /\ LET v == folder[w][cur[w]] IN
        /\ buf' = [buf EXCEPT ![w] = @ \cup Parse(cur[w], v)]
        /\ registry' = [registry EXCEPT ![src[w]][cur[w]] = v]
    /\ pc' = [pc EXCEPT ![w] = "scan"]
    /\ cur' = [cur EXCEPT ![w] = None]
    /\ UNCHANGED <<store, src, folder, incremental, todo, skipped, fails>>

(* Phase 2: embedding and storing, batch by batch. *)

AddBatch(w) ==
    /\ pc[w] = "scan" /\ todo[w] = {}
    /\ \E b \in SUBSET buf[w] :
        /\ NextBatch(b, buf[w])
        /\ store' = AddChunks(src[w], b, folder[w])
        /\ buf' = [buf EXCEPT ![w] = @ \ b]
    /\ UNCHANGED <<registry, pc, src, folder, incremental, todo, cur, skipped, fails>>

(* Phase 3: files the registry knows and the folder has no more. *)

\* Mutation of ListGone: the last partial batch is never embedded.
ListGoneEarly(w) ==
    /\ pc[w] = "scan" /\ todo[w] = {} /\ Cardinality(buf[w]) < Batch
    /\ pc' = [pc EXCEPT ![w] = "purge"]
    /\ todo' = [todo EXCEPT ![w] =
         {f \in Files : registry[src[w]][f] # None /\ folder[w][f] = None}]
    /\ UNCHANGED <<registry, store, src, folder, incremental, cur, skipped, buf, fails>>

ListGone(w) ==
    /\ pc[w] = "scan" /\ todo[w] = {} /\ buf[w] = {}
    /\ pc' = [pc EXCEPT ![w] = "purge"]
    /\ todo' = [todo EXCEPT ![w] =
         {f \in Files : registry[src[w]][f] # None /\ folder[w][f] = None}]
    /\ UNCHANGED <<registry, store, src, folder, incremental, cur, skipped, buf, fails>>

PurgeChunks(w, f) ==
    /\ pc[w] = "purge" /\ f \in todo[w]
    /\ store' = DeleteFile(src[w], f)
    /\ pc' = [pc EXCEPT ![w] = "forget"]
    /\ cur' = [cur EXCEPT ![w] = f]
    /\ todo' = [todo EXCEPT ![w] = @ \ {f}]
    /\ UNCHANGED <<registry, src, folder, incremental, skipped, buf, fails>>

PurgeHash(w) ==
    /\ pc[w] = "forget"
    /\ registry' = [registry EXCEPT ![src[w]][cur[w]] = None]
    /\ pc' = [pc EXCEPT ![w] = "purge"]
    /\ cur' = [cur EXCEPT ![w] = None]
    /\ UNCHANGED <<store, src, folder, incremental, todo, skipped, buf, fails>>

ReturnIndex(w) ==
    /\ pc[w] = "purge" /\ todo[w] = {}
    /\ pc' = [pc EXCEPT ![w] = "returned"]
    /\ UNCHANGED <<registry, store, src, folder, incremental, todo, cur, skipped,
                   buf, fails>>

(* remove_source *)

RemoveChunks(w) ==
    /\ pc[w] = "remove"
    /\ store' = [store EXCEPT ![src[w]] = [c \in Chunks |-> None]]
    /\ pc' = [pc EXCEPT ![w] = "unregister"]
    /\ UNCHANGED <<registry, src, folder, incremental, todo, cur, skipped, buf, fails>>

RemoveHashes(w) ==
    /\ pc[w] = "unregister"
    /\ registry' = [registry EXCEPT ![src[w]] = EmptyFolder]
    /\ pc' = [pc EXCEPT ![w] = "returned"]
    /\ UNCHANGED <<store, src, folder, incremental, todo, cur, skipped, buf, fails>>

-----------------------------------------------------------------------------
(* The end of a call: its locals are gone, whether it returned or not. *)

Forget(w) ==
    /\ pc' = [pc EXCEPT ![w] = "idle"]
    /\ src' = [src EXCEPT ![w] = None]
    /\ folder' = [folder EXCEPT ![w] = EmptyFolder]
    /\ incremental' = [incremental EXCEPT ![w] = FALSE]
    /\ todo' = [todo EXCEPT ![w] = {}]
    /\ cur' = [cur EXCEPT ![w] = None]
    /\ skipped' = [skipped EXCEPT ![w] = {}]
    /\ buf' = [buf EXCEPT ![w] = {}]
    /\ UNCHANGED <<registry, store>>

Finish(w) == pc[w] = "returned" /\ Forget(w) /\ UNCHANGED fails

\* An exception of the parser, the embedder, the store or the database, the
\* job timeout, or the death of the process: the buffers are lost.
Fail(w) ==
    /\ pc[w] \notin {"idle", "returned"}
    /\ fails < MaxFails
    /\ fails' = fails + 1
    /\ Forget(w)

IndexStep(w) ==
    \/ \E f \in Files : SkipFile(w, f) \/ TakeFile(w, f) \/ PurgeChunks(w, f)
    \/ DeleteOld(w) \/ RecordHash(w) \/ AddBatch(w)
    \/ ListGone(w) \/ PurgeHash(w) \/ ReturnIndex(w)

RemoveStep(w) == RemoveChunks(w) \/ RemoveHashes(w)

Start(w) ==
    \E s \in Sources :
        \/ \E d \in Folders :
              \/ StartIngest(w, s, d)
              \/ \E inc \in BOOLEAN : StartIndex(w, s, d, inc)
        \/ StartRemove(w, s)

Next ==
    \E w \in Writers :
        Start(w) \/ IndexStep(w) \/ RemoveStep(w) \/ Finish(w) \/ Fail(w)

Spec == Init /\ [][Next]_vars

-----------------------------------------------------------------------------
(* Properties *)

Labels == {"idle", "scan", "delete", "record", "purge", "forget", "remove",
           "unregister", "returned"}

\* Every variable holds a value of its kind.
TypeOK ==
    /\ registry \in [Sources -> Folders]
    /\ store \in [Sources -> [Chunks -> Versions \cup {None}]]
    /\ pc \in [Writers -> Labels]
    /\ src \in [Writers -> Sources \cup {None}]
    /\ folder \in [Writers -> Folders]
    /\ incremental \in [Writers -> BOOLEAN]
    /\ todo \in [Writers -> SUBSET Files]
    /\ cur \in [Writers -> Files \cup {None}]
    /\ skipped \in [Writers -> SUBSET Files]
    /\ buf \in [Writers -> SUBSET Chunks]
    /\ fails \in 0..MaxFails

\* When callers of a source take turns, no stale fragment is ever searchable:
\* a stored chunk is a chunk of exactly the version the registry records for
\* its file, at every intermediate point of a run and whatever run failed
\* before (the delete_where before each re-parse and the order of the two
\* deletes in remove_source).
NoStaleChunks ==
    \A s \in Sources, c \in Chunks :
        store[s][c] # None =>
            /\ registry[s][FileOf[c]] = store[s][c]
            /\ c \in Parse(FileOf[c], store[s][c])

\* Chunks of file f that writer w has taken out and will put back or forget.
InFlight(w, s, c) ==
    /\ Busy(w, s)
    /\ \/ c \in buf[w]
       \/ cur[w] = FileOf[c] /\ pc[w] \in {"record", "forget"}
       \/ pc[w] = "unregister"

\* As long as no run has failed, a hash in the registry means that every chunk
\* of that version is in the store or on its way there: the incremental skip
\* never hides a file from search for good.
RegistryBacked ==
    fails = 0 =>
        \A s \in Sources, c \in Chunks :
            LET v == registry[s][FileOf[c]] IN
            v # None /\ c \in Parse(FileOf[c], v) =>
                \/ store[s][c] = v
                \/ \E w \in Writers : InFlight(w, s, c)

\* What store and registry of s must hold for file f after a run on folder d.
InSync(s, d, f) ==
    /\ registry[s][f] = d[f]
    /\ \A c \in Chunks : FileOf[c] = f =>
          store[s][c] = IF d[f] # None /\ c \in Parse(f, d[f]) THEN d[f] ELSE None

\* A run that returns has brought every file it did not skip in step with its
\* folder, deleted files included, even after earlier runs failed half way; a
\* full (non-incremental) run therefore repairs the index.
ReturnedRunIsInSync ==
    \A w \in Writers : pc[w] = "returned" =>
        \A f \in Files \ skipped[w] : InSync(src[w], folder[w], f)

\* What the incremental mode is documented to give: after the call returns the
\* whole source is in step with the folder, skipped files too.
ReturnedSourceIsInSync ==
    \A w \in Writers : pc[w] = "returned" =>
        \A f \in Files : InSync(src[w], folder[w], f)

\* Once no call on a source is running, whatever calls overlapped before, the
\* store holds no fragment that the registry does not account for.
QuiescentIndexAgrees ==
    \A s \in Sources : (\A w \in Writers : ~Busy(w, s)) =>
        \A c \in Chunks : store[s][c] # None =>
            /\ registry[s][FileOf[c]] = store[s][c]
            /\ c \in Parse(FileOf[c], store[s][c])

\* An incremental run never makes a chunk of an unchanged file disappear from
\* search: chunks only go when their file changed, vanished, is re-indexed in
\* full, or its source is removed.
UnchangedFilesStaySearchable ==
    [][\A s \in Sources, c \in Chunks :
        store[s][c] # None /\ store'[s][c] = None =>
            \E w \in Writers :
                /\ Busy(w, s)
                /\ \/ pc[w] = "remove"
                   \/ registry[s][FileOf[c]] # folder[w][FileOf[c]]
                   \/ ~incremental[w]]_vars

=============================================================================
