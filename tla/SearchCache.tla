----------------------------- MODULE SearchCache -----------------------------
(***************************************************************************)
(* The cached search: HybridRetriever.search over cache_get_or_set, the    *)
(* index-epoch that orphans cached results (persistence/cache.py), and the *)
(* BM25 index each process builds once (retrieval/bm25.py).                *)
(*                                                                         *)
(* Publishers are the threads that change the index and then call          *)
(* bump_epoch: queue workers (run_ingest) and admin requests               *)
(* (LocalBackend.index and .remove).  Cache calls are single steps; the    *)
(* read-modify-write of bump_epoch is two.  A search result is represented *)
(* by the oldest index version that any part of it was read from.          *)
(***************************************************************************)
EXTENDS Naturals

CONSTANTS
    Publishers, \* threads that change the index
    Searchers,  \* request threads of one backend process
    Queries,    \* distinct (query, flags, k, filter) digests
    Lexical,    \* the queries whose resolved flags have bm25 on
    None,       \* cache miss; no search, no answer yet; BM25 index not built
    MaxVersion, \* bound: changes of the index
    MaxEpoch,   \* bound: the epoch
    MaxFails    \* bound: index runs that end by an exception

ASSUME ConstantsAssumption ==
    /\ Lexical \subseteq Queries
    /\ None \notin Nat \cup Queries
    /\ MaxVersion \in Nat /\ MaxEpoch \in Nat /\ MaxFails \in Nat

VARIABLES
    version,    \* of the index: how often the stores were changed so far
    epoch,      \* the cached counter codelens:index-epoch
    entries,    \* entries[e][q]: result cached under search:{e}:{digest q}
    bm25,       \* version the BM25 index was built from, or None
    ppc,        \* what each publisher does next
    seen,       \* the epoch it has read in bump_epoch
    covers,     \* the version its finished work amounts to
    spc,        \* what each searcher does next
    query,      \* its query, None when idle
    key,        \* the epoch in its cache key
    result,     \* what it has computed or found, its answer once answered
    fails,      \* index runs that failed so far
    published,  \* history: version covered by the last completed bump
    floor       \* history: floor[s], published when s read the epoch

pubVars == <<ppc, seen, covers, fails>>
searchVars == <<spc, query, key, result, floor>>
vars == <<version, epoch, entries, bm25, published, pubVars, searchVars>>

Smaller(a, b) == IF a < b THEN a ELSE b
Larger(a, b) == IF a < b THEN b ELSE a

\* current_epoch returns 0 as long as no epoch is stored.
DefaultEpoch == 0

Init ==
    /\ version = 0
    /\ epoch = DefaultEpoch
    /\ entries = [e \in 0..MaxEpoch |-> [q \in Queries |-> None]]
    /\ bm25 = None
    /\ ppc = [p \in Publishers |-> "idle"]
    /\ seen = [p \in Publishers |-> None]
    /\ covers = [p \in Publishers |-> None]
    /\ spc = [s \in Searchers |-> "idle"]
    /\ query = [s \in Searchers |-> None]
    /\ key = [s \in Searchers |-> None]
    /\ result = [s \in Searchers |-> None]
    /\ fails = 0
    /\ published = 0
    /\ floor = [s \in Searchers |-> None]

-----------------------------------------------------------------------------
(* Publishers *)

StartRun(p) ==
    /\ ppc[p] = "idle"
    /\ ppc' = [ppc EXCEPT ![p] = "changing"]
    /\ UNCHANGED <<version, epoch, entries, bm25, published, seen, covers, fails,
                   searchVars>>

\* One store operation of index_path or remove_source.
ChangeIndex(p) ==
    /\ ppc[p] = "changing" /\ version < MaxVersion
    /\ version' = version + 1
    /\ UNCHANGED <<epoch, entries, bm25, published, pubVars, searchVars>>

\* The run has returned; bump_epoch reads the epoch.
ReadEpoch(p) ==
    /\ ppc[p] = "changing" /\ epoch < MaxEpoch
    /\ ppc' = [ppc EXCEPT ![p] = "bumping"]
    /\ seen' = [seen EXCEPT ![p] = epoch]
    /\ covers' = [covers EXCEPT ![p] = version]
    /\ UNCHANGED <<version, epoch, entries, bm25, published, fails, searchVars>>

\* bump_epoch is over and with it the change it publishes.
EndBump(p) ==
    /\ published' = Larger(published, covers[p])
    /\ ppc' = [ppc EXCEPT ![p] = "idle"]
    /\ seen' = [seen EXCEPT ![p] = None]
    /\ covers' = [covers EXCEPT ![p] = None]
    /\ UNCHANGED <<version, entries, bm25, fails, searchVars>>

\* Mutation of WriteEpoch: the successor is computed but not written.
ForgetBump(p) == ppc[p] = "bumping" /\ EndBump(p) /\ UNCHANGED epoch

\* bump_epoch writes the successor of what it read.
WriteEpoch(p) == ppc[p] = "bumping" /\ epoch' = seen[p] + 1 /\ EndBump(p)

\* The run raises after some of its changes: no bump follows.
FailRun(p) ==
    /\ ppc[p] = "changing" /\ fails < MaxFails
    /\ fails' = fails + 1
    /\ ppc' = [ppc EXCEPT ![p] = "idle"]
    /\ UNCHANGED <<version, epoch, entries, bm25, published, seen, covers, searchVars>>

Publisher(p) ==
    StartRun(p) \/ ChangeIndex(p) \/ ReadEpoch(p) \/ WriteEpoch(p) \/ FailRun(p)

-----------------------------------------------------------------------------
(* Searchers *)

\* The cache key is built from the current epoch.
StartSearch(s, q) ==
    /\ spc[s] = "idle"
    /\ spc' = [spc EXCEPT ![s] = "lookup"]
    /\ query' = [query EXCEPT ![s] = q]
    /\ key' = [key EXCEPT ![s] = epoch]
    /\ floor' = [floor EXCEPT ![s] = published]
    /\ UNCHANGED <<version, epoch, entries, bm25, published, pubVars, result>>

Hit(s) ==
    /\ spc[s] = "lookup" /\ entries[key[s]][query[s]] # None
    /\ result' = [result EXCEPT ![s] = entries[key[s]][query[s]]]
    /\ spc' = [spc EXCEPT ![s] = "answered"]
    /\ UNCHANGED <<version, epoch, entries, bm25, published, pubVars, query, key, floor>>

Miss(s) ==
    /\ spc[s] = "lookup" /\ entries[key[s]][query[s]] = None
    /\ spc' = [spc EXCEPT ![s] = "dense"]
    /\ UNCHANGED <<version, epoch, entries, bm25, published, pubVars, query, key,
                   result, floor>>

\* store.query: the dense channel always reads the store itself.
ReadDense(s) ==
    /\ spc[s] = "dense"
    /\ result' = [result EXCEPT ![s] = version]
    /\ spc' = [spc EXCEPT ![s] = IF query[s] \in Lexical THEN "bm25" ELSE "store"]
    /\ UNCHANGED <<version, epoch, entries, bm25, published, pubVars, query, key, floor>>

\* BM25Index.search: _ensure builds the index on the first call of the process
\* and keeps it.
ReadLexical(s) ==
    /\ spc[s] = "bm25"
    /\ bm25' = IF bm25 = None THEN version ELSE bm25
    /\ result' = [result EXCEPT ![s] = Smaller(@, bm25')]
    /\ spc' = [spc EXCEPT ![s] = "store"]
    /\ UNCHANGED <<version, epoch, entries, published, pubVars, query, key, floor>>

\* Mutation of StoreResult: the epoch of the key is read after the search.
StoreUnderNewEpoch(s) ==
    /\ spc[s] = "store"
    /\ entries' = [entries EXCEPT ![epoch][query[s]] = result[s]]
    /\ spc' = [spc EXCEPT ![s] = "answered"]
    /\ UNCHANGED <<version, epoch, bm25, published, pubVars, query, key, result, floor>>

\* cache.set under the key computed at the start of the search.
StoreResult(s) ==
    /\ spc[s] = "store"
    /\ entries' = [entries EXCEPT ![key[s]][query[s]] = result[s]]
    /\ spc' = [spc EXCEPT ![s] = "answered"]
    /\ UNCHANGED <<version, epoch, bm25, published, pubVars, query, key, result, floor>>

Return(s) ==
    /\ spc[s] = "answered"
    /\ spc' = [spc EXCEPT ![s] = "idle"]
    /\ query' = [query EXCEPT ![s] = None]
    /\ key' = [key EXCEPT ![s] = None]
    /\ result' = [result EXCEPT ![s] = None]
    /\ floor' = [floor EXCEPT ![s] = None]
    /\ UNCHANGED <<version, epoch, entries, bm25, published, pubVars>>

\* An entry outlives its TTL; the epoch is stored without one.
Expire(e, q) ==
    /\ entries[e][q] # None
    /\ entries' = [entries EXCEPT ![e][q] = None]
    /\ UNCHANGED <<version, epoch, bm25, published, pubVars, searchVars>>

Searcher(s) ==
    \/ \E q \in Queries : StartSearch(s, q)
    \/ Hit(s) \/ Miss(s) \/ ReadDense(s) \/ ReadLexical(s) \/ StoreResult(s)
    \/ Return(s)

Next ==
    \/ \E p \in Publishers : Publisher(p)
    \/ \E s \in Searchers : Searcher(s)
    \/ \E e \in 0..MaxEpoch, q \in Queries : Expire(e, q)

Spec == Init /\ [][Next]_vars

-----------------------------------------------------------------------------
(* Properties *)

\* Every variable holds a value of its kind.
TypeOK ==
    /\ version \in 0..MaxVersion
    /\ epoch \in 0..MaxEpoch
    /\ entries \in [0..MaxEpoch -> [Queries -> 0..MaxVersion \cup {None}]]
    /\ bm25 \in 0..MaxVersion \cup {None}
    /\ ppc \in [Publishers -> {"idle", "changing", "bumping"}]
    /\ seen \in [Publishers -> 0..MaxEpoch \cup {None}]
    /\ covers \in [Publishers -> 0..MaxVersion \cup {None}]
    /\ spc \in [Searchers -> {"idle", "lookup", "dense", "bm25", "store", "answered"}]
    /\ query \in [Searchers -> Queries \cup {None}]
    /\ key \in [Searchers -> 0..MaxEpoch \cup {None}]
    /\ result \in [Searchers -> 0..MaxVersion \cup {None}]
    /\ fails \in 0..MaxFails
    /\ published \in 0..MaxVersion
    /\ floor \in [Searchers -> 0..MaxVersion \cup {None}]

\* Without BM25 the cached search implements FreshReads: a search that begins after
\* an index change was published (its bump_epoch returned) never answers from a
\* result computed before that change, whatever it finds in the cache.
Answers == [s \in Searchers |->
              IF spc[s] = "answered" /\ query[s] \notin Lexical THEN result[s] ELSE None]
Fresh == INSTANCE FreshReads WITH answer <- Answers
FreshSpec == Fresh!Spec

\* What the epoch is for, as long as no index run has failed: between index runs
\* a search without BM25 finds in the cache what it would compute.
CleanCacheIsCurrent ==
    fails = 0 /\ (\A p \in Publishers : ppc[p] = "idle") =>
        \A q \in Queries \ Lexical : entries[epoch][q] \in {None, version}

\* An answer older than what was published before the search began comes from
\* the BM25 index of the process, and from nothing else in the cached path.
OnlyLexicalIsStale ==
    \A s \in Searchers : spc[s] = "answered" =>
        \/ result[s] >= floor[s]
        \/ query[s] \in Lexical /\ result[s] = bm25
=============================================================================
