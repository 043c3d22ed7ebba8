# Codelens: a TLA+ verification development

Codelens is a retrieval service over source code: it cuts code bases into
chunks, keeps their embeddings in a vector store, answers queries by hybrid
search (dense, BM25, rank fusion, reranking, MMR) and lets a language model
answer from the fragments found. This directory holds TLA+ models of its
stateful core, the TLC configurations that check them and the TLAPS proofs
about them. Paths below are relative to the repository root.

## 1. Inventory

### Components, their state and operations

| Component | Source | State | Operations |
|---|---|---|---|
| Indexing pipeline | `src/indexing/pipeline.py` | vector store, hash registry, buffers of a run | `index_path`, `remove_source` |
| Vector stores | `src/stores/chroma.py`, `src/stores/qdrant.py` | chunks with id `source::chunk_id` | `add`, `query`, `get_embeddings`, `delete_where`, `iter_all` |
| Hash registry | `src/persistence/registry_repo.py` | table `indexed_files`, cached hashes | `get_hash`, `set_hash`, `files`, `remove` |
| Cache | `src/persistence/cache.py` | keys with TTL, `index-epoch` | `get`, `set`, `cache_get_or_set`, `current_epoch`, `bump_epoch` |
| Retrieval | `src/retrieval/*.py` | lazily built BM25 index | `search`, `_search`, `rrf`, `mmr`, flag policy, filters, expanders |
| Job queues | `src/jobs/inprocess.py`, `src/jobs/redis_queue.py`, `services/worker_app.py` | job records, insertion order, pool backlog; RQ registries | `submit`, `_run`, `get`, `list` |
| Admin page | `frontend/tabs/admin.py`, `src/admin/router.py` | whether it polls | `_draw_jobs`, `_ingest_jobs` |
| Ingest | `src/ingest/runner.py`, `src/ingest/acquire.py` | temporary folders | `from_zip`, `from_github`, `run_ingest` |
| Backend facade | `src/clients/backend.py` | none of its own; writes cache, history, index | `search`, `answer(_stream)`, `chat(_stream)`, `get_messages`, `delete_chat`, `index`, `remove`, `ingest_*` |
| Chat history | `src/persistence/history_repo.py`, `orm.py` | chats and messages | `create_chat`, `append`, `get_messages`, `rename`, `delete_chat` |
| SSE transport | `src/util/sse.py`, `src/llm/remote.py`, `services/llm_app.py` | a stream in progress | `stream`, `parse_lines`, `chat_stream` |
| Auth sessions | `src/auth/*.py`, `frontend/session.py` | users, credentials, identities, refresh tokens, access tokens in the cache, the browser's cookie | `register`, `login`, `refresh`, `restore`, `logout`, `set_role`, `ensure_admin` |
| Parsers, enrichment | `src/indexing/parsers/*.py`, `src/indexing/enrich.py` | none | pure functions of a file |
| Model cache, clients | `src/util/model_cache.py`, `src/embeddings/*.py`, `src/reranking/*.py`, `src/llm/*.py` | model files; HTTP calls | `load`, `encode` (3 attempts), `rerank`, `chat` |
| Parallel calls, metrics | `src/util/concurrency.py`, `src/util/metrics.py` | thread pool; counters | `run_parallel`, timers |
| Composition, services, UI | `src/factory.py`, `services/*.py`, `frontend/*`, `app.py` | process wiring, UI session | start-up, HTTP routes, pages |
| Demo code base | `data/codebase/gymhero` | users, plans, units, exercises, lookup tables, links | the routes of a REST service |
| Evaluation | `evaluate.py`, `data/score.py` | none | `run_eval`, `run_matrix`, scoring |

### How they interact

A backend process serves requests on a thread pool. `LocalBackend` calls the
retriever, the history and the job queue directly. An ingest is a job: in the
small profile one worker thread of the backend runs it, in the large profile any
number of worker processes do. `run_ingest` unpacks the code into a temporary
folder, calls `index_path`, removes the folder and moves the search epoch.
`LocalBackend.index` and `.remove` do the same work on the request's own thread.
Index, registry, cache and history are shared by all threads and, in the large
profile, by all processes; there is no lock and no transaction across them. The
backend reaches the models through HTTP services; answers stream back as
server-sent events. The pages of one browser share its cookie and nothing else.

`data/codebase/gymhero` is a service of its own. The repository ships it as the code
base its demonstration indexes and asks about; nothing of Codelens calls it, so it has
a module that stands alone.

### Where it is hard

* Two stores are kept in step without a transaction: registry and vector store
  (indexing), database and cache (registry, chat history), index and search epoch.
* Overlapping calls: a queue worker and admin requests, several worker replicas,
  readers filling the cache while a writer invalidates it.
* Partial failure: a run that dies between two of its writes; a stream that ends early.
* Ordering: read-modify-write of the epoch; the records of a job that is evicted
  while it waits or runs; RQ registries read one after another.
* Liveness: every submitted job is executed although records are dropped; every job
  ends although workers die, and a page that polls sees it; a page that waits for a
  stream sees its end, whatever raises; a logout reaches every tab.
* Accounts and rotations take two commits; the pages of several tabs read, drop and
  write one cookie, each with the cookies it was loaded with.
* Checks before an insert, an update or a deletion, without a lock (gymhero).

### What makes each component correct

* Indexing: every stored chunk belongs to the version the registry records; every
  recorded version is in the store or on its way; a returned run has synchronised
  its folder; unchanged files stay searchable.
* Search cache: a search that begins after an index change was published never
  returns a result computed before it.
* Registry cache: a cached hash is the database's hash.
* Job queue: jobs run one at a time in submission order; a record goes
  queued, running, done or failed and never back; every job is run.
* RQ view: an accepted job is listed however it moves while the list is read; a
  finished job's writes are under an epoch that was moved after them; folders do not outlive jobs without a reason.
* Chat: the cached messages are the table's but for named moments; a chat is named once;
  no message outlives its chat.
* Streams: every page that waits for a stream sees its end, whatever raises on the way.
* Sessions: one successor per refresh token; a tab that left does not come back; a
  reload keeps the session; half-made accounts are explained.
* Retrieval: the filter holds on every channel; fusion respects what all channels agree
  on and loses nothing; diversification selects what its definition says, of the chunks
  that are still there.
* gymhero: names find one row, references exist, a superuser remains, lists answer, a right
  that was checked lasts until the commit, nothing is linked twice without an overlap.

## 2. Plan

Each module is parameterised by CONSTANTS with a named assumption and checked through
an `MC` module. All of these are written:

1. `IndexPipeline`: the two stores of the index; `IndexPipelineProofs`.
2. `FreshReads` (abstract: a search sees at least what was published before it began) and
   `SearchCache` (epoch, cache-aside, BM25), which implements it; `RetrievalProofs`.
3. `JobBoard` (abstract: accepted jobs run one at a time, in order, each once) and
   `InProcessQueue`, which implements it; `InProcessQueueProofs`.
4. `HashTable` (abstract: one atomic table) and `RegistryCache` (`CachingRegistry` over
   `SqlRegistry`), which implements it; `RegistryCacheProofs`.
5. `RedisQueue`: RQ's queue and registries, worker pods, `run_ingest` with its temporary
   folder and epoch, `list` read by read, the polling page; `RedisQueueProofs`.
6. `Conversations`: the turns of a chat, its message cache, its deletion, the cached
   answers of the search tab, the streams under both; `ConversationsProofs`.
7. `AuthSessions`: accounts, refresh tokens, the tabs of a browser; `AuthSessionsProofs`.
8. `HybridSearch`: one uncached search, from flags to diversification; its proofs are
   in `RetrievalProofs` too.
9. `GymHero`: the demo code base's service; `GymHeroProofs`.

Left: the two abstract specifications that would be worth stating for `RedisQueue` (a
set of jobs that only move forward) and `Conversations` (a transcript of questions and
answers); the unguarded construction of the BM25 index, statement by statement; the
download of a model directory by several processes. A composition of queue, pipeline and search cache in one module was
considered and not written: `RedisQueue` already carries the order of index writes,
epoch and outcome through one job, and the product of the three state spaces leaves no
room for the overlaps each module is about.

## 3. Modules and how they correspond to the code

An action is what other threads can see as one step: one call of the cache, one
statement or commit of the database, one operation of the vector store, or one section
under a lock, with the local work around it. `PROJECT.json` maps every definition to
its lines.

### IndexPipeline: `src/indexing/pipeline.py`

State: `registry` and `store` are the two shared stores; `src`, `folder`,
`incremental`, `todo`, `cur`, `skipped` and `buf` are the arguments and locals of a
call, `pc` where it stands. A file's content is a version, its SHA1 the version itself; a
chunk is its id, and `In` says which versions of its file contain it, so that an id can
survive a change of its file. Chroma keeps an id that exists, Qdrant overwrites it
(`Upsert`).

| Action | Code |
|---|---|
| `StartIngest`, `StartIndex`, `StartRemove` | `run_ingest`, `LocalBackend.index`, `LocalBackend.remove` call the pipeline |
| `SkipFile`, `TakeFile` | `registry.get_hash` and the incremental test |
| `DeleteOld`, `RecordHash` | `store.delete_where`, parsing into the buffers, `registry.set_hash` |
| `AddBatch` | `embedder.encode` and `store.add` of one batch |
| `ListGone`, `PurgeChunks`, `PurgeHash`, `ReturnIndex` | removal of files that left the folder, return |
| `RemoveChunks`, `RemoveHashes` | `remove_source` |
| `Fail` | an exception, the job timeout or the death of the process: the buffers are lost |

`Serial` says whether callers of one source take turns. The code does not make them: the
in-process queue serialises its own jobs, but admin requests run beside it, and large
deployments run several workers. `Serial = TRUE` states what the pipeline guarantees when
operators keep to one call per source; `Serial = FALSE` shows what happens otherwise.

### SearchCache: `src/persistence/cache.py`, `src/retrieval/hybrid.py`, `src/retrieval/bm25.py`

Publishers change the index (`ChangeIndex`) and then call `bump_epoch`, whose read and
write are two steps (`ReadEpoch`, `WriteEpoch`); a run that raises publishes nothing
(`FailRun`). Searchers build their key from the epoch (`StartSearch`), look it up (`Hit`,
`Miss`), compute (`ReadDense`, `ReadLexical`) and store the result under the key they
began with (`StoreResult`). `Expire` is a TTL. The index is a version number, a result the
oldest version any of its parts was read from. `published` and `floor` are history:
what a completed bump covers, and what was published when a search began.
`FreshReads` is the promise: an answer is at least as new as `floor`.

### InProcessQueue: `src/jobs/inprocess.py`

`jobs` and `order` are `_jobs` and `_order`, reduced to the status. `Record` is the part of
`submit` under the lock, `HandOver` the `_pool.submit` after it; `Take`, `MarkRunning`,
`EndIngest`, `MarkEnded` are the pool thread around `run_ingest`; `Restart` is a new
backend process. The thread pool is external: a FIFO backlog and one thread. `JobBoard`
is the promise.

### RegistryCache: `src/persistence/registry_repo.py`

`db` is the table, `cache` the entries of one source. `get_hash` is `StartGet`, `Hit` or
`Miss`, `ReadBase`, `Fill`, `EndGet`; `set_hash` is `StartSet`, `ReadRow`, `Commit` or
`Conflict`, `Store`; `remove` is `StartRemove`, `ListTargets`, `DeleteRows`, one `Tombstone`
per file, `EndRemove`. Any step may raise (`Fail`). `dirty` and `alone` are history: the
files whose last write raised between database and cache or met another call for the
same file. `HashTable` is the promise: one table, every operation at one moment.

### RedisQueue: `src/jobs/redis_queue.py`, `services/worker_app.py`, `src/ingest/*.py`, `frontend/tabs/admin.py`

`queue` is RQ's list; a registry is the set of jobs with one `status`. RQ itself is
external: it takes an id from the list before it marks the job as started (`Pop`,
`Begin`), and `HandOver` is the moment in which a job is in no registry.

| Action | Code |
|---|---|
| `Submit` | `RedisQueue.submit`, called by `ingest_zip` and `ingest_github` |
| `Pop`, `Begin` | RQ's worker, `run_ingest_job` |
| `Acquire`, `AcquireRaises` | `from_zip`, `from_github`, `_extract_tar`: what is on disk when they return or raise |
| `IndexWrites`, `IndexRaises` | `index_path`: it writes, and may raise (a raise includes `job_timeout`) |
| `ReadEpoch`, `WriteEpoch`, `Finish` | the `finally` with `rmtree` and `bump_epoch`'s read, its write, the job's return |
| `AdminReads`, `AdminWrites` | `LocalBackend.index` and `.remove`, whose writes are not followed, move the epoch too |
| `Die`, `Abandon`, `Expire` | death of a pod or of the job's process, RQ's registry cleaning, `result_ttl` |
| `Rerun`, `StartList`, `Read`, `Still`, `Poll`, `Draw`, `Tick` | the page: `list` in its four reads, once to choose between polling and a snapshot (`Poll`, `Still`) and once to draw |

`bump_epoch` is a read and a write of the cache, so movers may set the same successor, and a
late one an older epoch than the present. `seen` is what each has read; `mark` (the epoch
under which a job wrote last) and `back` (a late write has taken the epoch back) are history.

### Conversations: `src/clients/backend.py`, `src/persistence/history_repo.py`, `src/util/sse.py`, `src/llm/remote.py`, `services/llm_app.py`

A behaviour follows the chat tab or the search tab, which share no state. `open`, `msgs`,
`renames` are the tables, `cache` and `answered` the cache's entries, `req` the requests.
A list of messages is the set of what it holds: `get_messages` sorts by `created_at`, which
may tie or disagree with the order of the commits, and no property depends on it.

| Action | Code |
|---|---|
| `Begin`, `Show`, `Query`, `Fill` | `chat_stream` and the messages' request: `get_messages` through cache and table |
| `Stream`, `Raise` | the model's stream through provider, gateway, backend: it ends with `[DONE]`, early too if the gateway hid an error, or raises |
| `AppendUser`, `AppendAnswer`, `Invalidate`, `Rename` | the end of a turn: two appends, the tombstone, the title of a first turn |
| `Break` | database or cache raises at one of them |
| `Ask`, `Store` | `answer_stream`: the cached answer, or a stream that is cached when it ends |
| `DeleteRows`, `DeleteCache`, `Expire` | `delete_chat`, the entry's TTL |

`stained`, `over`, `mixed` are history. The texts are left out. SQLite enforces no foreign keys as `db.py` opens it
(`ForeignKeys = FALSE`), PostgreSQL does.

### AuthSessions: `src/auth/*.py`, `frontend/session.py`

A behaviour follows one `part`. *Accounts*: `Check`, `Create`, then `SetPassword` or
`Link`, or `Die` between the two commits, for `register`, `login_oidc` and
`ensure_admin`. *Client*: `ReadOld`, `RevokeOld`, `IssueNew` are the steps of `refresh` as
overlapping requests of one API client take them. *Tabs*: `Start` is `restore`, `Drop` the
removal of a refused cookie, `SignIn` and `Issue` a login, `Persist` the run that writes
the cookie, `Logout`, `RevokeUser`, `Clear` a logout, `Reload` a page loaded anew with the
cookies of its request; `SetRole`, `ExpireToken`, `ExpireAccess` come from outside. `raced`,
`dead`, `writer`, `out` and the fields `had`, `left`, `stale` of a tab are history.

### HybridSearch: `src/retrieval/*.py`, `src/reranking/*.py`, `src/stores/*.py`

One search: `Resolve` is the flag policy, `Variants` the expanders, `DenseChannel` and
`LexicalChannel` the channels with their different filters, `Fuse` is `rrf` with
`by_id.setdefault`, `Rerank` the re-ranker with its cut, `Diversify` and `Select` are
`get_embeddings` and `mmr`, `KeepFirst` the search without. What models rank is free:
any list of points, any order. The weights of `rrf` are fractions over a common
denominator (`Scale`), their sums exact. The vectors are numbers the instance gives. Index runs
and removals go on meanwhile: every read finds the store in any of its states (`Stores`), and
the BM25 corpus may hold what no store does. `Select` diversifies the candidates that have
a vector in the store at that moment (`stored`) and drops the others; only if none has one
does it keep the first. The properties compare the code's algorithms with definitions of their own: `AgreementWins`
for the fusion, `DiversifiesWhenAsked` for the greedy selection.

### GymHero: `data/codebase/gymhero`

A writing route is its checks (`CreatePlan`, `AddUnit`, `DeleteUser`, ..., one operator per
route, with the dependencies of `api/dependencies.py`) and then a commit (`InsertRow`,
`UpdateRow`, `UpdateUserRow`, `DeleteRow`, `InsertLink`, `DeleteLink`, or `Refuse`), with other
requests' commits in between. A commit writes every modelled column its request may carry:
the name, an exercise's three lookup references, which an update may change one by one or
null, and a user's email with both flags in one UPDATE; a superuser may create users with
flags. The values an update carries are chosen when it commits, since its checks do not look
at them. The constraints of the tables are `Clash`, `Referenced`, `Doubled` and the
existence of what a changed column refers to. Reading routes are operators over the tables,
used by the properties. `demoted`, `crossed` and `met` are history.

## 4. Runs

| Run | Result | Shows |
|---|---|---|
| `IndexTurns` | holds | With turns, no stored chunk contradicts the registry at any moment (`NoStaleChunks`); until a run fails, a recorded hash is backed by its chunks or by a run that is about to store them (`RegistryBacked`); a run that returns has synchronised all it did not skip, whatever failed before (`ReturnedRunIsInSync`); incremental runs leave unchanged files searchable (`UnchangedFilesStaySearchable`) |
| `SearchOnePublisher` | holds | With one publisher at a time the cached search implements `FreshReads` for queries without BM25; with BM25 an answer is old only as far as the process's BM25 index is |
| `QueueRing` | holds | Records never lie, never move back, every listed job settles although records are dropped, and the queue implements `JobBoard` |
| `RegistryCallers` | holds | A hash is stale only after a write that raised half way or met another call; all other reads are those of one atomic table |
| `RedisIngest` | holds | `list` misses an accepted job only in RQ's hand-over (`ListMissesOnlyHandOver`); a finished job's writes are under an epoch moved after them although movers share successors, unless a late write took the epoch back (`DoneIsPublished`); folders outlive jobs for the known reasons only (`LeftoversExplained`); every job ends, whatever dies (`EveryJobEnds`), and a page that polls comes to show it (`PollingPageSettles`) |
| `Conversations` | holds | The message cache is the table's but for named moments (`CleanCacheIsCurrent`), a chat is named once (`NamedOnce`), no message of an ended turn outlives its chat (`NoOrphans`), every waiting page sees the end of its stream (`StreamsEnd`) |
| `AuthSessions` | holds | Accounts that nothing lets in are explained (`HalfMadeExplained`), refresh tokens have one successor but for a race (`OneSuccessor`), a reload keeps its session (`ReloadKeepsSession`), a tab that left stays away (`LeftForGood`), a logout ends every tab's session at the latest with its access token (`LogoutReachesAll`) |
| `HybridSearch` | holds | Results pass the filter (`FilterHolds`), respect what all channels agree on (`AgreementWins`), are as many as asked for and distinct, short only of chunks that left the store before a diversification (`NothingLost`), and diverse where asked (`DiversifiesWhenAsked`, on Chroma) |
| `GymHero` | holds | Names, references, superusers and lists stay right under overlapping requests (`NamesFindOne`, `ReferencesExist`, `SuperuserRemains`, `ListsAnswer`), with the exceptions the properties name; a right outlasts the wait for the commit but for deletion, demotion and deactivation (`RightsLastUntilCommit`); a link is there twice only after an overlap (`DoublesComeFromOverlap`) |
| `IndexLostChunks` | violated | The hash is recorded before the chunks are stored: after a run that dies in between, the next incremental run skips the file and returns with its chunks missing |
| `IndexWorkerAndAdmin` | violated | A remove during an ingest of the same source leaves chunks the registry does not know; the single worker does not protect the store from request threads |
| `HybridOnQdrant` | violated | On Qdrant the vectors of the candidates are looked up under ids no point has; a search with MMR is not diversified |

The three violated properties quote what a docstring or the documentation says;
`findings` in `PROJECT.json` gives the quotes.

### Divergences without a run of their own

These follow from the same models and the code, and are worth a reader's time:

* `docs/jobs/jobs.md:218-220` says that an ingest moves the epoch and no stale entry
  stays. A run that raises after it changed the index moves none (`src/ingest/runner.py:42`); searches cached before stay
  valid until their TTL. `CleanCacheIsCurrent` of `SearchCache` says "no failed run".
* `docs/persistence/caching.md:77-79` has every index change invalidate the searches. Two
  `bump_epoch` calls that read the same epoch write the same successor
  (`src/persistence/cache.py:135`); a call whose write comes after others have moved on takes
  the epoch back, and entries of the old epochs are found again: `FreshSpec` holds with one
  publisher at a time and fails with two, and `DoneIsPublished` excepts the second case.
* The BM25 index is built once per process (`src/retrieval/bm25.py:49`): after an index
  change the lexical channel ranks the old corpus. `OnlyLexicalIsStale` says that this is
  the only age an answer can have.
* `CachingRegistry` is documented to keep cache and database in step
  (`src/persistence/registry_repo.py:12-13`). Two overlapping calls for one file leave a
  hash in the cache that the database does not have; so does a `remove` that raises
  between its delete and a tombstone, and a repeated `remove` then no longer finds it.
* `docs/ingest/ingest.md:151` says the temporary folder is always removed. It stays when
  `from_zip` raises, and the outer folder of a tarball stays after every ingest of a link
  (`src/ingest/acquire.py:34`, `:74`); `LeftoversExplained` lists these cases.
* `docs/clients/backend-client.md:120` says both messages of a turn are saved. They are two
  commits; the second may raise and leave a question alone (`src/clients/backend.py:214`).
* The gateway ends a stream that its provider broke off with the same `[DONE]` as a
  whole one (`src/util/sse.py:32`); the backend saves and caches the half answer.
* Messages are sorted by `created_at` (`src/persistence/history_repo.py:35`), the time of the
  insert at the resolution of the clock: a question and its answer, or messages of two
  turns, may tie or come in an order other than that of their commits.
* With MMR a search returns fewer results than asked for when candidates of the BM25 corpus
  have left the store (`src/retrieval/hybrid.py:175`): `NothingLost` names the case.
* In gymhero, two superusers may delete each other at once, deleting a user makes the
  lists of plans and units fail, and a unit that two requests add to a plan at once is
  there twice, which neither its removal nor the deletion of the plan gets rid of
  (`SuperuserRemains`, `ListsAnswer`, `DoublesComeFromOverlap`).

Hazards the models leave aside, at the lines `PROJECT.json` gives or here: an empty cached
answer reads as a miss (`if hit:`); the rate limiter counts with a read and a write
(`src/auth/ratelimit.py:24`); a refresh that is under way while its user logs out issues a
token the logout does not revoke (`src/auth/service.py:106`); a batch that holds an id twice is refused by Chroma (`src/stores/chroma.py:31`);
two processes that find a model missing both download it, and one that died leaves half
a directory that counts as a model (`src/util/model_cache.py:28`, `:31`).

### Bounds

* `IndexTurns`: two sources (interchangeable, hence the symmetry), two files, two
  versions, one worker and one admin thread, one failing run. Two files make a run
  interleave phases over several files and let one vanish; two versions make a change;
  a file with two chunks, one of which survives the change, makes a batch boundary and
  an id that exists already. `Upsert = FALSE` is the harder of the two stores: an old text
  would survive an `add`. A second failure adds no new situation, since a failing run
  leaves nothing but the two stores.
* `SearchOnePublisher`: two searchers, so that one fills what the other reads, a query
  with and one without BM25, two changes, two epochs, one failure. Searchers are
  interchangeable (symmetry). The view leaves out cache entries under epochs that are
  neither current nor the key of a search in progress: with one publisher the epoch only
  grows, so no later step can read them, and states that differ only there have the same
  futures. The epoch's bound only stops publishers.
* `QueueRing`: four jobs, two records, one restart: jobs are dropped while they wait and
  while they run, and a restart happens with a full ring.
* `RegistryCallers`: two callers, files and hashes and one failure, callers
  interchangeable: every pair of operations overlaps on one file and on different ones,
  also as the removal of a whole source.

* `RedisIngest`: two workers and two jobs, one archive and one link, since they differ in
  the folders they leave; one death, of a pod or of a job's process, at any step. Two
  workers make one publish while the other writes. The page reads four registries while
  both jobs move. The admin thread moves the epoch beside them, once with what it reads of
  epoch 0 (`LastRead`): that write may come early, tie with a worker's or be late.
* `Conversations`: two turns, which may overlap or follow each other, one reader whose late
  fill the second turn may see, one deletion, two askers so that one fills what the
  other reads; no foreign keys, the weaker of the two databases.
* `AuthSessions`: three callers of any kinds for two logins (the first sign-ins and a
  registration collide), two requests of one client, two tabs, three refresh tokens, two
  password logins, one change of role. A third token makes a rotation's successor be
  rotated again; the second login happens after or beside a logout.
* `HybridSearch`: four points, three chunk ids, two sources: a chunk id that both sources
  have, two points that are alike; three candidates per channel and two results, so
  that every cut bites but the pool of `4 * k`. The store holds all points, two of
  them or one, so that no, some or all candidates lose their vector. Two policies, one with everything the
  user asks for, one that forces MMR alone.
* `GymHero`: three requests, three users of whom two exist, two items of each table of
  which one exists; two names. Two requests make every pair of check and commit overlap;
  the third brings about the state they meet (a second superuser, a doubled link, another
  lookup row that an exercise is moved to while it is deleted).

The violated runs use the smallest instance that has the behaviour, and
`HybridOnQdrant` that of `HybridSearch`.

### Deadlock

`Conversations`, `AuthSessions`, `HybridSearch`, `GymHero` and `QueueRing` stop when their
bounded requests are used up, and so do not check for it; where everyone waiting on
everyone would show, a liveness property stands.

### Fairness

* `JobBoard` and `InProcessQueue`: the pool thread is scheduled as long as the process
  lives and an ingest ends at some time (`WF` of `Worker`): downloads and model calls have
  timeouts, and `_run` catches every exception. A request thread that has recorded a job
  goes on to hand it over (`WF` of `HandOver`).
* `RedisQueue`: every worker goes on with its job or takes the next (`WF` of `Work`; pods are
  restarted by their orchestrator, and `job_timeout` ends `index_path`), RQ's cleaning runs
  in every worker (`WF` of `Abandon`), an open page keeps running its fragment (`WF` of
  `Viewing`). Nothing forces a death, a submit or a rerun.
* `Conversations`: a thread that can go on does (`WF` of `Going`): calls to models have timeouts.
* `AuthSessions`: a page's run goes on (`WF` of `Running`) and an access token's entry expires
  (`WF` of `ExpireAccess`). Nothing forces a reload, a sign-in or a logout.

The other modules have safety properties only and assume no fairness.

## 5. Proofs

The proofs hold for all values of the constants within the named assumptions of each
module (`ConstantsAssumption`, `HybridAssumption`), so for any number of sources, files, callers, jobs, turns,
tabs, requests and failures, where the runs have two or three. Each of these modules proves
its types, which TLC therefore need not run (it does for `GymHero`).

* `IndexPipelineProofs`. `TypeCorrect` needs `Shape`: what a writer's label says about
  its locals. The other theorems assume `Serial = TRUE`. `NoStaleChunks` is not
  inductive: `RecordHash` moves a hash, which is harmless only because `DeleteOld` has
  emptied the store of that file, and `AddBatch` stores chunks, which is right only because
  the hash of their version is already recorded. `Agreement` adds exactly this: `Turns`
  (no two calls on one source), `Cleared` (a writer about to move a hash has emptied
  the store), `BufRecorded` (buffered chunks belong to the recorded version).
  `UnchangedFilesStaySearchableHolds` adds `Taken` (a file that was taken differed, or the
  run is a full one). `RegistryBacked` is inductive relative to `Agreement` (`BackedStep`): a
  call's step leaves other sources alone (`OthersStay`), and on its own source each chunk
  it takes out is in its buffer, under its `cur`, or of a source it removes.
  `ReturnedRunIsInSyncHolds` rests on `Progress`: every file a run has dealt with (`Due`)
  is in step with its folder but for the buffered chunks (`DoneFile`), whatever earlier
  runs left in the stores; when the run returns its buffer is empty.
* `RetrievalProofs`, on `SearchCache`. All but `TypeCorrect` assume `OnePublisher`, without which they are
  false (see the divergences above). `Freshness` relates epochs and published versions:
  the epoch a publisher has read is still the current one (`SeenIsCurrent`), searches with
  the same key began under the same published version (`FloorOfKey`), and so an entry
  or a result is new enough for every search that can read it, or as old as the BM25 index
  (`EntriesFresh`, `ResultsFresh`). `Refinement` maps each step to a step of `FreshReads` or
  to a stutter; `OnlyLexicalIsStaleHolds` and `CleanCacheIsCurrentHolds` follow from the
  same invariant.
* `RetrievalProofs`, on `HybridSearch`, for any two states of the store (chunks may go, come
  or change their vectors between the reads of one search), any finite number of points, any
  number and length of rankings within `KCand`. The algorithms are recursive or sums, and
  the library's induction cannot be cited; a least counterexample stands in for it
  (`LeastNumber`, `SmallestSubset`, `Upwards`), from which follow what a sum of naturals
  bounds (`SumBounds`, `SumGrows`), that a recursion over a sequence has a value
  (`RecursionExists`), that a finite set can be sorted by two keys (`SortExists`), and what
  `FlattenSeq`, the filter of the lexical channel and `mmr` return (`FlattenIs`,
  `MatchingIs`, `MmrIs`). `HybridInv` says of each stage which lists it holds: rankings that
  pass the filter (`Ranked`), candidates that are the cut of the fusion until a re-ranking
  (`FusedKept`), lists long enough and without a doubled id but for the one case named
  (`Candidates`, `Listed`). `FilterHoldsHolds` and `NothingLostHolds` are parts of it: under
  `mmr` the list is as long as the candidates with a vector allow (`PairsAre` says which
  `Select` keeps), and a candidate whose
  chunk is in the store has one (`StoredArePaired`).
  `AgreementWinsHolds` needs that weights fall with the position (`WeightFalls`) and that
  who is ahead in every ranking has the greater sum (`AheadScoresMore`).
  `DiversifiesWhenAskedHolds` assumes Chroma; it follows from what `mmr` selects (`Greedy`),
  since the vectors are those of the pool's ids that have one (`DiverseSelection`).
* `InProcessQueueProofs`. `InPlace` says that a job is in one place at a time and that its
  outcome is known from there; `Truthful` adds what the record of the worker's job reads.
  From them follow `RecordsTellTruthHolds`, `RecordsMoveForwardHolds` and `KeepsPromise`,
  the refinement of the safety part of `JobBoard`. Lemmas on `Latest`, `Append`
  and `Tail` say what the ring and the backlog keep and drop.
* `RegistryCacheProofs`. `CacheInv` has three parts: calls that meet are marked (`Marked`),
  a clean file's entry is true except between the write of its row and of its entry
  (`Entries`), and what a call has read is still so as long as nobody met it (`Known`).
  `CleanHashesAgreeHolds` and the refinement of `HashTable` follow.
* `RedisQueueProofs`. `Place` puts every job in one place: in the queue once and only while
  queued (`Queued`), held by one worker at most (`HeldOnce`), with the status its worker's
  step implies (`HeldStatus`). With it `StatusMovesForwardHolds` is a case for each action;
  `Covered` is about the two steps of `bump_epoch`: unless a late write has taken the
  epoch back (`back`), no mover has read more than the present epoch, what it has read is not
  below the last write of its job, and the writes of a finished job are below the
  epoch. A mover that sets the successor of what it read keeps this, since then the
  epoch grew (`GrowsUnlessLate`); `DoneIsPublishedHolds` follows.
  `FoldersKept` (what is left of a folder at each step of its job)
  gives `LeftoversExplainedHolds`. `ListMissesOnlyHandOverHolds` rests on `Ahead`: an owed job
  that the reads done so far have not found is ahead of them, because jobs move in the
  order of the reads: at the end only an expired job can be.
* `ConversationsProofs`. `StaysOver` (a turn that had ended at the deletion does not come
  back) gives `NoOrphansHolds`; `CleanCacheIsCurrent` is inductive once types are known, with
  one case for each write (`CleanStep`); `OneAtATime` (while nothing has mixed, at most one
  turn is under way, and whether the chat has its name follows from where it is) gives
  `NamedOnceHolds`.
* `AuthSessionsProofs`. `Linked` (an OIDC sign-in that succeeded is that of the linked user) gives `HalfMadeExplainedHolds` and `OneSubjectOneUserHolds`; `Rotated` (a token
  with a successor is dead, and of requests holding the same token only those in `raced`
  are many) gives `OneSuccessorHolds`; `Sessions` says of each tab that its fields fit its
  step (`Fits`): which token it has, had and left, and whether the cookie is still its
  own. `RolesFollowIssueHolds`, `LeftForGoodHolds` and `ReloadKeepsSessionHolds` follow.

* `GymHeroProofs`. `Inv` is inductive as a whole, since what a commit may do depends on what
  its request was accepted with. `Asked` says that each request is about rows of the right
  tables, `Linked` that links join plans to units and units to exercises. `Held` says that
  whoever asked for a change is still entitled to it, active or not, unless the row or the
  user is gone or the user was demoted; `RightsLastUntilCommit` by itself is not inductive,
  since a user who was made inactive may become active again. `Overlaps` (a pair that is to
  be linked is neither in its table nor asked for by another request, unless requests
  met on it) gives `DoublesComeFromOverlapHolds`. `Unique` (a name or email stands for one
  row of its table, and of its owner) gives `NamesFindOneHolds`: every commit that writes a
  name keeps it (`RowStep`), inserts and renames of users and of other rows
  alike, for the database refuses the others. `OnlyExercisesRefer` and `ReferencesExist` need
  each other when a row is deleted with its links or an exercise refers to other lookup
  rows; `Orphaned` (a plan or unit without an owner lost it with a deleted user) gives
  `ListsAnswerHolds`. `SuperuserRemainsHolds` rests on `Held`. The rows that are there at the
  start are assumed to keep the constraints of their tables (`SeedAssumption`).

`StatusMovesForward`, `OneSubjectOneUser`, `RolesFollowIssue` and the type invariants of
the other modules are proved and not run.

Every safety invariant a run expects to hold is proved, and so are the action properties
and, for their safety parts, the refinements. Only model-checked are the liveness
properties `ListedJobsSettle`, `EveryJobEnds`, `PollingPageSettles`, `StreamsEnd`,
`LogoutReachesAll` and the fairness part of `BoardSpec`: liveness under fairness is out of
the prover's reach.

## 6. Abstractions, and what is not modelled

* Contents, embeddings, scores and progress are data: a version, a chunk id or a
  result stand for them. SHA1 is taken as injective.
* The vector store, the thread pool, RQ and the browser's cookie jar are external,
  modelled from how the code uses them. Their own failures appear as `Fail`, `FailRun`,
  `Die`, `Raise`, `Break`.
* `SearchCache` has one shared cache. Without a configured Redis there is none
  (`NullCache`) and every search is computed; when Redis is configured but not reachable at
  start, `build_cache` falls back to a cache per process (`src/persistence/cache.py:124`), and
  the epochs of one process then do not reach another at all.
* `SearchCache` builds the BM25 index in one step; two first searches of one process can
  interleave the statements that build it (`src/retrieval/bm25.py:54`).
* `RegistryCache` takes one source; keys of different sources never meet.
* `Conversations` follows one chat and one question, and keeps its messages as a set: their
  texts, and the order `get_messages` sorts them in, are left out. What a search found is left out, so
  that a cached answer that outlives a re-index of its chunks (`src/clients/backend.py:117`)
  does not show. Of `HttpBackend` only the wait for a stream's end is there; its other
  methods are single requests.
* `AuthSessions` follows one user. The rate limiter, password hashing, the encoding of
  tokens, the handshake with the OIDC provider and a logout by an API client are left out.
* `HybridSearch` leaves out the rounding of floating-point sums, and the scores the page
  shows.
* `GymHero` leaves out text columns but names, tokens and passwords; a request that fails
  a check changes nothing and is not a step.
* Not modelled: parsers and enrichment (pure functions of a file over syntax trees that
  libraries build; their inputs are out of TLC's reach); the HTTP clients of the models
  (their failures are steps of the other modules); the model directory (one check and
  one save, told under the divergences); `run_parallel` (calls that share no state, joined
  before it returns); metrics; start-up wiring, thin routes and pages beyond those named
  above; the offline evaluation.
