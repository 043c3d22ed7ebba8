------------------------------ MODULE RetrievalProofs --------------------------------
(***************************************************************************)
(* Proofs about retrieval: SearchCache, for any number of searchers and    *)
(* queries and any bounds, and HybridSearch, for any store, policies,      *)
(* filters and numbers of candidates and results.                          *)
(***************************************************************************)
EXTENDS SearchCache, HybridSearch, FiniteSetTheorems, SequenceTheorems, TLAPS

-----------------------------------------------------------------------------
(* SearchCache                                                             *)


\* A bump has room to write; a search has its locals while it runs, no longer.
Shape ==
    /\ \A p \in Publishers : ppc[p] = "bumping" =>
          seen[p] \in 0..MaxEpoch /\ seen[p] < MaxEpoch /\ covers[p] \in 0..MaxVersion
    /\ \A s \in Searchers :
          IF spc[s] = "idle" THEN floor[s] = None /\ result[s] = None
          ELSE query[s] \in Queries /\ key[s] \in 0..MaxEpoch /\ floor[s] \in 0..MaxVersion

Typed == TypeOK /\ Shape

LEMMA TypedInit == Init => Typed
BY ConstantsAssumption DEF Init, DefaultEpoch, Typed, TypeOK, Shape

LEMMA TypedStep == Typed /\ [Next]_vars => Typed'
<1> SUFFICES ASSUME Typed, [Next]_vars PROVE Typed'
  OBVIOUS
<1> USE ConstantsAssumption DEF Typed, TypeOK, Shape, pubVars, searchVars
<1>1. ASSUME NEW p \in Publishers, StartRun(p) PROVE Typed'
  BY <1>1 DEF StartRun
<1>2. ASSUME NEW p \in Publishers, ChangeIndex(p) PROVE Typed'
  BY <1>2 DEF ChangeIndex
<1>3. ASSUME NEW p \in Publishers, ReadEpoch(p) PROVE Typed'
  BY <1>3 DEF ReadEpoch
<1>4. ASSUME NEW p \in Publishers, WriteEpoch(p) PROVE Typed'
  BY <1>4 DEF WriteEpoch, EndBump, Larger
<1>5. ASSUME NEW p \in Publishers, FailRun(p) PROVE Typed'
  BY <1>5 DEF FailRun
<1>6. ASSUME NEW s \in Searchers, NEW q \in Queries, StartSearch(s, q) PROVE Typed'
  BY <1>6 DEF StartSearch
<1>7. ASSUME NEW s \in Searchers, Hit(s) PROVE Typed'
  BY <1>7 DEF Hit
<1>8. ASSUME NEW s \in Searchers, Miss(s) PROVE Typed'
  BY <1>8 DEF Miss
<1>9. ASSUME NEW s \in Searchers, ReadDense(s) PROVE Typed'
  BY <1>9 DEF ReadDense
<1>10. ASSUME NEW s \in Searchers, ReadLexical(s) PROVE Typed'
  BY <1>10 DEF ReadLexical, Smaller
<1>11. ASSUME NEW s \in Searchers, StoreResult(s) PROVE Typed'
  BY <1>11 DEF StoreResult
<1>12. ASSUME NEW s \in Searchers, Return(s) PROVE Typed'
  BY <1>12 DEF Return
<1>13. ASSUME NEW e \in 0..MaxEpoch, NEW q \in Queries, Expire(e, q) PROVE Typed'
  BY <1>13 DEF Expire
<1>14. CASE UNCHANGED vars
  BY <1>14 DEF vars
<1>15. QED
  BY <1>1, <1>2, <1>3, <1>4, <1>5, <1>6, <1>7, <1>8, <1>9, <1>10, <1>11,
     <1>12, <1>13, <1>14
     DEF Next, Publisher, Searcher

LEMMA TypedCorrect == Spec => []Typed
BY TypedInit, TypedStep, PTL DEF Spec

\* Type correctness of the cached search; in particular the epoch is always a
\* number within its bound, however publishers overlap and fail.
THEOREM TypeCorrect == Spec => []TypeOK
<1>1. Typed => TypeOK
  BY DEF Typed
<1>2. QED
  BY <1>1, TypedCorrect, PTL

-----------------------------------------------------------------------------
(* One publisher at a time *)

OnePublisher == \A p, o \in Publishers : p = o

Searching(s) == spc[s] # "idle"

\* A result v for query q that the process's BM25 index may have held back.
Lagging(v, q) == q \in Lexical /\ v = bm25

\* The epoch a publisher has read is still the current one, and it publishes all
\* there is; unless a run has failed nothing is left unpublished.
SeenIsCurrent ==
    /\ \A p \in Publishers : ppc[p] = "bumping" =>
          seen[p] = epoch /\ covers[p] = version
    /\ fails = 0 /\ (\A p \in Publishers : ppc[p] = "idle") => published = version

\* Searches that share a key began under the same published version.
FloorOfKey ==
    /\ published <= version
    /\ bm25 # None => bm25 <= version
    /\ \A s \in Searchers : Searching(s) =>
          /\ key[s] <= epoch
          /\ floor[s] <= published
          /\ key[s] = epoch => floor[s] = published
    /\ \A s, t \in Searchers :
          Searching(s) /\ Searching(t) /\ key[s] = key[t] => floor[s] = floor[t]

\* Entries are no older than what was published under their epoch, or as old as
\* the BM25 index.
EntriesFresh ==
    \A q \in Queries :
        /\ \A e \in 0..MaxEpoch : entries[e][q] # None => entries[e][q] <= version
        /\ \A e \in 0..MaxEpoch : e > epoch => entries[e][q] = None
        /\ entries[epoch][q] # None =>
              published <= entries[epoch][q] \/ Lagging(entries[epoch][q], q)
        /\ \A s \in Searchers : Searching(s) /\ entries[key[s]][q] # None =>
              floor[s] <= entries[key[s]][q] \/ Lagging(entries[key[s]][q], q)

\* A search holds a result exactly when it has computed or found one.
ResultsFresh ==
    \A s \in Searchers :
        /\ spc[s] \in {"lookup", "dense"} => result[s] = None
        /\ spc[s] \in {"bm25", "store", "answered"} =>
              result[s] # None /\ result[s] <= version
        /\ spc[s] = "bm25" => query[s] \in Lexical /\ floor[s] <= result[s]
        /\ spc[s] \in {"store", "answered"} =>
              floor[s] <= result[s] \/ Lagging(result[s], query[s])

Freshness == SeenIsCurrent /\ FloorOfKey /\ EntriesFresh /\ ResultsFresh

LEMMA FreshnessInit == Init => Freshness
BY ConstantsAssumption
   DEF Init, DefaultEpoch, Searching, Freshness, SeenIsCurrent, FloorOfKey, EntriesFresh, ResultsFresh

LEMMA FreshnessStep ==
    ASSUME OnePublisher, Typed, Freshness, [Next]_vars
    PROVE  Freshness'
<1> USE ConstantsAssumption DEF Typed, TypeOK, Shape, Freshness, pubVars, searchVars,
                                Searching, Lagging
<1>1. ASSUME NEW p \in Publishers,
             StartRun(p)
      PROVE  Freshness'
  <2>1. SeenIsCurrent'
    BY <1>1 DEF StartRun, SeenIsCurrent
  <2>2. FloorOfKey'
    BY <1>1 DEF StartRun, SeenIsCurrent, FloorOfKey
  <2>3. EntriesFresh'
    BY <1>1 DEF StartRun, SeenIsCurrent, FloorOfKey, EntriesFresh, ResultsFresh
  <2>4. ResultsFresh'
    BY <1>1 DEF StartRun, FloorOfKey, EntriesFresh, ResultsFresh
  <2>5. QED
    BY <2>1, <2>2, <2>3, <2>4
<1>2. ASSUME NEW p \in Publishers,
             ChangeIndex(p)
      PROVE  Freshness'
  <2>1. SeenIsCurrent'
    BY <1>2 DEF ChangeIndex, SeenIsCurrent, OnePublisher
  <2>2. FloorOfKey'
    BY <1>2 DEF ChangeIndex, SeenIsCurrent, FloorOfKey
  <2>3. EntriesFresh'
    BY <1>2 DEF ChangeIndex, SeenIsCurrent, FloorOfKey, EntriesFresh, ResultsFresh
  <2>4. ResultsFresh'
    BY <1>2 DEF ChangeIndex, FloorOfKey, EntriesFresh, ResultsFresh
  <2>5. QED
    BY <2>1, <2>2, <2>3, <2>4
<1>3. ASSUME NEW p \in Publishers,
             ReadEpoch(p)
      PROVE  Freshness'
  <2>1. SeenIsCurrent'
    BY <1>3 DEF ReadEpoch, SeenIsCurrent, OnePublisher
  <2>2. FloorOfKey'
    BY <1>3 DEF ReadEpoch, SeenIsCurrent, FloorOfKey, OnePublisher
  <2>3. EntriesFresh'
    BY <1>3 DEF ReadEpoch, SeenIsCurrent, FloorOfKey, EntriesFresh, ResultsFresh
  <2>4. ResultsFresh'
    BY <1>3 DEF ReadEpoch, FloorOfKey, EntriesFresh, ResultsFresh
  <2>5. QED
    BY <2>1, <2>2, <2>3, <2>4
<1>4. ASSUME NEW p \in Publishers,
             WriteEpoch(p)
      PROVE  Freshness'
  <2>1. SeenIsCurrent'
    BY <1>4 DEF WriteEpoch, EndBump, Larger, SeenIsCurrent, FloorOfKey, OnePublisher
  <2>2. FloorOfKey'
    BY <1>4 DEF WriteEpoch, EndBump, Larger, SeenIsCurrent, FloorOfKey, OnePublisher
  <2>3. EntriesFresh'
    BY <1>4 DEF WriteEpoch, EndBump, Larger, SeenIsCurrent, FloorOfKey, EntriesFresh, ResultsFresh
  <2>4. ResultsFresh'
    BY <1>4 DEF WriteEpoch, EndBump, Larger, FloorOfKey, EntriesFresh, ResultsFresh
  <2>5. QED
    BY <2>1, <2>2, <2>3, <2>4
<1>5. ASSUME NEW p \in Publishers,
             FailRun(p)
      PROVE  Freshness'
  <2>1. SeenIsCurrent'
    BY <1>5 DEF FailRun, SeenIsCurrent, OnePublisher
  <2>2. FloorOfKey'
    BY <1>5 DEF FailRun, SeenIsCurrent, FloorOfKey
  <2>3. EntriesFresh'
    BY <1>5 DEF FailRun, SeenIsCurrent, FloorOfKey, EntriesFresh, ResultsFresh
  <2>4. ResultsFresh'
    BY <1>5 DEF FailRun, FloorOfKey, EntriesFresh, ResultsFresh
  <2>5. QED
    BY <2>1, <2>2, <2>3, <2>4
<1>6. ASSUME NEW s \in Searchers, NEW q \in Queries,
             StartSearch(s, q)
      PROVE  Freshness'
  <2>1. SeenIsCurrent'
    BY <1>6 DEF StartSearch, SeenIsCurrent
  <2>2. FloorOfKey'
    BY <1>6 DEF StartSearch, SeenIsCurrent, FloorOfKey
  <2>3. EntriesFresh'
    BY <1>6 DEF StartSearch, SeenIsCurrent, FloorOfKey, EntriesFresh, ResultsFresh
  <2>4. ResultsFresh'
    BY <1>6 DEF StartSearch, FloorOfKey, EntriesFresh, ResultsFresh
  <2>5. QED
    BY <2>1, <2>2, <2>3, <2>4
<1>7. ASSUME NEW s \in Searchers,
             Hit(s)
      PROVE  Freshness'
  <2>1. SeenIsCurrent'
    BY <1>7 DEF Hit, SeenIsCurrent
  <2>2. FloorOfKey'
    BY <1>7 DEF Hit, SeenIsCurrent, FloorOfKey
  <2>3. EntriesFresh'
    BY <1>7 DEF Hit, SeenIsCurrent, FloorOfKey, EntriesFresh, ResultsFresh
  <2>4. ResultsFresh'
    BY <1>7 DEF Hit, FloorOfKey, EntriesFresh, ResultsFresh
  <2>5. QED
    BY <2>1, <2>2, <2>3, <2>4
<1>8. ASSUME NEW s \in Searchers,
             Miss(s)
      PROVE  Freshness'
  <2>1. SeenIsCurrent'
    BY <1>8 DEF Miss, SeenIsCurrent
  <2>2. FloorOfKey'
    BY <1>8 DEF Miss, SeenIsCurrent, FloorOfKey
  <2>3. EntriesFresh'
    BY <1>8 DEF Miss, SeenIsCurrent, FloorOfKey, EntriesFresh, ResultsFresh
  <2>4. ResultsFresh'
    BY <1>8 DEF Miss, FloorOfKey, EntriesFresh, ResultsFresh
  <2>5. QED
    BY <2>1, <2>2, <2>3, <2>4
<1>9. ASSUME NEW s \in Searchers,
             ReadDense(s)
      PROVE  Freshness'
  <2>1. SeenIsCurrent'
    BY <1>9 DEF ReadDense, SeenIsCurrent
  <2>2. FloorOfKey'
    BY <1>9 DEF ReadDense, SeenIsCurrent, FloorOfKey
  <2>3. EntriesFresh'
    BY <1>9 DEF ReadDense, SeenIsCurrent, FloorOfKey, EntriesFresh, ResultsFresh
  <2>4. ResultsFresh'
    BY <1>9 DEF ReadDense, FloorOfKey, EntriesFresh, ResultsFresh
  <2>5. QED
    BY <2>1, <2>2, <2>3, <2>4
<1>10. ASSUME NEW s \in Searchers,
             ReadLexical(s)
      PROVE  Freshness'
  <2>1. SeenIsCurrent'
    BY <1>10 DEF ReadLexical, Smaller, SeenIsCurrent
  <2>2. FloorOfKey'
    BY <1>10 DEF ReadLexical, Smaller, SeenIsCurrent, FloorOfKey
  <2>3. EntriesFresh'
    BY <1>10 DEF ReadLexical, Smaller, SeenIsCurrent, FloorOfKey, EntriesFresh, ResultsFresh
  <2>4. ResultsFresh'
    BY <1>10 DEF ReadLexical, Smaller, FloorOfKey, EntriesFresh, ResultsFresh
  <2>5. QED
    BY <2>1, <2>2, <2>3, <2>4
<1>11. ASSUME NEW s \in Searchers,
             StoreResult(s)
      PROVE  Freshness'
  <2>1. SeenIsCurrent'
    BY <1>11 DEF StoreResult, SeenIsCurrent
  <2>2. FloorOfKey'
    BY <1>11 DEF StoreResult, SeenIsCurrent, FloorOfKey
  <2>3. EntriesFresh'
    BY <1>11 DEF StoreResult, SeenIsCurrent, FloorOfKey, EntriesFresh, ResultsFresh
  <2>4. ResultsFresh'
    BY <1>11 DEF StoreResult, FloorOfKey, EntriesFresh, ResultsFresh
  <2>5. QED
    BY <2>1, <2>2, <2>3, <2>4
<1>12. ASSUME NEW s \in Searchers,
             Return(s)
      PROVE  Freshness'
  <2>1. SeenIsCurrent'
    BY <1>12 DEF Return, SeenIsCurrent
  <2>2. FloorOfKey'
    BY <1>12 DEF Return, SeenIsCurrent, FloorOfKey
  <2>3. EntriesFresh'
    BY <1>12 DEF Return, SeenIsCurrent, FloorOfKey, EntriesFresh, ResultsFresh
  <2>4. ResultsFresh'
    BY <1>12 DEF Return, FloorOfKey, EntriesFresh, ResultsFresh
  <2>5. QED
    BY <2>1, <2>2, <2>3, <2>4
<1>13. ASSUME NEW e \in 0..MaxEpoch, NEW q \in Queries,
             Expire(e, q)
      PROVE  Freshness'
  <2>1. SeenIsCurrent'
    BY <1>13 DEF Expire, SeenIsCurrent
  <2>2. FloorOfKey'
    BY <1>13 DEF Expire, SeenIsCurrent, FloorOfKey
  <2>3. EntriesFresh'
    BY <1>13 DEF Expire, SeenIsCurrent, FloorOfKey, EntriesFresh, ResultsFresh
  <2>4. ResultsFresh'
    BY <1>13 DEF Expire, FloorOfKey, EntriesFresh, ResultsFresh
  <2>5. QED
    BY <2>1, <2>2, <2>3, <2>4
<1>14. CASE UNCHANGED vars
  BY <1>14 DEF vars, SeenIsCurrent, FloorOfKey, EntriesFresh, ResultsFresh
<1>15. QED
  BY <1>1, <1>2, <1>3, <1>4, <1>5, <1>6, <1>7, <1>8, <1>9, <1>10, <1>11,
     <1>12, <1>13, <1>14
     DEF Next, Publisher, Searcher

-----------------------------------------------------------------------------
(* The refinement of FreshReads. *)

LEMMA RefinesInit == Init => Fresh!Init
BY DEF Init, DefaultEpoch, Fresh!Init, Answers

LEMMA RefinesStep ==
    ASSUME OnePublisher, Typed, Freshness, [Next]_vars
    PROVE  [Fresh!Next]_(Fresh!vars)
<1> USE ConstantsAssumption DEF Typed, TypeOK, Shape, Freshness, pubVars, searchVars,
                                Answers, Fresh!vars
<1>1. ASSUME NEW p \in Publishers,
             StartRun(p)
      PROVE  [Fresh!Next]_(Fresh!vars)
  BY <1>1 DEF StartRun
<1>2. ASSUME NEW p \in Publishers,
             ChangeIndex(p)
      PROVE  [Fresh!Next]_(Fresh!vars)
  <2>1. Fresh!Change
    BY <1>2 DEF ChangeIndex, Fresh!Change
  <2>2. QED
    BY <2>1 DEF Fresh!Next
<1>3. ASSUME NEW p \in Publishers,
             ReadEpoch(p)
      PROVE  [Fresh!Next]_(Fresh!vars)
  BY <1>3 DEF ReadEpoch
<1>4. ASSUME NEW p \in Publishers,
             WriteEpoch(p)
      PROVE  [Fresh!Next]_(Fresh!vars)
  <2>1. published' \in published..version
    BY <1>4 DEF WriteEpoch, EndBump, Larger, SeenIsCurrent, FloorOfKey
  <2>2. Fresh!Publish
    BY <1>4, <2>1 DEF WriteEpoch, EndBump, Fresh!Publish
  <2>3. QED
    BY <2>2 DEF Fresh!Next
<1>5. ASSUME NEW p \in Publishers,
             FailRun(p)
      PROVE  [Fresh!Next]_(Fresh!vars)
  BY <1>5 DEF FailRun
<1>6. ASSUME NEW s \in Searchers, NEW q \in Queries,
             StartSearch(s, q)
      PROVE  [Fresh!Next]_(Fresh!vars)
  <2>1. Answers' = Answers /\ floor[s] = None
    BY <1>6 DEF StartSearch
  <2>2. Fresh!Begin(s)
    BY <1>6, <2>1 DEF StartSearch, Fresh!Begin
  <2>3. QED
    BY <2>2 DEF Fresh!Next
<1>7. ASSUME NEW s \in Searchers,
             Hit(s)
      PROVE  [Fresh!Next]_(Fresh!vars)
  <2>1. CASE query[s] \in Lexical
    BY <1>7, <2>1 DEF Hit
  <2>2. CASE query[s] \notin Lexical
    <3>1. /\ Answers[s] = None
          /\ Answers' = [Answers EXCEPT ![s] = entries[key[s]][query[s]]]
      BY <1>7, <2>2 DEF Hit
    <3>2. entries[key[s]][query[s]] \in floor[s]..version /\ floor[s] # None
      BY <1>7, <2>2 DEF Hit, EntriesFresh, Searching, Lagging
    <3>3. Fresh!Answer(s)
      BY <1>7, <3>1, <3>2 DEF Hit, Fresh!Answer
    <3>4. QED
      BY <3>3 DEF Fresh!Next
  <2>3. QED
    BY <2>1, <2>2
<1>8. ASSUME NEW s \in Searchers,
             Miss(s) \/ ReadDense(s) \/ ReadLexical(s)
      PROVE  [Fresh!Next]_(Fresh!vars)
  BY <1>8 DEF Miss, ReadDense, ReadLexical
<1>9. ASSUME NEW s \in Searchers,
             StoreResult(s)
      PROVE  [Fresh!Next]_(Fresh!vars)
  <2>1. CASE query[s] \in Lexical
    BY <1>9, <2>1 DEF StoreResult
  <2>2. CASE query[s] \notin Lexical
    <3>1. /\ Answers[s] = None
          /\ Answers' = [Answers EXCEPT ![s] = result[s]]
      BY <1>9, <2>2 DEF StoreResult
    <3>2. result[s] \in floor[s]..version /\ floor[s] # None
      BY <1>9, <2>2 DEF StoreResult, ResultsFresh, Lagging
    <3>3. Fresh!Answer(s)
      BY <1>9, <3>1, <3>2 DEF StoreResult, Fresh!Answer
    <3>4. QED
      BY <3>3 DEF Fresh!Next
  <2>3. QED
    BY <2>1, <2>2
<1>10. ASSUME NEW s \in Searchers,
              Return(s)
      PROVE  [Fresh!Next]_(Fresh!vars)
  <2>1. Answers' = [Answers EXCEPT ![s] = None]
    BY <1>10 DEF Return
  <2>2. Fresh!Return(s)
    BY <1>10, <2>1 DEF Return, Fresh!Return
  <2>3. QED
    BY <2>2 DEF Fresh!Next
<1>11. ASSUME NEW e \in 0..MaxEpoch, NEW q \in Queries,
              Expire(e, q)
      PROVE  [Fresh!Next]_(Fresh!vars)
  BY <1>11 DEF Expire
<1>12. CASE UNCHANGED vars
  BY <1>12 DEF vars
<1>13. QED
  BY <1>1, <1>2, <1>3, <1>4, <1>5, <1>6, <1>7, <1>8, <1>9, <1>10, <1>11, <1>12
     DEF Next, Publisher, Searcher

LEMMA FreshnessCorrect ==
    ASSUME OnePublisher PROVE Spec => [](Typed /\ Freshness)
<1>1. Typed /\ Freshness /\ [Next]_vars => Freshness'
  BY FreshnessStep
<1>2. QED
  BY <1>1, FreshnessInit, TypedInit, TypedStep, PTL DEF Spec

\* With one publisher at a time the cached search implements FreshReads for the
\* queries without BM25: bumping the epoch after every index change and reading it
\* before every lookup is enough to never answer from before a published change.
THEOREM Refinement ==
    ASSUME OnePublisher PROVE Spec => FreshSpec
<1>1. Typed /\ Freshness /\ [Next]_vars => [Fresh!Next]_(Fresh!vars)
  BY RefinesStep
<1>2. QED
  BY <1>1, RefinesInit, FreshnessCorrect, PTL DEF Spec, FreshSpec, Fresh!Spec

\* With one publisher at a time an answer older than what was published when the
\* search began is as old as the process's BM25 index: the cache never adds to it.
THEOREM OnlyLexicalIsStaleHolds ==
    ASSUME OnePublisher PROVE Spec => []OnlyLexicalIsStale
<1>1. Typed /\ Freshness => OnlyLexicalIsStale
  BY ConstantsAssumption
     DEF Typed, TypeOK, Shape, Freshness, ResultsFresh, Lagging, OnlyLexicalIsStale
<1>2. QED
  BY <1>1, FreshnessCorrect, PTL

\* With one publisher at a time, and as long as no index run has failed, what a
\* search without BM25 finds in the cache between runs is what it would compute.
THEOREM CleanCacheIsCurrentHolds ==
    ASSUME OnePublisher PROVE Spec => []CleanCacheIsCurrent
<1>1. Typed /\ Freshness => CleanCacheIsCurrent
  BY ConstantsAssumption
     DEF Typed, TypeOK, Freshness, SeenIsCurrent, EntriesFresh, Lagging, CleanCacheIsCurrent
<1>2. QED
  BY <1>1, FreshnessCorrect, PTL

-----------------------------------------------------------------------------
(* HybridSearch                                                            *)


-----------------------------------------------------------------------------
(* Least elements: what stands in for induction here *)

LEMMA SmallestSubset ==
    ASSUME NEW D, IsFiniteSet(D), NEW T, T \subseteq SUBSET D, T # {}
    PROVE  \E X \in T : \A Y \in T : ~(Y \subseteq X /\ Y # X)
<1>1. T \subseteq FiniteSubsetsOf(D)
  BY FS_FiniteSubsetsOfFinite
<1>2. IsWellFoundedOn(StrictSubsetOrdering(D), FiniteSubsetsOf(D))
  BY FS_StrictSubsetOrderingWellFounded
<1>3. PICK X \in T : \A Y \in T : ~(<<Y, X>> \in StrictSubsetOrdering(D))
  BY <1>1, <1>2, WFMin
<1>4. QED
  BY <1>3 DEF StrictSubsetOrdering

LEMMA LeastNumber ==
    ASSUME NEW S, S \subseteq Nat, S # {}
    PROVE  \E x \in S : \A y \in S : x <= y
<1>1. PICK n \in S : TRUE
  OBVIOUS
<1> DEFINE D == 0..n
           T == {0..m : m \in {m \in S : m <= n}}
<1>2. IsFiniteSet(D)
  BY <1>1, FS_Interval
<1>3. T \subseteq SUBSET D /\ T # {}
  BY <1>1
<1>4. PICK X \in T : \A Y \in T : ~(Y \subseteq X /\ Y # X)
  <2> HIDE DEF D, T
  <2>1. QED
    BY <1>2, <1>3, SmallestSubset
<1>5. PICK x \in S : x <= n /\ X = 0..x
  BY <1>4
<1>6. ASSUME NEW y \in S, y < x PROVE FALSE
  <2>1. 0..y \in T
    BY <1>1, <1>5, <1>6
  <2>2. 0..y \subseteq 0..x /\ x \notin 0..y /\ x \in 0..x
    BY <1>6
  <2>3. QED
    BY <1>4, <1>5, <2>1, <2>2
<1>7. QED
  BY <1>6

LEMMA MinIsLeast ==
    ASSUME NEW S, S \subseteq Nat, S # {}
    PROVE  Min(S) \in S /\ \A y \in S : Min(S) <= y
<1>1. PICK x \in S : \A y \in S : x <= y
  BY LeastNumber
<1>2. QED
  BY <1>1 DEF Min

LEMMA MaxIsGreatest ==
    ASSUME NEW n \in Nat, NEW S, S \subseteq 0..n, S # {}
    PROVE  Max(S) \in S /\ \A y \in S : Max(S) >= y
<1> DEFINE T == {n - y : y \in S}
<1>1. T \subseteq Nat /\ T # {}
  <2>1. \A y \in S : n - y \in Nat
    OBVIOUS
  <2>2. QED
    BY <2>1
<1>2. PICK x \in T : \A y \in T : x <= y
  BY <1>1, LeastNumber
<1>3. PICK m \in S : x = n - m
  BY <1>2
<1>4. \A y \in S : m >= y
  BY <1>2, <1>3
<1>5. QED
  BY <1>4 DEF Max

-----------------------------------------------------------------------------
(* Sums *)

\* The recursion behind a sum over the subset s of f's domain.
Step(f, it, s) == IF s = {} THEN 0 ELSE f[CHOOSE x \in s : TRUE] + it[s \ {CHOOSE x \in s : TRUE}]

LEMMA SumRecursion ==
    ASSUME NEW f, IsFiniteSet(DOMAIN f)
    PROVE  \E it : it = [s \in SUBSET DOMAIN f |-> Step(f, it, s)]
<1> DEFINE D == DOMAIN f
           Sub(n) == {s \in SUBSET D : Cardinality(s) <= n}
           T == {n \in Nat : ~ \E it : it = [s \in Sub(n) |-> Step(f, it, s)]}
<1>1. T = {}
  <2> SUFFICES ASSUME T # {} PROVE FALSE
    OBVIOUS
  <2>1. PICK n \in T : \A m \in T : n <= m
    BY LeastNumber
  <2>0. n \in Nat
    BY <2>1
  <2>2. CASE n = 0
    <3> DEFINE it == [s \in Sub(0) |-> 0]
    <3>1. \A s \in Sub(0) : s = {}
      BY FS_Subset, FS_EmptySet, FS_CardinalityType
    <3>2. it = [s \in Sub(0) |-> Step(f, it, s)]
      BY <3>1 DEF Step
    <3>3. QED
      BY <2>1, <2>2, <3>2
  <2>3. CASE n # 0
    <3>1. n - 1 \in Nat /\ n - 1 \notin T
      <4>1. n - 1 \in Nat /\ ~(n <= n - 1)
        BY <2>0, <2>3
      <4> HIDE DEF T
      <4>2. QED
        BY <2>1, <4>1
    <3>2. PICK it : it = [s \in Sub(n - 1) |-> Step(f, it, s)]
      BY <3>1
    <3> DEFINE next == [s \in Sub(n) |-> Step(f, it, s)]
    <3>3. ASSUME NEW s \in Sub(n), s # {}
          PROVE  /\ s \ {CHOOSE x \in s : TRUE} \in Sub(n - 1)
                 /\ s \ {CHOOSE x \in s : TRUE} \in Sub(n)
      <4>1. (CHOOSE x \in s : TRUE) \in s
        BY <3>3
      <4>2. IsFiniteSet(s) /\ Cardinality(s) \in Nat
        BY FS_Subset, FS_CardinalityType
      <4>3. Cardinality(s \ {CHOOSE x \in s : TRUE}) = Cardinality(s) - 1
        BY <4>1, <4>2, FS_RemoveElement
      <4>4. QED
        BY <4>2, <4>3, <2>1
    <3>4. \A s \in Sub(n - 1) : s \in Sub(n) /\ next[s] = it[s]
      <4>1. \A s \in Sub(n - 1) : s \in Sub(n)
        <5> SUFFICES ASSUME NEW s \in Sub(n - 1) PROVE s \in Sub(n)
          OBVIOUS
        <5>1. Cardinality(s) \in Nat
          BY FS_Subset, FS_CardinalityType
        <5>2. QED
          BY <5>1, <2>1
      <4>2. \A s \in Sub(n - 1) : it[s] = Step(f, it, s)
        BY <3>2
      <4>3. QED
        BY <4>1, <4>2
    <3>5. \A s \in Sub(n) : Step(f, it, s) = Step(f, next, s)
      <4> SUFFICES ASSUME NEW s \in Sub(n), s # {} PROVE Step(f, it, s) = Step(f, next, s)
        BY DEF Step
      <4>1. next[s \ {CHOOSE x \in s : TRUE}] = it[s \ {CHOOSE x \in s : TRUE}]
        BY <3>3, <3>4
      <4>2. QED
        BY <4>1 DEF Step
    <3>6. next = [s \in Sub(n) |-> Step(f, next, s)]
      BY <3>5
    <3>7. QED
      BY <2>1, <3>6
  <2>4. QED
    BY <2>2, <2>3
<1>2. Cardinality(D) \in Nat
  BY FS_CardinalityType
<1>3. \E it : it = [s \in Sub(Cardinality(D)) |-> Step(f, it, s)]
  BY <1>1, <1>2
<1>4. Sub(Cardinality(D)) = SUBSET D
  BY FS_Subset
<1>5. QED
  BY <1>3, <1>4

LEMMA SumUnfolds ==
    ASSUME NEW f, IsFiniteSet(DOMAIN f)
    PROVE  \E it : it = [s \in SUBSET DOMAIN f |-> Step(f, it, s)] /\ Sum(f) = it[DOMAIN f]
<1>1. \E it : it = [s \in SUBSET DOMAIN f |-> Step(f, it, s)]
  BY SumRecursion
<1>2. QED
  BY <1>1 DEF Sum, Step, FoldFunction, FoldFunctionOnSet, MapThenFoldSet

Pick(s) == CHOOSE x \in s : TRUE

Adds(it, f, D) ==
    /\ Sum(f) = it[D] /\ it[{}] = 0
    /\ \A s \in SUBSET D : s # {} => Pick(s) \in s /\ it[s] = f[Pick(s)] + it[s \ {Pick(s)}]

LEMMA SumSteps ==
    ASSUME NEW D, IsFiniteSet(D), NEW f, DOMAIN f = D
    PROVE  \E it : Adds(it, f, D)
<1>1. PICK it : it = [s \in SUBSET D |-> Step(f, it, s)] /\ Sum(f) = it[D]
  BY SumUnfolds
<1>2. \A s \in SUBSET D : it[s] = Step(f, it, s)
  BY <1>1
<1>3. it[{}] = 0
  BY <1>2 DEF Step
<1>4. \A s \in SUBSET D :
        s # {} => Pick(s) \in s /\ it[s] = f[Pick(s)] + it[s \ {Pick(s)}]
  BY <1>2 DEF Step, Pick
<1>5. QED
  BY <1>1, <1>3, <1>4 DEF Adds

\* A sum of naturals is a natural, at least each of its terms, and no more
\* than its only term.
LEMMA SumBounds ==
    ASSUME NEW D, IsFiniteSet(D), NEW f \in [D -> Nat]
    PROVE  /\ Sum(f) \in Nat
           /\ \A i \in D : f[i] <= Sum(f)
           /\ \A j \in D : (\A i \in D : i # j => f[i] = 0) => Sum(f) <= f[j]
           /\ (\A i \in D : f[i] = 0) => Sum(f) = 0
<1> DEFINE Bounded(it, s) ==
             /\ it[s] \in Nat
             /\ \A i \in s : f[i] <= it[s]
             /\ \A j \in D : (\A i \in s : i # j => f[i] = 0) => it[s] <= f[j]
             /\ (\A i \in s : f[i] = 0) => it[s] = 0
<1>1. PICK it : Adds(it, f, D)
  <2>1. DOMAIN f = D
    OBVIOUS
  <2>2. QED
    BY <2>1, SumSteps
<1> DEFINE T == {s \in SUBSET D : ~Bounded(it, s)}
<1>2. T = {}
  <2> SUFFICES ASSUME T # {} PROVE FALSE
    OBVIOUS
  <2>1. PICK s \in T : \A t \in T : ~(t \subseteq s /\ t # s)
    <3>1. T \subseteq SUBSET D
      OBVIOUS
    <3> HIDE DEF T
    <3>2. QED
      BY <3>1, SmallestSubset
  <2>2. s \in SUBSET D /\ ~Bounded(it, s)
    BY <2>1
  <2>3. CASE s = {}
    BY <1>1, <2>2, <2>3 DEF Adds
  <2>4. CASE s # {}
    <3> DEFINE x == Pick(s)  r == s \ {x}
    <3>1. x \in s /\ it[s] = f[x] + it[r]
      BY <1>1, <2>2, <2>4 DEF Adds
    <3> HIDE DEF x
    <3>2. Bounded(it, r)
      <4>1. r \subseteq s /\ r # s /\ r \in SUBSET D
        BY <2>2, <3>1
      <4>2. r \notin T
        BY <2>1, <4>1
      <4>3. QED
        BY <4>1, <4>2
    <3>3. f[x] \in Nat /\ \A i \in s : f[i] \in Nat
      BY <2>2, <3>1
    <3>4. it[s] \in Nat
      BY <3>1, <3>2, <3>3
    <3>5. \A i \in s : f[i] <= it[s]
      <4> SUFFICES ASSUME NEW i \in s PROVE f[i] <= it[s]
        OBVIOUS
      <4>1. CASE i = x
        BY <3>1, <3>2, <3>3, <4>1
      <4>2. CASE i # x
        BY <3>1, <3>2, <3>3, <4>2
      <4>3. QED
        BY <4>1, <4>2
    <3>6. ASSUME NEW j \in D, \A i \in s : i # j => f[i] = 0 PROVE it[s] <= f[j]
      <4>1. CASE x = j
        <5>1. it[r] = 0
          BY <3>2, <3>6, <4>1
        <5>2. QED
          BY <3>1, <3>3, <4>1, <5>1
      <4>2. CASE x # j
        <5>1. f[x] = 0 /\ it[r] <= f[j] /\ it[r] \in Nat /\ f[j] \in Nat
          BY <3>1, <3>2, <3>6, <4>2
        <5>2. QED
          BY <3>1, <5>1
      <4>3. QED
        BY <4>1, <4>2
    <3>7. ASSUME \A i \in s : f[i] = 0 PROVE it[s] = 0
      BY <3>1, <3>2, <3>7
    <3>8. QED
      BY <2>2, <3>4, <3>5, <3>6, <3>7
  <2>5. QED
    BY <2>3, <2>4
<1>3. Bounded(it, D)
  BY <1>2
<1>4. QED
  BY <1>1, <1>3 DEF Adds

\* A sum grows with its terms.
LEMMA SumGrows ==
    ASSUME NEW D, IsFiniteSet(D), NEW f \in [D -> Nat], NEW g \in [D -> Nat],
           \A i \in D : f[i] <= g[i], NEW j \in D, f[j] < g[j]
    PROVE  Sum(f) < Sum(g)
<1>1. PICK fit : Adds(fit, f, D)
  <2>1. DOMAIN f = D
    OBVIOUS
  <2>2. QED
    BY <2>1, SumSteps
<1>2. PICK git : Adds(git, g, D)
  <2>1. DOMAIN g = D
    OBVIOUS
  <2>2. QED
    BY <2>1, SumSteps
<1> DEFINE Grown(s) == /\ fit[s] \in Nat /\ git[s] \in Nat /\ fit[s] <= git[s]
                       /\ j \in s => fit[s] < git[s]
           T == {s \in SUBSET D : ~Grown(s)}
<1>3. T = {}
  <2> SUFFICES ASSUME T # {} PROVE FALSE
    OBVIOUS
  <2>1. PICK s \in T : \A t \in T : ~(t \subseteq s /\ t # s)
    <3>1. T \subseteq SUBSET D
      OBVIOUS
    <3> HIDE DEF T
    <3>2. QED
      BY <3>1, SmallestSubset
  <2>2. s \in SUBSET D /\ ~Grown(s)
    BY <2>1
  <2>3. CASE s = {}
    BY <1>1, <1>2, <2>2, <2>3 DEF Adds
  <2>4. CASE s # {}
    <3> DEFINE x == Pick(s)  r == s \ {x}
    <3>1. x \in s /\ fit[s] = f[x] + fit[r] /\ git[s] = g[x] + git[r]
      BY <1>1, <1>2, <2>2, <2>4 DEF Adds
    <3> HIDE DEF x
    <3>2. Grown(r)
      <4>1. r \subseteq s /\ r # s /\ r \in SUBSET D
        BY <2>2, <3>1
      <4>2. r \notin T
        BY <2>1, <4>1
      <4>3. QED
        BY <4>1, <4>2
    <3>3. f[x] \in Nat /\ g[x] \in Nat /\ f[x] <= g[x]
      BY <2>2, <3>1
    <3>4. fit[r] \in Nat /\ git[r] \in Nat /\ fit[r] <= git[r] /\ (j \in r => fit[r] < git[r])
      BY <3>2
    <3>5. (j \in s => j = x \/ j \in r) /\ (j = x => f[x] < g[x])
      OBVIOUS
    <3> HIDE DEF r
    <3>6. fit[s] \in Nat /\ git[s] \in Nat /\ fit[s] <= git[s]
      BY <3>1, <3>3, <3>4
    <3>7. j \in s => fit[s] < git[s]
      BY <3>1, <3>3, <3>4, <3>5
    <3>8. QED
      BY <2>2, <3>6, <3>7
  <2>5. QED
    BY <2>3, <2>4
<1>4. QED
  BY <1>1, <1>2, <1>3 DEF Adds

-----------------------------------------------------------------------------
(* Recursion over the naturals *)

LEMMA Upwards ==
    ASSUME NEW N \in Nat, NEW P, 0 \in P, \A n \in 1..N : n - 1 \in P => n \in P
    PROVE  \A n \in 0..N : n \in P
<1> DEFINE T == {n \in 0..N : n \notin P}
<1> SUFFICES ASSUME T # {} PROVE FALSE
  OBVIOUS
<1>1. PICK n \in T : \A m \in T : n <= m
  <2>1. T \subseteq Nat
    OBVIOUS
  <2> HIDE DEF T
  <2>2. QED
    BY <2>1, LeastNumber
<1>2. n \in 1..N /\ n \notin P
  BY <1>1
<1>3. n - 1 \notin P
  BY <1>2
<1>4. n - 1 \in T /\ ~(n <= n - 1)
  BY <1>2, <1>3
<1>5. QED
  BY <1>1, <1>4

Rec(f, N, first, G) == f = [i \in 0..N |-> IF i = 0 THEN first ELSE G[i][f[i - 1]]]

LEMMA RecursionExists ==
    ASSUME NEW N \in Nat, NEW first, NEW G
    PROVE  \E f : Rec(f, N, first, G)
<1> DEFINE P == {n \in Nat : \E f : Rec(f, n, first, G)}
<1>1. 0 \in P
  <2> DEFINE f == [i \in 0..0 |-> first]
  <2>1. f = [i \in 0..0 |-> IF i = 0 THEN first ELSE G[i][f[i - 1]]]
    OBVIOUS
  <2> HIDE DEF f
  <2>2. QED
    BY <2>1 DEF Rec
<1>2. ASSUME NEW n \in 1..N, n - 1 \in P PROVE n \in P
  <2>1. PICK f : f = [i \in 0..(n - 1) |-> IF i = 0 THEN first ELSE G[i][f[i - 1]]]
    BY <1>2 DEF Rec
  <2> DEFINE g == [i \in 0..n |-> IF i = 0 THEN first ELSE G[i][f[i - 1]]]
  <2>2. \A i \in 0..(n - 1) : g[i] = f[i]
    BY <2>1
  <2>3. \A i \in 1..n : g[i - 1] = f[i - 1]
    <3> HIDE DEF g
    <3>1. \A i \in 1..n : i - 1 \in 0..(n - 1)
      BY <1>2
    <3>2. QED
      BY <2>2, <3>1
  <2>4. \A i \in 0..n : (IF i = 0 THEN first ELSE G[i][f[i - 1]])
                         = (IF i = 0 THEN first ELSE G[i][g[i - 1]])
    <3> HIDE DEF g
    <3> SUFFICES ASSUME NEW i \in 0..n, i # 0 PROVE G[i][f[i - 1]] = G[i][g[i - 1]]
      OBVIOUS
    <3>1. i \in 1..n
      BY <1>2
    <3>2. QED
      BY <2>3, <3>1
  <2>6. g = [i \in 0..n |-> IF i = 0 THEN first ELSE G[i][g[i - 1]]]
    BY <2>4
  <2> HIDE DEF g
  <2>5. QED
    BY <2>6 DEF Rec
<1>3. N \in P
  <2> HIDE DEF P
  <2>1. QED
    BY <1>1, <1>2, Upwards
<1>4. QED
  BY <1>3

LEMMA RecursionTyped ==
    ASSUME NEW N \in Nat, NEW X, NEW first \in X, NEW G, NEW f, Rec(f, N, first, G),
           \A i \in 1..N, x \in X : G[i][x] \in X
    PROVE  f \in [0..N -> X] /\ f[0] = first /\ \A i \in 1..N : f[i] = G[i][f[i - 1]]
<1>1. f = [i \in 0..N |-> IF i = 0 THEN first ELSE G[i][f[i - 1]]]
  BY DEF Rec
<1>2. f[0] = first /\ \A i \in 1..N : f[i] = G[i][f[i - 1]]
  BY <1>1
<1> DEFINE P == {n \in 0..N : f[n] \in X}
<1>3. 0 \in P
  BY <1>2
<1>4. ASSUME NEW n \in 1..N, n - 1 \in P PROVE n \in P
  BY <1>2, <1>4
<1>5. \A n \in 0..N : n \in P
  <2> HIDE DEF P
  <2>1. QED
    BY <1>3, <1>4, Upwards
<1>6. QED
  BY <1>1, <1>2, <1>5

-----------------------------------------------------------------------------
(* Sequences *)

LEMMA CutIs ==
    ASSUME NEW S, NEW s \in Seq(S), NEW n \in Nat
    PROVE  /\ Cut(s, n) \in Seq(S)
           /\ Len(Cut(s, n)) = IF n < Len(s) THEN n ELSE Len(s)
           /\ \A i \in DOMAIN Cut(s, n) : i \in DOMAIN s /\ Cut(s, n)[i] = s[i]
           /\ \A i \in DOMAIN s : i <= n => i \in DOMAIN Cut(s, n)
<1> DEFINE e == IF n < Len(s) THEN n ELSE Len(s)
<1>1. e \in Nat /\ e <= Len(s) /\ \A i \in 1..e : s[i] \in S
  BY LenProperties
<1> HIDE DEF e
<1>2. /\ SubSeq(s, 1, e) \in Seq(S)
      /\ Len(SubSeq(s, 1, e)) = IF 1 <= e THEN e - 1 + 1 ELSE 0
      /\ \A i \in 1..(e - 1 + 1) : SubSeq(s, 1, e)[i] = s[1 + i - 1]
  BY <1>1, SubSeqProperties
<1>3. Cut(s, n) = SubSeq(s, 1, e)
  BY DEF Cut, e
<1>4. Cut(s, n) \in Seq(S) /\ Len(Cut(s, n)) = e
  BY <1>1, <1>2, <1>3
<1>5. \A i \in 1..e : i \in DOMAIN s /\ Cut(s, n)[i] = s[i]
  BY <1>1, <1>2, <1>3, LenProperties
<1>6. DOMAIN Cut(s, n) = 1..e
  BY <1>4, LenProperties
<1>7. \A i \in DOMAIN s : i <= n => i \in 1..e
  BY LenProperties DEF e
<1>8. QED
  BY <1>4, <1>5, <1>6, <1>7 DEF e

LEMMA UpToIs ==
    ASSUME NEW n \in Nat
    PROVE  IsFiniteSet(1..n) /\ Cardinality(1..n) = n
BY FS_Interval

LEMMA SeqOfFunction ==
    ASSUME NEW S, NEW n \in Nat, NEW f \in [1..n -> S]
    PROVE  f \in Seq(S) /\ Len(f) = n /\ DOMAIN f = 1..n
<1>1. f \in Seq(S)
  OBVIOUS
<1>2. DOMAIN f = 1..n
  OBVIOUS
<1>3. QED
  BY <1>1, <1>2, LenProperties

\* What the recursion of FlattenSeq has gathered.
Flat(f, ls) == f = [i \in 1..Len(ls) |-> IF i = 1 THEN ls[i] ELSE f[i - 1] \o ls[i]]

LEMMA FlatExists ==
    ASSUME NEW S, NEW ls \in Seq(Seq(S))
    PROVE  \E f : Flat(f, ls)
<1> DEFINE N == Len(ls)
           G == [i \in 1..N |-> [t \in Seq(S) |-> IF i = 1 THEN ls[1] ELSE t \o ls[i]]]
           X == Seq(S)
<1>1. N \in Nat /\ \A i \in 1..N : ls[i] \in Seq(S)
  BY LenProperties, ElementOfSeq
<1>2. PICK g : Rec(g, N, <<>>, G)
  <2> HIDE DEF G, N
  <2>1. QED
    BY <1>1, RecursionExists
<1>3. \A i \in 1..N, t \in X : G[i][t] \in X
  BY <1>1, ConcatProperties
<1>4. <<>> \in X
  BY EmptySeq
<1>5. \A i \in 1..N, t \in X : G[i][t] = IF i = 1 THEN ls[i] ELSE t \o ls[i]
  OBVIOUS
<1>6. g \in [0..N -> X] /\ \A i \in 1..N : g[i] = G[i][g[i - 1]]
  <2> HIDE DEF G, N, X
  <2>1. QED
    BY <1>1, <1>2, <1>3, <1>4, RecursionTyped
<1> DEFINE f == [i \in 1..N |-> g[i]]
<1>7. \A i \in 1..N : g[i] = IF i = 1 THEN ls[i] ELSE g[i - 1] \o ls[i]
  <2> HIDE DEF G, X
  <2>1. \A i \in 1..N : i - 1 \in 0..N
    BY <1>1
  <2>2. \A i \in 1..N : g[i - 1] \in X
    BY <1>6, <2>1
  <2>3. QED
    BY <1>5, <1>6, <2>2
<1>8. \A i \in 1..N : i # 1 => f[i - 1] = g[i - 1]
  BY <1>1
<1>9. f = [i \in 1..N |-> IF i = 1 THEN ls[i] ELSE f[i - 1] \o ls[i]]
  <2>1. \A i \in 1..N : g[i] = IF i = 1 THEN ls[i] ELSE f[i - 1] \o ls[i]
    <3> HIDE DEF f
    <3>1. QED
      BY <1>7, <1>8
  <2>2. QED
    BY <2>1
<1> HIDE DEF f
<1>10. QED
  BY <1>9 DEF Flat

\* by_id and the fusion see every point of every ranking, and no other.
LEMMA FlattenIs ==
    ASSUME NEW S, NEW ls \in Seq(Seq(S)), ls # <<>>
    PROVE  /\ FlattenSeq(ls) \in Seq(S)
           /\ Range(FlattenSeq(ls)) = UNION {Range(ls[l]) : l \in DOMAIN ls}
           /\ Len(ls) = 1 => FlattenSeq(ls) = ls[1]
<1> DEFINE N == Len(ls)
<1>1. N \in Nat \ {0} /\ DOMAIN ls = 1..N /\ \A i \in 1..N : ls[i] \in Seq(S)
  BY LenProperties, EmptySeq, ElementOfSeq
<1>2. \E f : Flat(f, ls)
  BY FlatExists
<1>3. PICK f : Flat(f, ls) /\ FlattenSeq(ls) = f[N]
  BY <1>1, <1>2 DEF FlattenSeq, Flat
<1>0. f = [i \in 1..N |-> IF i = 1 THEN ls[i] ELSE f[i - 1] \o ls[i]]
  BY <1>3 DEF Flat
<1>4. f[1] = ls[1] /\ \A i \in 2..N : f[i] = f[i - 1] \o ls[i]
  <2> HIDE DEF N
  <2>1. \A i \in 1..N : f[i] = IF i = 1 THEN ls[i] ELSE f[i - 1] \o ls[i]
    BY <1>0
  <2>2. 1 \in 1..N /\ \A i \in 2..N : i \in 1..N /\ i # 1
    BY <1>1
  <2>3. QED
    BY <2>1, <2>2
<1> DEFINE Sofar(n) == f[n] \in Seq(S) /\ Range(f[n]) = UNION {Range(ls[l]) : l \in 1..n}
           P == {n \in 0..N : n = 0 \/ Sofar(n)}
<1>5. 0 \in P
  BY <1>1
<1>6. ASSUME NEW n \in 1..N, n - 1 \in P PROVE n \in P
  <2>1. CASE n = 1
    <3>1. \A l \in 1..1 : l = 1
      OBVIOUS
    <3>2. UNION {Range(ls[l]) : l \in 1..1} = Range(ls[1])
      BY <3>1
    <3>3. Sofar(1)
      BY <1>1, <1>4, <3>2
    <3>4. QED
      <4> HIDE DEF Sofar, N
      <4>1. QED
        BY <1>1, <1>6, <2>1, <3>3
  <2>2. CASE n # 1
    <3>1. n \in 2..N /\ Sofar(n - 1)
      BY <1>6, <2>2
    <3>2. f[n] \in Seq(S) /\ Range(f[n]) = Range(f[n - 1]) \cup Range(ls[n])
      <4>1. n \in 1..N /\ f[n - 1] \in Seq(S)
        BY <3>1, <1>6
      <4>2. f[n] = f[n - 1] \o ls[n] /\ ls[n] \in Seq(S)
        BY <1>1, <1>4, <3>1, <4>1
      <4>3. QED
        BY <4>1, <4>2, RangeConcatenation, ConcatProperties
    <3>3. 1..n = 1..(n - 1) \cup {n}
      BY <1>6
    <3>4. UNION {Range(ls[l]) : l \in 1..n}
            = (UNION {Range(ls[l]) : l \in 1..(n - 1)}) \cup Range(ls[n])
      <4> DEFINE A == 1..n  B == 1..(n - 1)  R(l) == Range(ls[l])
      <4>1. A = B \cup {n}
        BY <3>3
      <4> HIDE DEF A, B, R, N, Sofar, P
      <4>2. UNION {R(l) : l \in A} \subseteq (UNION {R(l) : l \in B}) \cup R(n)
        <5> SUFFICES ASSUME NEW l \in A, NEW x \in R(l)
                     PROVE  x \in UNION {R(i) : i \in B} \/ x \in R(n)
          OBVIOUS
        <5>1. l \in B \/ l = n
          BY <4>1
        <5>2. QED
          BY <5>1
      <4>4. UNION {R(l) : l \in B} \subseteq UNION {R(l) : l \in A}
        BY <4>1
      <4>5. R(n) \subseteq UNION {R(l) : l \in A}
        BY <4>1
      <4>3. QED
        <5>1. UNION {R(l) : l \in A} = (UNION {R(l) : l \in B}) \cup R(n)
          BY <4>2, <4>4, <4>5
        <5>2. QED
          BY <5>1 DEF A, B, R
    <3>5. Sofar(n)
      BY <3>1, <3>2, <3>4
    <3>6. QED
      BY <3>5
  <2>3. QED
    BY <2>1, <2>2
<1>7. \A n \in 0..N : n \in P
  <2> HIDE DEF P
  <2>1. QED
    BY <1>1, <1>5, <1>6, Upwards
<1>8. Sofar(N)
  <2>1. N \in P /\ N # 0
    <3> HIDE DEF P, N
    <3>1. QED
      BY <1>1, <1>7
  <2>2. QED
    BY <2>1
<1>9. QED
  BY <1>1, <1>3, <1>4, <1>8

\* Where the elements of a sifted list come from: distinct places of s.
Origins(t, s, n) ==
    \E o \in [DOMAIN t -> 1..n] :
      /\ \A i \in DOMAIN t : t[i] = s[o[i]]
      /\ \A i, j \in DOMAIN t : o[i] = o[j] => i = j

Sifted(t, s, n, set) ==
    /\ t \in Seq(Points) /\ Len(t) <= n
    /\ \A i \in DOMAIN t : t[i] \in set
    /\ \A i \in 1..n : s[i] \in set => \E j \in DOMAIN t : t[j] = s[i]
    /\ Origins(t, s, n)

LEMMA SiftedSkips ==
    ASSUME NEW s \in Seq(Points), NEW set, NEW n \in 1..Len(s), s[n] \notin set,
           NEW t, Sifted(t, s, n - 1, set)
    PROVE  Sifted(t, s, n, set)
<1>1. n - 1 \in Nat /\ n \in Nat /\ 1..(n - 1) \subseteq 1..n
      /\ \A i \in 1..n : i = n \/ i \in 1..(n - 1)
  BY LenProperties
<1>2. t \in Seq(Points) /\ Len(t) <= n /\ \A i \in DOMAIN t : t[i] \in set
  BY <1>1, LenProperties DEF Sifted
<1>3. \A i \in 1..n : s[i] \in set => \E j \in DOMAIN t : t[j] = s[i]
  BY <1>1 DEF Sifted
<1>4. Origins(t, s, n)
  <2>1. PICK o \in [DOMAIN t -> 1..(n - 1)] :
           /\ \A i \in DOMAIN t : t[i] = s[o[i]]
           /\ \A i, j \in DOMAIN t : o[i] = o[j] => i = j
    BY DEF Sifted, Origins
  <2>2. o \in [DOMAIN t -> 1..n]
    BY <1>1, <2>1
  <2>3. QED
    BY <2>1, <2>2 DEF Origins
<1>5. QED
  BY <1>2, <1>3, <1>4 DEF Sifted

LEMMA SiftedTakes ==
    ASSUME NEW s \in Seq(Points), NEW set, NEW n \in 1..Len(s), s[n] \in set,
           NEW t, Sifted(t, s, n - 1, set)
    PROVE  Sifted(Append(t, s[n]), s, n, set)
<1> DEFINE u == Append(t, s[n])  m == Len(t)
<1>1. n \in Nat /\ n - 1 \in Nat /\ s[n] \in Points /\ \A i \in 1..n : i = n \/ i \in 1..(n - 1)
  BY LenProperties
<1>2. t \in Seq(Points) /\ m \in Nat /\ DOMAIN t = 1..m /\ m <= n - 1
  BY LenProperties DEF Sifted
<1>3. /\ u \in Seq(Points) /\ Len(u) = m + 1
      /\ \A i \in 1..m : u[i] = t[i]
      /\ u[m + 1] = s[n]
  BY <1>1, <1>2, AppendProperties
<1>4. DOMAIN u = 1..(m + 1)
  BY <1>3, LenProperties
<1> HIDE DEF u, m
<1>5. \A i \in DOMAIN u : i = m + 1 \/ i \in DOMAIN t
  BY <1>2, <1>4
<1>6. Len(u) <= n
  BY <1>1, <1>2, <1>3
<1>7. \A i \in DOMAIN u : u[i] \in set
  BY <1>2, <1>3, <1>5 DEF Sifted
<1>8. \A i \in 1..n : s[i] \in set => \E j \in DOMAIN u : u[j] = s[i]
  <2>1. m + 1 \in DOMAIN u /\ DOMAIN t \subseteq DOMAIN u
    BY <1>2, <1>4
  <2>2. ASSUME NEW i \in 1..(n - 1), s[i] \in set PROVE \E j \in DOMAIN u : u[j] = s[i]
    <3>1. PICK j \in DOMAIN t : t[j] = s[i]
      BY <2>2 DEF Sifted
    <3>2. QED
      BY <1>2, <1>3, <2>1, <3>1
  <2>3. QED
    BY <1>1, <1>3, <2>1, <2>2
<1>9. Origins(u, s, n)
  <2>1. PICK o \in [DOMAIN t -> 1..(n - 1)] :
           /\ \A i \in DOMAIN t : t[i] = s[o[i]]
           /\ \A i, j \in DOMAIN t : o[i] = o[j] => i = j
    BY DEF Sifted, Origins
  <2> DEFINE q == [i \in DOMAIN u |-> IF i = m + 1 THEN n ELSE o[i]]
  <2>2. \A i \in DOMAIN t : i # m + 1 /\ o[i] \in 1..(n - 1) /\ o[i] # n /\ o[i] \in 1..n
    BY <1>1, <1>2, <2>1
  <2>3. /\ q \in [DOMAIN u -> 1..n]
        /\ \A i \in DOMAIN u : q[i] = IF i = m + 1 THEN n ELSE o[i]
    <3>1. n \in 1..n
      BY <1>1
    <3>2. QED
      BY <1>5, <2>2, <3>1
  <2> HIDE DEF q
  <2>4. \A i \in DOMAIN u : u[i] = s[q[i]]
    BY <1>2, <1>3, <1>5, <2>1, <2>3
  <2>5. \A i, j \in DOMAIN u : q[i] = q[j] => i = j
    BY <1>5, <2>1, <2>2, <2>3
  <2>6. QED
    BY <2>3, <2>4, <2>5 DEF Origins
<1>10. QED
  BY <1>3, <1>6, <1>7, <1>8, <1>9 DEF Sifted, u

\* [x for x in s if x in set] takes the elements of s that are in set, each
\* from its own place.
LEMMA SiftIs ==
    ASSUME NEW s \in Seq(Points), NEW set
    PROVE  Sifted(Sift(s, set), s, Len(s), set)
<1> DEFINE N == Len(s)
           X == Seq(Points)
           G == [i \in 1..N |-> [t \in X |-> IF s[i] \in set THEN Append(t, s[i]) ELSE t]]
           Kept1(f) == f = [n \in 0..N |->
                              IF n = 0 THEN <<>>
                              ELSE IF s[n] \in set THEN Append(f[n - 1], s[n])
                              ELSE f[n - 1]]
<1>1. N \in Nat /\ \A i \in 1..N : s[i] \in Points
  BY LenProperties
<1>2. PICK g : Rec(g, N, <<>>, G)
  <2> HIDE DEF G, N
  <2>1. QED
    BY <1>1, RecursionExists
<1>3. \A i \in 1..N, t \in X : G[i][t] \in X
  BY <1>1, AppendProperties
<1>4. <<>> \in X
  BY EmptySeq
<1>5. \A i \in 1..N, t \in X : G[i][t] = IF s[i] \in set THEN Append(t, s[i]) ELSE t
  OBVIOUS
<1>6. /\ g \in [0..N -> X] /\ g[0] = <<>>
      /\ \A i \in 1..N : g[i] = G[i][g[i - 1]]
  <2> HIDE DEF G, N, X
  <2>1. QED
    BY <1>1, <1>2, <1>3, <1>4, RecursionTyped
<1>7. \A i \in 1..N : g[i] = IF s[i] \in set THEN Append(g[i - 1], s[i]) ELSE g[i - 1]
  <2> HIDE DEF G, X
  <2>1. \A i \in 1..N : i - 1 \in 0..N
    BY <1>1
  <2>2. \A i \in 1..N : g[i - 1] \in X
    BY <1>6, <2>1
  <2>3. QED
    BY <1>5, <1>6, <2>2
<1>8. Kept1(g)
  <2> HIDE DEF G, N, X
  <2>1. \A i \in 0..N : i # 0 => i \in 1..N
    BY <1>1
  <2>2. g = [i \in 0..N |-> g[i]]
    BY <1>6
  <2>3. QED
    BY <1>6, <1>7, <2>1, <2>2
<1>9. PICK f : Kept1(f) /\ Sift(s, set) = f[N]
  <2> HIDE DEF G, X
  <2>1. QED
    BY <1>8 DEF Sift
<1>10. /\ f[0] = <<>>
       /\ \A i \in 1..N : f[i] = IF s[i] \in set THEN Append(f[i - 1], s[i]) ELSE f[i - 1]
  <2> HIDE DEF N
  <2>1. 0 \in 0..N /\ \A i \in 1..N : i \in 0..N /\ i # 0
    BY <1>1
  <2>2. \A i \in 0..N : f[i] = IF i = 0 THEN <<>>
          ELSE IF s[i] \in set THEN Append(f[i - 1], s[i]) ELSE f[i - 1]
    BY <1>9
  <2>3. QED
    BY <2>1, <2>2
<1> DEFINE P == {n \in 0..N : Sifted(f[n], s, n, set)}
<1>11. 0 \in P
  <2> HIDE DEF N
  <2>1. f[0] \in Seq(Points) /\ DOMAIN f[0] = {} /\ Len(f[0]) = 0 /\ 1..0 = {}
    BY <1>10, EmptySeq
  <2>2. Origins(f[0], s, 0)
    <3> DEFINE o == [i \in {} |-> 0]
    <3>1. o \in [DOMAIN f[0] -> 1..0]
      BY <2>1
    <3>2. QED
      BY <2>1, <3>1 DEF Origins
  <2>3. Sifted(f[0], s, 0, set)
    BY <2>1, <2>2 DEF Sifted
  <2>4. QED
    BY <1>1, <2>3
<1>12. ASSUME NEW n \in 1..N, n - 1 \in P PROVE n \in P
  <2>1. Sifted(f[n - 1], s, n - 1, set)
    BY <1>12
  <2>2. Sifted(f[n], s, n, set)
    <3> HIDE DEF P, Kept1, G
    <3>1. CASE s[n] \in set
      BY <1>10, <2>1, <3>1, SiftedTakes
    <3>2. CASE s[n] \notin set
      BY <1>10, <2>1, <3>2, SiftedSkips
    <3>3. QED
      BY <3>1, <3>2
  <2>3. QED
    BY <1>1, <2>2
<1>13. \A n \in 0..N : n \in P
  <2> HIDE DEF P
  <2>1. QED
    BY <1>1, <1>11, <1>12, Upwards
<1>14. N \in P
  BY <1>1, <1>13
<1>15. QED
  BY <1>9, <1>14

\* [c for c in s if match(c)] brings in nothing that was not there.
LEMMA MatchingIs ==
    ASSUME NEW s \in Seq(Points)
    PROVE  /\ Matching(s) \in Seq(Points)
           /\ Len(Matching(s)) <= Len(s)
           /\ \A i \in DOMAIN Matching(s) : Matches(Matching(s)[i], where)
BY SiftIs DEF Matching, Sifted

-----------------------------------------------------------------------------
(* Orders *)

\* A permutation of a finite set holds each of its elements, at one position.
LEMMA PermutationIs ==
    ASSUME NEW S, IsFiniteSet(S), NEW s \in SetToSeqs(S)
    PROVE  /\ s \in Seq(S) /\ Len(s) = Cardinality(S) /\ DOMAIN s = 1..Cardinality(S)
           /\ \A i, j \in DOMAIN s : s[i] = s[j] => i = j
           /\ \A x \in S : \E i \in DOMAIN s : s[i] = x
<1> DEFINE n == Cardinality(S)
<1>1. n \in Nat
  BY FS_CardinalityType
<1>2. s \in [1..n -> S] /\ \A i, j \in 1..n : i # j => s[i] # s[j]
  BY DEF SetToSeqs
<1>3. s \in Seq(S) /\ Len(s) = n /\ DOMAIN s = 1..n
  <2> HIDE DEF n
  <2>1. QED
    BY <1>1, <1>2, SeqOfFunction
<1>4. s \in Injection(1..n, S)
  BY <1>2 DEF Injection, IsInjective
<1>5. IsFiniteSet(1..n) /\ Cardinality(1..n) = n
  BY <1>1, FS_Interval
<1>6. s \in Surjection(1..n, S)
  BY <1>4, <1>5, FS_Injection
<1>7. \A x \in S : \E i \in 1..n : s[i] = x
  BY <1>6 DEF Surjection
<1>8. QED
  BY <1>2, <1>3, <1>7

\* A finite set can be put in the order of two keys, as sorted() does with
\* the scores: the place of an element is the number of those before it.
LEMMA SortExists ==
    ASSUME NEW S, IsFiniteSet(S), NEW score \in [S -> Nat], NEW place \in [S -> Nat],
           \A a, b \in S : place[a] = place[b] => a = b
    PROVE  \E s \in SetToSeqs(S) : \A i, j \in DOMAIN s : i < j =>
             \/ score[s[i]] > score[s[j]]
             \/ score[s[i]] = score[s[j]] /\ place[s[i]] < place[s[j]]
<1> DEFINE First(a, b) == \/ score[a] > score[b]
                          \/ score[a] = score[b] /\ place[a] < place[b]
           Above(a) == {b \in S : First(b, a)}
           n == Cardinality(S)
           rank == [a \in S |-> Cardinality(Above(a)) + 1]
<1>1. \A a, b \in S : a # b => First(a, b) \/ First(b, a)
  <2>1. \A a \in S : score[a] \in Nat /\ place[a] \in Nat
    OBVIOUS
  <2>2. QED
    BY <2>1
<1>2. \A a, b, c \in S : First(a, b) /\ First(b, c) => First(a, c)
  <2>1. \A a \in S : score[a] \in Nat /\ place[a] \in Nat
    OBVIOUS
  <2>2. QED
    BY <2>1
<1>3. \A a \in S : ~First(a, a)
  <2>1. \A a \in S : score[a] \in Nat /\ place[a] \in Nat
    OBVIOUS
  <2>2. QED
    BY <2>1
<1> HIDE DEF First
<1>4. n \in Nat
  BY FS_CardinalityType
<1>5. \A a \in S : /\ IsFiniteSet(Above(a)) /\ Cardinality(Above(a)) \in Nat
                   /\ Cardinality(Above(a)) < n
  <2> SUFFICES ASSUME NEW a \in S
               PROVE  /\ IsFiniteSet(Above(a)) /\ Cardinality(Above(a)) \in Nat
                      /\ Cardinality(Above(a)) < n
    OBVIOUS
  <2>1. Above(a) \in SUBSET S /\ Above(a) # S
    BY <1>3
  <2> HIDE DEF Above
  <2>2. /\ IsFiniteSet(Above(a)) /\ Cardinality(Above(a)) <= n
        /\ Cardinality(Above(a)) # n
    BY <2>1, FS_Subset
  <2>3. Cardinality(Above(a)) \in Nat
    BY <2>2, FS_CardinalityType
  <2>4. QED
    BY <1>4, <2>2, <2>3
<1>6. \A a, b \in S : First(a, b) => rank[a] < rank[b]
  <2> SUFFICES ASSUME NEW a \in S, NEW b \in S, First(a, b) PROVE rank[a] < rank[b]
    OBVIOUS
  <2>0. rank[a] = Cardinality(Above(a)) + 1 /\ rank[b] = Cardinality(Above(b)) + 1
    OBVIOUS
  <2>1. Above(a) \in SUBSET Above(b) /\ Above(a) # Above(b)
    BY <1>2, <1>3
  <2> HIDE DEF Above, n, rank
  <2>2. /\ IsFiniteSet(Above(b)) /\ Cardinality(Above(a)) \in Nat /\ Cardinality(Above(b)) \in Nat
    BY <1>5
  <2>3. /\ Cardinality(Above(a)) <= Cardinality(Above(b))
        /\ Cardinality(Above(a)) # Cardinality(Above(b))
    BY <2>1, <2>2, FS_Subset
  <2>4. QED
    BY <2>0, <2>2, <2>3
<1>7. rank \in [S -> 1..n]
  <2> HIDE DEF Above, n
  <2>1. \A a \in S : Cardinality(Above(a)) + 1 \in 1..n
    BY <1>4, <1>5
  <2>2. QED
    BY <2>1
<1> HIDE DEF rank, Above
<1>8. \A a, b \in S : rank[a] = rank[b] => a = b
  <2> SUFFICES ASSUME NEW a \in S, NEW b \in S, rank[a] = rank[b], a # b PROVE FALSE
    OBVIOUS
  <2>1. rank[a] \in 1..n /\ rank[b] \in 1..n
    BY <1>7
  <2>2. rank[a] < rank[b] \/ rank[b] < rank[a]
    BY <1>1, <1>6
  <2>3. QED
    BY <1>4, <2>1, <2>2
<1>9. rank \in Surjection(S, 1..n)
  <2>1. rank \in Injection(S, 1..n)
    BY <1>7, <1>8 DEF Injection, IsInjective
  <2>2. IsFiniteSet(1..n) /\ Cardinality(1..n) = n
    BY <1>4, FS_Interval
  <2>3. QED
    BY <2>1, <2>2, FS_Injection
<1>10. \A i \in 1..n : \E a \in S : rank[a] = i
  BY <1>9 DEF Surjection
<1> DEFINE s == [i \in 1..n |-> CHOOSE a \in S : rank[a] = i]
<1>11. \A i \in 1..n : s[i] \in S /\ rank[s[i]] = i
  BY <1>10
<1>12. s \in [1..n -> S] /\ DOMAIN s = 1..n
  BY <1>11
<1> HIDE DEF s
<1>13. s \in SetToSeqs(S)
  BY <1>11, <1>12 DEF SetToSeqs
<1>14. ASSUME NEW i \in 1..n, NEW j \in 1..n, i < j PROVE First(s[i], s[j])
  <2>1. s[i] \in S /\ s[j] \in S /\ s[i] # s[j]
    BY <1>11, <1>14
  <2>2. ~First(s[j], s[i])
    <3>1. ~(j < i)
      BY <1>4, <1>14
    <3>2. QED
      BY <1>6, <1>11, <2>1, <3>1
  <2>3. QED
    BY <1>1, <2>1, <2>2
<1>15. QED
  BY <1>12, <1>13, <1>14 DEF First

-----------------------------------------------------------------------------
(* Maximal marginal relevance *)

LEMMA Similarities ==
    ASSUME NEW p \in Points, NEW q \in Points
    PROVE  RelevanceOf[p] \in 0..10 /\ LikenessOf[p, q] \in 0..10
<1>1. <<p, q>> \in Points \X Points
  OBVIOUS
<1>2. LikenessOf \in [Points \X Points -> 0..10] /\ RelevanceOf \in [Points -> 0..10]
  BY HybridAssumption
<1>3. QED
  BY <1>1, <1>2

LEMMA WorthIs ==
    ASSUME NEW vec \in Seq(Points), NEW chosen \in SUBSET DOMAIN vec, NEW i \in DOMAIN vec
    PROVE  Worth(i, vec, chosen) \in Int /\ Worth(i, vec, chosen) <= 70
<1> DEFINE like(j) == LikenessOf[vec[i], vec[j]]
           L == {like(j) : j \in chosen} \cup {0}
<1>1. \A j \in DOMAIN vec : vec[j] \in Points
  BY LenProperties
<1>2. L \subseteq 0..10 /\ L # {}
  <2>1. \A j \in chosen : like(j) \in 0..10
    BY <1>1, Similarities
  <2> HIDE DEF like
  <2>2. QED
    BY <2>1
<1>3. Max(L) \in 0..10
  <2> HIDE DEF L
  <2>1. QED
    BY <1>2, MaxIsGreatest
<1> DEFINE m == Max(L)  r == RelevanceOf[vec[i]]
<1>4. r \in 0..10
  BY <1>1, Similarities
<1>5. Worth(i, vec, chosen) = 7 * r - 3 * m
  BY DEF Worth
<1>6. m \in 0..10
  BY <1>3
<1> HIDE DEF m, r
<1>7. 7 * r - 3 * m \in Int /\ 7 * r - 3 * m <= 70
  BY <1>4, <1>6
<1>8. QED
  BY <1>5, <1>7

\* As long as something is left there is a best of it.
LEMMA BestExists ==
    ASSUME NEW vec \in Seq(Points), NEW chosen \in SUBSET DOMAIN vec,
           NEW rest \in SUBSET DOMAIN vec, rest # {}
    PROVE  /\ Best(rest, vec, chosen) \in rest
           /\ \A j \in rest : Worth(Best(rest, vec, chosen), vec, chosen) >= Worth(j, vec, chosen)
<1> DEFINE W(i) == Worth(i, vec, chosen)
           T == {70 - W(i) : i \in rest}
           B == {i \in rest : \A j \in rest : W(i) >= W(j)}
<1>1. \A i \in rest : W(i) \in Int /\ W(i) <= 70
  BY WorthIs
<1> HIDE DEF W
<1>2. T \subseteq Nat /\ T # {}
  <2>1. \A i \in rest : 70 - W(i) \in Nat
    BY <1>1
  <2>2. QED
    BY <2>1
<1>3. PICK t \in T : \A u \in T : t <= u
  <2> HIDE DEF T
  <2>1. QED
    BY <1>2, LeastNumber
<1>4. PICK i \in rest : t = 70 - W(i)
  BY <1>3
<1>5. \A j \in rest : W(i) >= W(j)
  <2> SUFFICES ASSUME NEW j \in rest PROVE W(i) >= W(j)
    OBVIOUS
  <2>1. t <= 70 - W(j)
    BY <1>3
  <2>2. QED
    BY <1>1, <1>4, <2>1
<1>6. B \subseteq Nat /\ B # {}
  <2>1. DOMAIN vec \subseteq Nat
    BY LenProperties
  <2>2. QED
    BY <1>5, <2>1
<1>7. Min(B) \in B
  <2> HIDE DEF B
  <2>1. QED
    BY <1>6, MinIsLeast
<1>8. Best(rest, vec, chosen) = Min(B)
  BY DEF Best, W
<1>9. QED
  BY <1>7, <1>8 DEF W

Earlier(s, i) == {s[j] : j \in 1..(i - 1)}

\* Each index selected is the best of those left.
Greedy(s, vec) ==
    \A i \in DOMAIN s :
      /\ s[i] \in DOMAIN vec \ Earlier(s, i)
      /\ \A m \in DOMAIN vec \ Earlier(s, i) :
           Worth(s[i], vec, Earlier(s, i)) >= Worth(m, vec, Earlier(s, i))

NextBest(s, vec) == Best(DOMAIN vec \ Range(s), vec, Range(s))

LEMMA GreedyStep ==
    ASSUME NEW vec \in Seq(Points), NEW s \in Seq(DOMAIN vec), Len(s) < Len(vec), Greedy(s, vec)
    PROVE  /\ NextBest(s, vec) \in DOMAIN vec
           /\ Greedy(Append(s, NextBest(s, vec)), vec)
<1> DEFINE b == NextBest(s, vec)
           t == Append(s, b)
           D == DOMAIN vec
<1>1. D = 1..Len(vec) /\ Len(vec) \in Nat /\ DOMAIN s = 1..Len(s) /\ Len(s) \in Nat
  BY LenProperties
<1>2. Range(s) = {s[j] : j \in 1..Len(s)} /\ Range(s) \in SUBSET D
  BY <1>1, RangeEquality, RangeOfSeq
<1>3. D \ Range(s) # {}
  <2> SUFFICES ASSUME D \subseteq Range(s) PROVE FALSE
    OBVIOUS
  <2>1. IsFiniteSet(1..Len(s)) /\ Cardinality(1..Len(s)) = Len(s)
    BY <1>1, UpToIs
  <2>2. IsFiniteSet(D) /\ Cardinality(D) = Len(vec)
    BY <1>1, FS_Interval
  <2>3. Range(s) = D
    BY <1>2
  <2>4. s \in Surjection(1..Len(s), D)
    <3>1. s \in [1..Len(s) -> D]
      BY LenProperties
    <3>2. \A x \in D : \E j \in 1..Len(s) : s[j] = x
      BY <1>2, <2>3
    <3>3. QED
      BY <3>1, <3>2 DEF Surjection
  <2> HIDE DEF D
  <2>5. Cardinality(D) <= Cardinality(1..Len(s))
    BY <2>1, <2>4, FS_Surjection
  <2>6. QED
    BY <1>1, <2>1, <2>2, <2>5
<1>4. /\ b \in D \ Range(s)
      /\ \A m \in D \ Range(s) : Worth(b, vec, Range(s)) >= Worth(m, vec, Range(s))
  BY <1>2, <1>3, BestExists DEF NextBest
<1> HIDE DEF b, D
<1>5. /\ t \in Seq(D) /\ Len(t) = Len(s) + 1
      /\ \A i \in 1..Len(s) : t[i] = s[i]
      /\ t[Len(s) + 1] = b
  BY <1>4, AppendProperties DEF D
<1>6. DOMAIN t = 1..(Len(s) + 1)
  <2> HIDE DEF t
  <2>1. QED
    BY <1>5, LenProperties
<1> HIDE DEF t
<1>7. \A i \in 1..(Len(s) + 1) : Earlier(t, i) = Earlier(s, i)
  <2> SUFFICES ASSUME NEW i \in 1..(Len(s) + 1) PROVE Earlier(t, i) = Earlier(s, i)
    OBVIOUS
  <2>1. \A j \in 1..(i - 1) : t[j] = s[j]
    BY <1>1, <1>5
  <2>2. QED
    BY <2>1 DEF Earlier
<1>8. Earlier(s, Len(s) + 1) = Range(s)
  BY <1>1, <1>2 DEF Earlier
<1>9. ASSUME NEW i \in DOMAIN t
      PROVE  /\ t[i] \in D \ Earlier(t, i)
             /\ \A m \in D \ Earlier(t, i) :
                  Worth(t[i], vec, Earlier(t, i)) >= Worth(m, vec, Earlier(t, i))
  <2>1. CASE i = Len(s) + 1
    BY <1>4, <1>5, <1>6, <1>7, <1>8, <2>1
  <2>2. CASE i # Len(s) + 1
    <3>1. i \in DOMAIN s /\ t[i] = s[i] /\ Earlier(t, i) = Earlier(s, i)
      BY <1>1, <1>5, <1>6, <1>7, <2>2
    <3>2. QED
      BY <3>1 DEF Greedy, D
  <2>3. QED
    BY <2>1, <2>2
<1>10. Greedy(t, vec)
  BY <1>9 DEF Greedy, D
<1>11. QED
  BY <1>4, <1>10 DEF b, t, D

Mmrs(f, n, vec) ==
    f = [i \in 0..n |-> IF i = 0 THEN <<>> ELSE Append(f[i - 1], NextBest(f[i - 1], vec))]

\* What a recursion that appends the best of the rest has selected after n.
LEMMA MmrsGreedy ==
    ASSUME NEW vec \in Seq(Points), NEW n \in 0..Len(vec), NEW f, Mmrs(f, n, vec)
    PROVE  \A i \in 0..n : f[i] \in Seq(DOMAIN vec) /\ Len(f[i]) = i /\ Greedy(f[i], vec)
<1> DEFINE Good(i) == f[i] \in Seq(DOMAIN vec) /\ Len(f[i]) = i /\ Greedy(f[i], vec)
           P == {i \in 0..n : Good(i)}
<1>1. n \in Nat /\ Len(vec) \in Nat /\ n <= Len(vec)
  BY LenProperties
<1>2. f[0] = <<>> /\ \A i \in 1..n : f[i] = Append(f[i - 1], NextBest(f[i - 1], vec))
  <2>1. 0 \in 0..n /\ \A i \in 1..n : i \in 0..n /\ i # 0
    BY <1>1
  <2>2. \A i \in 0..n : f[i] = IF i = 0 THEN <<>> ELSE Append(f[i - 1], NextBest(f[i - 1], vec))
    BY DEF Mmrs
  <2>3. QED
    BY <2>1, <2>2
<1>3. 0 \in P
  <2>1. <<>> \in Seq(DOMAIN vec) /\ Len(<<>>) = 0
    BY EmptySeq
  <2>2. Greedy(<<>>, vec)
    BY DEF Greedy
  <2>3. Good(0)
    BY <1>2, <2>1, <2>2
  <2>4. 0 \in 0..n
    BY <1>1
  <2>5. QED
    BY <2>3, <2>4
<1>4. ASSUME NEW i \in 1..n, i - 1 \in P PROVE i \in P
  <2> DEFINE s == f[i - 1]
  <2>1. s \in Seq(DOMAIN vec) /\ Len(s) = i - 1 /\ Greedy(s, vec)
    BY <1>4
  <2>2. f[i] = Append(s, NextBest(s, vec))
    BY <1>2
  <2> HIDE DEF s
  <2>3. Len(s) < Len(vec)
    BY <1>1, <2>1
  <2>4. NextBest(s, vec) \in DOMAIN vec /\ Greedy(Append(s, NextBest(s, vec)), vec)
    BY <2>1, <2>3, GreedyStep
  <2>5. f[i] \in Seq(DOMAIN vec) /\ Len(f[i]) = Len(s) + 1
    BY <2>1, <2>2, <2>4, AppendProperties
  <2>6. Len(s) + 1 = i
    BY <2>1
  <2>7. Good(i)
    BY <2>2, <2>4, <2>5, <2>6
  <2>8. QED
    BY <2>7
<1>5. \A i \in 0..n : i \in P
  <2> HIDE DEF P
  <2>1. QED
    BY <1>1, <1>3, <1>4, Upwards
<1>6. QED
  BY <1>5

LEMMA MmrsExists ==
    ASSUME NEW vec \in Seq(Points), NEW n \in 0..Len(vec)
    PROVE  \E f : Mmrs(f, n, vec)
<1> DEFINE Q == {i \in Nat : i <= Len(vec) => \E f : Mmrs(f, i, vec)}
<1>1. n \in Nat /\ Len(vec) \in Nat /\ n <= Len(vec)
  BY LenProperties
<1>2. 0 \in Q
  <2> DEFINE f == [i \in 0..0 |-> <<>>]
  <2>1. f = [i \in 0..0 |-> IF i = 0 THEN <<>> ELSE Append(f[i - 1], NextBest(f[i - 1], vec))]
    OBVIOUS
  <2> HIDE DEF f
  <2>2. QED
    BY <2>1 DEF Mmrs
<1>3. ASSUME NEW m \in 1..n, m - 1 \in Q PROVE m \in Q
  <2>0. \E f : Mmrs(f, m - 1, vec)
    BY <1>1, <1>3
  <2>1. PICK f : f = [i \in 0..(m - 1) |->
                        IF i = 0 THEN <<>> ELSE Append(f[i - 1], NextBest(f[i - 1], vec))]
    BY <2>0 DEF Mmrs
  <2> DEFINE E(h, i) == IF i = 0 THEN <<>> ELSE Append(h[i - 1], NextBest(h[i - 1], vec))
             g == [i \in 0..m |-> E(f, i)]
  <2>2. \A i \in 0..(m - 1) : g[i] = f[i]
    <3>1. f = [i \in 0..(m - 1) |-> E(f, i)]
      BY <2>1
    <3> HIDE DEF E
    <3>2. \A i \in 0..(m - 1) : f[i] = E(f, i) /\ i \in 0..m
      BY <1>3, <3>1
    <3>3. QED
      BY <3>2
  <2>3. \A i \in 0..m : E(f, i) = E(g, i)
    <3> HIDE DEF g
    <3> SUFFICES ASSUME NEW i \in 0..m, i # 0 PROVE f[i - 1] = g[i - 1]
      OBVIOUS
    <3>1. i - 1 \in 0..(m - 1)
      BY <1>3
    <3>2. QED
      BY <2>2, <3>1
  <2>4. g = [i \in 0..m |-> E(g, i)]
    BY <2>3
  <2> HIDE DEF g
  <2>5. Mmrs(g, m, vec)
    BY <2>4 DEF Mmrs
  <2>6. QED
    BY <2>5
<1>4. n \in Q
  <2> HIDE DEF Q
  <2>1. QED
    BY <1>1, <1>2, <1>3, Upwards
<1>5. QED
  BY <1>1, <1>4

\* mmr selects the best of what is left, again and again, until it has k.
LEMMA MmrIs ==
    ASSUME NEW vec \in Seq(Points), k \in Nat
    PROVE  /\ Mmr(vec) \in Seq(DOMAIN vec)
           /\ Len(Mmr(vec)) = IF k < Len(vec) THEN k ELSE Len(vec)
           /\ Greedy(Mmr(vec), vec)
<1> DEFINE n == Min({k, Len(vec)})
<1>1. Len(vec) \in Nat
  BY LenProperties
<1>2. n = IF k < Len(vec) THEN k ELSE Len(vec)
  <2>1. {k, Len(vec)} \subseteq Nat /\ {k, Len(vec)} # {}
    BY <1>1
  <2>2. n \in {k, Len(vec)} /\ \A y \in {k, Len(vec)} : n <= y
    BY <2>1, MinIsLeast
  <2> HIDE DEF n
  <2>3. QED
    BY <1>1, <2>2
<1>3. n \in 0..Len(vec)
  BY <1>1, <1>2
<1>4. \E f : Mmrs(f, n, vec)
  <2> HIDE DEF n
  <2>1. QED
    BY <1>3, MmrsExists
<1>5. PICK f : Mmrs(f, n, vec) /\ Mmr(vec) = f[n]
  BY <1>4 DEF Mmr, Mmrs, NextBest
<1> HIDE DEF n
<1>6. f[n] \in Seq(DOMAIN vec) /\ Len(f[n]) = n /\ Greedy(f[n], vec)
  <2>1. n \in 0..n
    BY <1>1, <1>3
  <2>2. QED
    BY <1>3, <1>5, <2>1, MmrsGreedy
<1>7. QED
  BY <1>2, <1>5, <1>6

-----------------------------------------------------------------------------
(* The fusion *)

LEMMA Cancels ==
    ASSUME NEW w \in Nat, NEW d \in Nat \ {0}
    PROVE  (w * d) \div d = w
OBVIOUS

\* The common denominator leaves the weights exact.
LEMMA WeightIs ==
    ASSUME NEW position \in 1..KCand
    PROVE  Weight(position) \in Nat \ {0} /\ Scale = Weight(position) * (60 + position)
<1>1. PICK w \in 1..Scale : Scale = w * (60 + position)
  BY HybridAssumption
<1>2. Scale \in Nat /\ w \in Nat \ {0} /\ 60 + position \in Nat \ {0}
  BY HybridAssumption
<1>3. Weight(position) = (w * (60 + position)) \div (60 + position)
  BY <1>1 DEF Weight
<1>4. Weight(position) = w
  BY <1>2, <1>3, Cancels
<1>5. QED
  BY <1>1, <1>2, <1>4

LEMMA Products ==
    ASSUME NEW v \in Nat, NEW w \in Nat \ {0}, NEW c \in Nat, NEW d \in Nat, c < d, v * c = w * d
    PROVE  w < v
<1> SUFFICES ASSUME v <= w PROVE FALSE
  OBVIOUS
<1>1. v * c <= w * c
  OBVIOUS
<1>2. w * c < w * d
  OBVIOUS
<1>3. v * c \in Nat /\ w * c \in Nat /\ w * d \in Nat
  OBVIOUS
<1>4. QED
  BY <1>1, <1>2, <1>3

\* A better position counts more.
LEMMA WeightFalls ==
    ASSUME NEW i \in 1..KCand, NEW j \in 1..KCand, i < j
    PROVE  Weight(j) < Weight(i)
<1>1. /\ Weight(i) \in Nat \ {0} /\ Scale = Weight(i) * (60 + i)
      /\ Weight(j) \in Nat \ {0} /\ Scale = Weight(j) * (60 + j)
  BY WeightIs
<1>2. 60 + i \in Nat /\ 60 + j \in Nat /\ 60 + i < 60 + j
  OBVIOUS
<1> DEFINE v == Weight(i)  w == Weight(j)  c == 60 + i  d == 60 + j
<1>3. v \in Nat /\ w \in Nat \ {0} /\ c \in Nat /\ d \in Nat /\ c < d /\ v * c = w * d
  BY <1>1, <1>2
<1> HIDE DEF v, w, c, d
<1>4. w < v
  BY <1>3, Products
<1>5. QED
  BY <1>4 DEF v, w

\* The channels have delivered: each of them a ranking of so many points.
Delivered ==
    /\ lists \in Seq(Seq(Points)) /\ lists # <<>>
    /\ \A l \in DOMAIN lists : Len(lists[l]) <= KCand

LEMMA DeliveredIs ==
    ASSUME Delivered
    PROVE  /\ Len(lists) \in Nat \ {0} /\ DOMAIN lists = 1..Len(lists)
           /\ \A l \in DOMAIN lists :
                /\ lists[l] \in Seq(Points) /\ Len(lists[l]) \in 0..KCand
                /\ DOMAIN lists[l] = 1..Len(lists[l])
                /\ DOMAIN lists[l] \subseteq 1..KCand
                /\ IsFiniteSet(DOMAIN lists[l])
<1>1. Len(lists) \in Nat \ {0} /\ DOMAIN lists = 1..Len(lists)
  BY LenProperties, EmptySeq DEF Delivered
<1>2. KCand \in Nat
  BY HybridAssumption
<1>3. ASSUME NEW l \in DOMAIN lists
      PROVE  /\ lists[l] \in Seq(Points) /\ Len(lists[l]) \in 0..KCand
             /\ DOMAIN lists[l] = 1..Len(lists[l])
             /\ DOMAIN lists[l] \subseteq 1..KCand
             /\ IsFiniteSet(DOMAIN lists[l])
  <2>1. lists[l] \in Seq(Points)
    BY <1>1, ElementOfSeq DEF Delivered
  <2>2. Len(lists[l]) \in Nat /\ DOMAIN lists[l] = 1..Len(lists[l])
    BY <2>1, LenProperties
  <2>3. Len(lists[l]) <= KCand
    BY DEF Delivered
  <2>4. IsFiniteSet(DOMAIN lists[l])
    BY <2>2, UpToIs
  <2>5. QED
    BY <1>2, <2>1, <2>2, <2>3, <2>4
<1>4. QED
  BY <1>1, <1>3

\* What a ranking gives to an id: at least the weight of each position it has
\* there, no more than that of its only one.
LEMMA ShareIs ==
    ASSUME Delivered, NEW l \in DOMAIN lists, NEW id
    PROVE  /\ Sum(Share(l, id)) \in Nat
           /\ \A i \in DOMAIN lists[l] : IdOf[lists[l][i]] = id => Weight(i) <= Sum(Share(l, id))
           /\ \A j \in DOMAIN lists[l] :
                (\A i \in DOMAIN lists[l] : IdOf[lists[l][i]] = id => i = j)
                /\ IdOf[lists[l][j]] = id => Sum(Share(l, id)) <= Weight(j)
           /\ (\A i \in DOMAIN lists[l] : IdOf[lists[l][i]] # id) => Sum(Share(l, id)) = 0
<1> DEFINE D == DOMAIN lists[l]
           f == Share(l, id)
<1>1. IsFiniteSet(D) /\ \A i \in D : Weight(i) \in Nat
  BY DeliveredIs, WeightIs
<1>2. f = [i \in D |-> IF IdOf[lists[l][i]] = id THEN Weight(i) ELSE 0]
  BY DEF Share
<1>3. f \in [D -> Nat] /\ \A i \in D : f[i] = IF IdOf[lists[l][i]] = id THEN Weight(i) ELSE 0
  <2> HIDE DEF D, f
  <2>1. QED
    BY <1>1, <1>2
<1>4. /\ Sum(f) \in Nat
      /\ \A i \in D : f[i] <= Sum(f)
      /\ \A j \in D : (\A i \in D : i # j => f[i] = 0) => Sum(f) <= f[j]
      /\ (\A i \in D : f[i] = 0) => Sum(f) = 0
  <2> HIDE DEF D, f
  <2>1. QED
    BY <1>1, <1>3, SumBounds
<1> HIDE DEF D, f
<1>5. \A i \in D : IdOf[lists[l][i]] = id => Weight(i) <= Sum(f)
  BY <1>3, <1>4
<1>6. ASSUME NEW j \in D, \A i \in D : IdOf[lists[l][i]] = id => i = j, IdOf[lists[l][j]] = id
      PROVE  Sum(f) <= Weight(j)
  <2>1. \A i \in D : i # j => f[i] = 0
    BY <1>3, <1>6
  <2>2. f[j] = Weight(j)
    BY <1>3, <1>6
  <2>3. QED
    BY <1>4, <2>1, <2>2
<1>7. (\A i \in D : IdOf[lists[l][i]] # id) => Sum(f) = 0
  BY <1>3, <1>4
<1>8. QED
  BY <1>4, <1>5, <1>6, <1>7 DEF D, f

LEMMA ScoreIs ==
    ASSUME Delivered, NEW id
    PROVE  Score(id) \in Nat
<1> DEFINE f == [l \in DOMAIN lists |-> Sum(Share(l, id))]
<1>1. f \in [DOMAIN lists -> Nat]
  BY ShareIs
<1>2. IsFiniteSet(DOMAIN lists)
  BY DeliveredIs, UpToIs
<1>3. Score(id) = Sum(f)
  BY DEF Score
<1> HIDE DEF f
<1>4. QED
  BY <1>1, <1>2, <1>3, SumBounds

\* Who is ahead in every ranking has the higher score.
LEMMA AheadScoresMore ==
    ASSUME Delivered, NEW p \in Points, NEW q \in Points, ~Doubled(IdOf[q]),
           \A l \in DOMAIN lists : Ahead(lists[l], p, q)
    PROVE  Score(IdOf[q]) < Score(IdOf[p])
<1> DEFINE f == [l \in DOMAIN lists |-> Sum(Share(l, IdOf[q]))]
           g == [l \in DOMAIN lists |-> Sum(Share(l, IdOf[p]))]
<1>1. f \in [DOMAIN lists -> Nat] /\ g \in [DOMAIN lists -> Nat]
  BY ShareIs
<1>2. IsFiniteSet(DOMAIN lists) /\ 1 \in DOMAIN lists
  BY DeliveredIs, UpToIs
<1>3. ASSUME NEW l \in DOMAIN lists PROVE Sum(Share(l, IdOf[q])) < Sum(Share(l, IdOf[p]))
  <2> DEFINE D == DOMAIN lists[l]
             Q == {i \in D : IdOf[lists[l][i]] = IdOf[q]}
             a == Sum(Share(l, IdOf[q]))
             b == Sum(Share(l, IdOf[p]))
  <2>1. PICK i \in D : /\ IdOf[lists[l][i]] = IdOf[p]
                       /\ \A j \in D : IdOf[lists[l][j]] = IdOf[q] => i < j
    BY DEF Ahead
  <2>2. IsFiniteSet(D) /\ D \subseteq 1..KCand
    BY DeliveredIs
  <2>3. a \in Nat /\ b \in Nat /\ Weight(i) <= b /\ Weight(i) \in Nat \ {0}
    <3>1. Weight(i) \in Nat \ {0}
      BY <2>2, WeightIs
    <3>2. QED
      BY <2>1, <3>1, ShareIs
  <2>4. CASE Q = {}
    <3>1. a = 0
      BY <2>4, ShareIs
    <3> HIDE DEF a, b
    <3>2. a < b
      BY <2>3, <3>1
    <3>3. QED
      BY <3>2 DEF a, b
  <2>5. CASE Q # {}
    <3>1. PICK j \in Q : TRUE
      BY <2>5
    <3>2. ASSUME NEW m \in Q, m # j PROVE FALSE
      <4>1. IsFiniteSet({j}) /\ Cardinality({j}) = 1
        BY FS_Singleton
      <4>2. Cardinality({j} \cup {m}) = 2 /\ IsFiniteSet({j} \cup {m})
        BY <3>2, <4>1, FS_AddElement
      <4>3. {j} \cup {m} \in SUBSET Q
        BY <3>1, <3>2
      <4>4. IsFiniteSet(Q) /\ Cardinality(Q) \in Nat
        BY <2>2, FS_Subset, FS_CardinalityType
      <4>5. ~(Cardinality(Q) > 1)
        BY DEF Doubled
      <4> HIDE DEF Q
      <4>6. 2 <= Cardinality(Q)
        BY <4>2, <4>3, <4>4, FS_Subset
      <4>7. QED
        BY <4>4, <4>5, <4>6
    <3>3. a <= Weight(j)
      BY <3>1, <3>2, ShareIs
    <3>4. i < j
      BY <2>1, <3>1
    <3>5. Weight(j) < Weight(i) /\ Weight(j) \in Nat
      BY <2>2, <3>1, <3>4, WeightFalls, WeightIs
    <3> HIDE DEF a, b
    <3>6. a < b
      BY <2>3, <3>3, <3>5
    <3>7. QED
      BY <3>6 DEF a, b
  <2>6. QED
    BY <2>4, <2>5
<1>4. \A l \in DOMAIN lists : f[l] < g[l] /\ f[l] \in Nat /\ g[l] \in Nat
  BY <1>1, <1>3
<1>5. Score(IdOf[q]) = Sum(f) /\ Score(IdOf[p]) = Sum(g)
  BY DEF Score
<1> HIDE DEF f, g
<1>6. \A l \in DOMAIN lists : f[l] <= g[l]
  BY <1>4
<1>7. Sum(f) < Sum(g)
  BY <1>1, <1>2, <1>4, <1>6, SumGrows
<1>8. QED
  BY <1>5, <1>7

Seen == Range(Ids(All))

LEMMA AllIs ==
    ASSUME Delivered
    PROVE  /\ All \in Seq(Points)
           /\ Range(All) = UNION {Range(lists[l]) : l \in DOMAIN lists}
           /\ Len(lists) = 1 => All = lists[1]
           /\ IsFiniteSet(Seen)
           /\ Seen = {IdOf[p] : p \in Range(All)}
<1>1. /\ All \in Seq(Points)
      /\ Range(All) = UNION {Range(lists[l]) : l \in DOMAIN lists}
      /\ Len(lists) = 1 => All = lists[1]
  BY FlattenIs DEF Delivered, All
<1>2. DOMAIN All = 1..Len(All) /\ Len(All) \in Nat
  BY <1>1, LenProperties
<1>3. Seen = {IdOf[All[i]] : i \in DOMAIN All}
  BY DEF Seen, Ids, Range
<1>4. Seen = {IdOf[p] : p \in Range(All)}
  BY <1>3 DEF Range
<1>5. IsFiniteSet(Seen)
  <2> DEFINE f == [i \in 1..Len(All) |-> IdOf[All[i]]]
  <2>1. f \in Surjection(1..Len(All), Seen)
    BY <1>2, <1>3 DEF Surjection
  <2>2. IsFiniteSet(1..Len(All))
    BY <1>2, UpToIs
  <2> HIDE DEF f
  <2>3. QED
    BY <2>1, <2>2, FS_Surjection
<1>6. QED
  BY <1>1, <1>4, <1>5

\* by_id holds for each id a point that has it.
LEMMA HolderIs ==
    ASSUME Delivered, NEW id \in Seen
    PROVE  /\ FirstSeen(id) \in DOMAIN All /\ FirstSeen(id) \in Nat
           /\ Holder(id) = All[FirstSeen(id)]
           /\ Holder(id) \in Range(All) /\ Holder(id) \in Points
           /\ IdOf[Holder(id)] = id
<1> DEFINE F == {i \in DOMAIN All : IdOf[All[i]] = id}
<1>1. All \in Seq(Points) /\ DOMAIN All \subseteq Nat /\ \A i \in DOMAIN All : All[i] \in Points
  <2>1. All \in Seq(Points)
    BY AllIs
  <2>2. QED
    BY <2>1, LenProperties
<1>2. F # {} /\ F \subseteq Nat
  <2>1. PICK p \in Range(All) : id = IdOf[p]
    BY AllIs
  <2>2. QED
    BY <1>1, <2>1 DEF Range
<1>3. FirstSeen(id) = Min(F)
  BY DEF FirstSeen
<1>4. Min(F) \in F
  <2> HIDE DEF F
  <2>1. QED
    BY <1>2, MinIsLeast
<1>5. QED
  BY <1>1, <1>3, <1>4 DEF Holder, Range

LEMMA SortedIs ==
    ASSUME Delivered
    PROVE  /\ SortedIds \in SetToSeqs(Seen)
           /\ \A i, j \in DOMAIN SortedIds : i < j => Before(SortedIds[i], SortedIds[j])
<1> DEFINE score == [id \in Seen |-> Score(id)]
           place == [id \in Seen |-> FirstSeen(id)]
<1>1. score \in [Seen -> Nat] /\ place \in [Seen -> Nat]
  BY ScoreIs, HolderIs
<1>2. \A a, b \in Seen : place[a] = place[b] => a = b
  <2> SUFFICES ASSUME NEW a \in Seen, NEW b \in Seen, FirstSeen(a) = FirstSeen(b) PROVE a = b
    OBVIOUS
  <2>1. Holder(a) = Holder(b)
    BY HolderIs
  <2>2. QED
    BY <2>1, HolderIs
<1>3. IsFiniteSet(Seen)
  BY AllIs
<1>4. \A id \in Seen : score[id] = Score(id) /\ place[id] = FirstSeen(id)
  OBVIOUS
<1> HIDE DEF score, place
<1>5. PICK s \in SetToSeqs(Seen) : \A i, j \in DOMAIN s : i < j =>
             \/ score[s[i]] > score[s[j]]
             \/ score[s[i]] = score[s[j]] /\ place[s[i]] < place[s[j]]
  BY <1>1, <1>2, <1>3, SortExists
<1>6. \A i \in DOMAIN s : s[i] \in Seen
  BY <1>3, PermutationIs, LenProperties
<1>7. \A i, j \in DOMAIN s : i < j => Before(s[i], s[j])
  BY <1>4, <1>5, <1>6 DEF Before
<1>8. QED
  BY <1>5, <1>7 DEF SortedIds, Seen

\* What becomes of the rankings: one is kept, of several each id is in
\* once, a higher score first.
LEMMA FusedIs ==
    ASSUME Delivered
    PROVE  /\ Fused \in Seq(Points)
           /\ \A i \in DOMAIN Fused : Fused[i] \in Range(All)
           /\ Len(lists) = 1 =>
                /\ Len(Fused) = Len(lists[1])
                /\ \A i \in DOMAIN Fused :
                     IdOf[Fused[i]] = IdOf[lists[1][i]]
           /\ Len(lists) # 1 =>
                /\ Len(Fused) = Cardinality(Seen)
                /\ \A i, j \in DOMAIN Fused : IdOf[Fused[i]] = IdOf[Fused[j]] => i = j
                /\ \A id \in Seen : \E i \in DOMAIN Fused : IdOf[Fused[i]] = id
                /\ \A i, j \in DOMAIN Fused :
                     i < j => Score(IdOf[Fused[j]]) <= Score(IdOf[Fused[i]])
<1>1. Len(lists) \in Nat \ {0} /\ IsFiniteSet(Seen)
  BY DeliveredIs, AllIs
<1>2. CASE Len(lists) = 1
  <2> DEFINE s == lists[1]
  <2>1. s \in Seq(Points) /\ All = s /\ DOMAIN s = 1..Len(s) /\ Len(s) \in Nat
    <3>1. 1 \in DOMAIN lists
      BY <1>2, DeliveredIs
    <3>2. s \in Seq(Points)
      BY <3>1, DeliveredIs
    <3>3. All = s
      BY <1>2, AllIs
    <3> HIDE DEF s
    <3>4. QED
      BY <3>2, <3>3, LenProperties
  <2>2. Fused = [i \in 1..Len(s) |-> Holder(IdOf[s[i]])]
    BY <1>2, <2>1 DEF Fused
  <2> HIDE DEF s
  <2>3. \A i \in 1..Len(s) : IdOf[s[i]] \in Seen
    BY <2>1 DEF Seen, Ids, Range
  <2>4. \A i \in 1..Len(s) : /\ Holder(IdOf[s[i]]) \in Points
                             /\ Holder(IdOf[s[i]]) \in Range(All)
                             /\ IdOf[Holder(IdOf[s[i]])] = IdOf[s[i]]
    BY <2>3, HolderIs
  <2>5. Fused \in [1..Len(s) -> Points]
    BY <2>2, <2>4
  <2>6. Fused \in Seq(Points) /\ Len(Fused) = Len(s) /\ DOMAIN Fused = 1..Len(s)
    BY <2>1, <2>5, SeqOfFunction
  <2>7. \A i \in DOMAIN Fused : Fused[i] \in Range(All) /\ IdOf[Fused[i]] = IdOf[s[i]]
    BY <2>2, <2>4, <2>6
  <2>8. QED
    BY <1>2, <2>6, <2>7 DEF s
<1>3. CASE Len(lists) # 1
  <2> DEFINE s == SortedIds  n == Cardinality(Seen)
  <2>1. s \in SetToSeqs(Seen) /\ \A i, j \in DOMAIN s : i < j => Before(s[i], s[j])
    BY SortedIs
  <2>2. Fused = [i \in DOMAIN s |-> Holder(s[i])]
    <3>1. Len(lists) > 1
      BY <1>1, <1>3
    <3>2. QED
      BY <3>1 DEF Fused
  <2> HIDE DEF s
  <2>3. /\ s \in Seq(Seen) /\ DOMAIN s = 1..n
        /\ \A i, j \in DOMAIN s : s[i] = s[j] => i = j
        /\ \A x \in Seen : \E i \in DOMAIN s : s[i] = x
    BY <1>1, <2>1, PermutationIs
  <2>4. \A i \in 1..n : s[i] \in Seen
    BY <2>1 DEF SetToSeqs
  <2>5. \A i \in 1..n : /\ Holder(s[i]) \in Points /\ Holder(s[i]) \in Range(All)
                        /\ IdOf[Holder(s[i])] = s[i]
    BY <2>4, HolderIs
  <2>6. Fused \in [1..n -> Points]
    BY <2>2, <2>3, <2>5
  <2>7. Fused \in Seq(Points) /\ Len(Fused) = n /\ DOMAIN Fused = 1..n
    <3>1. n \in Nat
      BY <1>1, FS_CardinalityType
    <3> HIDE DEF n
    <3>2. QED
      BY <2>6, <3>1, SeqOfFunction
  <2>8. \A i \in DOMAIN Fused : Fused[i] \in Range(All) /\ IdOf[Fused[i]] = s[i]
    BY <2>2, <2>3, <2>5, <2>7
  <2>9. ASSUME NEW i \in DOMAIN Fused, NEW j \in DOMAIN Fused, i < j
        PROVE  Score(s[j]) <= Score(s[i])
    <3>1. Before(s[i], s[j])
      BY <2>1, <2>3, <2>7, <2>9
    <3>2. Score(s[i]) \in Nat /\ Score(s[j]) \in Nat
      BY ScoreIs
    <3>3. QED
      BY <3>1, <3>2 DEF Before
  <2>10. QED
    BY <1>3, <2>3, <2>7, <2>8, <2>9
<1>4. QED
  BY <1>2, <1>3

-----------------------------------------------------------------------------
(* The invariant *)

Lesser(a, b) == IF a < b THEN a ELSE b
Wanted == Min({k, KCand, found})

\* A list of candidates: all pass the filter, and where two have the same
\* id, they come from a single ranking and the id names two points.
Listed(s, filter, single) ==
    /\ s \in Seq(Points)
    /\ \A i \in DOMAIN s : Matches(s[i], filter)
    /\ \A i, j \in DOMAIN s : i # j /\ IdOf[s[i]] = IdOf[s[j]] => single /\ Shared(s[i])

HybridTypes ==
    /\ stage \in {"dense", "lexical", "fuse", "rerank", "mmr", "select", "done"}
    /\ flags \subseteq FlagNames /\ k \in Nat \ {0}
    /\ found \in Nat /\ alone \in BOOLEAN
    /\ stored \subseteq Points

\* The rankings, the first of them the store's.
Ranked ==
    /\ lists \in Seq(Seq(Points))
    /\ \A l \in DOMAIN lists :
         Len(lists[l]) <= KCand /\ \A i \in DOMAIN lists[l] : Matches(lists[l][i], where)
    /\ stage \in {"lexical", "fuse"} => lists # <<>> /\ IsInjective(lists[1])

\* Until the re-ranking the candidates are the best of the fusion.
FusedKept == stage \in {"rerank", "mmr"} /\ lists # <<>> => cands = Cut(Fused, KCand)

\* What is missing at the end was not in the store any more.
Enough ==
    \/ Len(cands) = Wanted
    \/ /\ "mmr" \in flags /\ Len(cands) \in 1..Wanted
       /\ Range(pool) \cap stored \subseteq Range(cands)

\* Enough candidates are left at each stage, and good ones.
Candidates ==
    /\ stage \in {"rerank", "mmr", "select", "done"} => Listed(cands, where, alone)
    /\ stage \in {"rerank", "mmr"} => Lesser(k, Len(cands)) = Wanted
    /\ stage = "select" => Listed(pool, where, alone) /\ Lesser(k, Len(pool)) = Wanted
    /\ stage = "select" => "mmr" \in flags
    /\ stage = "done" => Enough

HybridInv == HybridTypes /\ Ranked /\ FusedKept /\ Candidates

LEMMA MinOfThree ==
    ASSUME NEW a \in Nat, NEW b \in Nat, NEW c \in Nat
    PROVE  Min({a, b, c}) = Lesser(a, Lesser(b, c))
<1> DEFINE S == {a, b, c}
<1>1. S \subseteq Nat /\ S # {}
  OBVIOUS
<1>2. Min(S) \in S /\ \A y \in S : Min(S) <= y
  <2> HIDE DEF S
  <2>1. QED
    BY <1>1, MinIsLeast
<1> DEFINE m == Min(S)
<1>3. m \in {a, b, c} /\ m <= a /\ m <= b /\ m <= c
  BY <1>2
<1> HIDE DEF m
<1>4. m = Lesser(a, Lesser(b, c))
  BY <1>3 DEF Lesser
<1>5. QED
  BY <1>4 DEF m

LEMMA CutListed ==
    ASSUME NEW filter, NEW single, NEW s, Listed(s, filter, single), NEW n \in Nat
    PROVE  Listed(Cut(s, n), filter, single) /\ Len(Cut(s, n)) = Lesser(n, Len(s))
<1> DEFINE c == Cut(s, n)
<1>1. s \in Seq(Points)
  BY DEF Listed
<1>2. /\ c \in Seq(Points)
      /\ Len(c) = IF n < Len(s) THEN n ELSE Len(s)
      /\ \A i \in DOMAIN c : i \in DOMAIN s /\ c[i] = s[i]
  BY <1>1, CutIs
<1> HIDE DEF c
<1>3. Listed(c, filter, single)
  BY <1>2 DEF Listed
<1>4. QED
  BY <1>2, <1>3 DEF c, Lesser

Selected(s, order) == [i \in DOMAIN order |-> s[order[i]]]

\* Whoever orders or selects by distinct indices keeps a list's promises.
LEMMA SelectionListed ==
    ASSUME NEW filter, NEW single, NEW s, Listed(s, filter, single),
           NEW order \in Seq(DOMAIN s),
           \A i, j \in DOMAIN order : order[i] = order[j] => i = j
    PROVE  /\ Listed(Selected(s, order), filter, single)
           /\ Len(Selected(s, order)) = Len(order)
<1> DEFINE t == Selected(s, order)
<1>1. s \in Seq(Points) /\ \A i \in DOMAIN s : s[i] \in Points
  BY LenProperties DEF Listed
<1>2. /\ DOMAIN order = 1..Len(order) /\ Len(order) \in Nat
      /\ \A i \in DOMAIN order : order[i] \in DOMAIN s
  BY LenProperties
<1>3. t \in [1..Len(order) -> Points]
  BY <1>1, <1>2 DEF Selected
<1>4. \A i \in DOMAIN order : t[i] = s[order[i]]
  BY DEF Selected
<1> HIDE DEF t
<1>5. t \in Seq(Points) /\ Len(t) = Len(order) /\ DOMAIN t = DOMAIN order
  BY <1>2, <1>3, SeqOfFunction
<1>6. Listed(t, filter, single)
  BY <1>2, <1>4, <1>5 DEF Listed
<1>7. QED
  BY <1>5, <1>6 DEF t

LEMMA RankingIs ==
    ASSUME NEW S \in SUBSET Points, NEW s \in Rankings(S)
    PROVE  /\ s \in Seq(Points) /\ IsInjective(s)
           /\ \A i \in DOMAIN s : s[i] \in S
<1>1. PICK T \in SUBSET S : s \in SetToSeqs(T)
  BY DEF Rankings
<1>2. IsFiniteSet(T) /\ T \subseteq Points
  BY HybridAssumption, FS_Subset
<1>3. s \in Seq(T) /\ \A i, j \in DOMAIN s : s[i] = s[j] => i = j
  BY <1>1, <1>2, PermutationIs
<1>4. s \in Seq(Points)
  BY <1>2, <1>3, SeqMonotonic
<1>5. \A i \in DOMAIN s : s[i] \in S
  BY <1>3, LenProperties
<1>6. QED
  BY <1>3, <1>4, <1>5 DEF IsInjective

LEMMA HybridInvInit == HybridInit => HybridInv
<1> SUFFICES ASSUME HybridInit PROVE HybridInv
  OBVIOUS
<1>1. HybridTypes
  <2>1. flags \subseteq FlagNames
    BY DEF HybridInit, Resolve
  <2>2. k \in Nat \ {0}
    BY HybridAssumption DEF HybridInit
  <2>3. QED
    BY <2>1, <2>2 DEF HybridInit, HybridTypes
<1>2. Ranked
  <2>1. <<>> \in Seq(Seq(Points)) /\ DOMAIN <<>> = {}
    BY EmptySeq
  <2>2. lists \in Seq(Seq(Points)) /\ DOMAIN lists = {}
    BY <2>1 DEF HybridInit
  <2>3. QED
    BY <2>2 DEF HybridInit, Ranked
<1>3. FusedKept /\ Candidates
  BY DEF HybridInit, FusedKept, Candidates
<1>4. QED
  BY <1>1, <1>2, <1>3 DEF HybridInv

-----------------------------------------------------------------------------
(* The channels *)

LEMMA VariantIs ==
    ASSUME NEW queries \in Variants
    PROVE  Len(queries) \in Nat \ {0}
<1> DEFINE X == {"hypothesis", "query", "wording"}
<1>1. PICK h \in Hypotheses, w \in Wordings : queries = <<h>> \o w
  BY DEF Variants
<1>2. h \in X
  BY DEF Hypotheses
<1>3. <<h>> \in Seq(X) /\ Len(<<h>>) = 1
  BY <1>2
<1>4. w = <<>> \/ w = <<"wording">>
  BY DEF Wordings
<1>5. w \in Seq(X)
  <2>1. <<"wording">> \in Seq(X)
    OBVIOUS
  <2>2. <<>> \in Seq(X)
    BY EmptySeq
  <2>3. QED
    BY <1>4, <2>1, <2>2
<1> HIDE DEF X
<1>6. Len(w) \in Nat /\ Len(queries) = 1 + Len(w)
  BY <1>1, <1>3, <1>5, ConcatProperties, LenProperties
<1>7. QED
  BY <1>6

LEMMA NearestIs ==
    ASSUME NEW store \in Stores, NEW s \in Nearest(store)
    PROVE  /\ s \in Seq(Points) /\ IsInjective(s) /\ Len(s) <= KCand
           /\ \A i \in DOMAIN s : Matches(s[i], where)
<1> DEFINE S == Filtered(store)
           M == {KCand, Cardinality(S)}
<1>1. S \in SUBSET Points /\ s \in Rankings(S) /\ Len(s) = Min(M)
  BY HybridAssumption DEF Nearest, Filtered
<1>2. s \in Seq(Points) /\ IsInjective(s) /\ \A i \in DOMAIN s : s[i] \in S
  <2> HIDE DEF S
  <2>1. QED
    BY <1>1, RankingIs
<1>3. Cardinality(S) \in Nat /\ KCand \in Nat
  <2> HIDE DEF S
  <2>1. QED
    BY <1>1, HybridAssumption, FS_Subset, FS_CardinalityType
<1>4. M \subseteq Nat /\ M # {} /\ KCand \in M
  BY <1>3
<1>5. Min(M) <= KCand
  <2> HIDE DEF M
  <2>1. QED
    BY <1>4, MinIsLeast
<1>6. \A i \in DOMAIN s : Matches(s[i], where)
  BY <1>2 DEF Matches, Filtered
<1>7. QED
  BY <1>1, <1>2, <1>5, <1>6

LEMMA DenseStep == HybridInv /\ DenseChannel => HybridInv'
<1> SUFFICES ASSUME HybridInv, DenseChannel PROVE HybridInv'
  OBVIOUS
<1>1. stage' \in {"lexical", "fuse"}
  BY DEF DenseChannel
<1>2. UNCHANGED <<flags, where, k, cands, pool, stored, alone, found>>
  BY DEF DenseChannel
<1>3. PICK queries \in Variants :
        lists' \in [1..Len(queries) -> UNION {Nearest(store) : store \in Stores}]
  BY DEF DenseChannel
<1>4. Len(queries) \in Nat \ {0}
  BY VariantIs
<1>5. \A l \in 1..Len(queries) : \E store \in Stores : lists'[l] \in Nearest(store)
  BY <1>3
<1>6. \A l \in 1..Len(queries) : /\ lists'[l] \in Seq(Points) /\ IsInjective(lists'[l])
                                 /\ Len(lists'[l]) <= KCand
                                 /\ \A i \in DOMAIN lists'[l] : Matches(lists'[l][i], where)
  BY <1>5, NearestIs
<1>7. lists' \in [1..Len(queries) -> Seq(Points)]
  BY <1>3, <1>6
<1>8. lists' \in Seq(Seq(Points)) /\ Len(lists') = Len(queries) /\ DOMAIN lists' = 1..Len(queries)
  <2> DEFINE X == Seq(Points)  n == Len(queries)
  <2>1. n \in Nat /\ lists' \in [1..n -> X]
    BY <1>4, <1>7
  <2> HIDE DEF X, n
  <2>2. lists' \in Seq(X) /\ Len(lists') = n /\ DOMAIN lists' = 1..n
    BY <2>1, SeqOfFunction
  <2>3. QED
    BY <2>2 DEF X, n
<1>9. lists' # <<>> /\ IsInjective(lists'[1])
  <2>1. 1 \in DOMAIN lists'
    BY <1>4, <1>8
  <2>2. QED
    BY <1>6, <1>8, <2>1
<1>10. Ranked'
  BY <1>2, <1>6, <1>8, <1>9 DEF Ranked
<1>11. HybridTypes'
  BY <1>1, <1>2 DEF HybridInv, HybridTypes
<1>12. FusedKept' /\ Candidates'
  BY <1>1 DEF FusedKept, Candidates
<1>13. QED
  BY <1>10, <1>11, <1>12 DEF HybridInv

LEMMA LexicalStep == HybridInv /\ LexicalChannel => HybridInv'
<1> SUFFICES ASSUME HybridInv, LexicalChannel PROVE HybridInv'
  OBVIOUS
<1>1. stage = "lexical" /\ stage' = "fuse"
  BY DEF LexicalChannel
<1>2. UNCHANGED <<flags, where, k, cands, pool, stored, alone, found>>
  BY DEF LexicalChannel
<1>3. PICK s \in Rankings(Points) : lists' = Append(lists, Matching(Cut(s, KCand)))
  BY DEF LexicalChannel
<1> DEFINE c == Cut(s, KCand)  m == Matching(c)  X == Seq(Points)
<1>4. KCand \in Nat /\ s \in Seq(Points)
  BY HybridAssumption, RankingIs
<1>5. c \in Seq(Points) /\ Len(c) <= KCand
  BY <1>4, CutIs, LenProperties
<1> HIDE DEF c
<1>6. /\ m \in Seq(Points) /\ Len(m) <= Len(c)
      /\ \A i \in DOMAIN m : Matches(m[i], where)
  BY <1>5, MatchingIs
<1> HIDE DEF m
<1>7. Len(m) <= KCand
  BY <1>4, <1>5, <1>6, LenProperties
<1>8. lists' = Append(lists, m) /\ m \in X
  BY <1>3, <1>6 DEF c, m
<1>9. lists \in Seq(X) /\ lists # <<>> /\ IsInjective(lists[1])
  BY <1>1 DEF HybridInv, Ranked
<1>10. \A l \in DOMAIN lists :
         Len(lists[l]) <= KCand /\ \A i \in DOMAIN lists[l] : Matches(lists[l][i], where)
  BY DEF HybridInv, Ranked
<1> HIDE DEF X
<1>11. /\ lists' \in Seq(X) /\ lists' # <<>> /\ Len(lists') = Len(lists) + 1
       /\ \A l \in 1..Len(lists) : lists'[l] = lists[l]
       /\ lists'[Len(lists) + 1] = m
  BY <1>8, <1>9, AppendProperties
<1>12. /\ Len(lists) \in Nat \ {0} /\ DOMAIN lists = 1..Len(lists)
       /\ DOMAIN lists' = 1..(Len(lists) + 1)
  BY <1>9, <1>11, LenProperties, EmptySeq
<1>13. ASSUME NEW l \in DOMAIN lists'
       PROVE  Len(lists'[l]) <= KCand /\ \A i \in DOMAIN lists'[l] : Matches(lists'[l][i], where)
  <2>1. CASE l = Len(lists) + 1
    BY <1>6, <1>7, <1>11, <2>1
  <2>2. CASE l # Len(lists) + 1
    <3>1. l \in DOMAIN lists /\ lists'[l] = lists[l]
      BY <1>11, <1>12, <2>2
    <3>2. QED
      BY <1>10, <3>1
  <2>3. QED
    BY <2>1, <2>2
<1>14. lists'[1] = lists[1]
  BY <1>11, <1>12
<1>15. Ranked'
  BY <1>2, <1>9, <1>11, <1>13, <1>14 DEF Ranked, X
<1>16. HybridTypes'
  BY <1>1, <1>2 DEF HybridInv, HybridTypes
<1>17. FusedKept' /\ Candidates'
  BY <1>1 DEF FusedKept, Candidates
<1>18. QED
  BY <1>15, <1>16, <1>17 DEF HybridInv

-----------------------------------------------------------------------------
(* Fusion, re-ranking, selection *)

\* The fusion reads nothing but the rankings.
LEMMA FusedStays == lists' = lists => Fused' = Fused
<1> SUFFICES ASSUME lists' = lists PROVE Fused' = Fused
  OBVIOUS
<1>1. QED
  BY DEF Fused, SortedIds, Before, Score, Share, FirstSeen, Holder, All, Ids

LEMMA FusedListed ==
    ASSUME Delivered, Ranked, IsInjective(lists[1])
    PROVE  Listed(Fused, where, Len(lists) = 1)
<1>1. Fused \in Seq(Points) /\ \A i \in DOMAIN Fused : Fused[i] \in Range(All)
  BY FusedIs
<1>2. ASSUME NEW i \in DOMAIN Fused PROVE Matches(Fused[i], where)
  <2>1. PICK l \in DOMAIN lists : Fused[i] \in Range(lists[l])
    BY <1>1, AllIs
  <2>2. QED
    BY <2>1 DEF Ranked, Range
<1>3. ASSUME NEW i \in DOMAIN Fused, NEW j \in DOMAIN Fused, i # j,
             IdOf[Fused[i]] = IdOf[Fused[j]]
      PROVE  Len(lists) = 1 /\ Shared(Fused[i])
  <2>1. Len(lists) = 1
    BY <1>3, FusedIs
  <2> DEFINE s == lists[1]
  <2>2. s \in Seq(Points) /\ Len(Fused) = Len(s)
    <3>1. 1 \in DOMAIN lists
      BY <2>1, DeliveredIs
    <3>2. QED
      BY <2>1, <3>1, DeliveredIs, FusedIs
  <2>3. IdOf[Fused[i]] = IdOf[s[i]] /\ IdOf[Fused[j]] = IdOf[s[j]] /\ IsInjective(s)
    BY <2>1, FusedIs
  <2> HIDE DEF s
  <2>4. i \in DOMAIN s /\ j \in DOMAIN s /\ s[i] \in Points /\ s[j] \in Points
    BY <1>1, <2>2, LenProperties
  <2>5. s[i] # s[j]
    BY <1>3, <2>3, <2>4 DEF IsInjective
  <2>6. PICK q \in {s[i], s[j]} : q # Fused[i]
    BY <2>5
  <2>7. q \in Points \ {Fused[i]} /\ IdOf[q] = IdOf[Fused[i]]
    BY <1>3, <2>3, <2>4, <2>6
  <2>8. QED
    BY <2>1, <2>7 DEF Shared
<1>4. QED
  BY <1>1, <1>2, <1>3 DEF Listed

LEMMA FuseStep == HybridInv /\ Fuse => HybridInv'
<1> SUFFICES ASSUME HybridInv, Fuse PROVE HybridInv'
  OBVIOUS
<1>1. /\ stage = "fuse" /\ stage' \in {"rerank", "mmr"}
      /\ cands' = Cut(Fused, KCand) /\ alone' = (Len(lists) = 1)
      /\ UNCHANGED <<flags, where, k, lists, pool, stored>>
  BY DEF Fuse
<1>2. Ranked /\ lists # <<>> /\ IsInjective(lists[1])
  BY <1>1 DEF HybridInv, Ranked
<1>3. Delivered
  BY <1>2 DEF Ranked, Delivered
<1>4. Listed(Fused, where, alone')
  BY <1>1, <1>2, <1>3, FusedListed
<1>5. KCand \in Nat /\ k \in Nat
  BY HybridAssumption DEF HybridInv, HybridTypes
<1>6. Listed(cands', where, alone') /\ Len(cands') = Lesser(KCand, Len(Fused))
  BY <1>1, <1>4, <1>5, CutListed
<1>7. found' = Len(Fused)
  <2>1. found' = IF Len(lists) = 1 THEN Len(All) ELSE Cardinality(Seen)
    BY DEF Fuse, Seen
  <2>2. QED
    BY <1>3, <2>1, AllIs, FusedIs
<1>8. Len(Fused) \in Nat
  BY <1>4, LenProperties DEF Listed
<1>9. Lesser(k, Len(cands')) = Min({k, KCand, found'})
  BY <1>5, <1>6, <1>7, <1>8, MinOfThree
<1>10. HybridTypes'
  BY <1>1, <1>7, <1>8 DEF HybridInv, HybridTypes
<1>11. Ranked'
  BY <1>1, <1>2 DEF Ranked
<1>12. FusedKept'
  BY <1>1, FusedStays DEF FusedKept
<1>13. Candidates'
  BY <1>1, <1>6, <1>9 DEF Candidates, Wanted
<1>14. QED
  BY <1>10, <1>11, <1>12, <1>13 DEF HybridInv

\* Once the rankings are let go of, nothing depends on them.
LEMMA RankingsGone ==
    ASSUME lists' = <<>>, stage' \notin {"lexical", "fuse"}
    PROVE  Ranked' /\ FusedKept'
<1>1. <<>> \in Seq(Seq(Points)) /\ DOMAIN <<>> = {}
  BY EmptySeq
<1>2. lists' \in Seq(Seq(Points)) /\ DOMAIN lists' = {}
  BY <1>1
<1>3. QED
  BY <1>2 DEF Ranked, FusedKept

LEMMA KeptIs ==
    ASSUME HybridInv
    PROVE  Kept \in Nat /\ k \in Nat /\ k <= Kept /\ 4 * k \in Nat /\ k <= 4 * k
<1>1. k \in Nat
  BY DEF HybridInv, HybridTypes
<1>2. QED
  BY <1>1 DEF Kept

LEMMA RerankStep == HybridInv /\ Rerank => HybridInv'
<1> SUFFICES ASSUME HybridInv, Rerank PROVE HybridInv'
  OBVIOUS
<1>1. /\ stage = "rerank" /\ stage' = "mmr" /\ lists' = <<>>
      /\ UNCHANGED <<flags, where, k, pool, stored, alone, found>>
  BY DEF Rerank
<1>2. PICK order \in SetToSeqs(DOMAIN cands) :
        cands' = Cut(Selected(cands, order), Kept)
  BY DEF Rerank, TopK, Selected
<1> DEFINE s == Selected(cands, order)
<1>3. Listed(cands, where, alone) /\ Lesser(k, Len(cands)) = Wanted
  BY <1>1 DEF HybridInv, Candidates
<1>4. DOMAIN cands = 1..Len(cands) /\ Len(cands) \in Nat
  BY <1>3, LenProperties DEF Listed
<1>5. IsFiniteSet(DOMAIN cands) /\ Cardinality(DOMAIN cands) = Len(cands)
  BY <1>4, UpToIs
<1>6. /\ order \in Seq(DOMAIN cands) /\ Len(order) = Len(cands)
      /\ \A i, j \in DOMAIN order : order[i] = order[j] => i = j
  BY <1>5, PermutationIs
<1>7. Listed(s, where, alone) /\ Len(s) = Len(cands)
  BY <1>3, <1>6, SelectionListed
<1>0. cands' = Cut(s, Kept)
  BY <1>2
<1> HIDE DEF s
<1>8. Kept \in Nat /\ k \in Nat /\ k <= Kept
  BY KeptIs
<1>9. Listed(cands', where, alone) /\ Len(cands') = Lesser(Kept, Len(cands))
  BY <1>0, <1>7, <1>8, CutListed
<1>10. Lesser(k, Len(cands')) = Wanted
  BY <1>3, <1>4, <1>8, <1>9 DEF Lesser
<1>11. HybridTypes'
  BY <1>1 DEF HybridInv, HybridTypes
<1>12. Candidates'
  BY <1>1, <1>9, <1>10 DEF Candidates, Wanted
<1>13. QED
  BY <1>1, <1>11, <1>12, RankingsGone DEF HybridInv

LEMMA DiversifyStep == HybridInv /\ Diversify => HybridInv'
<1> SUFFICES ASSUME HybridInv, Diversify PROVE HybridInv'
  OBVIOUS
<1>1. /\ stage = "mmr" /\ stage' = "select" /\ lists' = <<>> /\ pool' = Cut(cands, 4 * k)
      /\ "mmr" \in flags /\ stored' \in Stores
      /\ UNCHANGED <<flags, where, k, cands, alone, found>>
  BY DEF Diversify
<1>2. Listed(cands, where, alone) /\ Lesser(k, Len(cands)) = Wanted
  BY <1>1 DEF HybridInv, Candidates
<1>3. Len(cands) \in Nat
  BY <1>2, LenProperties DEF Listed
<1>4. k \in Nat /\ 4 * k \in Nat /\ k <= 4 * k
  BY KeptIs
<1>5. Listed(pool', where, alone) /\ Len(pool') = Lesser(4 * k, Len(cands))
  BY <1>1, <1>2, <1>4, CutListed
<1>6. Lesser(k, Len(pool')) = Wanted
  BY <1>2, <1>3, <1>4, <1>5 DEF Lesser
<1>7. HybridTypes'
  BY <1>1, HybridAssumption DEF HybridInv, HybridTypes
<1>8. Candidates'
  BY <1>1, <1>2, <1>5, <1>6 DEF Candidates, Wanted
<1>9. QED
  BY <1>1, <1>7, <1>8, RankingsGone DEF HybridInv

LEMMA KeepFirstStep == HybridInv /\ KeepFirst => HybridInv'
<1> SUFFICES ASSUME HybridInv, KeepFirst PROVE HybridInv'
  OBVIOUS
<1>1. /\ stage = "mmr" /\ stage' = "done" /\ lists' = <<>> /\ cands' = Cut(cands, k)
      /\ UNCHANGED <<flags, where, k, pool, stored, alone, found>>
  BY DEF KeepFirst
<1>2. Listed(cands, where, alone) /\ Lesser(k, Len(cands)) = Wanted
  BY <1>1 DEF HybridInv, Candidates
<1>3. k \in Nat
  BY KeptIs
<1>4. Listed(cands', where, alone) /\ Len(cands') = Wanted
  BY <1>1, <1>2, <1>3, CutListed
<1>5. HybridTypes'
  BY <1>1 DEF HybridInv, HybridTypes
<1>6. Candidates'
  BY <1>1, <1>4 DEF Candidates, Wanted, Enough
<1>7. QED
  BY <1>1, <1>5, <1>6, RankingsGone DEF HybridInv

\* The vectors of the pairs, as mmr gets them.
Vecs(v) == [i \in DOMAIN Pairs |-> v[IdOf[Pairs[i]]]]

LEMMA PairsAre ==
    ASSUME pool \in Seq(Points)
    PROVE  /\ Pairs \in Seq(Points) /\ Len(Pairs) <= Len(pool)
           /\ \A i \in DOMAIN Pairs : LookedUp(IdOf[Pairs[i]]) # {}
           /\ \A i \in DOMAIN pool : LookedUp(IdOf[pool[i]]) # {} => pool[i] \in Range(Pairs)
           /\ \E o \in Seq(DOMAIN pool) : /\ Pairs = Selected(pool, o)
                                          /\ \A i, j \in DOMAIN o : o[i] = o[j] => i = j
<1> DEFINE set == {p \in Points : LookedUp(IdOf[p]) # {}}
           m == Len(Pairs)  n == Len(pool)
<1>1. Sifted(Pairs, pool, n, set)
  BY SiftIs DEF Pairs
<1>2. Pairs \in Seq(Points) /\ m <= n /\ \A i \in DOMAIN Pairs : Pairs[i] \in set
  BY <1>1 DEF Sifted
<1>3. /\ DOMAIN pool = 1..n /\ n \in Nat /\ m \in Nat /\ DOMAIN Pairs = 1..m
      /\ \A i \in DOMAIN pool : pool[i] \in Points
  BY <1>2, LenProperties
<1>4. ASSUME NEW i \in DOMAIN pool, LookedUp(IdOf[pool[i]]) # {} PROVE pool[i] \in Range(Pairs)
  <2>1. pool[i] \in set
    BY <1>3, <1>4
  <2> HIDE DEF set
  <2>2. PICK j \in DOMAIN Pairs : Pairs[j] = pool[i]
    BY <1>1, <1>3, <2>1 DEF Sifted
  <2>3. QED
    BY <2>2 DEF Range
<1>5. PICK o \in [DOMAIN Pairs -> 1..n] :
         /\ \A i \in DOMAIN Pairs : Pairs[i] = pool[o[i]]
         /\ \A i, j \in DOMAIN Pairs : o[i] = o[j] => i = j
  <2> HIDE DEF n, set
  <2>1. QED
    BY <1>1 DEF Sifted, Origins
<1>6. o \in Seq(DOMAIN pool) /\ DOMAIN o = 1..m
  <2>1. o \in [1..m -> DOMAIN pool]
    BY <1>3, <1>5
  <2> HIDE DEF m
  <2>2. QED
    BY <1>3, <2>1, SeqOfFunction
<1>7. Pairs = Selected(pool, o)
  <2>1. Pairs = [i \in 1..m |-> Pairs[i]]
    BY <1>2, <1>3
  <2> HIDE DEF m
  <2>2. Pairs = [i \in 1..m |-> pool[o[i]]]
    BY <1>3, <1>5, <2>1
  <2>3. QED
    BY <1>6, <2>2 DEF Selected
<1>8. QED
  BY <1>2, <1>3, <1>4, <1>5, <1>6, <1>7

LEMMA VecsAre ==
    ASSUME pool \in Seq(Points), stored \subseteq Points, NEW v \in Vectors
    PROVE  /\ Vecs(v) \in Seq(Points) /\ Len(Vecs(v)) = Len(Pairs) /\ DOMAIN Vecs(v) = DOMAIN Pairs
           /\ \A i \in DOMAIN Pairs : IdOf[Pairs[i]] \in PairIds /\ Vecs(v)[i] = v[IdOf[Pairs[i]]]
<1>1. DOMAIN Pairs = 1..Len(Pairs) /\ Len(Pairs) \in Nat
  BY PairsAre, LenProperties
<1>2. \A i \in DOMAIN Pairs : IdOf[Pairs[i]] \in PairIds
  BY DEF PairIds, Range
<1>3. v \in [PairIds -> Points]
  BY DEF Vectors
<1>4. Vecs(v) \in [1..Len(Pairs) -> Points]
  BY <1>1, <1>2, <1>3 DEF Vecs
<1>5. Vecs(v) \in Seq(Points) /\ Len(Vecs(v)) = Len(Pairs) /\ DOMAIN Vecs(v) = 1..Len(Pairs)
  BY <1>1, <1>4, SeqOfFunction
<1>6. QED
  BY <1>1, <1>2, <1>5 DEF Vecs

LEMMA GreedyDistinct ==
    ASSUME NEW vec \in Seq(Points), NEW s \in Seq(DOMAIN vec), Greedy(s, vec)
    PROVE  \A i, j \in DOMAIN s : s[i] = s[j] => i = j
<1>1. DOMAIN s = 1..Len(s) /\ Len(s) \in Nat
  BY LenProperties
<1>2. ASSUME NEW i \in DOMAIN s, NEW j \in DOMAIN s, i < j PROVE s[i] # s[j]
  <2>1. s[i] \in Earlier(s, j)
    BY <1>1, <1>2 DEF Earlier
  <2>2. QED
    BY <2>1 DEF Greedy
<1>3. QED
  BY <1>1, <1>2

\* Who selects as many as there are selects all.
LEMMA AllSelected ==
    ASSUME NEW s \in Seq(Points), NEW c \in Seq(DOMAIN s), Len(c) = Len(s),
           \A i, j \in DOMAIN c : c[i] = c[j] => i = j
    PROVE  Range(s) \subseteq Range(Selected(s, c))
<1> DEFINE n == Len(s)  D == 1..n
<1>1. n \in Nat /\ DOMAIN s = D /\ DOMAIN c = D /\ c \in [D -> D]
  BY LenProperties
<1>2. IsFiniteSet(D) /\ Cardinality(D) = n
  BY <1>1, UpToIs
<1>3. c \in Injection(D, D)
  BY <1>1 DEF Injection, IsInjective
<1>4. c \in Surjection(D, D)
  <2> HIDE DEF D
  <2>1. QED
    BY <1>2, <1>3, FS_Injection
<1>8. ASSUME NEW i \in DOMAIN s PROVE s[i] \in Range(Selected(s, c))
  <2>1. PICK j \in DOMAIN c : c[j] = i
    BY <1>1, <1>4 DEF Surjection
  <2>2. QED
    BY <2>1 DEF Selected, Range
<1>9. QED
  BY <1>8 DEF Range

\* A candidate in the store has a vector, if any candidate has one.
LEMMA StoredArePaired ==
    ASSUME pool \in Seq(Points), Pairs # <<>>
    PROVE  Range(pool) \cap stored \subseteq Range(Pairs)
<1>1. Store = "chroma"
  <2> SUFFICES ASSUME Store # "chroma" PROVE FALSE
    OBVIOUS
  <2>1. \A id : LookedUp(id) = {}
    <3>1. \A q, id : StoreKey(q) # <<id>>
      BY DEF StoreKey
    <3>2. QED
      BY <3>1 DEF LookedUp
  <2>2. DOMAIN Pairs = {} /\ Pairs \in Seq(Points)
    BY <2>1, PairsAre
  <2>3. QED
    BY <2>2, EmptySeq, LenProperties
<1>2. ASSUME NEW p \in Range(pool), p \in stored PROVE p \in Range(Pairs)
  <2>1. p \in LookedUp(IdOf[p])
    BY <1>1, <1>2 DEF LookedUp
  <2>2. PICK i \in DOMAIN pool : p = pool[i]
    BY DEF Range
  <2>3. QED
    BY <2>1, <2>2, PairsAre
<1>3. QED
  BY <1>2

LEMMA SelectStep == HybridInv /\ Select => HybridInv'
<1> SUFFICES ASSUME HybridInv, Select PROVE HybridInv'
  OBVIOUS
<1>1. /\ stage = "select" /\ stage' = "done" /\ lists' = <<>>
      /\ UNCHANGED <<flags, where, k, pool, stored, alone, found>>
  BY DEF Select
<1>2. Listed(pool, where, alone) /\ Lesser(k, Len(pool)) = Wanted /\ "mmr" \in flags
  BY <1>1 DEF HybridInv, Candidates
<1>3. k \in Nat \ {0} /\ pool \in Seq(Points) /\ stored \subseteq Points
  BY <1>2 DEF Listed, HybridInv, HybridTypes
<1>4. /\ Listed(cands', where, alone)
      /\ \/ Len(cands') = Wanted
         \/ /\ Len(cands') \in 1..Wanted
            /\ Range(pool) \cap stored \subseteq Range(cands')
  <2>1. CASE Pairs = <<>>
    <3>1. cands' = Cut(pool, k)
      BY <2>1 DEF Select
    <3>2. k \in Nat
      BY <1>3
    <3>3. Listed(cands', where, alone) /\ Len(cands') = Wanted
      BY <1>2, <3>1, <3>2, CutListed
    <3>4. QED
      BY <3>3
  <2>2. CASE Pairs # <<>>
    <3>1. PICK v \in Vectors : cands' = Selected(Pairs, Mmr(Vecs(v)))
      BY <2>2 DEF Select, Vecs, Selected
    <3> DEFINE vec == Vecs(v)  c == Mmr(vec)
    <3>2. vec \in Seq(Points) /\ Len(vec) = Len(Pairs) /\ DOMAIN vec = DOMAIN Pairs
      BY <1>3, VecsAre
    <3> HIDE DEF vec
    <3>3. c \in Seq(DOMAIN vec) /\ Len(c) = Lesser(k, Len(Pairs)) /\ Greedy(c, vec)
      BY <1>3, <3>2, MmrIs DEF Lesser
    <3>4. cands' = Selected(Pairs, c)
      BY <3>1 DEF vec
    <3> HIDE DEF c
    <3>5. \A i, j \in DOMAIN c : c[i] = c[j] => i = j
      BY <3>2, <3>3, GreedyDistinct
    <3>6. c \in Seq(DOMAIN Pairs)
      BY <3>2, <3>3
    <3>7. Pairs \in Seq(Points) /\ Len(Pairs) <= Len(pool) /\ Listed(Pairs, where, alone)
      BY <1>2, <1>3, PairsAre, SelectionListed
    <3>8. Listed(cands', where, alone) /\ Len(cands') = Lesser(k, Len(Pairs))
      <4>1. Listed(cands', where, alone) /\ Len(cands') = Len(c)
        BY <3>4, <3>5, <3>6, <3>7, SelectionListed
      <4>2. Len(c) = Lesser(k, Len(Pairs))
        BY <3>2, <3>3
      <4>3. QED
        BY <4>1, <4>2
    <3>9. Len(Pairs) \in Nat \ {0} /\ Len(pool) \in Nat
      BY <1>3, <2>2, <3>7, LenProperties, EmptySeq
    <3>10. CASE k <= Len(Pairs)
      <4>1. Lesser(k, Len(Pairs)) = k /\ Lesser(k, Len(pool)) = k
        BY <1>3, <3>7, <3>9, <3>10 DEF Lesser
      <4>2. QED
        BY <1>2, <3>8, <4>1
    <3>11. CASE Len(Pairs) < k
      <4>1. Len(cands') = Len(Pairs) /\ Len(c) = Len(Pairs) /\ Len(cands') \in 1..Wanted
        BY <1>2, <1>3, <3>3, <3>7, <3>8, <3>9, <3>11 DEF Lesser
      <4>2. Range(Pairs) \subseteq Range(cands')
        BY <3>4, <3>5, <3>6, <3>7, <4>1, AllSelected
      <4>3. QED
        BY <1>3, <2>2, <3>8, <4>1, <4>2, StoredArePaired
    <3>12. QED
      BY <1>3, <3>9, <3>10, <3>11
  <2>3. QED
    BY <2>1, <2>2
<1>5. HybridTypes'
  BY <1>1 DEF HybridInv, HybridTypes
<1>6. Wanted' = Wanted
  BY <1>1 DEF Wanted
<1>7. Candidates'
  BY <1>1, <1>2, <1>4, <1>6 DEF Candidates, Enough
<1>8. QED
  BY <1>1, <1>5, <1>7, RankingsGone DEF HybridInv

LEMMA HybridStuttering == HybridInv /\ UNCHANGED hybridVars => HybridInv'
<1> SUFFICES ASSUME HybridInv, UNCHANGED hybridVars PROVE HybridInv'
  OBVIOUS
<1>1. UNCHANGED <<stage, flags, where, k, lists, cands, pool, stored, alone, found>>
  BY DEF hybridVars
<1>2. HybridTypes' /\ Ranked' /\ Candidates'
  BY <1>1 DEF HybridInv, HybridTypes, Ranked, Candidates, Wanted, Enough
<1>3. FusedKept'
  BY <1>1, FusedStays DEF HybridInv, FusedKept
<1>4. QED
  BY <1>2, <1>3 DEF HybridInv

LEMMA HybridInvHolds == HybridSpec => []HybridInv
<1>1. HybridInit => HybridInv
  BY HybridInvInit
<1>2. HybridInv /\ [HybridNext]_hybridVars => HybridInv'
  <2> SUFFICES ASSUME HybridInv, [HybridNext]_hybridVars PROVE HybridInv'
    OBVIOUS
  <2>1. QED
    BY DenseStep, LexicalStep, FuseStep, RerankStep, DiversifyStep, SelectStep, KeepFirstStep,
       HybridStuttering DEF HybridNext
<1>3. QED
  BY <1>1, <1>2, PTL DEF HybridSpec

-----------------------------------------------------------------------------
(* What a search promises *)

\* Every result passes the filter, whatever channels are on, however they
\* rank and whatever ids the sources share (hybrid.py:120, 133).
THEOREM FilterHoldsHolds == HybridSpec => []FilterHolds
<1>1. HybridInv => FilterHolds
  BY DEF HybridInv, Candidates, Listed, FilterHolds, Matches
<1>2. QED
  BY <1>1, HybridInvHolds, PTL

\* As many results as asked for, or as there are, and none twice but where
\* the one ranking holds two points of one id; under diversification fewer
\* only for chunks the store no longer holds, and not none, whatever the
\* store loses during the search (hybrid.py:144, 145, 163, 175, 182).
THEOREM NothingLostHolds == HybridSpec => []NothingLost
<1>1. ASSUME HybridInv PROVE NothingLost
  <2> SUFFICES ASSUME stage = "done"
               PROVE  /\ Enough
                      /\ \/ IsInjective(Ids(cands))
                         \/ alone /\ \E i \in DOMAIN cands : Shared(cands[i])
    BY DEF NothingLost, Enough, Wanted
  <2>1. Enough /\ Listed(cands, where, alone)
    BY <1>1 DEF HybridInv, Candidates
  <2>2. CASE \E i, j \in DOMAIN cands : i # j /\ IdOf[cands[i]] = IdOf[cands[j]]
    BY <2>1, <2>2 DEF Listed
  <2>3. CASE ~ \E i, j \in DOMAIN cands : i # j /\ IdOf[cands[i]] = IdOf[cands[j]]
    <3>1. IsInjective(Ids(cands))
      BY <2>3 DEF IsInjective, Ids
    <3>2. QED
      BY <2>1, <3>1
  <2>4. QED
    BY <2>1, <2>2, <2>3
<1>2. QED
  BY <1>1, HybridInvHolds, PTL

\* Reciprocal rank fusion keeps what all rankings agree on, for any number
\* of rankings and any cut (hybrid.py:36, 140).
THEOREM AgreementWinsHolds == HybridSpec => []AgreementWins
<1>1. ASSUME HybridInv PROVE AgreementWins
  <2> SUFFICES ASSUME stage \in {"rerank", "mmr"}, lists # <<>>,
                      NEW p \in Range(All), NEW q \in Range(All), ~Doubled(IdOf[q]),
                      \A l \in DOMAIN lists : Ahead(lists[l], p, q),
                      NEW m \in DOMAIN cands, IdOf[cands[m]] = IdOf[q]
               PROVE  Ahead(cands, p, q)
    BY DEF AgreementWins
  <2>1. Delivered
    BY <1>1 DEF HybridInv, Ranked, Delivered
  <2>2. cands = Cut(Fused, KCand) /\ KCand \in Nat
    BY <1>1, HybridAssumption DEF HybridInv, FusedKept
  <2> DEFINE F == Fused
  <2>3. F \in Seq(Points)
    BY <2>1, FusedIs
  <2>4. /\ \A i \in DOMAIN cands : i \in DOMAIN F /\ cands[i] = F[i]
        /\ \A i \in DOMAIN F : i <= KCand => i \in DOMAIN cands
        /\ \A i \in DOMAIN cands : i <= KCand
    <3>1. /\ cands \in Seq(Points)
          /\ Len(cands) = IF KCand < Len(F) THEN KCand ELSE Len(F)
          /\ \A i \in DOMAIN cands : i \in DOMAIN F /\ cands[i] = F[i]
          /\ \A i \in DOMAIN F : i <= KCand => i \in DOMAIN cands
      BY <2>2, <2>3, CutIs
    <3>2. Len(F) \in Nat /\ DOMAIN cands = 1..Len(cands)
      BY <2>3, <3>1, LenProperties
    <3>3. QED
      BY <2>2, <3>1, <3>2
  <2>5. DOMAIN F \subseteq Nat
    BY <2>3, LenProperties
  <2>6. IdOf[F[m]] = IdOf[q] /\ m \in DOMAIN F
    BY <2>4
  <2>7. p \in Points /\ q \in Points /\ IdOf[p] \in Seen
    BY <2>1, AllIs, RangeOfSeq
  <2>8. CASE Len(lists) = 1
    <3> DEFINE s == lists[1]
    <3>1. 1 \in DOMAIN lists /\ s \in Seq(Points) /\ Len(F) = Len(s)
      <4>1. 1 \in DOMAIN lists
        BY <2>1, <2>8, DeliveredIs
      <4>2. QED
        BY <2>1, <2>8, <4>1, DeliveredIs, FusedIs
    <3>2. \A i \in DOMAIN F : IdOf[F[i]] = IdOf[s[i]]
      BY <2>1, <2>8, FusedIs
    <3> HIDE DEF s, F
    <3>3. DOMAIN s = DOMAIN F
      BY <2>3, <3>1, LenProperties
    <3>4. PICK i \in DOMAIN s : /\ IdOf[s[i]] = IdOf[p]
                                /\ \A j \in DOMAIN s : IdOf[s[j]] = IdOf[q] => i < j
      BY <3>1 DEF Ahead, s
    <3>5. i < m
      BY <2>6, <3>2, <3>3, <3>4
    <3>6. i \in DOMAIN cands
      <4>1. m <= KCand /\ m \in Nat /\ i \in Nat
        BY <2>4, <2>5, <2>6, <3>3
      <4>2. i <= KCand
        BY <2>2, <3>5, <4>1
      <4>3. QED
        BY <2>4, <3>3, <4>2
    <3>7. \A j \in DOMAIN cands : IdOf[cands[j]] = IdOf[q] => i < j
      BY <2>4, <3>2, <3>3, <3>4
    <3>8. IdOf[cands[i]] = IdOf[p]
      BY <2>4, <3>2, <3>4, <3>6
    <3>9. QED
      BY <3>6, <3>7, <3>8 DEF Ahead
  <2>9. CASE Len(lists) # 1
    <3>1. /\ \A i, j \in DOMAIN F : IdOf[F[i]] = IdOf[F[j]] => i = j
          /\ \A id \in Seen : \E i \in DOMAIN F : IdOf[F[i]] = id
          /\ \A i, j \in DOMAIN F : i < j => Score(IdOf[F[j]]) <= Score(IdOf[F[i]])
      BY <2>1, <2>9, FusedIs
    <3>2. PICK i \in DOMAIN F : IdOf[F[i]] = IdOf[p]
      BY <2>7, <3>1
    <3>3. Score(IdOf[q]) < Score(IdOf[p]) /\ Score(IdOf[q]) \in Nat /\ Score(IdOf[p]) \in Nat
      BY <2>1, <2>7, AheadScoresMore, ScoreIs
    <3> HIDE DEF F
    <3>4. ~(m < i)
      <4> SUFFICES ASSUME m < i PROVE FALSE
        OBVIOUS
      <4>1. Score(IdOf[p]) <= Score(IdOf[q])
        BY <2>6, <3>1, <3>2
      <4>2. QED
        BY <3>3, <4>1
    <3>5. i # m
      BY <2>6, <3>2, <3>3
    <3>6. i \in Nat /\ m \in Nat /\ m <= KCand /\ i < m
      BY <2>4, <2>5, <2>6, <3>4, <3>5
    <3>7. i \in DOMAIN cands
      <4>1. i <= KCand
        BY <2>2, <3>6
      <4>2. QED
        BY <2>4, <4>1
    <3>8. \A j \in DOMAIN cands : IdOf[cands[j]] = IdOf[q] => j = m
      BY <2>4, <2>6, <3>1
    <3>9. QED
      BY <2>4, <3>2, <3>6, <3>7, <3>8 DEF Ahead
  <2>10. QED
    BY <2>8, <2>9
<1>2. QED
  BY <1>1, HybridInvHolds, PTL

\* What the candidate i is worth to mmr is what its vector gains.
LEMMA WorthIsGain ==
    ASSUME NEW vec, NEW chosen, NEW i
    PROVE  Worth(i, vec, chosen) = Gain(vec[i], {vec[j] : j \in chosen})
<1> DEFINE like(p, q) == LikenessOf[p, q]
           A == {like(vec[i], vec[j]) : j \in chosen}
           V == {vec[j] : j \in chosen}
           B == {like(vec[i], q) : q \in V}
<1>1. A = B
  <2> HIDE DEF like
  <2>1. QED
    OBVIOUS
<1>2. /\ Worth(i, vec, chosen) = 7 * RelevanceOf[vec[i]] - 3 * Max(A \cup {0})
      /\ Gain(vec[i], V) = 7 * RelevanceOf[vec[i]] - 3 * Max(B \cup {0})
  BY DEF Worth, Gain
<1> HIDE DEF A, B
<1>3. QED
  BY <1>1, <1>2

\* What the search has taken so far, and what it could still take.
TakenBy(s, v, i) == {v[IdOf[s[j]]] : j \in 1..(i - 1)}

Diverse(s, v) ==
    \A i \in DOMAIN s : \A p \in {v[id] : id \in PairIds} \ TakenBy(s, v, i) :
      Gain(v[IdOf[s[i]]], TakenBy(s, v, i)) >= Gain(p, TakenBy(s, v, i))

LEMMA DiverseSelection ==
    ASSUME pool \in Seq(Points), stored \subseteq Points, NEW v \in Vectors,
           NEW c \in Seq(DOMAIN Pairs), Greedy(c, Vecs(v))
    PROVE  Diverse(Selected(Pairs, c), v)
<1> DEFINE vec == Vecs(v)  s == Selected(Pairs, c)
<1>1. DOMAIN c = 1..Len(c) /\ Len(c) \in Nat /\ \A i \in DOMAIN c : c[i] \in DOMAIN Pairs
  BY LenProperties
<1>2. DOMAIN s = DOMAIN c /\ \A i \in DOMAIN c : s[i] = Pairs[c[i]]
  BY DEF Selected
<1>3. /\ DOMAIN vec = DOMAIN Pairs
      /\ \A i \in DOMAIN Pairs : IdOf[Pairs[i]] \in PairIds /\ vec[i] = v[IdOf[Pairs[i]]]
  BY VecsAre
<1> HIDE DEF vec, s
<1>4. \A i \in DOMAIN c : v[IdOf[s[i]]] = vec[c[i]]
  BY <1>1, <1>2, <1>3
<1>5. ASSUME NEW i \in DOMAIN s, NEW p \in {v[id] : id \in PairIds} \ TakenBy(s, v, i)
      PROVE  Gain(v[IdOf[s[i]]], TakenBy(s, v, i)) >= Gain(p, TakenBy(s, v, i))
  <2>1. i \in DOMAIN c /\ \A j \in 1..(i - 1) : j \in DOMAIN c
    BY <1>1, <1>2
  <2>2. TakenBy(s, v, i) = {vec[j] : j \in Earlier(c, i)}
    <3>1. \A j \in 1..(i - 1) : v[IdOf[s[j]]] = vec[c[j]]
      BY <1>4, <2>1
    <3>2. {v[IdOf[s[j]]] : j \in 1..(i - 1)} = {vec[c[j]] : j \in 1..(i - 1)}
      <4> DEFINE J == 1..(i - 1)  a(j) == v[IdOf[s[j]]]  b(j) == vec[c[j]]
      <4>1. \A j \in J : a(j) = b(j)
        BY <3>1
      <4> HIDE DEF J, a, b
      <4>2. {a(j) : j \in J} = {b(j) : j \in J}
        BY <4>1
      <4>3. QED
        BY <4>2 DEF J, a, b
    <3>3. {vec[c[j]] : j \in 1..(i - 1)} = {vec[j] : j \in {c[j] : j \in 1..(i - 1)}}
      OBVIOUS
    <3>4. QED
      BY <3>2, <3>3 DEF TakenBy, Earlier
  <2>3. PICK m \in DOMAIN Pairs : p = vec[m]
    <3>1. PICK id \in PairIds : p = v[id]
      BY <1>5
    <3>2. PICK m \in DOMAIN Pairs : id = IdOf[Pairs[m]]
      BY DEF PairIds, Range
    <3>3. QED
      BY <1>3, <3>1, <3>2
  <2>4. m \notin Earlier(c, i)
    BY <1>5, <2>2, <2>3
  <2>5. Worth(c[i], vec, Earlier(c, i)) >= Worth(m, vec, Earlier(c, i))
    BY <1>3, <2>1, <2>3, <2>4 DEF Greedy, vec
  <2>6. /\ Worth(c[i], vec, Earlier(c, i)) = Gain(vec[c[i]], TakenBy(s, v, i))
        /\ Worth(m, vec, Earlier(c, i)) = Gain(vec[m], TakenBy(s, v, i))
    BY <2>2, WorthIsGain
  <2>7. QED
    BY <1>4, <2>1, <2>3, <2>5, <2>6
<1>6. QED
  BY <1>5 DEF Diverse, s

LEMMA SelectDiversifies ==
    ASSUME Store = "chroma", HybridInv, Select
    PROVE  DiversifiesWhenAsked'
<1> SUFFICES ASSUME Known # {} PROVE DiversifiesWhenAsked'
  BY DEF DiversifiesWhenAsked, Known, Select
<1>1. stage = "select" /\ pool' = pool /\ stored' = stored
  BY DEF Select
<1>2. pool \in Seq(Points) /\ k \in Nat /\ stored \subseteq Points
  BY <1>1, KeptIs DEF HybridInv, HybridTypes, Candidates, Listed
<1>3. \A id : LookedUp(id) = {q \in stored : IdOf[q] = id}
  BY DEF LookedUp
<1>4. PairIds = Known
  <2>1. ASSUME NEW id \in Known PROVE id \in PairIds
    <3>1. PICK p \in Range(pool) : IdOf[p] = id
      BY DEF Known
    <3>2. PICK i \in DOMAIN pool : p = pool[i]
      BY DEF Range
    <3>3. LookedUp(IdOf[p]) # {}
      BY <1>3, <3>1 DEF Known
    <3>4. p \in Range(Pairs)
      BY <1>2, <3>2, <3>3, PairsAre
    <3>5. QED
      BY <3>1, <3>4 DEF PairIds
  <2>2. ASSUME NEW id \in PairIds PROVE id \in Known
    <3>1. PICK i \in DOMAIN Pairs : IdOf[Pairs[i]] = id
      BY DEF PairIds, Range
    <3>2. \E q \in stored : IdOf[q] = id
      BY <1>2, <1>3, <3>1, PairsAre
    <3>3. PICK o \in Seq(DOMAIN pool) : Pairs = Selected(pool, o)
      BY <1>2, PairsAre
    <3>4. i \in DOMAIN o /\ Pairs[i] = pool[o[i]]
      BY <3>3 DEF Selected
    <3>5. o[i] \in DOMAIN pool
      BY <3>4, LenProperties
    <3>6. Pairs[i] \in Range(pool)
      BY <3>4, <3>5 DEF Range
    <3>7. QED
      BY <3>1, <3>2, <3>6 DEF Known
  <2>3. QED
    BY <2>1, <2>2
<1>5. Pairs # <<>>
  BY <1>4 DEF PairIds, Range
<1>6. PICK v \in Vectors : cands' = Selected(Pairs, Mmr(Vecs(v)))
  BY <1>5 DEF Select, Vecs, Selected
<1>7. Vecs(v) \in Seq(Points) /\ DOMAIN Vecs(v) = DOMAIN Pairs
  BY <1>2, VecsAre
<1>8. Mmr(Vecs(v)) \in Seq(DOMAIN Pairs) /\ Greedy(Mmr(Vecs(v)), Vecs(v))
  BY <1>2, <1>7, MmrIs
<1>9. Diverse(cands', v)
  BY <1>2, <1>6, <1>8, DiverseSelection
<1>10. \A i \in DOMAIN cands' : IdOf[cands'[i]] \in PairIds
  <2> DEFINE c == Mmr(Vecs(v))
  <2>1. cands' = Selected(Pairs, c) /\ c \in Seq(DOMAIN Pairs)
    BY <1>6, <1>8
  <2> HIDE DEF c
  <2>2. \A i \in DOMAIN c : c[i] \in DOMAIN Pairs
    BY <2>1, LenProperties
  <2>3. \A i \in DOMAIN cands' : i \in DOMAIN c /\ cands'[i] = Pairs[c[i]]
    BY <2>1 DEF Selected
  <2>4. QED
    BY <1>2, <1>6, <2>2, <2>3, VecsAre
<1>11. v \in [Known -> stored] /\ \A id \in Known : IdOf[v[id]] = id
  BY <1>3, <1>4 DEF Vectors
<1>12. Known' = Known
  BY <1>1 DEF Known
<1>13. Diverse(cands', v) /\ \A i \in DOMAIN cands' : IdOf[cands'[i]] \in Known
  BY <1>4, <1>9, <1>10
<1>14. QED
  BY <1>1, <1>4, <1>11, <1>12, <1>13 DEF DiversifiesWhenAsked, Diverse, TakenBy

\* On Chroma, mmr gets the vectors it asks for and gives the user who wants
\* diversity the best of what is left, result by result, for any similarities
\* and whatever has left the store (hybrid.py:173-179, chroma.py:76).
THEOREM DiversifiesWhenAskedHolds ==
    ASSUME Store = "chroma"
    PROVE  HybridSpec => []DiversifiesWhenAsked
<1>1. HybridInit => DiversifiesWhenAsked
  BY DEF HybridInit, DiversifiesWhenAsked
<1>2. HybridInv /\ DiversifiesWhenAsked /\ [HybridNext]_hybridVars => DiversifiesWhenAsked'
  <2> SUFFICES ASSUME HybridInv, DiversifiesWhenAsked, [HybridNext]_hybridVars
               PROVE  DiversifiesWhenAsked'
    OBVIOUS
  <2>1. CASE DenseChannel \/ LexicalChannel \/ Fuse \/ Rerank \/ Diversify
    <3>1. stage' # "done"
      BY <2>1 DEF DenseChannel, LexicalChannel, Fuse, Rerank, Diversify
    <3>2. QED
      BY <3>1 DEF DiversifiesWhenAsked
  <2>2. CASE Select
    BY <2>2, SelectDiversifies
  <2>3. CASE KeepFirst
    <3>1. "mmr" \notin flags'
      BY <2>3 DEF KeepFirst
    <3>2. QED
      BY <3>1 DEF DiversifiesWhenAsked
  <2>4. CASE UNCHANGED hybridVars
    <3>1. UNCHANGED <<stage, flags, cands, pool, stored>>
      BY <2>4 DEF hybridVars
    <3>2. Known' = Known
      BY <3>1 DEF Known
    <3>3. QED
      BY <3>1, <3>2 DEF DiversifiesWhenAsked
  <2>5. QED
    BY <2>1, <2>2, <2>3, <2>4 DEF HybridNext
<1>3. QED
  BY <1>1, <1>2, HybridInvHolds, PTL DEF HybridSpec

=============================================================================
