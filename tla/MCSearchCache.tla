---------------------------- MODULE MCSearchCache ----------------------------
(* Small instances of SearchCache for TLC. *)
EXTENDS SearchCache, TLC

Symmetry == Permutations(Searchers)

\* With one publisher the epoch only grows: there are no entries above it, and
\* one of an older epoch that no search in progress has a key for is never read
\* again.
Readable == ({epoch} \cup {key[s] : s \in Searchers}) \ {None}
View == <<version, epoch, bm25, published, pubVars, searchVars,
          [e \in Readable |-> entries[e]]>>
=============================================================================
