--------------------------- MODULE RegistryCache ---------------------------
(***************************************************************************)
(* The hash registry of one source: CachingRegistry over SqlRegistry       *)
(* (persistence/registry_repo.py).                                         *)
(*                                                                         *)
(* Callers are the threads inside index_path or remove_source.  Every      *)
(* cache call and every database statement is a step of its own, and each  *)
(* may raise.  A missing cache entry and a tombstone both read as None.    *)
(***************************************************************************)
EXTENDS Naturals

CONSTANTS
    Callers,
    Files,
    Hashes,
    None,     \* no hash: no row, no entry or a tombstone; no argument
    MaxFails  \* bound: calls that raise

ASSUME ConstantsAssumption ==
    /\ None \notin Files \cup Hashes \cup (Files \X (Hashes \cup {None}))
    /\ MaxFails \in Nat

VARIABLES
    db,       \* table indexed_files: hash of each file
    cache,    \* entries reg:{source}:{file}
    pc,       \* what each caller does next
    file,     \* its file, None for the whole source
    hash,     \* the hash it writes
    row,      \* the hash in the row it has read
    targets,  \* the entries it has to overwrite by tombstones
    found,    \* what its get_hash has found, with the file asked for
    fails,    \* calls that raised so far
    alone,    \* history: no other call met its write so far
    dirty     \* history: files whose last write ended half way or met another call

calls == <<pc, file, hash, row, targets, found, alone>>
vars == <<db, cache, calls, fails, dirty>>

Init ==
    /\ db = [f \in Files |-> None]
    /\ cache = [f \in Files |-> None]
    /\ pc = [c \in Callers |-> "idle"]
    /\ file = [c \in Callers |-> None]
    /\ hash = [c \in Callers |-> None]
    /\ row = [c \in Callers |-> None]
    /\ targets = [c \in Callers |-> {}]
    /\ found = [c \in Callers |-> None]
    /\ fails = 0
    /\ alone = [c \in Callers |-> TRUE]
    /\ dirty = {}

\* The files a call is about.
Scope(c) == IF pc[c] = "idle" THEN {}
            ELSE IF file[c] = None THEN Files ELSE {file[c]}

Writing(c) == pc[c] \in {"row", "commit", "store", "list", "delete", "forget"}

\* The files on which a call of d meets the call of c for file f that begins at
\* step s: both are about the file and one of them writes it.
Meets(c, s, f, d) ==
    {g \in Scope(d) : d # c /\ f \in {None, g} /\ (Writing(d) \/ s # "lookup")}

Begin(c, s, f, h) ==
    /\ pc[c] = "idle"
    /\ pc' = [pc EXCEPT ![c] = s]
    /\ file' = [file EXCEPT ![c] = f]
    /\ hash' = [hash EXCEPT ![c] = h]
    /\ dirty' = dirty \cup UNION {Meets(c, s, f, d) : d \in Callers}
    /\ alone' = [d \in Callers |->
                   IF d = c THEN \A e \in Callers : Meets(c, s, f, e) = {}
                   ELSE alone[d] /\ Meets(c, s, f, d) = {}]
    /\ UNCHANGED <<db, cache, row, targets, found, fails>>

Goto(c, s) == pc' = [pc EXCEPT ![c] = s]

\* The call is over and its local variables are gone.
Return(c) ==
    /\ Goto(c, "idle")
    /\ file' = [file EXCEPT ![c] = None]
    /\ hash' = [hash EXCEPT ![c] = None]
    /\ row' = [row EXCEPT ![c] = None]
    /\ targets' = [targets EXCEPT ![c] = {}]
    /\ found' = [found EXCEPT ![c] = None]
    /\ alone' = [alone EXCEPT ![c] = TRUE]

-----------------------------------------------------------------------------
(* get_hash *)

StartGet(c, f) == Begin(c, "lookup", f, None)

\* cache.get: a hit is returned as it is.
Hit(c) ==
    /\ pc[c] = "lookup" /\ cache[file[c]] # None
    /\ found' = [found EXCEPT ![c] = <<file[c], cache[file[c]]>>]
    /\ Goto(c, "answered")
    /\ UNCHANGED <<db, cache, file, hash, row, targets, alone, fails, dirty>>

Miss(c) ==
    /\ pc[c] = "lookup" /\ cache[file[c]] = None
    /\ Goto(c, "read")
    /\ UNCHANGED <<db, cache, file, hash, row, targets, found, alone, fails, dirty>>

\* base.get_hash: the absence of a hash is not cached.
ReadBase(c) ==
    /\ pc[c] = "read"
    /\ found' = [found EXCEPT ![c] = <<file[c], db[file[c]]>>]
    /\ Goto(c, IF db[file[c]] = None THEN "answered" ELSE "fill")
    /\ UNCHANGED <<db, cache, file, hash, row, targets, alone, fails, dirty>>

Fill(c) ==
    /\ pc[c] = "fill"
    /\ cache' = [cache EXCEPT ![file[c]] = found[c][2]]
    /\ Goto(c, "answered")
    /\ UNCHANGED <<db, file, hash, row, targets, found, alone, fails, dirty>>

EndGet(c) ==
    /\ pc[c] = "answered"
    /\ Return(c)
    /\ UNCHANGED <<db, cache, fails, dirty>>

-----------------------------------------------------------------------------
(* set_hash *)

StartSet(c, f, h) == Begin(c, "row", f, h)

\* SqlRegistry.set_hash reads the row of the file,
ReadRow(c) ==
    /\ pc[c] = "row"
    /\ row' = [row EXCEPT ![c] = db[file[c]]]
    /\ Goto(c, "commit")
    /\ UNCHANGED <<db, cache, file, hash, targets, found, alone, fails, dirty>>

\* and commits an update of the row it has found or a new row; a row that
\* holds the hash already is not written.
Commit(c) ==
    /\ pc[c] = "commit"
    /\ row[c] = hash[c] \/ (row[c] = None <=> db[file[c]] = None)
    /\ db' = IF row[c] = hash[c] THEN db ELSE [db EXCEPT ![file[c]] = hash[c]]
    /\ Goto(c, "store")
    /\ UNCHANGED <<cache, file, hash, row, targets, found, alone, fails, dirty>>

\* The row came or went since it was read: the commit raises.
Conflict(c) ==
    /\ pc[c] = "commit" /\ row[c] # hash[c]
    /\ ~(row[c] = None <=> db[file[c]] = None)
    /\ Return(c)
    /\ UNCHANGED <<db, cache, fails, dirty>>

\* A write that no other call met repairs its entry.
Repaired(c, f) == IF alone[c] THEN dirty \ {f} ELSE dirty

\* Mutation of Store: the database is updated, the cache is not.
StoreNothing(c) ==
    /\ pc[c] = "store"
    /\ dirty' = Repaired(c, file[c])
    /\ Return(c)
    /\ UNCHANGED <<db, cache, fails>>

Store(c) ==
    /\ pc[c] = "store"
    /\ cache' = [cache EXCEPT ![file[c]] = hash[c]]
    /\ dirty' = Repaired(c, file[c])
    /\ Return(c)
    /\ UNCHANGED <<db, fails>>

-----------------------------------------------------------------------------
(* remove *)

StartRemove(c, f) == Begin(c, "list", f, None)

\* The files to forget: the one given or all that have a row.
ListTargets(c) ==
    /\ pc[c] = "list"
    /\ targets' = [targets EXCEPT ![c] =
                     IF file[c] = None THEN {f \in Files : db[f] # None} ELSE {file[c]}]
    /\ Goto(c, "delete")
    /\ UNCHANGED <<db, cache, file, hash, row, found, alone, fails, dirty>>

\* Mutation of DeleteRows: the files are listed after the delete.
DeleteThenList(c) ==
    /\ pc[c] = "delete"
    /\ db' = [f \in Files |-> IF f \in Scope(c) THEN None ELSE db[f]]
    /\ targets' = [targets EXCEPT ![c] = IF file[c] = None THEN {} ELSE {file[c]}]
    /\ Goto(c, "forget")
    /\ UNCHANGED <<cache, file, hash, row, found, alone, fails, dirty>>

DeleteRows(c) ==
    /\ pc[c] = "delete"
    /\ db' = [f \in Files |-> IF f \in Scope(c) THEN None ELSE db[f]]
    /\ Goto(c, "forget")
    /\ UNCHANGED <<cache, file, hash, row, targets, found, alone, fails, dirty>>

\* One turn of the loop that writes the tombstones.
Tombstone(c) ==
    /\ pc[c] = "forget"
    /\ \E f \in targets[c] :
         /\ cache' = [cache EXCEPT ![f] = None]
         /\ targets' = [targets EXCEPT ![c] = @ \ {f}]
         /\ dirty' = Repaired(c, f)
    /\ UNCHANGED <<db, pc, file, hash, row, found, alone, fails>>

EndRemove(c) ==
    /\ pc[c] = "forget" /\ targets[c] = {}
    /\ Return(c)
    /\ UNCHANGED <<db, cache, fails, dirty>>

-----------------------------------------------------------------------------
\* The cache or the database raises, the call ends with it.
Fail(c) ==
    /\ pc[c] \notin {"idle", "answered"} /\ fails < MaxFails
    /\ fails' = fails + 1
    /\ dirty' = dirty \cup CASE pc[c] = "store" -> {file[c]}
                             [] pc[c] = "forget" -> targets[c]
                             [] OTHER -> {}
    /\ Return(c)
    /\ UNCHANGED <<db, cache>>

\* An entry outlives its TTL.
Expire(f) ==
    /\ cache[f] # None
    /\ cache' = [cache EXCEPT ![f] = None]
    /\ dirty' = IF \A c \in Callers : f \notin Scope(c) THEN dirty \ {f} ELSE dirty
    /\ UNCHANGED <<db, calls, fails>>

Call(c) ==
    \/ \E f \in Files : StartGet(c, f) \/ StartRemove(c, f)
    \/ \E f \in Files, h \in Hashes : StartSet(c, f, h)
    \/ StartRemove(c, None)
    \/ Hit(c) \/ Miss(c) \/ ReadBase(c) \/ Fill(c) \/ EndGet(c)
    \/ ReadRow(c) \/ Commit(c) \/ Conflict(c) \/ Store(c)
    \/ ListTargets(c) \/ DeleteRows(c) \/ Tombstone(c) \/ EndRemove(c)
    \/ Fail(c)

Next == (\E c \in Callers : Call(c)) \/ (\E f \in Files : Expire(f))

Spec == Init /\ [][Next]_vars

-----------------------------------------------------------------------------
(* Properties *)

\* Every variable holds a value of its kind.
TypeOK ==
    /\ db \in [Files -> Hashes \cup {None}]
    /\ cache \in [Files -> Hashes \cup {None}]
    /\ pc \in [Callers -> {"idle", "lookup", "read", "fill", "answered", "row", "commit",
                           "store", "list", "delete", "forget"}]
    /\ file \in [Callers -> Files \cup {None}]
    /\ hash \in [Callers -> Hashes \cup {None}]
    /\ row \in [Callers -> Hashes \cup {None}]
    /\ targets \in [Callers -> SUBSET Files]
    /\ found \in [Callers -> (Files \X (Hashes \cup {None})) \cup {None}]
    /\ fails \in 0..MaxFails
    /\ alone \in [Callers -> BOOLEAN]
    /\ dirty \subseteq Files

\* What the code guarantees between two calls: a file's cached hash is stale only if its last write
\* raised between database and cache or met another call for the file; the next
\* write of that file that does neither, or the TTL, repairs it.
CleanHashesAgree ==
    \A f \in Files :
        (\A c \in Callers : f \notin Scope(c)) /\ f \notin dirty => cache[f] \in {None, db[f]}

\* Cache and database together implement HashTable: what get_hash returns is what
\* is in the database, cached or not.  Replies about files that are not clean are
\* left out; with one caller that never fails there are none.
Replies == [c \in Callers |-> IF file[c] \in dirty THEN None ELSE found[c]]
Table == INSTANCE HashTable WITH table <- db, reply <- Replies
TableSpec == Table!Spec
=============================================================================
