--------------------------- MODULE Conversations ----------------------------
(***************************************************************************)
(* The chat tab and the search tab of LocalBackend (clients/backend.py):   *)
(* the turns of one chat over the message table                            *)
(* (persistence/history_repo.py) and the cached list of its messages, the  *)
(* cached answers to one question, and the server-sent events between      *)
(* provider, gateway, backend and page (util/sse.py).                      *)
(*                                                                         *)
(* A cached None reads as a miss, so a tombstone is an empty entry.  The   *)
(* condensed query and the search are calls that may raise; what they find *)
(* is left out, and so are the texts.  A list of messages is the set of    *)
(* what it holds: its order is that of created_at, which may tie or differ *)
(* from the order of the commits, and nothing below depends on it.         *)
(***************************************************************************)
EXTENDS Naturals

CONSTANTS
    MaxTurns,    \* bound: the turns of the chat, numbered as they begin
    Readers,     \* requests that show the messages
    Askers,      \* requests of the search tab's answer
    ForeignKeys, \* does the database enforce them? SQLite as opened here: no
    None

ASSUME ConstantsAssumption ==
    /\ MaxTurns \in Nat
    /\ ForeignKeys \in BOOLEAN
    /\ (Readers \cup Askers) \cap Nat = {} /\ Readers \cap Askers = {}
    /\ \A list \in SUBSET [turn : 1..MaxTurns, role : {"user", "assistant"}] : list # None

VARIABLES
    tab,      \* the tab a behaviour follows: the two share no state
    open,     \* the chat has its row
    msgs,     \* its messages in the table
    renames,  \* how often it was named
    cache,    \* the cached list of messages, None without
    answered, \* the answer to the search tab's question is cached
    req,      \* the requests
    deleter,  \* delete_chat: idle, tomb, done
    stained,  \* history: a late fill or a half-written turn since the
              \* cache was last reset
    over,     \* history: the turns that had ended when the chat was deleted
    mixed     \* history: turns have overlapped, or one has failed with its
              \* first message written, or a late fill was stored

table == <<open, msgs, renames>>
chat == <<table, cache, deleter, stained>>
history == <<over, mixed>>
vars == <<tab, table, cache, answered, req, deleter, stained, history>>

Turns == 1..MaxTurns
Streams == Turns \cup Askers
Requests == Streams \cup Readers

Message == [turn : Turns, role : {"user", "assistant"}]

Idle == [pc |-> "idle",
         seen |-> None,    \* messages read and not yet cached
         first |-> FALSE,  \* the turn has read no message
         page |-> "ended"] \* does the page wait for [DONE]?

Init ==
    /\ tab \in {"chat", "search"}
    /\ open = TRUE /\ msgs = {} /\ renames = 0
    /\ cache = None /\ answered = FALSE
    /\ req = [r \in Requests |-> Idle]
    /\ deleter = "idle" /\ stained = FALSE
    /\ over = {} /\ mixed = FALSE

At(r, where) == req[r].pc = where
Goto(r, to) == req' = [req EXCEPT ![r].pc = to]
Over(r, as) == req' = [req EXCEPT ![r] = [Idle EXCEPT !.pc = as]]

-----------------------------------------------------------------------------
(* get_messages: cache, table, cache *)

Active(t) == req[t].pc \notin {"idle", "done", "failed"}

\* With its messages a turn goes to its model; a reader is done.
Have(r, list) ==
    req' = [req EXCEPT ![r].pc = IF r \in Turns THEN "model" ELSE "idle",
                       ![r].seen = None,
                       ![r].first = (r \in Turns /\ list = {}),
                       ![r].page = IF r \in Turns THEN "waiting" ELSE "ended"]

Miss(r) == req' = [req EXCEPT ![r].pc = "query",
                              ![r].page = IF r \in Turns THEN "waiting" ELSE "ended"]

Begin(t) ==
    /\ tab = "chat" /\ t \in Turns /\ At(t, "idle")
    /\ \A u \in 1..(t - 1) : ~At(u, "idle")
    /\ IF cache = None THEN Miss(t) ELSE Have(t, cache)
    /\ mixed' = (mixed \/ \E u \in Turns : Active(u))
    /\ UNCHANGED <<tab, chat, answered, over>>

\* A reader that finds the list in the cache is done at once.
Show(r) ==
    /\ tab = "chat" /\ r \in Readers /\ At(r, "idle")
    /\ cache = None /\ Miss(r)
    /\ UNCHANGED <<tab, chat, answered, history>>

Query(r) ==
    /\ At(r, "query")
    /\ req' = [req EXCEPT ![r].pc = "fill", ![r].seen = msgs]
    /\ UNCHANGED <<tab, chat, answered, history>>

Fill(r) ==
    /\ At(r, "fill")
    /\ cache' = req[r].seen
    /\ stained' = (stained \/ req[r].seen # msgs)
    /\ mixed' = (mixed \/ req[r].seen # msgs)
    /\ Have(r, req[r].seen)
    /\ UNCHANGED <<tab, table, deleter, answered, over>>

\* The entry's TTL.
Expire ==
    /\ cache # None
    /\ cache' = None /\ stained' = FALSE
    /\ UNCHANGED <<tab, table, deleter, answered, req, history>>

-----------------------------------------------------------------------------
(* The model's stream.  The gateway ends its events with the same [DONE]   *)
(* whether its provider sent all or broke off; a local provider raises.    *)

Stream(t) ==
    /\ At(t, "model")
    /\ Goto(t, "user")
    /\ UNCHANGED <<tab, chat, answered, history>>

\* Mutation of Raise: the events end without [DONE].
RaiseSilent(r) ==
    /\ req[r].pc \in {"model", "ask"}
    /\ Goto(r, "failed")
    /\ UNCHANGED <<tab, chat, answered, history>>

\* The model, or a turn's search or condensed query, raises; or the page is
\* closed at one of the stream's yields.
Raise(r) ==
    /\ req[r].pc \in {"model", "ask"}
    /\ Over(r, "failed")
    /\ UNCHANGED <<tab, chat, answered, history>>

-----------------------------------------------------------------------------
(* The end of a turn *)

\* append: a foreign key refuses a chat that is gone.
Write(t, role, to) ==
    /\ open \/ ~ForeignKeys
    /\ msgs' = msgs \cup {[turn |-> t, role |-> role]}
    /\ Goto(t, to)
    /\ UNCHANGED <<tab, open, renames, cache, deleter, stained, answered, history>>

AppendUser(t) == At(t, "user") /\ Write(t, "user", "assistant")
AppendAnswer(t) == At(t, "assistant") /\ Write(t, "assistant", "tomb")

\* [DONE] reaches the page after all of that.
AfterReset(t) == IF req[t].first THEN Goto(t, "title") ELSE Over(t, "done")

\* Mutation of Invalidate: only the first turn resets the cache.
InvalidateFirst(t) ==
    /\ At(t, "tomb")
    /\ IF req[t].first THEN cache' = None /\ stained' = FALSE
                       ELSE UNCHANGED <<cache, stained>>
    /\ AfterReset(t)
    /\ UNCHANGED <<tab, table, deleter, answered, history>>

\* _invalidate_chat
Invalidate(t) ==
    /\ At(t, "tomb")
    /\ cache' = None /\ stained' = FALSE
    /\ AfterReset(t)
    /\ UNCHANGED <<tab, table, deleter, answered, history>>

\* Mutation of Rename: the new name is lost.
RenameNever(t) ==
    /\ At(t, "title")
    /\ Over(t, "done")
    /\ UNCHANGED <<tab, chat, answered, history>>

\* rename: a chat that is gone is left alone.
Renamed == renames + IF open THEN 1 ELSE 0

\* The title comes from a model, or from the question if that raises.
Rename(t) ==
    /\ At(t, "title")
    /\ renames' = Renamed
    /\ Over(t, "done")
    /\ UNCHANGED <<tab, open, msgs, cache, deleter, stained, answered, history>>

\* A call to database or cache raises.
Break(t) ==
    /\ req[t].pc \in {"user", "assistant", "tomb", "title"}
    /\ Over(t, "failed")
    /\ stained' = (stained \/ req[t].pc \in {"assistant", "tomb"})
    /\ mixed' = (mixed \/ req[t].pc # "user")
    /\ UNCHANGED <<tab, table, cache, deleter, answered, over>>

-----------------------------------------------------------------------------
(* answer_stream: the cached answer at once, or a model's stream, stored   *)
(* when it has ended.                                                      *)

Ask(r) ==
    /\ tab = "search" /\ r \in Askers /\ At(r, "idle")
    /\ req' = [req EXCEPT ![r].pc = IF answered THEN "done" ELSE "ask",
                       ![r].page = IF answered THEN "ended" ELSE "waiting"]
    /\ UNCHANGED <<tab, chat, answered, history>>

Store(r) ==
    /\ At(r, "ask")
    /\ answered' = TRUE
    /\ Over(r, "done")
    /\ UNCHANGED <<tab, chat, history>>

-----------------------------------------------------------------------------
(* delete_chat *)

\* Mutation of DeleteRows: the chat's row only.
DeleteChatOnly ==
    /\ tab = "chat" /\ deleter = "idle"
    /\ open' = FALSE
    /\ over' = {t \in Turns : ~Active(t) /\ ~At(t, "idle")}
    /\ deleter' = "tomb"
    /\ UNCHANGED <<tab, msgs, renames, cache, stained, answered, req, mixed>>

DeleteRows ==
    /\ tab = "chat" /\ deleter = "idle"
    /\ open' = FALSE /\ msgs' = {}
    /\ over' = {t \in Turns : ~Active(t) /\ ~At(t, "idle")}
    /\ deleter' = "tomb"
    /\ UNCHANGED <<tab, renames, cache, stained, answered, req, mixed>>

DeleteCache ==
    /\ deleter = "tomb"
    /\ cache' = None /\ stained' = FALSE
    /\ deleter' = "done"
    /\ UNCHANGED <<tab, table, answered, req, history>>

-----------------------------------------------------------------------------
\* What a request's thread does once it is asked.
Going(r) ==
    \/ Query(r) \/ Fill(r) \/ Stream(r) \/ Raise(r)
    \/ AppendUser(r) \/ AppendAnswer(r) \/ Invalidate(r) \/ Rename(r) \/ Break(r)
    \/ Store(r)

Next ==
    \/ \E r \in Requests : Begin(r) \/ Show(r) \/ Ask(r) \/ Going(r)
    \/ Expire \/ DeleteRows \/ DeleteCache

\* A thread that can go on does; calls to models end by their timeouts.
Spec == Init /\ [][Next]_vars /\ \A r \in Requests : WF_vars(Going(r))

-----------------------------------------------------------------------------
\* Types: the table, the caches and the requests.
TypeOK ==
    /\ tab \in {"chat", "search"}
    /\ open \in BOOLEAN /\ renames \in Nat
    /\ msgs \subseteq Message
    /\ cache \in (SUBSET Message) \cup {None}
    /\ answered \in BOOLEAN
    /\ req \in [Requests ->
                 [pc : {"idle", "query", "fill", "model", "ask", "user",
                        "assistant", "tomb", "title", "done", "failed"},
                  seen : (SUBSET Message) \cup {None}, first : BOOLEAN,
                  page : {"waiting", "ended"}]]
    /\ deleter \in {"idle", "tomb", "done"}
    /\ over \subseteq Turns
    /\ {stained, mixed} \subseteq BOOLEAN

\* What the cached list lacks is of turns that are about to reset it, so the
\* next turn is told of every turn that has ended, whatever others are doing;
\* and it holds deleted messages only until the deletion resets it.  Except
\* after a reader has stored what it read before a turn's reset, or after a
\* turn that failed in between (backend.py:182, 230).
CleanCacheIsCurrent ==
    cache # None /\ ~stained =>
      /\ \A m \in msgs \ cache : At(m.turn, "assistant") \/ At(m.turn, "tomb")
      /\ cache \subseteq msgs \/ deleter = "tomb"

\* Turns that take turns name a chat once, and it has its name when its
\* first turn is over (backend.py:169, 217); a reader that stores the empty
\* list too late has it named again.
NamedOnce ==
    ~mixed /\ open =>
      /\ renames <= 1
      /\ (\E t \in Turns : At(t, "done")) => renames = 1

\* Where foreign keys are enforced no message outlives its chat; elsewhere
\* none of a turn that had ended by then (history_repo.py:62).
NoOrphans ==
    ~open => \A m \in msgs : ~ForeignKeys /\ m.turn \notin over

\* Every page that waits for a stream sees its end, whatever fails before
\* it (util/sse.py:26).
StreamsEnd ==
    \A r \in Streams : req[r].page = "waiting" ~> req[r].page = "ended"
=============================================================================
