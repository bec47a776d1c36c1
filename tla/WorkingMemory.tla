--------------------------- MODULE WorkingMemory ----------------------------
(***************************************************************************)
(* One session of working memory (agent_memory_server/working_memory.py):  *)
(* clients PUT and DELETE the whole session, its key expires, and the      *)
(* background tasks promote_working_memory_to_long_term and                *)
(* run_delayed_extraction read it, work for seconds on what they read and  *)
(* then record that work on single items with update_working_memory_items, *)
(* an optimistic transaction (WATCH, read, MULTI/EXEC) tried at most       *)
(* MaxAttempts times.                                                      *)
(***************************************************************************)
EXTENDS Naturals

CONSTANTS ItemIds,     \* ids of messages and memories
          Contents,    \* everything of an item except what the tasks write
          Versions,    \* the session's own fields (data, context, ...)
          Clients,     \* requests in flight that write the session
          Promoters,   \* promotion tasks: they set persisted_at
          Extractors,  \* extraction tasks: they set discrete_memory_extracted
          MaxAttempts, \* ITEM_UPDATE_MAX_ATTEMPTS
          None         \* no item, no session

ASSUME TasksAssumption == Promoters \cap Extractors = {}
ASSUME AttemptsAssumption == MaxAttempts \in Nat \ {0}
ASSUME NoneAssumption ==
    /\ None \notin Versions
    /\ None \notin [content : Contents, flags : SUBSET {"persisted", "extracted"}]
    /\ None \notin [ItemIds -> [content : Contents,
                                flags : SUBSET {"persisted", "extracted"}] \cup {None}]

Tasks == Promoters \cup Extractors
Flags == {"persisted", "extracted"}
FlagOf == [t \in Tasks |-> IF t \in Promoters THEN "persisted" ELSE "extracted"]
Item == [content : Contents, flags : SUBSET Flags]
Stored == [ItemIds -> Item \cup {None}]
NoItems == [i \in ItemIds |-> None]

VARIABLES
    data,      \* the session's own fields, None when the key does not exist
    items,     \* items[i] is stored item i or None
    put,       \* put[c] = "expire" between the JSON.SET and the EXPIRE of a PUT
    pc,        \* where task t is
    before,    \* before[t][i] is item i as task t read it, None if not its work
    matched,   \* the ids update_working_memory_items is about to write for t
    dirty,     \* dirty[t]: the key was written since t's WATCH
    attempts,  \* transactions t has tried
    taken      \* <<flag, id, content>>: what tasks have taken up and come back from (history)

session == <<data, items>>
taskVars == <<pc, before, matched, attempts>>
vars == <<data, items, put, pc, before, matched, dirty, attempts, taken>>

Steps == {"idle", "work", "exists", "lookup", "watch", "read", "exec"}

Init == /\ data = None
        /\ items = NoItems
        /\ put = [c \in Clients |-> "idle"]
        /\ pc = [t \in Tasks |-> "idle"]
        /\ before = [t \in Tasks |-> NoItems]
        /\ matched = [t \in Tasks |-> {}]
        /\ dirty = [t \in Tasks |-> FALSE]
        /\ attempts = [t \in Tasks |-> 0]
        /\ taken = {}

-----------------------------------------------------------------------------
(***************************************************************************)
(* Writers of the whole session.                                           *)
(***************************************************************************)

\* Redis fails the EXEC of every connection that watches a key once it is written.
TouchKey == dirty' = [t \in Tasks |-> TRUE]

\* Items a client can send: new ones, or ones it got from a GET, with the
\* server's fields as they were then.
Sendable(i) == {item \in Item : \A f \in item.flags :
                                  <<f, i, item.content>> \in taken}

\* set_working_memory, first command: JSON.SET replaces the whole document.
SetWorkingMemory(c) ==
    /\ put[c] = "idle"
    /\ data' \in Versions
    /\ items' \in Stored
    /\ \A i \in ItemIds : items'[i] # None => items'[i] \in Sendable(i)
    /\ put' = [put EXCEPT ![c] = "expire"]
    /\ TouchKey
    /\ UNCHANGED <<taskVars, taken>>

\* set_working_memory, second command: EXPIRE, when the PUT carries ttl_seconds
\* and its key still exists.  A PUT without TTL, or one cut off here, writes nothing.
SetExpire(c) ==
    /\ put[c] = "expire"
    /\ put' = [put EXCEPT ![c] = "idle"]
    /\ \/ data # None /\ TouchKey
       \/ UNCHANGED dirty
    /\ UNCHANGED <<session, taskVars, taken>>

\* delete_working_memory, or the key's TTL runs out.
DropSession ==
    /\ data # None
    /\ data' = None
    /\ items' = NoItems
    /\ TouchKey
    /\ UNCHANGED <<put, taskVars, taken>>

-----------------------------------------------------------------------------
(***************************************************************************)
(* The background tasks.                                                   *)
(***************************************************************************)

\* The stored items whose field for task t is not set yet.
Todo(t) == [i \in ItemIds |->
              IF items[i] # None /\ FlagOf[t] \notin items[i].flags
              THEN items[i] ELSE None]

\* The task reads the session and keeps the items it has to work on.
ReadSession(t) ==
    /\ pc[t] = "idle"
    /\ data # None
    /\ Todo(t) # NoItems
    /\ pc' = [pc EXCEPT ![t] = "work"]
    /\ before' = [before EXCEPT ![t] = Todo(t)]
    /\ UNCHANGED <<session, put, matched, dirty, attempts, taken>>

Work(t, ids) == {<<FlagOf[t], i, before[t][i].content>> : i \in ids}
OwnIds(t) == {i \in ItemIds : before[t][i] # None}

\* The work returns: a promotion has indexed everything it read; an extraction has read the
\* session once more and asked the LLM about that, and has come back, with memories or, after
\* an error that extract_memories_from_session_thread only logs, without.
FinishWork(t) ==
    /\ pc[t] = "work"
    /\ pc' = [pc EXCEPT ![t] = "exists"]
    /\ taken' = taken \cup Work(t, OwnIds(t))
    /\ UNCHANGED <<session, put, before, matched, dirty, attempts>>

\* Leaves the task's local state as it is before its next run.
EndTask(t) == /\ pc' = [pc EXCEPT ![t] = "idle"]
              /\ before' = [before EXCEPT ![t] = NoItems]
              /\ matched' = [matched EXCEPT ![t] = {}]
              /\ attempts' = [attempts EXCEPT ![t] = 0]

\* It raises (a promotion after some of the items), or the worker dies during it or later.
\* A redelivered or later task starts over with ReadSession.
AbortTask(t) ==
    /\ pc[t] # "idle"
    /\ EndTask(t)
    /\ IF pc[t] = "work" /\ t \in Promoters
       THEN \E ids \in SUBSET OwnIds(t) : taken' = taken \cup Work(t, ids)
       ELSE UNCHANGED taken
    /\ UNCHANGED <<session, put, dirty>>

\* update_working_memory_items: EXISTS decides which key there is to update.
CheckExists(t) ==
    /\ pc[t] = "exists"
    /\ pc' = [pc EXCEPT ![t] = IF data = None THEN "lookup" ELSE "watch"]
    /\ UNCHANGED <<session, put, before, matched, dirty, attempts, taken>>

\* The key is missing and the index is asked for one: it knows the session again if it was
\* PUT meanwhile.  It finds nothing, or several, or fails, and the task is over.  (A session
\* of the same id stored for another user or namespace is SessionDirectory's.)
LookUpKey(t) ==
    /\ pc[t] = "lookup"
    /\ \/ /\ data # None
          /\ pc' = [pc EXCEPT ![t] = "watch"]
          /\ UNCHANGED <<before, matched, attempts>>
       \/ EndTask(t)
    /\ UNCHANGED <<session, put, dirty, taken>>

\* Mutant: retry until the write goes through.
WatchKeyForever(t) ==
    /\ pc[t] = "watch"
    /\ pc' = [pc EXCEPT ![t] = "read"]
    /\ dirty' = [dirty EXCEPT ![t] = FALSE]
    /\ UNCHANGED <<session, put, before, matched, attempts, taken>>

\* One round of the retry loop begins.
WatchKey(t) ==
    /\ pc[t] = "watch"
    /\ pc' = [pc EXCEPT ![t] = "read"]
    /\ attempts' = [attempts EXCEPT ![t] = @ + 1]
    /\ dirty' = [dirty EXCEPT ![t] = FALSE]
    /\ UNCHANGED <<session, put, before, matched, taken>>

\* Mutant: match stored items by id alone.
UnchangedById(t) == {i \in OwnIds(t) : items[i] # None}

\* The stored items that are still what the task read.
Unchanged(t) == {i \in OwnIds(t) : items[i] = before[t][i]}

\* Read under the watch and choose the writes.
ReadWatched(t) ==
    /\ pc[t] = "read"
    /\ IF data = None \/ Unchanged(t) = {}
       THEN EndTask(t)
       ELSE /\ pc' = [pc EXCEPT ![t] = "exec"]
            /\ matched' = [matched EXCEPT ![t] = Unchanged(t)]
            /\ UNCHANGED <<before, attempts>>
    /\ UNCHANGED <<session, put, dirty, taken>>

\* Items  ids  with the task's field set, everything else as stored.
Recorded(t, ids) ==
    [i \in ItemIds |-> IF i \in ids
                       THEN [content |-> items[i].content,
                             flags   |-> items[i].flags \cup {FlagOf[t]}]
                       ELSE items[i]]

\* Mutant: write the items back as they were read, without a watch.
ExecWriteBack(t) ==
    /\ pc[t] = "exec"
    /\ items' = [i \in ItemIds |->
                   IF i \in matched[t]
                   THEN [before[t][i] EXCEPT !.flags = @ \cup {FlagOf[t]}]
                   ELSE items[i]]
    /\ EndTask(t)
    /\ TouchKey
    /\ UNCHANGED <<data, put, taken>>

\* EXEC goes through: the paths of the matched items are written in one step.
Exec(t) ==
    /\ pc[t] = "exec"
    /\ ~dirty[t]
    /\ items' = Recorded(t, matched[t])
    /\ EndTask(t)
    /\ TouchKey
    /\ UNCHANGED <<data, put, taken>>

\* Mutant: one attempt too many.
ExecWatchErrorOffByOne(t) ==
    /\ pc[t] = "exec"
    /\ dirty[t]
    /\ IF attempts[t] <= MaxAttempts
       THEN /\ pc' = [pc EXCEPT ![t] = "watch"]
            /\ matched' = [matched EXCEPT ![t] = {}]
            /\ UNCHANGED <<before, attempts>>
       ELSE EndTask(t)
    /\ UNCHANGED <<session, put, dirty, taken>>

\* EXEC fails with WatchError: another round, or the task gives up.
ExecWatchError(t) ==
    /\ pc[t] = "exec"
    /\ dirty[t]
    /\ IF attempts[t] < MaxAttempts
       THEN /\ pc' = [pc EXCEPT ![t] = "watch"]
            /\ matched' = [matched EXCEPT ![t] = {}]
            /\ UNCHANGED <<before, attempts>>
       ELSE EndTask(t)
    /\ UNCHANGED <<session, put, dirty, taken>>

-----------------------------------------------------------------------------
UpdateItems(t) == \/ CheckExists(t)
                  \/ LookUpKey(t)
                  \/ WatchKey(t)
                  \/ ReadWatched(t)
                  \/ Exec(t)
                  \/ ExecWatchError(t)

TaskStep(t) == ReadSession(t) \/ FinishWork(t) \/ AbortTask(t) \/ UpdateItems(t)

Next == \/ \E c \in Clients : SetWorkingMemory(c) \/ SetExpire(c)
        \/ DropSession
        \/ \E t \in Tasks : TaskStep(t)

Spec == Init /\ [][Next]_vars

\* A worker keeps running the coroutine it started; nothing makes clients act.
FairSpec == Spec /\ \A t \in Tasks : WF_vars(UpdateItems(t)) /\ WF_vars(FinishWork(t))

-----------------------------------------------------------------------------
(***************************************************************************)
(* Properties.                                                             *)
(***************************************************************************)

\* The state has the shape the code gives it; a session without key has no items,
\* and only a task inside update_working_memory_items holds chosen writes.
TypeOK ==
    /\ data \in Versions \cup {None}
    /\ items \in Stored
    /\ data = None => items = NoItems
    /\ put \in [Clients -> {"idle", "expire"}]
    /\ pc \in [Tasks -> Steps]
    /\ before \in [Tasks -> Stored]
    /\ matched \in [Tasks -> SUBSET ItemIds]
    /\ dirty \in [Tasks -> BOOLEAN]
    /\ attempts \in [Tasks -> 0 .. MaxAttempts]
    /\ taken \subseteq Flags \X ItemIds \X Contents

\* An item marked persisted was indexed with the content it has now, and one marked extracted
\* was read with that content by an extraction that came back: no interleaving of PUTs,
\* deletions, task failures and retries lets a task put its mark on an item other than the one
\* it took up (update_working_memory_items: "only if ``before`` is still the current value").
\* What the LLM made of an extracted message, and on which read, is Extraction's.
MarkedWasTakenUp ==
    \A i \in ItemIds : items[i] # None =>
        \A f \in items[i].flags : <<f, i, items[i].content>> \in taken

\* update_working_memory_items implements one indivisible compare-and-mark of all
\* the items a task read: whatever PUT, DELETE, expiry or other task comes between
\* its commands, it never rolls back, recreates or half-writes a session.
Atomic == INSTANCE AtomicItemUpdate
            WITH job <- [t \in Tasks |-> IF pc[t] = "idle" THEN None ELSE before[t]]
UpdatesAreAtomic == Atomic!Spec

\* However fast clients keep writing the session, a task that started to work gets
\* to its end: the retry loop of update_working_memory_items is bounded.
TasksEnd == \A t \in Tasks : pc[t] # "idle" ~> pc[t] = "idle"
=============================================================================
