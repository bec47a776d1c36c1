-------------------------- MODULE AtomicItemUpdate --------------------------
(***************************************************************************)
(* What update_working_memory_items promises its callers: a background     *)
(* task reads a session, works for a while, and then marks the items it    *)
(* read.  All the marks land in one indivisible step, each on an item that *)
(* is still exactly the item the task read, or no mark lands at all.       *)
(* Clients replace or drop the session at any time.                        *)
(***************************************************************************)
CONSTANTS ItemIds,  \* ids of the messages and memories of one session
          Contents, \* what the client may write in an item
          Versions, \* values of the session's own fields (data, context, ...)
          Tasks,    \* the background tasks
          Flags,    \* the fields in which tasks record their work
          FlagOf,   \* FlagOf[t] is the field of task t
          None      \* no item, no session, no job

VARIABLES data,  \* the session's own fields, None when there is no session
          items, \* items[i] is the stored item i or None
          job    \* job[t][i] is item i as task t read it; None when t is idle

vars == <<data, items, job>>

Item == [content : Contents, flags : SUBSET Flags]
Stored == [ItemIds -> Item \cup {None}]
NoItems == [i \in ItemIds |-> None]

\* The items of  stored  that are still what the job read.
Matching(stored, read) == {i \in ItemIds : read[i] # None /\ stored[i] = read[i]}

\* stored  with flag  f  recorded on the items in  ids.
Marked(stored, ids, f) ==
    [i \in ItemIds |-> IF i \in ids
                       THEN [content |-> stored[i].content,
                             flags   |-> stored[i].flags \cup {f}]
                       ELSE stored[i]]

Init == /\ data = None
        /\ items = NoItems
        /\ job = [t \in Tasks |-> None]

\* The client replaces the session, whatever tasks are at work on it.
Replace == /\ data' \in Versions
           /\ items' \in Stored
           /\ UNCHANGED job

\* The session is deleted or expires.
Drop == /\ data' = None
        /\ items' = NoItems
        /\ UNCHANGED job

\* A task takes some of the items as they are now.
Begin(t) == /\ job[t] = None
            /\ \E ids \in SUBSET ItemIds :
                 job' = [job EXCEPT ![t] =
                           [i \in ItemIds |-> IF i \in ids THEN items[i] ELSE None]]
            /\ UNCHANGED <<data, items>>

\* Every item that is unchanged since Begin is marked, the others are left.
Commit(t) == /\ job[t] # None
             /\ data # None
             /\ items' = Marked(items, Matching(items, job[t]), FlagOf[t])
             /\ job' = [job EXCEPT ![t] = None]
             /\ UNCHANGED data

\* The task ends without marking anything.
Abandon(t) == /\ job[t] # None
              /\ job' = [job EXCEPT ![t] = None]
              /\ UNCHANGED <<data, items>>

Next == \/ Replace
        \/ Drop
        \/ \E t \in Tasks : Begin(t) \/ Commit(t) \/ Abandon(t)

Spec == Init /\ [][Next]_vars
=============================================================================
