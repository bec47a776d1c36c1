--------------------------- MODULE SummaryRefresh ---------------------------
(***************************************************************************)
(* Refreshing one summary view (agent_memory_server/summary_views.py,      *)
(* tasks.py and the run endpoints of api.py).  A client asks for a full    *)
(* run and polls a Task; a Docket worker executes refresh_summary_view,    *)
(* which reads the view, sets the task RUNNING, fetches the memories page  *)
(* by page, saves one summary per partition and sets SUCCESS or FAILED.  A *)
(* status update is a GET, a check against the allowed transitions, and a  *)
(* SET.  Periodic runs and single-partition runs write the same summaries. *)
(***************************************************************************)
EXTENDS Naturals, FiniteSets

CONSTANTS
    Groups,      \* partitions
    Memories,    \* memories that may be there
    GroupOf,     \* the partition a memory falls in; an edit does not move it to another
    Tasks,       \* task ids; no client passes the id of an earlier run (payload.task_id)
    Execs,       \* executions that may be in flight at a time
    PageSize,    \* memories in a full page (page_size, 1000)
    MaxVersion,  \* bound on the changes of memories
    MaxUpsets,   \* bound on what disturbs the runs (see Upset)
    NoTask

ASSUME BoundsAssumption == /\ PageSize \in Nat \ {0} /\ MaxVersion \in Nat \ {0}
                           /\ MaxUpsets \in Nat /\ NoTask \notin Tasks
ASSUME GroupsAssumption == IsFiniteSet(Memories) /\ GroupOf \in [Memories -> Groups]

VARIABLES
    view,    \* the view's configuration exists
    mem,     \* mem[m]: version of memory m, 0 when it is not there
    version, \* the last version given (bounded by MaxVersion)
    task,    \* task[t]: status of the Task record, "absent" before it is created
    queue,   \* tasks whose refresh is in Docket's stream and not acknowledged
    pc,      \* pc[e]: the next step of execution e
    job,     \* job[e]: the task that e tracks, or NoTask
    goal,    \* goal[e]: the status e is setting
    seen,    \* seen[e]: the status its GET returned
    todo,    \* todo[e]: partitions e was asked for or has found, and has still to save
    ahead,   \* ahead[e]: memories listed at or after the offset of e's next page
    got,     \* got[e]: the memories e has fetched, and their versions
    store,   \* the saved results: partition -> what it was computed from, and its text
    upsets,  \* what has disturbed the runs so far (bounded by MaxUpsets)
    owed,    \* owed[t]: memories that t's request found and that were not deleted (history)
    missed,  \* missed[t]: memories that moved past the offset of a run of t (history)
    setBack, \* setBack[t]: memories last summarised by another run, from an older fetch (history)
    cut      \* tasks an execution of which ended without recording it (history)

data == <<view, mem, version>>
local == <<pc, job, goal, seen, todo, ahead, got>>
history == <<owed, missed, setBack, cut>>
vars == <<data, task, queue, local, store, upsets, history>>

Statuses == {"pending", "running", "success", "failed"}
Terminal == {"success", "failed"}
Steps == {"idle", "start", "get", "set", "fetch", "more", "save", "ack"}

Nothing == [m \in {} |-> 0]
Present == {m \in Memories : mem[m] > 0}
Of(ms, g) == {m \in ms : GroupOf[m] = g}
Restricted(f, ms) == [m \in DOMAIN f \cap ms |-> f[m]]
Executes(e, t) == job[e] = t /\ pc[e] # "idle"

\* What disturbs the runs: crashes, late deliveries, cancellations, failed status
\* updates, LLM failures, the deletion of the view, and runs with no task.
Upset == upsets < MaxUpsets /\ upsets' = upsets + 1

Init == /\ view = TRUE
        /\ version = 1
        /\ mem \in [Memories -> 0 .. version]
        /\ task = [t \in Tasks |-> "absent"]
        /\ queue = {}
        /\ pc = [e \in Execs |-> "idle"]
        /\ job = [e \in Execs |-> NoTask]
        /\ goal = [e \in Execs |-> "running"]
        /\ seen = [e \in Execs |-> "absent"]
        /\ todo = [e \in Execs |-> {}]
        /\ ahead = [e \in Execs |-> {}]
        /\ got = [e \in Execs |-> Nothing]
        /\ store = [g \in {} |-> 0]
        /\ upsets = 0
        /\ owed = [t \in Tasks |-> Nothing]
        /\ missed = [t \in Tasks |-> {}]
        /\ setBack = [t \in Tasks |-> {}]
        /\ cut = {}

-----------------------------------------------------------------------------
(***************************************************************************)
(* Clients.                                                                *)
(***************************************************************************)
\* run_summary_view_full: the Task is created, then the refresh is queued; if that
\* fails the PENDING Task stays.
RunFull(t) ==
    /\ view /\ task[t] = "absent"
    /\ task' = [task EXCEPT ![t] = "pending"]
    /\ owed' = [owed EXCEPT ![t] = Restricted(mem, Present)]
    /\ queue' \in {queue \cup {t}, queue}
    /\ UNCHANGED <<data, local, store, upsets, missed, setBack, cut>>

Begin(e, step, t) == /\ pc[e] = "idle"
                     /\ pc' = [pc EXCEPT ![e] = step]
                     /\ job' = [job EXCEPT ![e] = t]

\* periodic_refresh_summary_views: a refresh with no task.
RunPeriodic(e) ==
    /\ view /\ Upset
    /\ Begin(e, "start", NoTask)
    /\ UNCHANGED <<data, task, queue, goal, seen, todo, ahead, got, store, history>>

\* run_summary_view_partition: the view is there, the partition is computed in the request.
RunPartition(e, g) ==
    /\ view /\ Upset
    /\ Begin(e, "fetch", NoTask)
    /\ todo' = [todo EXCEPT ![e] = {g}]
    /\ UNCHANGED <<data, task, queue, goal, seen, ahead, got, store, history>>

\* Where the change of a memory can leave the offset of a run that is between two
\* pages: the listing is in no particular order (search_long_term_memories, text="").
\* A memory deleted before the offset lets another slip past it, one that is edited
\* may be listed elsewhere, and one that is added may push another over the offset.
AfterDelete(a, m) == IF m \in a \/ a = {} THEN {a \ {m}} ELSE {a \ {x} : x \in a}
AfterAdd(a, m) == {a} \cup {a \cup {x} : x \in Present \cup {m}}
AfterEdit(a, m) == {a} \cup IF m \in a THEN {(a \ {m}) \cup {x} : x \in Present \ a}
                            ELSE {(a \ {x}) \cup {m} : x \in a}

\* The runs between two pages go on from offsets in one of those places.
MovesOffsets(After) ==
    \E a \in [Execs -> SUBSET Memories] :
      /\ \A e \in Execs : a[e] \in IF pc[e] = "more" THEN After[e] ELSE {ahead[e]}
      /\ ahead' = a
      /\ missed' = [t \in Tasks |-> missed[t] \cup
                     UNION {ahead[e] \ a[e] : e \in {f \in Execs : job[f] = t}}]

Changes(m, v) == /\ version < MaxVersion
                 /\ version' = version + 1
                 /\ mem' = [mem EXCEPT ![m] = v]

AddMemory(m) ==
    /\ mem[m] = 0 /\ Changes(m, version + 1)
    /\ MovesOffsets([e \in Execs |-> AfterAdd(ahead[e], m)])
    /\ UNCHANGED <<view, task, queue, pc, job, goal, seen, todo, got, store, upsets>>
    /\ UNCHANGED <<owed, setBack, cut>>

EditMemory(m) ==
    /\ mem[m] # 0 /\ Changes(m, version + 1)
    /\ MovesOffsets([e \in Execs |-> AfterEdit(ahead[e], m)])
    /\ UNCHANGED <<view, task, queue, pc, job, goal, seen, todo, got, store, upsets>>
    /\ UNCHANGED <<owed, setBack, cut>>

DeleteMemory(m) ==
    /\ mem[m] # 0 /\ Changes(m, 0)
    /\ MovesOffsets([e \in Execs |-> AfterDelete(ahead[e], m)])
    /\ owed' = [t \in Tasks |-> Restricted(owed[t], Memories \ {m})]
    /\ UNCHANGED <<view, task, queue, pc, job, goal, seen, todo, got, store, upsets, setBack, cut>>

\* delete_summary_view: the saved summaries stay.
DeleteView ==
    /\ view /\ Upset
    /\ view' = FALSE
    /\ UNCHANGED <<mem, version, task, queue, local, store, history>>

-----------------------------------------------------------------------------
(***************************************************************************)
(* Docket.  A message stays in the stream until its execution ends, and is *)
(* delivered again when it was not acknowledged in time, be the worker     *)
(* dead or late.                                                           *)
(***************************************************************************)
\* A message is delivered, for the first time or after a crash.
Deliver(e, t) ==
    /\ t \in queue /\ \A f \in Execs : job[f] # t
    /\ Begin(e, "start", t)
    /\ UNCHANGED <<data, task, queue, goal, seen, todo, ahead, got, store, upsets, history>>

\* It is delivered again beside a late execution, which goes on.
DeliverAgain(e, t) ==
    /\ Upset
    /\ t \in queue /\ \E f \in Execs : job[f] = t
    /\ Begin(e, "start", t)
    /\ UNCHANGED <<data, task, queue, goal, seen, todo, ahead, got, store, history>>

\* The execution is over, and its local variables with it.
Ends(e) == /\ pc' = [pc EXCEPT ![e] = "idle"] /\ job' = [job EXCEPT ![e] = NoTask]
           /\ goal' = [goal EXCEPT ![e] = "running"] /\ seen' = [seen EXCEPT ![e] = "absent"]
           /\ todo' = [todo EXCEPT ![e] = {}] /\ ahead' = [ahead EXCEPT ![e] = {}]
           /\ got' = [got EXCEPT ![e] = Nothing]

\* The worker acknowledges the execution.
Ack(e) ==
    /\ pc[e] = "ack" /\ Ends(e)
    /\ queue' = queue \ {job[e]}
    /\ UNCHANGED <<data, task, store, upsets, history>>

\* Whether there is still somebody to record how the run of e's task ends.
Told(e) == UNCHANGED cut
Untold(e) == cut' = cut \cup ({job[e]} \ {NoTask})

\* The worker dies.  Its message, if it is still in the stream, is delivered again; a
\* late execution whose message another one has acknowledged is not.
Crash(e) ==
    /\ Upset
    /\ pc[e] # "idle" /\ Ends(e)
    /\ IF job[e] \in queue /\ \A f \in Execs \ {e} : job[f] # job[e] THEN Told(e) ELSE Untold(e)
    /\ UNCHANGED <<data, task, queue, store, owed, missed, setBack>>

\* Docket's Timeout cancels the execution: CancelledError is not an Exception, so the
\* except clause does not see it.
TimeOut(e) ==
    /\ Upset
    /\ pc[e] \notin {"idle", "start", "ack"} /\ Ends(e)
    /\ queue' = queue \ {job[e]}
    /\ Untold(e)
    /\ UNCHANGED <<data, task, store, owed, missed, setBack>>

-----------------------------------------------------------------------------
(***************************************************************************)
(* refresh_summary_view, executed by e.                                    *)
(***************************************************************************)
Goto(e, step) == pc' = [pc EXCEPT ![e] = step]

\* Goes on to set the status of e's task, if it has one.
SetStatus(e, status, otherwise) ==
    /\ goal' = [goal EXCEPT ![e] = status]
    /\ Goto(e, IF job[e] # NoTask THEN "get" ELSE otherwise)

\* Mutant: a missing view ends the execution without a word.
StartQuietly(e) ==
    /\ pc[e] = "start"
    /\ IF view THEN SetStatus(e, "running", "fetch") ELSE Goto(e, "ack") /\ UNCHANGED goal
    /\ UNCHANGED <<data, task, queue, job, seen, todo, ahead, got, store, upsets, history>>

\* get_summary_view
Start(e) ==
    /\ pc[e] = "start"
    /\ IF view THEN SetStatus(e, "running", "fetch") ELSE SetStatus(e, "failed", "ack")
    /\ UNCHANGED <<data, task, queue, job, seen, todo, ahead, got, store, upsets, history>>

\* update_task_status: GET
GetTask(e) ==
    /\ pc[e] = "get"
    /\ Goto(e, "set")
    /\ seen' = [seen EXCEPT ![e] = task[job[e]]]
    /\ UNCHANGED <<data, task, queue, job, goal, todo, ahead, got, store, upsets, history>>

\* _VALID_TRANSITIONS
ValidTransitions(from) ==
    CASE from = "pending" -> {"running", "failed"}
      [] from = "running" -> {"success", "failed"}
      [] OTHER -> {}

Allowed(e) == goal[e] \in ValidTransitions(seen[e]) \cup {seen[e]}

\* update_task_status is left, and what it read with it.
Forgets(e) == seen' = [seen EXCEPT ![e] = "absent"]

\* update_task_status: SET
SetTask(e) ==
    /\ pc[e] = "set" /\ Allowed(e)
    /\ task' = [task EXCEPT ![job[e]] = goal[e]]
    /\ Goto(e, IF goal[e] = "running" THEN "fetch" ELSE "ack")
    /\ Forgets(e)
    /\ UNCHANGED <<data, queue, job, goal, todo, ahead, got, store, upsets, history>>

\* The update raises: for SUCCESS the except clause catches it and sets FAILED; the
\* updates to RUNNING and to FAILED are outside the try and end the execution.
UpdateRaises(e) == IF goal[e] = "success" THEN SetStatus(e, "failed", "ack")
                   ELSE Goto(e, "ack") /\ UNCHANGED goal

\* InvalidTaskTransitionError
RefuseTask(e) ==
    /\ pc[e] = "set" /\ ~Allowed(e)
    /\ UpdateRaises(e)
    /\ Forgets(e)
    /\ UNCHANGED <<data, task, queue, job, todo, ahead, got, store, upsets, history>>

\* Redis fails the GET or the SET.
FailUpdate(e) ==
    /\ Upset
    /\ pc[e] \in {"get", "set"}
    /\ UpdateRaises(e)
    /\ IF goal[e] = "success" THEN Told(e) ELSE Untold(e)
    /\ Forgets(e)
    /\ UNCHANGED <<data, task, queue, job, todo, ahead, got, store, owed, missed, setBack>>

\* The loop over pages and partitions is left, and its variables with it.
LeavesLoop(e) == /\ todo' = [todo EXCEPT ![e] = {}] /\ ahead' = [ahead EXCEPT ![e] = {}]
                 /\ got' = [got EXCEPT ![e] = Nothing]

\* What e is asked to fetch: the memories of one partition, or of all.
Asked(e) == IF todo[e] = {} THEN Present ELSE {m \in Present : GroupOf[m] \in todo[e]}

\* One page of _fetch_long_term_memories_for_view out of what is listed from the offset
\* on; a page that is not full is the last (_partition_memories_by_group).
FetchPage(e, listed) ==
    \E page \in SUBSET listed :
      /\ Cardinality(page) = PageSize \/ (page = listed /\ Cardinality(page) < PageSize)
      /\ got' = [got EXCEPT ![e] = [m \in DOMAIN got[e] \cup page |->
                                      IF m \in page THEN mem[m] ELSE got[e][m]]]
      /\ IF Cardinality(page) = PageSize
         THEN /\ Goto(e, "more")
              /\ ahead' = [ahead EXCEPT ![e] = listed \ page]
              /\ UNCHANGED todo
         ELSE /\ Goto(e, "save")
              /\ ahead' = [ahead EXCEPT ![e] = {}]
              /\ todo' = [todo EXCEPT ![e] = @ \cup {GroupOf[m] : m \in DOMAIN got'[e]}]
      /\ UNCHANGED <<data, task, queue, job, goal, seen, store, upsets, history>>

FetchFirst(e) == pc[e] = "fetch" /\ FetchPage(e, Asked(e))
FetchNext(e) == pc[e] = "more" /\ FetchPage(e, ahead[e])

\* Mutant: the LLM is asked for a summary of nothing.
TextsOfNothing(ms) == {"answer", "fallback"}

\* What summarize_partition_long_term can return for the memories ms: the LLM's answer,
\* or a fixed text when the LLM fails or answers nothing; no text for no memories.
Texts(ms) == IF ms = {} THEN {"none"} ELSE {"answer", "fallback"}

Result(e, g, text) == [of |-> Restricted(got[e], Of(Memories, g)), text |-> text]

\* The memory m is in what a result is computed from, in version v or a later one.
Covers(result, m, v) == m \in DOMAIN result.of /\ result.of[m] >= v

\* What the requests see set back once e has saved a result of g.
SetsBack(e, g, result) ==
    setBack' = [t \in Tasks |->
        (setBack[t] \ Of(Memories, g)) \cup
        {m \in Of(DOMAIN owed[t], g) : t # job[e] /\ ~Covers(result, m, owed[t][m])}]

\* Mutant: a summary that is there is kept.
SaveNewPartition(e) ==
    /\ pc[e] = "save"
    /\ \E g \in todo[e] : \E text \in Texts(Of(DOMAIN got[e], g)) :
         /\ store' = [h \in DOMAIN store \cup {g} |->
                        IF h \in DOMAIN store THEN store[h] ELSE Result(e, g, text)]
         /\ todo' = [todo EXCEPT ![e] = @ \ {g}]
         /\ IF text = "fallback" THEN Upset ELSE UNCHANGED upsets
    /\ UNCHANGED <<data, task, queue, pc, job, goal, seen, ahead, got, history>>

\* summarize_partition_long_term and save_partition_result, over an earlier result
SavePartition(e) ==
    /\ pc[e] = "save"
    /\ \E g \in todo[e] : \E text \in Texts(Of(DOMAIN got[e], g)) :
         /\ store' = [h \in DOMAIN store \cup {g} |->
                        IF h = g THEN Result(e, g, text) ELSE store[h]]
         /\ SetsBack(e, g, Result(e, g, text))
         /\ todo' = [todo EXCEPT ![e] = @ \ {g}]
         /\ IF text = "fallback" THEN Upset ELSE UNCHANGED upsets
    /\ UNCHANGED <<data, task, queue, pc, job, goal, seen, ahead, got, owed, missed, cut>>

\* All partitions are saved.
Finish(e) ==
    /\ pc[e] = "save" /\ todo[e] = {}
    /\ SetStatus(e, "success", "ack")
    /\ LeavesLoop(e)
    /\ UNCHANGED <<data, task, queue, job, seen, store, upsets, history>>

\* Mutant: the except clause only logs.
FailQuietly(e) ==
    /\ pc[e] \in {"fetch", "more", "save"}
    /\ Goto(e, "ack") /\ UNCHANGED goal
    /\ LeavesLoop(e)
    /\ UNCHANGED <<data, task, queue, job, seen, store, upsets, history>>

\* Fetching or saving raises: the except clause sets FAILED.
Fail(e) ==
    /\ pc[e] \in {"fetch", "more", "save"}
    /\ SetStatus(e, "failed", "ack")
    /\ LeavesLoop(e)
    /\ UNCHANGED <<data, task, queue, job, seen, store, upsets, history>>

ExecStep(e) == \/ Start(e) \/ GetTask(e) \/ SetTask(e) \/ RefuseTask(e)
               \/ FetchFirst(e) \/ FetchNext(e) \/ SavePartition(e) \/ Finish(e) \/ Ack(e)

Next == \/ \E t \in Tasks : RunFull(t)
        \/ \E m \in Memories : AddMemory(m) \/ EditMemory(m) \/ DeleteMemory(m)
        \/ DeleteView
        \/ \E e \in Execs : \/ RunPeriodic(e) \/ (\E g \in Groups : RunPartition(e, g))
                            \/ (\E t \in Tasks : Deliver(e, t) \/ DeliverAgain(e, t))
                            \/ ExecStep(e) \/ Fail(e) \/ FailUpdate(e) \/ Crash(e) \/ TimeOut(e)

Spec == Init /\ [][Next]_vars

\* Workers go on with what they have, and every message has its turn in the stream;
\* clients and failures need not.
FairSpec == /\ Spec
            /\ \A e \in Execs : WF_vars(ExecStep(e))
            /\ \A t \in Tasks : SF_vars(\E e \in Execs : Deliver(e, t))

-----------------------------------------------------------------------------
(***************************************************************************)
(* Properties.                                                             *)
(***************************************************************************)
\* What is fetched, owed or summarised are memories in versions that were given.
Versions(f) == DOMAIN f \subseteq Memories /\ \A m \in DOMAIN f : f[m] \in 1 .. version

\* Executions at rest hold nothing, only tracked ones touch a Task, and a result has a
\* text, the LLM's or the fallback, exactly when it was computed from some memories.
TypeOK ==
    /\ view \in BOOLEAN
    /\ version \in 0 .. MaxVersion /\ mem \in [Memories -> 0 .. version]
    /\ task \in [Tasks -> Statuses \cup {"absent"}] /\ queue \subseteq Tasks
    /\ pc \in [Execs -> Steps]
    /\ job \in [Execs -> Tasks \cup {NoTask}]
    /\ goal \in [Execs -> Statuses] /\ seen \in [Execs -> Statuses \cup {"absent"}]
    /\ todo \in [Execs -> SUBSET Groups] /\ ahead \in [Execs -> SUBSET Present]
    /\ \A e \in Execs : /\ Versions(got[e])
                        /\ pc[e] \in {"get", "set"} => job[e] \in Tasks
                        /\ pc[e] = "idle" => job[e] = NoTask /\ todo[e] = {}
                        /\ pc[e] \in {"idle", "start", "fetch"} => ahead[e] = {} /\ got[e] = Nothing
    /\ DOMAIN store \subseteq Groups
    /\ \A g \in DOMAIN store : /\ Versions(store[g].of)
                               /\ \A m \in DOMAIN store[g].of : GroupOf[m] = g
                               /\ store[g].text = "none" <=> DOMAIN store[g].of = {}
    /\ \A t \in Tasks : Versions(owed[t])
    /\ missed \in [Tasks -> SUBSET Memories] /\ setBack \in [Tasks -> SUBSET Memories]
    /\ upsets \in 0 .. MaxUpsets /\ cut \subseteq Tasks

\* When a client sees SUCCESS, every memory that its request found and that is there
\* since is in the result of its partition, in the version of the request or a later one
\* (summary_views.py 645-677: all relevant memories, one result per partition).  Two
\* races are excepted: the memory slipped between two pages of the fetch, or another run
\* has saved the partition since, from an older fetch.
SuccessIsFresh ==
    \A t \in Tasks : task[t] = "success" =>
        \A m \in DOMAIN owed[t] \ missed[t] :
            /\ GroupOf[m] \in DOMAIN store
            /\ m \in setBack[t] \/ Covers(store[GroupOf[m]], m, owed[t][m])

\* A task says RUNNING only while an execution of it goes on or will be delivered, or
\* after one that could not record its end (refresh_summary_view: "any failure is
\* reflected in the Task record as FAILED").
RunningHasExecution ==
    \A t \in Tasks : task[t] = "running" =>
        t \in queue \cup cut \/ \E e \in Execs : Executes(e, t)

\* A request that was queued ends: its task becomes SUCCESS or FAILED, though workers
\* crash or are late, the view is deleted or memories cannot be fetched; or an
\* execution of it was cut off.
RequestsEnd ==
    \A t \in Tasks : t \in queue ~> task[t] \in Terminal \/ t \in cut
=============================================================================
