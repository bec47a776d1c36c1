----------------------------- MODULE Extraction -----------------------------
(***************************************************************************)
(* Trailing-edge extraction of one session's messages                      *)
(* (agent_memory_server/long_term_memory.py): every PUT queues a promotion *)
(* that schedules an extraction Debounce later; the extraction that is not *)
(* superseded by then reads the session, calls the LLM, marks the messages *)
(* it read, sets the post-extraction debounce, clears the pending key and  *)
(* indexes what the LLM found.  With Docket the runs are queued tasks that *)
(* a worker may run late; without it they sleep inside the server.         *)
(* Time is counted in ticks, every timer holding the ticks it has left.    *)
(***************************************************************************)
EXTENDS Integers, FiniteSets

CONSTANTS
    Msgs,         \* messages the client may add to the session
    Debounce,     \* extraction_debounce_seconds, in ticks
    MaxRuns,      \* bound on scheduled extractions
    UseDocket,    \* settings.use_docket
    CalmClient,   \* the client writes only when no extraction is in progress or debounced
    ClientRewrites, \* PUTs may also leave out messages or send extracted ones as new
    Failures,     \* LLM calls and indexing may fail
    Crashes,      \* the process that executes a run may die
    PromptWorker  \* the worker starts due runs, and finishes steps, without delay

ASSUME DebounceAssumption == Debounce \in Nat \ {0}
ASSUME BoundAssumption == MaxRuns \in Nat

Runs == 1 .. MaxRuns

VARIABLES
    wm,       \* wm[m] is "absent" or discrete_memory_extracted of message m
    promotes, \* promotion tasks queued and not run
    deciding, \* promotions that found work and no debounce, and will schedule
    pending,  \* the extraction_pending key: a scheduled run, 0 when absent
    pendingTtl,  \* ticks until it expires
    debounceTtl, \* ticks until the extraction_debounce key expires, 0 when absent
    run,      \* run[n] is the state of scheduled run n
    due,      \* due[n]: ticks until run n may start
    snap,     \* snap[n]: the unextracted messages run n read
    found,    \* found[n]: the messages whose memories run n holds, not yet indexed
    ltm,      \* messages whose memories were indexed (history)
    heard,    \* messages an LLM call has covered (history)
    lost,     \* messages whose memories went with an error or a process (history)
    quiet     \* ticks since the last scheduling, up to Debounce (history)

clientVars == <<wm, promotes>>
keyVars == <<pending, pendingTtl, debounceTtl>>
runVars == <<run, due, snap, found>>
history == <<ltm, heard, lost, quiet>>
vars == <<wm, promotes, deciding, keyVars, runVars, history>>

States == {"none", "queued", "valid", "read", "extract", "mark", "debounce",
           "clear", "index", "skipped", "done", "failed"}
Ended == {"none", "skipped", "done", "failed"}
InProgress == {n \in Runs : run[n] \notin Ended}
Started == {n \in Runs : run[n] \notin Ended \cup {"queued"}}

Ready(n) == run[n] \notin Ended /\ due[n] = 0

Unextracted == {m \in Msgs : wm[m] = "f"}
Present == {m \in Msgs : wm[m] # "absent"}

Init == /\ wm = [m \in Msgs |-> "absent"]
        /\ promotes = 0
        /\ deciding = 0
        /\ pending = 0 /\ pendingTtl = 0 /\ debounceTtl = 0
        /\ run = [n \in Runs |-> "none"]
        /\ due = [n \in Runs |-> 0]
        /\ snap = [n \in Runs |-> {}]
        /\ found = [n \in Runs |-> {}]
        /\ ltm = {} /\ heard = {} /\ lost = {} /\ quiet = Debounce

-----------------------------------------------------------------------------
(***************************************************************************)
(* The client.                                                             *)
(***************************************************************************)
MayWrite == CalmClient => debounceTtl = 0 /\ \A n \in Runs : ~Ready(n)

\* HybridBackgroundTasks.add_task: a task for Docket, or a coroutine of the server.
QueuePromotion == promotes' = promotes + 1

\* put_working_memory_core: the session is replaced and a promotion queued.
\* New messages are unextracted; a client that does not send back what it got may
\* also leave out messages or send them as new again.
Put ==
    /\ MayWrite
    /\ promotes + deciding + Cardinality({n \in Runs : run[n] # "none"}) < MaxRuns
    /\ \E new \in SUBSET (Msgs \ Present) :
       \E gone \in SUBSET Present : \E again \in SUBSET (Present \ gone) :
         /\ ClientRewrites \/ gone \cup again = {}
         /\ new \cup gone \cup again # {}
         /\ wm' = [m \in Msgs |-> IF m \in new \cup again THEN "f"
                                  ELSE IF m \in gone THEN "absent" ELSE wm[m]]
         /\ IF new \cup (Present \ gone) # {} THEN QueuePromotion ELSE UNCHANGED promotes
    /\ UNCHANGED <<deciding, keyVars, runVars, history>>

-----------------------------------------------------------------------------
(***************************************************************************)
(* promote_working_memory_to_long_term and schedule_trailing_extraction.   *)
(***************************************************************************)

\* Reads the session; goes on to schedule unless nothing is unextracted or the
\* post-extraction debounce is on.
Promote ==
    /\ promotes > 0
    /\ promotes' = promotes - 1
    /\ IF Unextracted # {} /\ debounceTtl = 0
       THEN deciding' = deciding + 1
       ELSE UNCHANGED deciding
    /\ UNCHANGED <<wm, keyVars, runVars, history>>

\* Mutant: the key expires when the run is due.
PendingTtlOnce == Debounce

\* Mutant: the key stays a period longer.
PendingTtlThrice == 3 * Debounce

\* The pending key outlives the due time by as much again.
PendingTtl == 2 * Debounce

\* The next run, Debounce from now.  With Docket it becomes the pending one, before it
\* is queued: queueing may fail, which is only logged.
Schedule ==
    /\ deciding > 0
    /\ deciding' = deciding - 1
    /\ \E n \in Runs :
         /\ run[n] = "none" /\ \A k \in 1 .. n - 1 : run[k] # "none"
         /\ due' = [due EXCEPT ![n] = Debounce]
         /\ \/ run' = [run EXCEPT ![n] = "queued"]
            \/ Failures /\ UseDocket /\ run' = [run EXCEPT ![n] = "failed"]
         /\ IF UseDocket
            THEN pending' = n /\ pendingTtl' = PendingTtl
            ELSE UNCHANGED <<pending, pendingTtl>>
    /\ quiet' = 0
    /\ UNCHANGED <<wm, promotes, debounceTtl, snap, found, ltm, heard, lost>>

-----------------------------------------------------------------------------
(***************************************************************************)
(* run_delayed_extraction.                                                 *)
(***************************************************************************)
Goto(n, s) == run' = [run EXCEPT ![n] = s]

\* Ended runs keep nothing.
End(n, s) == /\ Goto(n, s)
             /\ snap' = [snap EXCEPT ![n] = {}]
             /\ found' = [found EXCEPT ![n] = {}]

\* Mutant: the timestamp is not compared.
CheckPendingExists(n) ==
    /\ run[n] = "queued" /\ due[n] = 0
    /\ Goto(n, IF UseDocket /\ pending = 0 THEN "skipped" ELSE "valid")
    /\ UNCHANGED <<clientVars, deciding, keyVars, due, snap, found, history>>

\* GET of the pending key: a run whose timestamp is not in it was superseded.
\* The inline run has no timestamp to compare.
CheckPending(n) ==
    /\ run[n] = "queued" /\ due[n] = 0
    /\ Goto(n, IF UseDocket /\ pending # n THEN "skipped" ELSE "valid")
    /\ UNCHANGED <<clientVars, deciding, keyVars, due, snap, found, history>>

\* should_extract_session_thread
CheckDebounce(n) ==
    /\ run[n] = "valid"
    /\ Goto(n, IF debounceTtl > 0 THEN "done" ELSE "read")
    /\ UNCHANGED <<clientVars, deciding, keyVars, due, snap, found, history>>

DeletePending == pending' = 0 /\ pendingTtl' = 0

\* Reads the session and keeps its unextracted messages.
ReadMessages(n) ==
    /\ run[n] = "read"
    /\ IF Unextracted = {}
       THEN Goto(n, "done") /\ DeletePending /\ UNCHANGED snap
       ELSE /\ Goto(n, "extract")
            /\ snap' = [snap EXCEPT ![n] = Unextracted]
            /\ UNCHANGED <<pending, pendingTtl>>
    /\ UNCHANGED <<clientVars, deciding, debounceTtl, due, found, history>>

\* extract_memories_from_session_thread reads the session again and gives all of it
\* to the LLM.  An error there is logged and looks like finding nothing.
Extract(n) ==
    /\ run[n] = "extract"
    /\ Goto(n, "mark")
    /\ \/ /\ found' = [found EXCEPT ![n] = Present]
          /\ heard' = heard \cup Present
          /\ UNCHANGED lost
       \/ /\ Failures
          /\ lost' = lost \cup snap[n]
          /\ UNCHANGED <<found, heard>>
    /\ UNCHANGED <<clientVars, deciding, keyVars, due, snap, ltm, quiet>>

\* Mutant: every message now in the session is marked.
MarkAll(n) ==
    /\ run[n] = "mark"
    /\ Goto(n, "debounce")
    /\ wm' = [m \in Msgs |-> IF wm[m] = "f" THEN "t" ELSE wm[m]]
    /\ UNCHANGED <<promotes, deciding, keyVars, due, snap, found, history>>

\* Mutant: only one of the messages read is marked.
MarkOne(n) ==
    /\ run[n] = "mark"
    /\ Goto(n, "debounce")
    /\ \E one \in snap[n] :
         wm' = [wm EXCEPT ![one] = IF @ = "f" THEN "t" ELSE @]
    /\ UNCHANGED <<promotes, deciding, keyVars, due, snap, found, history>>

\* update_working_memory_items on the messages read, if they are still as read.
Mark(n) ==
    /\ run[n] = "mark"
    /\ Goto(n, "debounce")
    /\ wm' = [m \in Msgs |-> IF m \in snap[n] \cap Unextracted THEN "t" ELSE wm[m]]
    /\ UNCHANGED <<promotes, deciding, keyVars, due, snap, found, history>>

\* set_extraction_debounce
SetDebounce(n) ==
    /\ run[n] = "debounce"
    /\ Goto(n, "clear")
    /\ debounceTtl' = Debounce
    /\ UNCHANGED <<clientVars, deciding, pending, pendingTtl, due, snap, found, history>>

\* The pending key is deleted, whichever run it names.
ClearPending(n) ==
    /\ run[n] = "clear"
    /\ Goto(n, "index")
    /\ DeletePending
    /\ UNCHANGED <<clientVars, deciding, debounceTtl, due, snap, found, history>>

\* index_long_term_memories on what the LLM found.
Index(n) ==
    /\ run[n] = "index"
    /\ ltm' = ltm \cup found[n]
    /\ End(n, "done")
    /\ UNCHANGED <<clientVars, deciding, keyVars, due, heard, lost, quiet>>

\* The marked messages whose memories only go with run n.
Lose(n) == lost' = lost \cup {m \in found[n] : wm[m] = "t"}

\* A step raises.  The except clause covers the steps from the extraction on and clears
\* the pending key; before them the error ends the task and leaves the key.
Fail(n) ==
    /\ Failures
    /\ Ready(n)
    /\ End(n, "failed") /\ Lose(n)
    /\ IF run[n] \in {"queued", "valid", "read"}
       THEN UNCHANGED <<pending, pendingTtl>>
       ELSE DeletePending
    /\ UNCHANGED <<clientVars, deciding, debounceTtl, due, ltm, heard, quiet>>

\* Docket delivers the run again; the inline run is gone with its process.
Redelivered == IF UseDocket THEN "queued" ELSE "done"

Crash(n) ==
    /\ Crashes
    /\ n \in Started
    /\ End(n, Redelivered) /\ Lose(n)
    /\ UNCHANGED <<clientVars, deciding, keyVars, due, ltm, heard, quiet>>

RunStep(n) == \/ CheckPending(n)
              \/ CheckDebounce(n)
              \/ ReadMessages(n)
              \/ Extract(n)
              \/ Mark(n)
              \/ SetDebounce(n)
              \/ ClearPending(n)
              \/ Index(n)

-----------------------------------------------------------------------------
Less(t) == IF t > 0 THEN t - 1 ELSE 0

\* Time passes, unless a prompt worker has something to do first.
Tick ==
    /\ \/ debounceTtl > 0 \/ pendingTtl > 0 \/ quiet < Debounce
       \/ \E n \in Runs : due[n] > 0
    /\ PromptWorker => promotes + deciding = 0 /\ \A n \in Runs : ~Ready(n)
    /\ debounceTtl' = Less(debounceTtl)
    /\ pendingTtl' = Less(pendingTtl)
    /\ pending' = IF pendingTtl <= 1 THEN 0 ELSE pending
    /\ due' = [n \in Runs |-> Less(due[n])]
    /\ quiet' = IF quiet < Debounce THEN quiet + 1 ELSE quiet
    /\ UNCHANGED <<clientVars, deciding, run, snap, found, ltm, heard, lost>>

Next == \/ Put \/ Promote \/ Schedule \/ Tick
        \/ \E n \in Runs : RunStep(n) \/ Fail(n) \/ Crash(n)

Spec == Init /\ [][Next]_vars

\* The server, the workers and the clock keep going; the client and failures need not.
FairSpec == /\ Spec
            /\ WF_vars(Promote) /\ WF_vars(Schedule) /\ WF_vars(Tick)
            /\ \A n \in Runs : WF_vars(RunStep(n))

-----------------------------------------------------------------------------
(***************************************************************************)
(* Properties.                                                             *)
(***************************************************************************)
\* Timers stay in range, runs are scheduled in order, ended runs hold nothing, and
\* an expired pending key is gone.
TypeOK ==
    /\ wm \in [Msgs -> {"absent", "f", "t"}]
    /\ promotes \in 0 .. MaxRuns /\ deciding \in 0 .. MaxRuns
    /\ pending \in 0 .. MaxRuns /\ pendingTtl \in 0 .. 2 * Debounce
    /\ pending = 0 <=> pendingTtl = 0
    /\ debounceTtl \in 0 .. Debounce
    /\ run \in [Runs -> States] /\ due \in [Runs -> 0 .. Debounce]
    /\ \A n \in Runs : run[n] # "none" => \A k \in 1 .. n : run[k] # "none"
    /\ snap \in [Runs -> SUBSET Msgs] /\ found \in [Runs -> SUBSET Msgs]
    /\ \A n \in Runs : run[n] \in Ended => snap[n] \cup found[n] = {}
    /\ ltm \subseteq heard /\ heard \subseteq Msgs /\ lost \subseteq Msgs
    /\ quiet \in 0 .. Debounce

\* Trailing edge: an extraction goes ahead only a whole debounce period after the last
\* time one was scheduled (promote_working_memory_to_long_term: "we schedule
\* extraction to run after a period of inactivity. Each new message resets the timer").
QuietPeriod ==
    [][\A n \in Runs : run[n] = "queued" /\ run'[n] = "valid" => quiet = Debounce]_vars

\* A message marked extracted has its memories in the long-term store, or a run that
\* is still going holds them, or an error or a dying process took them: messages that
\* arrive between the read and the mark stay unmarked (run_delayed_extraction: "mark the
\* messages we read").
OnlyFailuresLoseMemories ==
    \A m \in Msgs : wm[m] = "t" => m \in ltm \cup lost \/ \E n \in Runs : m \in found[n]

\* A run skips itself only because a newer one was scheduled (run_delayed_extraction:
\* "if not, this task was superseded by a newer one and should skip").
SkippedWasSuperseded ==
    \A n \in Runs : run[n] = "skipped" => \E k \in Runs : k > n /\ run[k] # "none"

\* Every message of the conversation is extracted in the end, if the client pauses.
EveryMessageExtracted == \A m \in Msgs : wm[m] = "f" ~> wm[m] # "f"
=============================================================================
