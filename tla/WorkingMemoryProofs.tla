------------------------- MODULE WorkingMemoryProofs ------------------------
(***************************************************************************)
(* WorkingMemory for any number of items, clients and tasks: the state's   *)
(* shape, that a mark is on what was taken up, and that the optimistic     *)
(* transaction of update_working_memory_items implements AtomicItemUpdate. *)
(***************************************************************************)
EXTENDS WorkingMemory, TLAPS

\* What a task is about to mark it has come back from.
WorkBeforeRecording ==
    \A t \in Tasks : pc[t] \in {"exists", "lookup", "watch", "read", "exec"} =>
        \A i \in ItemIds : before[t][i] # None =>
            <<FlagOf[t], i, before[t][i].content>> \in taken

\* Until someone writes the key, the chosen writes are those the stored items call for.
WatchedChoice ==
    \A t \in Tasks : pc[t] = "exec" /\ ~dirty[t] =>
        /\ data # None
        /\ matched[t] = Unchanged(t)

\* A round of the retry loop begins only while there are attempts left.
RoundsLeft ==
    \A t \in Tasks :
        /\ pc[t] \in {"idle", "work", "exists", "lookup"} => attempts[t] = 0
        /\ pc[t] = "watch" => attempts[t] < MaxAttempts

IInv == /\ TypeOK
        /\ MarkedWasTakenUp
        /\ WorkBeforeRecording
        /\ WatchedChoice
        /\ RoundsLeft

-----------------------------------------------------------------------------
LEMMA FlagOfType == \A t \in Tasks : FlagOf[t] \in Flags
BY DEF FlagOf, Flags

\* Recording a flag on stored items yields stored items.
LEMMA RecordedType ==
  ASSUME items \in Stored, NEW t \in Tasks, NEW ids \in SUBSET ItemIds,
         \A i \in ids : items[i] # None
  PROVE  Recorded(t, ids) \in Stored
<1>1. ASSUME NEW i \in ids
      PROVE  [content |-> items[i].content, flags |-> items[i].flags \cup {FlagOf[t]}] \in Item
  <2>1. items[i] \in Item
    BY <1>1 DEF Stored
  <2> QED
    BY <2>1, FlagOfType DEF Item
<1> QED
  BY <1>1 DEF Recorded, Stored

LEMMA InitInv == Init => IInv
<1> SUFFICES ASSUME Init PROVE IInv
  OBVIOUS
<1>1. NoItems \in Stored
  BY DEF NoItems, Stored
<1>2. TypeOK
  BY <1>1, AttemptsAssumption DEF Init, TypeOK, Steps
<1>3. MarkedWasTakenUp
  BY DEF Init, MarkedWasTakenUp, NoItems
<1> QED
  BY <1>2, <1>3 DEF Init, IInv, WorkBeforeRecording, WatchedChoice, RoundsLeft

-----------------------------------------------------------------------------
(***************************************************************************)
(* One lemma per action.                                                   *)
(***************************************************************************)

LEMMA SetWorkingMemoryInv ==
  ASSUME IInv, NEW c \in Clients, SetWorkingMemory(c)
  PROVE  IInv'
<1> USE DEF SetWorkingMemory, TouchKey, taskVars
<1>0. None \notin Versions
  BY NoneAssumption
<1>1. TypeOK'
  BY <1>0 DEF IInv, TypeOK
<1>2. MarkedWasTakenUp'
  BY DEF MarkedWasTakenUp, Sendable
<1>3. WorkBeforeRecording'
  BY DEF IInv, WorkBeforeRecording
<1>4. WatchedChoice'
  BY DEF WatchedChoice
<1>5. RoundsLeft'
  BY AttemptsAssumption DEF IInv, TypeOK, RoundsLeft
<1> QED
  BY <1>1, <1>2, <1>3, <1>4, <1>5 DEF IInv

LEMMA SetExpireInv ==
  ASSUME IInv, NEW c \in Clients, SetExpire(c)
  PROVE  IInv'
<1> USE DEF SetExpire, TouchKey, taskVars, session
<1>1. TypeOK'
  BY DEF IInv, TypeOK
<1>2. MarkedWasTakenUp'
  BY DEF IInv, MarkedWasTakenUp
<1>3. WorkBeforeRecording'
  BY DEF IInv, WorkBeforeRecording
<1>4. WatchedChoice'
  BY DEF IInv, WatchedChoice, Unchanged, OwnIds
<1>5. RoundsLeft'
  BY AttemptsAssumption DEF IInv, TypeOK, RoundsLeft
<1> QED
  BY <1>1, <1>2, <1>3, <1>4, <1>5 DEF IInv

LEMMA DropSessionInv ==
  ASSUME IInv, DropSession
  PROVE  IInv'
<1> USE DEF DropSession, TouchKey, taskVars
<1>1. TypeOK'
  BY DEF IInv, TypeOK, NoItems, Stored
<1>2. MarkedWasTakenUp'
  BY DEF MarkedWasTakenUp, NoItems
<1>3. WorkBeforeRecording'
  BY DEF IInv, WorkBeforeRecording
<1>4. WatchedChoice'
  BY DEF WatchedChoice
<1>5. RoundsLeft'
  BY AttemptsAssumption DEF IInv, TypeOK, RoundsLeft
<1> QED
  BY <1>1, <1>2, <1>3, <1>4, <1>5 DEF IInv

LEMMA ReadSessionInv ==
  ASSUME IInv, NEW t \in Tasks, ReadSession(t)
  PROVE  IInv'
<1> USE DEF ReadSession, session
<1>1. TypeOK'
  <2>1. Todo(t) \in Stored
    BY DEF IInv, TypeOK, Todo, Stored
  <2> QED
    BY <2>1 DEF IInv, TypeOK, Steps
<1>2. MarkedWasTakenUp'
  BY DEF IInv, MarkedWasTakenUp
<1>3. WorkBeforeRecording'
  BY DEF IInv, TypeOK, WorkBeforeRecording
<1>4. WatchedChoice'
  BY DEF IInv, TypeOK, WatchedChoice, Unchanged, OwnIds
<1>5. RoundsLeft'
  BY AttemptsAssumption DEF IInv, TypeOK, RoundsLeft
<1> QED
  BY <1>1, <1>2, <1>3, <1>4, <1>5 DEF IInv

\* Work that is added to  taken  is of the declared type.
LEMMA WorkType ==
  ASSUME TypeOK, NEW t \in Tasks, NEW ids \in SUBSET OwnIds(t)
  PROVE  Work(t, ids) \subseteq Flags \X ItemIds \X Contents
<1>1. ASSUME NEW i \in ids
      PROVE  <<FlagOf[t], i, before[t][i].content>> \in Flags \X ItemIds \X Contents
  <2>1. i \in ItemIds /\ before[t][i] \in Item
    BY DEF TypeOK, OwnIds, Stored
  <2> QED
    BY <2>1, FlagOfType DEF Item
<1> QED
  BY <1>1 DEF Work

LEMMA FinishWorkInv ==
  ASSUME IInv, NEW t \in Tasks, FinishWork(t)
  PROVE  IInv'
<1> USE DEF FinishWork, session
<1>1. TypeOK'
  <2>1. Work(t, OwnIds(t)) \subseteq Flags \X ItemIds \X Contents
    BY WorkType DEF IInv
  <2> QED
    BY <2>1 DEF IInv, TypeOK, Steps
<1>2. MarkedWasTakenUp'
  BY DEF IInv, MarkedWasTakenUp
<1>3. WorkBeforeRecording'
  BY DEF IInv, TypeOK, WorkBeforeRecording, Work, OwnIds
<1>4. WatchedChoice'
  BY DEF IInv, TypeOK, WatchedChoice, Unchanged, OwnIds
<1>5. RoundsLeft'
  BY AttemptsAssumption DEF IInv, TypeOK, RoundsLeft
<1> QED
  BY <1>1, <1>2, <1>3, <1>4, <1>5 DEF IInv

\* Ending a task cannot disturb the invariant as long as session and watches stay.
LEMMA EndTaskInv ==
  ASSUME IInv, NEW t \in Tasks, EndTask(t),
         UNCHANGED <<data, items, put, dirty>>,
         taken \subseteq taken',
         taken' \subseteq Flags \X ItemIds \X Contents
  PROVE  IInv'
<1> USE DEF EndTask
<1>1. TypeOK'
  BY AttemptsAssumption DEF IInv, TypeOK, Steps, NoItems, Stored
<1>2. MarkedWasTakenUp'
  BY DEF IInv, MarkedWasTakenUp
<1>3. WorkBeforeRecording'
  BY DEF IInv, TypeOK, WorkBeforeRecording
<1>4. WatchedChoice'
  BY DEF IInv, TypeOK, WatchedChoice, Unchanged, OwnIds
<1>5. RoundsLeft'
  BY AttemptsAssumption DEF IInv, TypeOK, RoundsLeft
<1> QED
  BY <1>1, <1>2, <1>3, <1>4, <1>5 DEF IInv

LEMMA AbortTaskInv ==
  ASSUME IInv, NEW t \in Tasks, AbortTask(t)
  PROVE  IInv'
<1>1. taken \subseteq taken'
  BY DEF AbortTask
<1>2. taken' \subseteq Flags \X ItemIds \X Contents
  BY WorkType DEF AbortTask, IInv, TypeOK
<1> QED
  BY <1>1, <1>2, EndTaskInv DEF AbortTask, session

LEMMA CheckExistsInv ==
  ASSUME IInv, NEW t \in Tasks, CheckExists(t)
  PROVE  IInv'
<1> USE DEF CheckExists, session
<1>1. TypeOK'
  BY DEF IInv, TypeOK, Steps
<1>2. MarkedWasTakenUp'
  BY DEF IInv, MarkedWasTakenUp
<1>3. WorkBeforeRecording'
  BY DEF IInv, TypeOK, WorkBeforeRecording
<1>4. WatchedChoice'
  BY DEF IInv, TypeOK, WatchedChoice, Unchanged, OwnIds
<1>5. RoundsLeft'
  BY AttemptsAssumption DEF IInv, TypeOK, RoundsLeft
<1> QED
  BY <1>1, <1>2, <1>3, <1>4, <1>5 DEF IInv

LEMMA LookUpKeyInv ==
  ASSUME IInv, NEW t \in Tasks, LookUpKey(t)
  PROVE  IInv'
<1>1. CASE EndTask(t)
  BY <1>1, EndTaskInv DEF LookUpKey, session, IInv, TypeOK
<1>2. CASE ~EndTask(t)
  <2> USE <1>2 DEF LookUpKey, session
  <2>1. TypeOK'
    BY DEF IInv, TypeOK, Steps
  <2>2. MarkedWasTakenUp'
    BY DEF IInv, MarkedWasTakenUp
  <2>3. WorkBeforeRecording'
    BY DEF IInv, TypeOK, WorkBeforeRecording
  <2>4. WatchedChoice'
    BY DEF IInv, TypeOK, WatchedChoice, Unchanged, OwnIds
  <2>5. RoundsLeft'
    BY AttemptsAssumption DEF IInv, TypeOK, RoundsLeft
  <2> QED
    BY <2>1, <2>2, <2>3, <2>4, <2>5 DEF IInv
<1> QED
  BY <1>1, <1>2

LEMMA WatchKeyInv ==
  ASSUME IInv, NEW t \in Tasks, WatchKey(t)
  PROVE  IInv'
<1> USE DEF WatchKey, session
<1>1. TypeOK'
  <2>1. attempts[t] + 1 \in 0 .. MaxAttempts
    BY AttemptsAssumption DEF IInv, TypeOK, RoundsLeft
  <2> QED
    BY <2>1 DEF IInv, TypeOK, Steps
<1>2. MarkedWasTakenUp'
  BY DEF IInv, MarkedWasTakenUp
<1>3. WorkBeforeRecording'
  BY DEF IInv, TypeOK, WorkBeforeRecording
<1>4. WatchedChoice'
  BY DEF IInv, TypeOK, WatchedChoice, Unchanged, OwnIds
<1>5. RoundsLeft'
  BY AttemptsAssumption DEF IInv, TypeOK, RoundsLeft
<1> QED
  BY <1>1, <1>2, <1>3, <1>4, <1>5 DEF IInv

LEMMA ReadWatchedInv ==
  ASSUME IInv, NEW t \in Tasks, ReadWatched(t)
  PROVE  IInv'
<1>1. CASE data = None \/ Unchanged(t) = {}
  BY <1>1, EndTaskInv DEF ReadWatched, session, IInv, TypeOK
<1>2. CASE ~(data = None \/ Unchanged(t) = {})
  <2> USE <1>2 DEF ReadWatched, session
  <2>1. TypeOK'
    <3>1. Unchanged(t) \subseteq ItemIds
      BY DEF Unchanged, OwnIds
    <3> QED
      BY <3>1 DEF IInv, TypeOK, Steps
  <2>2. MarkedWasTakenUp'
    BY DEF IInv, MarkedWasTakenUp
  <2>3. WorkBeforeRecording'
    BY DEF IInv, TypeOK, WorkBeforeRecording
  <2>4. WatchedChoice'
    BY DEF IInv, TypeOK, WatchedChoice, Unchanged, OwnIds
  <2>5. RoundsLeft'
    BY AttemptsAssumption DEF IInv, TypeOK, RoundsLeft
  <2> QED
    BY <2>1, <2>2, <2>3, <2>4, <2>5 DEF IInv
<1> QED
  BY <1>1, <1>2

\* The heart of the matter: at EXEC the chosen items are the ones the task finished.
LEMMA ExecInv ==
  ASSUME IInv, NEW t \in Tasks, Exec(t)
  PROVE  IInv'
<1> USE DEF Exec, EndTask, TouchKey
<1>1. data # None /\ matched[t] = Unchanged(t) /\ matched[t] \subseteq ItemIds
  BY DEF IInv, WatchedChoice, Unchanged, OwnIds
<1>2. \A i \in matched[t] : items[i] # None /\ items[i] = before[t][i]
  BY <1>1 DEF Unchanged, OwnIds
<1>3. TypeOK'
  <2>1. items' \in Stored
    BY <1>1, <1>2, RecordedType DEF IInv, TypeOK
  <2> QED
    BY <1>1, <2>1, AttemptsAssumption DEF IInv, TypeOK, Steps, NoItems, Stored
<1>4. MarkedWasTakenUp'
  <2> SUFFICES ASSUME NEW i \in ItemIds, items'[i] # None, NEW f \in items'[i].flags
               PROVE  <<f, i, items'[i].content>> \in taken
    BY DEF MarkedWasTakenUp
  <2>1. CASE i \notin matched[t]
    BY <2>1 DEF Recorded, IInv, MarkedWasTakenUp
  <2>2. CASE i \in matched[t]
    <3>1. items'[i].content = items[i].content /\ items'[i].flags = items[i].flags \cup {FlagOf[t]}
      BY <2>2 DEF Recorded
    <3>2. CASE f \in items[i].flags
      BY <3>1, <3>2, <2>2, <1>2 DEF IInv, MarkedWasTakenUp
    <3>3. CASE f = FlagOf[t]
      BY <3>1, <3>3, <2>2, <1>2 DEF IInv, WorkBeforeRecording
    <3> QED
      BY <3>1, <3>2, <3>3
  <2> QED
    BY <2>1, <2>2
<1>5. WorkBeforeRecording'
  BY DEF IInv, TypeOK, WorkBeforeRecording
<1>6. WatchedChoice'
  BY DEF WatchedChoice
<1>7. RoundsLeft'
  BY AttemptsAssumption DEF IInv, TypeOK, RoundsLeft
<1> QED
  BY <1>3, <1>4, <1>5, <1>6, <1>7 DEF IInv

LEMMA ExecWatchErrorInv ==
  ASSUME IInv, NEW t \in Tasks, ExecWatchError(t)
  PROVE  IInv'
<1>1. CASE ~(attempts[t] < MaxAttempts)
  BY <1>1, EndTaskInv DEF ExecWatchError, session, IInv, TypeOK
<1>2. CASE attempts[t] < MaxAttempts
  <2> USE <1>2 DEF ExecWatchError, session
  <2>1. TypeOK'
    BY DEF IInv, TypeOK, Steps
  <2>2. MarkedWasTakenUp'
    BY DEF IInv, MarkedWasTakenUp
  <2>3. WorkBeforeRecording'
    BY DEF IInv, TypeOK, WorkBeforeRecording
  <2>4. WatchedChoice'
    BY DEF IInv, TypeOK, WatchedChoice, Unchanged, OwnIds
  <2>5. RoundsLeft'
    BY AttemptsAssumption DEF IInv, TypeOK, RoundsLeft
  <2> QED
    BY <2>1, <2>2, <2>3, <2>4, <2>5 DEF IInv
<1> QED
  BY <1>1, <1>2

LEMMA NextInv == IInv /\ [Next]_vars => IInv'
<1> SUFFICES ASSUME IInv, [Next]_vars PROVE IInv'
  OBVIOUS
<1>1. CASE \E c \in Clients : SetWorkingMemory(c) \/ SetExpire(c)
  BY <1>1, SetWorkingMemoryInv, SetExpireInv
<1>2. CASE DropSession
  BY <1>2, DropSessionInv
<1>3. ASSUME NEW t \in Tasks, TaskStep(t)
      PROVE  IInv'
  BY <1>3, ReadSessionInv, FinishWorkInv, AbortTaskInv, CheckExistsInv, LookUpKeyInv, WatchKeyInv,
     ReadWatchedInv, ExecInv, ExecWatchErrorInv DEF TaskStep, UpdateItems
<1>4. CASE UNCHANGED vars
  BY <1>4 DEF vars, IInv, TypeOK, MarkedWasTakenUp, WorkBeforeRecording,
              WatchedChoice, RoundsLeft, Unchanged, OwnIds
<1> QED
  BY <1>1, <1>2, <1>3, <1>4 DEF Next

-----------------------------------------------------------------------------
\* The inductive invariant holds of every behaviour of working_memory.py's model.
THEOREM Invariance == Spec => []IInv
<1>1. Init => IInv
  BY InitInv
<1>2. IInv /\ [Next]_vars => IInv'
  BY NextInv
<1> QED
  BY <1>1, <1>2, PTL DEF Spec

\* The state keeps its shape, whatever the number of items, clients and tasks.
THEOREM TypeCorrect == Spec => []TypeOK
<1>1. IInv => TypeOK
  BY DEF IInv
<1> QED
  BY <1>1, Invariance, PTL

\* An item marked persisted was indexed with the content it has, and one marked extracted was
\* read with it by an extraction that came back: update_working_memory_items never marks an
\* item that changed since the task's first read.
THEOREM MarksAreEarned == Spec => []MarkedWasTakenUp
<1>1. IInv => MarkedWasTakenUp
  BY DEF IInv
<1> QED
  BY <1>1, Invariance, PTL

-----------------------------------------------------------------------------
(***************************************************************************)
(* Refinement.                                                             *)
(***************************************************************************)
Job == [t \in Tasks |-> IF pc[t] = "idle" THEN None ELSE before[t]]

\* What a task read is never mistaken for its having no job.
LEMMA BeforeIsJob ==
  ASSUME TypeOK, NEW t \in Tasks
  PROVE  before[t] # None
BY NoneAssumption DEF TypeOK, Stored, Item, Flags

LEMMA EndTaskJob ==
  ASSUME TypeOK, NEW t \in Tasks, EndTask(t)
  PROVE  Job' = [Job EXCEPT ![t] = None]
BY DEF Job, EndTask, TypeOK

\* Steps that move a busy task on, keeping what it read, keep the jobs.
LEMMA BusyJob ==
  ASSUME TypeOK, NEW t \in Tasks, NEW s \in Steps \ {"idle"}, pc[t] # "idle",
         pc' = [pc EXCEPT ![t] = s], UNCHANGED before
  PROVE  Job' = Job
BY DEF Job, TypeOK

\* The initial states are abstract initial states.
LEMMA AtomicInit == Init => Atomic!Init
BY DEF Init, Atomic!Init, NoItems, Atomic!NoItems

\* A task that reads the session takes some of its items as they are.
LEMMA ReadSessionBegins ==
  ASSUME TypeOK, NEW t \in Tasks, ReadSession(t)
  PROVE  Atomic!Begin(t)
<1> DEFINE ids == {i \in ItemIds : items[i] # None /\ FlagOf[t] \notin items[i].flags}
<1>1. Todo(t) = [i \in ItemIds |-> IF i \in ids THEN items[i] ELSE None]
  BY DEF Todo
<1>2. Job' = [Job EXCEPT ![t] = Todo(t)]
  BY DEF ReadSession, Job, TypeOK
<1>3. Job[t] = None
  BY DEF ReadSession, Job
<1>4. ids \in SUBSET ItemIds
  OBVIOUS
<1> QED
  BY <1>1, <1>2, <1>3, <1>4 DEF Atomic!Begin, Job, ReadSession, session

\* The EXEC that goes through is the abstract commit.
LEMMA ExecCommits ==
  ASSUME IInv, NEW t \in Tasks, Exec(t)
  PROVE  Atomic!Commit(t)
<1>1. Job[t] = before[t] /\ before[t] # None
  BY BeforeIsJob DEF Job, Exec, IInv
<1>2. data # None /\ matched[t] = Unchanged(t)
  BY DEF IInv, WatchedChoice, Exec
<1>3. matched[t] = Atomic!Matching(items, Job[t])
  BY <1>1, <1>2 DEF Unchanged, OwnIds, Atomic!Matching
<1>4. items' = Atomic!Marked(items, matched[t], FlagOf[t])
  BY DEF Exec, Recorded, Atomic!Marked
<1>5. Job' = [Job EXCEPT ![t] = None]
  BY EndTaskJob DEF Exec, IInv
<1> QED
  BY <1>1, <1>2, <1>3, <1>4, <1>5 DEF Atomic!Commit, Job, Exec

\* A busy task that ends and leaves the session alone abandons its job.
LEMMA EndTaskAbandons ==
  ASSUME TypeOK, NEW t \in Tasks, pc[t] # "idle", EndTask(t), UNCHANGED session
  PROVE  Atomic!Abandon(t)
<1>1. Job[t] # None
  BY BeforeIsJob DEF Job
<1>2. Job' = [Job EXCEPT ![t] = None]
  BY EndTaskJob
<1> QED
  BY <1>1, <1>2 DEF Atomic!Abandon, Job, session

\* Every step of a task is an abstract step or leaves the abstract state alone.
LEMMA TaskStepRefines ==
  ASSUME IInv, NEW t \in Tasks, TaskStep(t)
  PROVE  Atomic!Next \/ UNCHANGED <<data, items, Job>>
<1>0. TypeOK
  BY DEF IInv
<1>1. CASE ReadSession(t)
  BY <1>0, <1>1, ReadSessionBegins DEF Atomic!Next
<1>2. CASE Exec(t)
  BY <1>2, ExecCommits DEF Atomic!Next
<1>3. CASE AbortTask(t)
  BY <1>0, <1>3, EndTaskAbandons DEF AbortTask, Atomic!Next
<1>4. CASE FinishWork(t)
  BY <1>0, <1>4, BusyJob DEF FinishWork, Steps, session
<1>5. CASE CheckExists(t)
  <2>1. \E s \in Steps \ {"idle"} : pc' = [pc EXCEPT ![t] = s]
    BY <1>5 DEF CheckExists, Steps
  <2> QED
    BY <1>0, <1>5, <2>1, BusyJob DEF CheckExists, session
<1>9. CASE LookUpKey(t)
  <2>1. CASE EndTask(t)
    BY <1>0, <1>9, <2>1, EndTaskAbandons DEF LookUpKey, Atomic!Next
  <2>2. CASE ~EndTask(t)
    BY <1>0, <1>9, <2>2, BusyJob DEF LookUpKey, Steps, session
  <2> QED
    BY <2>1, <2>2
<1>6. CASE WatchKey(t)
  BY <1>0, <1>6, BusyJob DEF WatchKey, Steps, session
<1>7. CASE ReadWatched(t)
  <2>1. CASE data = None \/ Unchanged(t) = {}
    BY <1>0, <1>7, <2>1, EndTaskAbandons DEF ReadWatched, Atomic!Next
  <2>2. CASE ~(data = None \/ Unchanged(t) = {})
    BY <1>0, <1>7, <2>2, BusyJob DEF ReadWatched, Steps, session
  <2> QED
    BY <2>1, <2>2
<1>8. CASE ExecWatchError(t)
  <2>1. CASE ~(attempts[t] < MaxAttempts)
    BY <1>0, <1>8, <2>1, EndTaskAbandons DEF ExecWatchError, Atomic!Next
  <2>2. CASE attempts[t] < MaxAttempts
    BY <1>0, <1>8, <2>2, BusyJob DEF ExecWatchError, Steps, session
  <2> QED
    BY <2>1, <2>2
<1> QED
  BY <1>1, <1>2, <1>3, <1>4, <1>5, <1>6, <1>7, <1>8, <1>9 DEF TaskStep, UpdateItems

\* Every step of the code is an abstract step or leaves the abstract state alone.
LEMMA StepRefines ==
  ASSUME IInv, [Next]_vars
  PROVE  Atomic!Next \/ UNCHANGED <<data, items, Job>>
<1>1. ASSUME NEW c \in Clients, SetWorkingMemory(c)
      PROVE  Atomic!Replace
  BY <1>1 DEF SetWorkingMemory, taskVars, Atomic!Replace, Stored, Item,
              Atomic!Stored, Atomic!Item
<1>2. ASSUME NEW c \in Clients, SetExpire(c)
      PROVE  UNCHANGED <<data, items, Job>>
  BY <1>2 DEF SetExpire, session, taskVars, Job
<1>3. CASE DropSession
  BY <1>3 DEF DropSession, taskVars, Atomic!Drop, NoItems, Atomic!NoItems, Atomic!Next
<1>4. ASSUME NEW t \in Tasks, TaskStep(t)
      PROVE  Atomic!Next \/ UNCHANGED <<data, items, Job>>
  BY <1>4, TaskStepRefines
<1>5. CASE UNCHANGED vars
  BY <1>5 DEF vars, Job
<1> QED
  BY <1>1, <1>2, <1>3, <1>4, <1>5 DEF Next, Atomic!Next

\* The optimistic transaction of update_working_memory_items implements the atomic
\* compare-and-mark, for every interleaving with PUTs, deletions and other tasks.
THEOREM Refinement == Spec => UpdatesAreAtomic
<1>1. Init => Atomic!Init
  BY AtomicInit
<1>2. IInv /\ [Next]_vars => [Atomic!Next]_<<data, items, Job>>
  BY StepRefines
<1> QED
  BY <1>1, <1>2, Invariance, PTL DEF Spec, UpdatesAreAtomic, Atomic!Spec, Atomic!vars, Job
=============================================================================
