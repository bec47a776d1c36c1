------------------------ MODULE SummaryRefreshProofs ------------------------
(***************************************************************************)
(* What a Task record says is true, for any number of partitions,          *)
(* memories, tasks and executions, any page size, and whatever fails, is   *)
(* late, is delivered again or changes between two pages.                  *)
(***************************************************************************)
EXTENDS SummaryRefresh, TLAPS

-----------------------------------------------------------------------------
(***************************************************************************)
(* Types.                                                                  *)
(***************************************************************************)
\* The record, the stream and where each execution is.
Control == /\ view \in BOOLEAN
           /\ task \in [Tasks -> Statuses \cup {"absent"}] /\ queue \subseteq Tasks
           /\ pc \in [Execs -> Steps] /\ job \in [Execs -> Tasks \cup {NoTask}]
           /\ goal \in [Execs -> {"running"} \cup Terminal]
           /\ seen \in [Execs -> Statuses \cup {"absent"}]
           /\ upsets \in 0 .. MaxUpsets /\ cut \subseteq Tasks
           /\ \A e \in Execs : /\ pc[e] \in {"get", "set"} => job[e] \in Tasks
                               /\ pc[e] = "idle" => job[e] = NoTask

\* What the loop over pages and partitions holds, in it and outside of it; a tracked run
\* is not asked for one partition.
Loop == /\ todo \in [Execs -> SUBSET Groups] /\ ahead \in [Execs -> SUBSET Present]
        /\ DOMAIN got = Execs /\ \A e \in Execs : Versions(got[e])
        /\ \A e \in Execs : /\ pc[e] # "more" => ahead[e] = {}
                            /\ pc[e] \notin {"more", "save"} => got[e] = Nothing
                            /\ pc[e] \notin {"fetch", "more", "save"} => todo[e] = {}
                            /\ job[e] # NoTask /\ pc[e] # "save" => todo[e] = {}

Memory == /\ version \in 0 .. MaxVersion /\ mem \in [Memories -> 0 .. version]
          /\ DOMAIN owed = Tasks /\ \A t \in Tasks : Versions(owed[t])
          /\ missed \in [Tasks -> SUBSET Memories] /\ setBack \in [Tasks -> SUBSET Memories]

Results == /\ DOMAIN store \subseteq Groups
           /\ \A g \in DOMAIN store : /\ Versions(store[g].of)
                                      /\ \A m \in DOMAIN store[g].of : GroupOf[m] = g
                                      /\ store[g].text = "none" <=> DOMAIN store[g].of = {}

Typed == Control /\ Loop /\ Memory /\ Results

LEMMA TypedMeansTypeOK == Typed => TypeOK
  BY DEF Typed, Control, Loop, Memory, Results, TypeOK, Statuses, Terminal

LEMMA TypedInit == Init => Typed
  BY BoundsAssumption
     DEF Init, BoundsAssumption, Typed, Control, Loop, Memory, Results, Nothing, Versions, Statuses,
         Steps, Terminal

LEMMA ControlStep ==
    ASSUME Typed, [Next]_vars
    PROVE  Control'
  <1> USE BoundsAssumption DEF BoundsAssumption, Typed, Control, Statuses, Steps, Terminal
  <1>1. CASE UNCHANGED vars
    BY <1>1 DEF vars, data, local, history
  <1>2. ASSUME NEW t \in Tasks, RunFull(t) PROVE Control'
    BY <1>2 DEF RunFull, data, local
  <1>3. ASSUME NEW m \in Memories, AddMemory(m) \/ EditMemory(m) \/ DeleteMemory(m) PROVE Control'
    BY <1>3 DEF AddMemory, EditMemory, DeleteMemory
  <1>4. CASE DeleteView
    <2>1. view' \in BOOLEAN /\ Upset /\ UNCHANGED <<task, queue, local, cut>>
      BY <1>4 DEF DeleteView, history
    <2>2. upsets' \in 0 .. MaxUpsets
      BY <2>1 DEF Upset
    <2> QED BY <2>1, <2>2 DEF local
  <1>5. ASSUME NEW e \in Execs, NEW g \in Groups, RunPartition(e, g) PROVE Control'
    BY <1>5 DEF RunPartition, Begin, Upset, data, history
  <1>6. ASSUME NEW e \in Execs, RunPeriodic(e) PROVE Control'
    BY <1>6 DEF RunPeriodic, Begin, Upset, data, history
  <1>7. ASSUME NEW e \in Execs, NEW t \in Tasks, Deliver(e, t) \/ DeliverAgain(e, t) PROVE Control'
    BY <1>7 DEF Deliver, DeliverAgain, Begin, Upset, data, history
  <1>8. ASSUME NEW e \in Execs, Start(e) \/ GetTask(e) \/ SetTask(e) \/ RefuseTask(e) PROVE Control'
    BY <1>8 DEF Start, GetTask, SetTask, RefuseTask, UpdateRaises, SetStatus, Goto, Forgets, data,
                history
  <1>9. ASSUME NEW e \in Execs, FailUpdate(e) PROVE Control'
    BY <1>9 DEF FailUpdate, UpdateRaises, SetStatus, Goto, Forgets, Told, Untold, Upset, data
  <1>10. ASSUME NEW e \in Execs, FetchFirst(e) \/ FetchNext(e) PROVE Control'
    <2>1. /\ Goto(e, "more") \/ Goto(e, "save")
          /\ UNCHANGED <<data, task, queue, job, goal, seen, upsets, history>>
          /\ pc[e] # "idle"
      BY <1>10 DEF FetchFirst, FetchNext, FetchPage
    <2> QED BY <2>1 DEF Goto, data, history
  <1>11. ASSUME NEW e \in Execs, SavePartition(e) PROVE Control'
    <2>1. /\ Upset \/ UNCHANGED upsets
          /\ UNCHANGED <<data, task, queue, pc, job, goal, seen, cut>>
      BY <1>11 DEF SavePartition
    <2> QED BY <2>1 DEF Upset, data
  <1>12. ASSUME NEW e \in Execs, Finish(e) \/ Fail(e) PROVE Control'
    BY <1>12 DEF Finish, Fail, SetStatus, Goto, data, history
  <1>13. ASSUME NEW e \in Execs, Ack(e) \/ Crash(e) \/ TimeOut(e) PROVE Control'
    BY <1>13 DEF Ack, Crash, TimeOut, Ends, Told, Untold, Upset, data, history
  <1> QED
    BY <1>1, <1>2, <1>3, <1>4, <1>5, <1>6, <1>7, <1>8, <1>9, <1>10, <1>11, <1>12, <1>13
       DEF Next, ExecStep

\* What a change of a memory does to the versions and to what is owed.
Changed(m) == /\ version' = version + 1 /\ version' \in 0 .. MaxVersion
              /\ mem' \in [Memories -> 0 .. version']
              /\ \A x \in Memories \ {m} : mem'[x] = mem[x]
              /\ mem'[m] \in {0, version + 1}
              /\ DOMAIN owed' = Tasks
              /\ \A t \in Tasks : /\ DOMAIN owed'[t] \subseteq DOMAIN owed[t]
                                  /\ mem'[m] = 0 => m \notin DOMAIN owed'[t]
                                  /\ \A x \in DOMAIN owed'[t] : owed'[t][x] = owed[t][x]
              /\ UNCHANGED <<view, task, queue, pc, job, goal, seen, todo, got, store, upsets>>
              /\ UNCHANGED <<setBack, cut>>

\* And to the offsets: only runs between two pages have one, and what slips is missed.
Moved == /\ ahead' \in [Execs -> SUBSET Present']
         /\ \A e \in Execs : pc[e] # "more" => ahead'[e] = {}
         /\ missed' \in [Tasks -> SUBSET Memories]
         /\ \A t \in Tasks : missed[t] \subseteq missed'[t]
         /\ \A e \in Execs : job[e] \in Tasks => ahead[e] \ ahead'[e] \subseteq missed'[job[e]]

LEMMA OffsetsMove ==
    ASSUME Typed, NEW After, MovesOffsets(After),
           \A e \in Execs : pc[e] = "more" => After[e] \subseteq SUBSET Present'
    PROVE  Moved
  <1>1. PICK a \in [Execs -> SUBSET Memories] :
          /\ \A e \in Execs : a[e] \in IF pc[e] = "more" THEN After[e] ELSE {ahead[e]}
          /\ ahead' = a
          /\ missed' = [t \in Tasks |-> missed[t] \cup
                         UNION {ahead[e] \ a[e] : e \in {f \in Execs : job[f] = t}}]
    BY DEF MovesOffsets
  <1>2. \A e \in Execs : a[e] \subseteq Present' /\ (pc[e] # "more" => a[e] = {})
    BY <1>1 DEF Typed, Loop
  <1>3. \A e \in Execs : ahead[e] \subseteq Memories
    BY DEF Typed, Loop, Present
  <1>4. missed' \in [Tasks -> SUBSET Memories]
    BY <1>1, <1>3 DEF Typed, Memory
  <1>5. \A e \in Execs : job[e] \in Tasks => ahead[e] \ a[e] \subseteq missed'[job[e]]
    BY <1>1
  <1> QED BY <1>1, <1>2, <1>4, <1>5 DEF Moved

LEMMA MemoriesChange ==
    ASSUME Typed, NEW m \in Memories, AddMemory(m) \/ EditMemory(m) \/ DeleteMemory(m)
    PROVE  Changed(m) /\ Moved
  <1>0. \A e \in Execs : ahead[e] \subseteq Present
    BY DEF Typed, Loop
  <1>1. CASE AddMemory(m)
    <2>1. Changes(m, version + 1) /\ UNCHANGED owed
      BY <1>1 DEF AddMemory
    <2>2. Present' = Present \cup {m}
      BY <2>1, BoundsAssumption DEF Changes, Present, Typed, Memory, BoundsAssumption
    <2>3. Changed(m)
      BY <1>1, <2>1, BoundsAssumption
         DEF AddMemory, Changes, Changed, Typed, Memory, BoundsAssumption
    <2> DEFINE After == [e \in Execs |-> AfterAdd(ahead[e], m)]
    <2>4. \A e \in Execs : After[e] \subseteq SUBSET Present'
      BY <1>0, <2>2 DEF AfterAdd
    <2>5. MovesOffsets(After)
      BY <1>1 DEF AddMemory
    <2> HIDE DEF After
    <2> QED BY <2>3, <2>4, <2>5, OffsetsMove
  <1>2. CASE EditMemory(m)
    <2>1. Changes(m, version + 1) /\ UNCHANGED owed /\ m \in Present
      BY <1>2 DEF EditMemory, Present, Typed, Memory
    <2>2. Present' = Present
      BY <2>1, BoundsAssumption DEF Changes, Present, Typed, Memory, BoundsAssumption
    <2>3. Changed(m)
      BY <1>2, <2>1, BoundsAssumption
         DEF EditMemory, Changes, Changed, Typed, Memory, BoundsAssumption
    <2>4. \A e \in Execs : AfterEdit(ahead[e], m) \subseteq SUBSET Present'
      BY <1>0, <2>1, <2>2 DEF AfterEdit
    <2>5. MovesOffsets([e \in Execs |-> AfterEdit(ahead[e], m)])
      BY <1>2 DEF EditMemory
    <2> QED BY <2>3, <2>4, <2>5, OffsetsMove
  <1>3. CASE DeleteMemory(m)
    <2>1. /\ Changes(m, 0)
          /\ owed' = [t \in Tasks |-> Restricted(owed[t], Memories \ {m})]
      BY <1>3 DEF DeleteMemory
    <2>2. Present' = Present \ {m}
      BY <2>1, BoundsAssumption DEF Changes, Present, Typed, Memory, BoundsAssumption
    <2>3. \A t \in Tasks : /\ DOMAIN owed'[t] \subseteq DOMAIN owed[t] /\ m \notin DOMAIN owed'[t]
                           /\ \A x \in DOMAIN owed'[t] : owed'[t][x] = owed[t][x]
      BY <2>1 DEF Restricted
    <2>4. /\ UNCHANGED <<view, task, queue, pc, job, goal, seen, todo, got, store, upsets>>
          /\ UNCHANGED <<setBack, cut>> /\ DOMAIN owed' = Tasks
      BY <1>3, <2>1 DEF DeleteMemory
    <2>5. Changed(m)
      <3>1. /\ version' = version + 1 /\ version' \in 0 .. MaxVersion
            /\ mem' \in [Memories -> 0 .. version'] /\ mem'[m] = 0
            /\ \A x \in Memories \ {m} : mem'[x] = mem[x]
        BY <2>1, BoundsAssumption DEF Changes, Typed, Memory, BoundsAssumption
      <3> QED BY <2>3, <2>4, <3>1 DEF Changed
    <2>6. \A e \in Execs : AfterDelete(ahead[e], m) \subseteq SUBSET Present'
      BY <1>0, <2>2 DEF AfterDelete
    <2>7. MovesOffsets([e \in Execs |-> AfterDelete(ahead[e], m)])
      BY <1>3 DEF DeleteMemory
    <2> QED BY <2>5, <2>6, <2>7, OffsetsMove
  <1> QED BY <1>1, <1>2, <1>3

\* The fetch of one page, full or not.
PageStep(e, listed, page) ==
    /\ page \subseteq listed
    /\ got' = [got EXCEPT ![e] = [m \in DOMAIN got[e] \cup page |->
                                    IF m \in page THEN mem[m] ELSE got[e][m]]]
    /\ UNCHANGED <<data, task, queue, job, goal, seen, store, upsets, history>>

FullPage(e, listed, page) == /\ pc' = [pc EXCEPT ![e] = "more"]
                             /\ ahead' = [ahead EXCEPT ![e] = listed \ page]
                             /\ UNCHANGED todo

LastPage(e, listed, page) ==
    /\ page = listed
    /\ pc' = [pc EXCEPT ![e] = "save"]
    /\ ahead' = [ahead EXCEPT ![e] = {}]
    /\ todo' = [todo EXCEPT ![e] = todo[e] \cup {GroupOf[m] : m \in DOMAIN got'[e]}]

\* Every fetch reads a page out of what is listed and present.
LEMMA PageFetched ==
    ASSUME Typed, NEW e \in Execs, FetchFirst(e) \/ FetchNext(e)
    PROVE  \E listed \in SUBSET Present : \E page \in SUBSET listed :
             /\ PageStep(e, listed, page)
             /\ FullPage(e, listed, page) \/ LastPage(e, listed, page)
             /\ \/ pc[e] = "fetch" /\ listed = Asked(e)
                \/ pc[e] = "more" /\ listed = ahead[e]
  <1>1. PICK listed \in SUBSET Present :
          /\ FetchPage(e, listed)
          /\ \/ pc[e] = "fetch" /\ listed = Asked(e)
             \/ pc[e] = "more" /\ listed = ahead[e]
    BY DEF FetchFirst, FetchNext, Asked, Typed, Loop
  <1>2. PICK page \in SUBSET listed :
          /\ PageStep(e, listed, page)
          /\ FullPage(e, listed, page) \/ LastPage(e, listed, page)
    <2>1. PICK page \in SUBSET listed :
            /\ Cardinality(page) = PageSize \/ (page = listed /\ Cardinality(page) < PageSize)
            /\ got' = [got EXCEPT ![e] = [m \in DOMAIN got[e] \cup page |->
                                            IF m \in page THEN mem[m] ELSE got[e][m]]]
            /\ IF Cardinality(page) = PageSize
               THEN /\ Goto(e, "more")
                    /\ ahead' = [ahead EXCEPT ![e] = listed \ page]
                    /\ UNCHANGED todo
               ELSE /\ Goto(e, "save")
                    /\ ahead' = [ahead EXCEPT ![e] = {}]
                    /\ todo' = [todo EXCEPT ![e] = @ \cup {GroupOf[m] : m \in DOMAIN got'[e]}]
            /\ UNCHANGED <<data, task, queue, job, goal, seen, store, upsets, history>>
      BY <1>1 DEF FetchPage
    <2>2. CASE Cardinality(page) = PageSize
      BY <2>1, <2>2 DEF PageStep, FullPage, Goto
    <2>3. CASE Cardinality(page) # PageSize
      BY <2>1, <2>3 DEF PageStep, LastPage, Goto
    <2> QED BY <2>2, <2>3
  <1> QED BY <1>1, <1>2

LEMMA LoopStep ==
    ASSUME Typed, [Next]_vars
    PROVE  Loop'
  <1> USE BoundsAssumption DEF Typed, Loop, BoundsAssumption
  <1>1. CASE UNCHANGED <<mem, version, pc, job, todo, ahead, got>>
    BY <1>1 DEF Present, Versions
  <1>2. ASSUME NEW m \in Memories, AddMemory(m) \/ EditMemory(m) \/ DeleteMemory(m) PROVE Loop'
    <2>1. Changed(m) /\ Moved
      BY <1>2, MemoriesChange
    <2>2. \A e \in Execs : Versions(got[e])'
      BY <2>1 DEF Changed, Versions, Memory
    <2> QED BY <2>1, <2>2 DEF Changed, Moved
  <1>3. ASSUME NEW e \in Execs, UNCHANGED <<mem, version>>,
               \/ UNCHANGED <<todo, ahead, got>>
               \/ /\ todo' = [todo EXCEPT ![e] = {}] /\ ahead' = [ahead EXCEPT ![e] = {}]
                  /\ got' = [got EXCEPT ![e] = Nothing],
               \A f \in Execs \ {e} : pc'[f] = pc[f] /\ job'[f] = job[f],
               \/ pc[e] \notin {"fetch", "more", "save"}
               \/ todo'[e] = {} /\ ahead'[e] = {} /\ got'[e] = Nothing,
               pc'[e] \notin {"more", "save"}
        PROVE  Loop'
    <2>1. Versions(Nothing) /\ \A f : Versions(f)' <=> Versions(f)
      BY <1>3 DEF Versions, Nothing
    <2>2. Present' = Present
      BY <1>3 DEF Present
    <2>3. todo'[e] = {} /\ ahead'[e] = {} /\ got'[e] = Nothing
      BY <1>3
    <2>4. /\ todo' \in [Execs -> SUBSET Groups] /\ ahead' \in [Execs -> SUBSET Present]
          /\ DOMAIN got' = Execs
      BY <1>3, <2>2
    <2>5. ASSUME NEW f \in Execs, f # e
          PROVE  /\ todo'[f] = todo[f] /\ ahead'[f] = ahead[f] /\ got'[f] = got[f]
                 /\ pc'[f] = pc[f] /\ job'[f] = job[f]
      BY <1>3, <2>5
    <2>6. \A f \in Execs : Versions(got[f])'
      BY <2>1, <2>3, <2>5
    <2> QED BY <1>3, <2>2, <2>3, <2>4, <2>5, <2>6
  <1>4. ASSUME NEW e \in Execs, NEW g \in Groups, RunPartition(e, g) PROVE Loop'
    <2>1. /\ pc[e] = "idle" /\ pc' = [pc EXCEPT ![e] = "fetch"] /\ job' = [job EXCEPT ![e] = NoTask]
          /\ todo' = [todo EXCEPT ![e] = {g}]
          /\ UNCHANGED <<mem, version, ahead, got>>
      BY <1>4 DEF RunPartition, Begin, data
    <2>2. \A f \in Execs : Versions(got[f])'
      BY <2>1 DEF Versions
    <2> QED BY <2>1, <2>2 DEF Present, Control
  <1>5. ASSUME NEW e \in Execs,
               RunPeriodic(e) \/ (\E t \in Tasks : Deliver(e, t) \/ DeliverAgain(e, t))
               \/ Start(e) \/ GetTask(e) \/ SetTask(e) \/ RefuseTask(e) \/ FailUpdate(e)
        PROVE  Loop'
    <2>1. /\ UNCHANGED <<mem, version, todo, ahead, got>>
          /\ \A f \in Execs \ {e} : pc'[f] = pc[f] /\ job'[f] = job[f]
          /\ pc[e] \notin {"fetch", "more", "save"} /\ pc'[e] \notin {"more", "save"}
      BY <1>5 DEF RunPeriodic, Deliver, DeliverAgain, Begin, Start, GetTask, SetTask, RefuseTask,
           FailUpdate, UpdateRaises, SetStatus, Goto, data, Control
    <2> QED BY <1>3, <2>1
  <1>6. ASSUME NEW e \in Execs, Finish(e) \/ Fail(e) PROVE Loop'
    <2>1. /\ UNCHANGED <<mem, version, job>> /\ LeavesLoop(e)
          /\ \A f \in Execs \ {e} : pc'[f] = pc[f]
          /\ pc'[e] \notin {"more", "save"}
      BY <1>6 DEF Finish, Fail, SetStatus, Goto, data, Control
    <2> QED BY <1>3, <2>1 DEF LeavesLoop
  <1>7. ASSUME NEW e \in Execs, Ack(e) \/ Crash(e) \/ TimeOut(e) PROVE Loop'
    <2>1. UNCHANGED <<mem, version>> /\ Ends(e)
      BY <1>7 DEF Ack, Crash, TimeOut, data
    <2> QED BY <1>3, <2>1 DEF Ends, Control
  <1>8. ASSUME NEW e \in Execs, FetchFirst(e) \/ FetchNext(e) PROVE Loop'
    <2>1. PICK listed \in SUBSET Present : \E page \in SUBSET listed :
             /\ PageStep(e, listed, page)
             /\ FullPage(e, listed, page) \/ LastPage(e, listed, page)
      BY <1>8, PageFetched
    <2>2. PICK page \in SUBSET listed :
             /\ PageStep(e, listed, page)
             /\ FullPage(e, listed, page) \/ LastPage(e, listed, page)
      BY <2>1
    <2>3. /\ UNCHANGED <<mem, version, job>> /\ DOMAIN got' = Execs
          /\ \A f \in Execs \ {e} : got'[f] = got[f]
          /\ DOMAIN got'[e] = DOMAIN got[e] \cup page
          /\ \A m \in DOMAIN got'[e] : got'[e][m] = IF m \in page THEN mem[m] ELSE got[e][m]
      BY <2>2 DEF PageStep, data
    <2>4. \A f \in Execs : Versions(got[f])' /\ DOMAIN got'[e] \subseteq Memories
      BY <2>3 DEF Versions, Present, Memory
    <2>5. Present' = Present
      BY <2>3 DEF Present
    <2>6. CASE FullPage(e, listed, page)
      BY <2>3, <2>4, <2>5, <2>6, <1>8 DEF FullPage, FetchFirst, FetchNext, Control
    <2>7. CASE LastPage(e, listed, page)
      <3>1. {GroupOf[m] : m \in DOMAIN got'[e]} \subseteq Groups
        BY <2>4, GroupsAssumption DEF GroupsAssumption
      <3>2. todo' \in [Execs -> SUBSET Groups] /\ \A f \in Execs \ {e} : todo'[f] = todo[f]
        BY <2>7, <3>1 DEF LastPage
      <3> QED BY <2>3, <2>4, <2>5, <2>7, <3>2 DEF LastPage, Control
    <2> QED BY <2>2, <2>6, <2>7
  <1>9. ASSUME NEW e \in Execs, SavePartition(e) PROVE Loop'
    <2>1. PICK g \in todo[e] : todo' = [todo EXCEPT ![e] = @ \ {g}]
      BY <1>9 DEF SavePartition
    <2>2. pc[e] = "save" /\ UNCHANGED <<mem, version, pc, job, ahead, got>>
      BY <1>9 DEF SavePartition, data
    <2> QED BY <2>1, <2>2 DEF Present, Versions
  <1>10. ASSUME NEW t \in Tasks, RunFull(t) PROVE Loop'
    BY <1>1, <1>10 DEF RunFull, data, local
  <1> QED
    BY <1>1, <1>2, <1>4, <1>5, <1>6, <1>7, <1>8, <1>9, <1>10
       DEF Next, ExecStep, vars, data, local, DeleteView

LEMMA MemoryStep ==
    ASSUME Typed, [Next]_vars
    PROVE  Memory'
  <1> USE BoundsAssumption DEF Typed, Memory, BoundsAssumption, Versions
  <1>1. CASE UNCHANGED <<mem, version, owed, missed, setBack>>
    BY <1>1
  <1>2. ASSUME NEW t \in Tasks, RunFull(t) PROVE Memory'
    BY <1>2 DEF RunFull, data, Restricted, Present
  <1>3. ASSUME NEW m \in Memories, AddMemory(m) \/ EditMemory(m) \/ DeleteMemory(m) PROVE Memory'
    <2>1. Changed(m) /\ Moved
      BY <1>3, MemoriesChange
    <2>2. 1 .. version \subseteq 1 .. version'
      BY <2>1 DEF Changed
    <2>3. ASSUME NEW t \in Tasks PROVE Versions(owed[t])'
      <3>1. /\ DOMAIN owed'[t] \subseteq DOMAIN owed[t]
            /\ \A x \in DOMAIN owed'[t] : owed'[t][x] = owed[t][x]
        BY <2>1 DEF Changed
      <3> QED BY <2>2, <3>1
    <2> QED BY <2>1, <2>3 DEF Changed, Moved
  <1>4. ASSUME NEW e \in Execs, SavePartition(e) PROVE Memory'
    <2>1. \E g \in todo[e] : \E text \in Texts(Of(DOMAIN got[e], g)) :
            SetsBack(e, g, Result(e, g, text))
      BY <1>4 DEF SavePartition
    <2>2. setBack' \in [Tasks -> SUBSET Memories]
      BY <2>1 DEF SetsBack, Of
    <2> QED BY <1>4, <2>2 DEF SavePartition, data
  <1>5. ASSUME NEW e \in Execs, FetchFirst(e) \/ FetchNext(e) PROVE Memory'
    BY <1>1, <1>5, PageFetched DEF PageStep, data, history
  <1> QED
    BY <1>1, <1>2, <1>3, <1>4, <1>5
       DEF Next, ExecStep, vars, data, history, DeleteView, RunPeriodic, RunPartition, Deliver,
           DeliverAgain, Start, GetTask, SetTask, RefuseTask, FailUpdate, Finish, Fail, Ack, Crash,
           TimeOut

LEMMA ResultsStep ==
    ASSUME Typed, [Next]_vars
    PROVE  Results'
  <1> USE BoundsAssumption DEF Typed, Results, BoundsAssumption
  <1>1. CASE UNCHANGED <<version, store>>
    BY <1>1 DEF Versions
  <1>2. ASSUME NEW m \in Memories, AddMemory(m) \/ EditMemory(m) \/ DeleteMemory(m) PROVE Results'
    BY <1>2, MemoriesChange DEF Changed, Versions, Memory
  <1>3. ASSUME NEW e \in Execs, SavePartition(e) PROVE Results'
    <2>0. PICK g \in todo[e] : \E text \in Texts(Of(DOMAIN got[e], g)) :
            store' = [h \in DOMAIN store \cup {g} |->
                       IF h = g THEN Result(e, g, text) ELSE store[h]]
      BY <1>3 DEF SavePartition
    <2>1. PICK text \in Texts(Of(DOMAIN got[e], g)) :
            store' = [h \in DOMAIN store \cup {g} |->
                       IF h = g THEN Result(e, g, text) ELSE store[h]]
      BY <2>0
    <2>2. version' = version /\ g \in Groups /\ Versions(got[e])
      BY <1>3 DEF SavePartition, data, Loop
    <2> DEFINE r == Result(e, g, text)
    <2>3. /\ DOMAIN r.of = DOMAIN got[e] \cap Of(Memories, g) /\ r.text = text
          /\ \A m \in DOMAIN r.of : r.of[m] = got[e][m]
      BY DEF Result, Restricted
    <2>4. Versions(r.of) /\ \A m \in DOMAIN r.of : GroupOf[m] = g
      BY <2>2, <2>3 DEF Versions, Of
    <2>5. DOMAIN r.of = Of(DOMAIN got[e], g)
      BY <2>2, <2>3 DEF Of, Versions
    <2>6. r.text = "none" <=> DOMAIN r.of = {}
      BY <2>3, <2>5 DEF Texts
    <2> HIDE DEF r
    <2>7. /\ DOMAIN store' = DOMAIN store \cup {g} /\ store'[g] = r
          /\ \A h \in DOMAIN store \ {g} : store'[h] = store[h]
      BY <2>1 DEF r
    <2>8. \A h \in DOMAIN store' : Versions(store'[h].of)
      BY <2>4, <2>7
    <2>9. \A h \in DOMAIN store' : Versions(store[h].of)'
      BY <2>2, <2>8 DEF Versions
    <2> QED BY <2>2, <2>4, <2>6, <2>7, <2>9
  <1>4. ASSUME NEW e \in Execs, FetchFirst(e) \/ FetchNext(e) PROVE Results'
    BY <1>1, <1>4, PageFetched DEF PageStep, data
  <1> QED
    BY <1>1, <1>2, <1>3, <1>4
       DEF Next, ExecStep, vars, data, DeleteView, RunFull, RunPeriodic, RunPartition, Deliver,
           DeliverAgain, Start, GetTask, SetTask, RefuseTask, FailUpdate, Finish, Fail, Ack, Crash,
           TimeOut

LEMMA TypedStep ==
    ASSUME Typed, [Next]_vars
    PROVE  Typed'
  BY ControlStep, LoopStep, MemoryStep, ResultsStep DEF Typed

LEMMA TypedAlways == Spec => []Typed
  <1>1. Typed /\ [Next]_vars => Typed'
    BY TypedStep
  <1> QED BY TypedInit, <1>1, PTL DEF Spec

\* Every variable keeps its type, executions at rest hold nothing, and a result has a
\* text, the LLM's or the fallback, exactly when it was computed from some memories.
THEOREM SummaryTypeCorrect == Spec => []TypeOK
  BY TypedAlways, TypedMeansTypeOK, PTL

-----------------------------------------------------------------------------
(***************************************************************************)
(* RUNNING is true.  The executions of a task read and write its record    *)
(* in any order; what keeps RUNNING true is that somebody past its own     *)
(* update to RUNNING will end it, unless an execution was cut off.         *)
(***************************************************************************)
\* The execution f will yet record SUCCESS or FAILED: it is in its loop, about to read
\* the record, or has read a status from which its update is allowed or is tried again.
WillTell(f, t) ==
    /\ job[f] = t
    /\ \/ pc[f] \in {"fetch", "more", "save"}
       \/ pc[f] = "get" /\ goal[f] \in Terminal
       \/ pc[f] = "set" /\ (goal[f] = "success" \/ (goal[f] = "failed" /\ seen[f] = "running"))

\* Nobody has passed the update to RUNNING since the last crash, and the message is there.
WillBegin(t) ==
    /\ t \in queue
    /\ \A e \in Execs : job[e] = t =>
         /\ pc[e] \in {"start", "get", "set"}
         /\ pc[e] = "set" => seen[e] = "running"

Attended(t) == task[t] = "running" /\ t \notin cut =>
                 WillBegin(t) \/ \E f \in Execs : WillTell(f, t)

LEMMA AttendedStep ==
    ASSUME Typed, [Next]_vars, NEW t \in Tasks, Attended(t)
    PROVE  Attended(t)'
  <1> USE DEF Attended
  <1>1. CASE UNCHANGED <<task, queue, pc, job, goal, seen, cut>>
    BY <1>1 DEF WillBegin, WillTell
  <1>2. ASSUME NEW u \in Tasks, RunFull(u) PROVE Attended(t)'
    BY <1>2 DEF RunFull, local, WillBegin, WillTell, Typed, Control
  <1>3. ASSUME NEW m \in Memories, AddMemory(m) \/ EditMemory(m) \/ DeleteMemory(m)
        PROVE  Attended(t)'
    BY <1>1, <1>3, MemoriesChange DEF Changed
  <1>4. ASSUME NEW e \in Execs, NEW step \in {"start", "fetch"}, NEW u, Begin(e, step, u),
               u = NoTask \/ step = "start", UNCHANGED <<task, queue, goal, seen, cut>>
        PROVE  Attended(t)'
    BY <1>4, BoundsAssumption DEF Begin, WillBegin, WillTell, Typed, Control, BoundsAssumption
  <1>5. ASSUME NEW e \in Execs, SetTask(e) PROVE Attended(t)'
    <2>1. CASE job[e] # t
      BY <1>5, <2>1 DEF SetTask, Goto, Forgets, history, WillBegin, WillTell, Typed, Control
    <2>2. CASE job[e] = t
      BY <1>5, <2>2 DEF SetTask, Goto, Forgets, history, WillTell, Typed, Control, Terminal
    <2> QED BY <2>1, <2>2
  <1>6. ASSUME NEW e \in Execs, UNCHANGED <<task, queue, job>>, cut \subseteq cut',
               \A f \in Execs \ {e} : pc'[f] = pc[f] /\ goal'[f] = goal[f] /\ seen'[f] = seen[f],
               job[e] = t /\ t \notin cut' /\ task[t] = "running" =>
                 /\ WillTell(e, t) => WillTell(e, t)'
                 /\ WillBegin(t) => WillTell(e, t)' \/ WillBegin(t)'
        PROVE  Attended(t)'
    <2> SUFFICES ASSUME task[t] = "running", t \notin cut'
                 PROVE  WillBegin(t)' \/ \E f \in Execs : WillTell(f, t)'
      BY <1>6
    <2>1. ASSUME NEW f \in Execs, f # e, WillTell(f, t) PROVE WillTell(f, t)'
      BY <1>6, <2>1 DEF WillTell
    <2>2. job[e] # t /\ WillTell(e, t) => FALSE
      BY DEF WillTell
    <2>3. job[e] # t /\ WillBegin(t) => WillBegin(t)'
      BY <1>6 DEF WillBegin
    <2> QED BY <1>6, <2>1, <2>2, <2>3
  <1>7. ASSUME NEW e \in Execs, Start(e) \/ GetTask(e) \/ RefuseTask(e) \/ FailUpdate(e)
        PROVE  Attended(t)'
    <2>1. /\ UNCHANGED <<task, queue, job>> /\ cut \subseteq cut'
          /\ \A f \in Execs \ {e} : pc'[f] = pc[f] /\ goal'[f] = goal[f] /\ seen'[f] = seen[f]
      <3>1. CASE Start(e) \/ GetTask(e)
        BY <3>1 DEF Start, GetTask, SetStatus, Goto, history, Typed, Control
      <3>2. CASE RefuseTask(e) \/ FailUpdate(e)
        BY <3>2 DEF RefuseTask, FailUpdate, UpdateRaises, SetStatus, Goto, Forgets, Told, Untold,
             history, Typed, Control
      <3> QED BY <1>7, <3>1, <3>2
    <2>2. ASSUME job[e] = t, t \notin cut', task[t] = "running"
          PROVE  /\ WillTell(e, t) => WillTell(e, t)'
                 /\ WillBegin(t) => WillTell(e, t)' \/ WillBegin(t)'
      <3> USE BoundsAssumption DEF BoundsAssumption, Typed, Control, WillTell
      <3>1. CASE Start(e)
        BY <2>1, <2>2, <3>1 DEF Start, SetStatus, Goto, WillBegin, Terminal
      <3>2. CASE GetTask(e)
        BY <2>1, <2>2, <3>2 DEF GetTask, Goto, WillBegin, Terminal
      <3>3. CASE RefuseTask(e)
        <4>1. seen[e] = "running" => goal[e] = "nothing"
          BY <3>3 DEF RefuseTask, Allowed, ValidTransitions, Terminal
        <4>2. goal[e] = "success" => WillTell(e, t)'
          BY <2>1, <2>2, <3>3 DEF RefuseTask, UpdateRaises, SetStatus, Goto, Terminal
        <4> QED BY <2>2, <3>3, <4>1, <4>2 DEF RefuseTask, WillBegin, Terminal
      <3>4. CASE FailUpdate(e)
        BY <2>1, <2>2, <3>4 DEF FailUpdate, UpdateRaises, SetStatus, Goto, Untold, Terminal
      <3> QED BY <1>7, <3>1, <3>2, <3>3, <3>4
    <2> QED BY <1>6, <2>1, <2>2
  <1>8. ASSUME NEW e \in Execs,
               FetchFirst(e) \/ FetchNext(e) \/ SavePartition(e) \/ Finish(e) \/ Fail(e)
        PROVE  Attended(t)'
    <2>1. /\ UNCHANGED <<task, queue, job, seen, cut>> /\ pc[e] \in {"fetch", "more", "save"}
          /\ \A f \in Execs \ {e} : pc'[f] = pc[f] /\ goal'[f] = goal[f]
          /\ \/ pc'[e] \in {"more", "save"}
             \/ job[e] \in Tasks => pc'[e] = "get" /\ goal'[e] \in Terminal
      BY <1>8, BoundsAssumption
         DEF FetchFirst, FetchNext, FetchPage, SavePartition, Finish, Fail, SetStatus, Goto,
             history, Typed, Control, Terminal, BoundsAssumption
    <2>2. ~WillBegin(t) \/ job[e] # t
      BY <2>1 DEF WillBegin
    <2>3. job[e] = t => WillTell(e, t)'
      BY <2>1 DEF WillTell
    <2> QED BY <1>6, <2>1, <2>2, <2>3
  <1>9. ASSUME NEW e \in Execs, Ack(e) \/ Crash(e) \/ TimeOut(e) PROVE Attended(t)'
    <2>1. /\ Ends(e) /\ UNCHANGED task
          /\ \/ pc[e] = "ack" /\ queue' = queue \ {job[e]} /\ UNCHANGED cut
             \/ queue' = queue /\ IF job[e] \in queue /\ \A f \in Execs \ {e} : job[f] # job[e]
                                 THEN Told(e) ELSE Untold(e)
             \/ queue' = queue \ {job[e]} /\ Untold(e)
      BY <1>9 DEF Ack, Crash, TimeOut, history
    <2>2. /\ \A f \in Execs \ {e} : /\ pc'[f] = pc[f] /\ goal'[f] = goal[f]
                                     /\ seen'[f] = seen[f] /\ job'[f] = job[f]
          /\ job'[e] = NoTask /\ cut \subseteq cut'
      BY <2>1 DEF Ends, Told, Untold, Typed, Control
    <2> SUFFICES ASSUME task[t] = "running", t \notin cut'
                 PROVE  WillBegin(t)' \/ \E f \in Execs : WillTell(f, t)'
      BY <2>1
    <2>3. ASSUME NEW f \in Execs, f # e, WillTell(f, t) PROVE WillTell(f, t)'
      BY <2>2, <2>3 DEF WillTell
    <2>4. CASE job[e] # t
      <3>1. WillBegin(t) => WillBegin(t)'
        BY <2>1, <2>2, <2>4, BoundsAssumption DEF WillBegin, BoundsAssumption
      <3>2. ~WillTell(e, t)
        BY <2>4 DEF WillTell
      <3> QED BY <2>2, <2>3, <3>1, <3>2
    <2>5. CASE job[e] = t
      <3>1. CASE pc[e] = "ack" /\ UNCHANGED cut
        BY <2>2, <2>3, <2>5, <3>1 DEF WillBegin, WillTell
      <3>2. CASE queue' = queue /\ job[e] \in queue /\ \A f \in Execs \ {e} : job[f] # job[e]
        BY <2>2, <2>5, <3>2, BoundsAssumption DEF WillBegin, BoundsAssumption
      <3>3. ~Untold(e)
        BY <2>5, BoundsAssumption DEF Untold, BoundsAssumption
      <3> QED BY <2>1, <3>1, <3>2, <3>3
    <2> QED BY <2>4, <2>5
  <1>10. CASE DeleteView
    BY <1>1, <1>10 DEF DeleteView, local, history
  <1>11. ASSUME NEW e \in Execs, NEW g \in Groups, RunPartition(e, g) PROVE Attended(t)'
    BY <1>4, <1>11 DEF RunPartition, history
  <1>12. ASSUME NEW e \in Execs, RunPeriodic(e) PROVE Attended(t)'
    BY <1>4, <1>12 DEF RunPeriodic, history
  <1>13. ASSUME NEW e \in Execs, NEW u \in Tasks, Deliver(e, u) \/ DeliverAgain(e, u)
         PROVE  Attended(t)'
    BY <1>4, <1>13 DEF Deliver, DeliverAgain, history
  <1>14. CASE UNCHANGED vars
    BY <1>1, <1>14 DEF vars, local, history
  <1> QED
    BY <1>2, <1>3, <1>5, <1>7, <1>8, <1>9, <1>10, <1>11, <1>12, <1>13, <1>14 DEF Next, ExecStep

\* A task says RUNNING only while an execution of it goes on or will be delivered, or
\* after one that was cut off: every other way out sets SUCCESS or FAILED first.
THEOREM RunningIsTrue == Spec => []RunningHasExecution
  <1> DEFINE AllAttended == \A t \in Tasks : Attended(t)
  <1>1. Init => AllAttended
    BY DEF Init, Attended
  <1>2. Typed /\ AllAttended /\ [Next]_vars => AllAttended'
    BY AttendedStep
  <1>3. Typed /\ AllAttended => RunningHasExecution
    BY DEF Attended, WillBegin, WillTell, RunningHasExecution, Executes, Typed, Control
  <1> QED BY TypedAlways, <1>1, <1>2, <1>3, PTL DEF Spec

-----------------------------------------------------------------------------
(***************************************************************************)
(* SUCCESS is true.  A run of t carries each due memory along: it is still *)
(* ahead, then fetched, then in the result of its partition; what another  *)
(* run does to the result is counted in setBack, what the listing does to  *)
(* the pages in missed.                                                    *)
(***************************************************************************)
Due(t) == DOMAIN owed[t] \ missed[t]

\* A task is executed only after its request.
Requested == /\ \A e \in Execs : job[e] \in Tasks => task[job[e]] # "absent"
             /\ \A t \in queue : task[t] # "absent"

\* What is owed is there, in the version of the request or a later one.
OwedIsThere == \A t \in Tasks : \A m \in DOMAIN owed[t] : m \in Present /\ mem[m] >= owed[t][m]

Fetched(e, t, m) == m \in DOMAIN got[e] /\ got[e][m] >= owed[t][m]

Stored(t, m) == /\ GroupOf[m] \in DOMAIN store
                /\ m \in setBack[t] \/ Covers(store[GroupOf[m]], m, owed[t][m])

\* Where the due memory m of e's task t is.
Carried(e, t, m) ==
    /\ pc[e] = "more" => m \in ahead[e] \/ Fetched(e, t, m)
    /\ pc[e] = "save" => Fetched(e, t, m) /\ (GroupOf[m] \in todo[e] \/ Stored(t, m))
    /\ pc[e] \in {"get", "set"} /\ goal[e] = "success" => Stored(t, m)

Accounted == \A t \in Tasks : \A m \in Due(t) :
               /\ task[t] = "success" => Stored(t, m)
               /\ \A e \in Execs : job[e] = t => Carried(e, t, m)

Truth == Requested /\ OwedIsThere /\ Accounted

LEMMA TruthInit == Init => Truth
  BY BoundsAssumption
     DEF Init, Truth, Requested, OwedIsThere, Accounted, Due, Nothing, BoundsAssumption

LEMMA RequestedStep ==
    ASSUME Typed, Requested, [Next]_vars
    PROVE  Requested'
  <1> USE BoundsAssumption DEF BoundsAssumption, Requested, Typed, Control
  <1>1. ASSUME \A t \in Tasks : task[t] # "absent" => task'[t] # "absent", queue' \subseteq queue,
               \A e \in Execs : job'[e] = job[e] \/ job'[e] = NoTask
        PROVE  Requested'
    BY <1>1
  <1>2. ASSUME NEW t \in Tasks, RunFull(t) PROVE Requested'
    BY <1>2 DEF RunFull, local
  <1>3. ASSUME NEW m \in Memories, AddMemory(m) \/ EditMemory(m) \/ DeleteMemory(m)
        PROVE  Requested'
    BY <1>1, <1>3, MemoriesChange DEF Changed
  <1>4. ASSUME NEW e \in Execs, NEW t \in Tasks, Deliver(e, t) \/ DeliverAgain(e, t)
        PROVE  Requested'
    BY <1>4 DEF Deliver, DeliverAgain, Begin
  <1>5. ASSUME NEW e \in Execs, SetTask(e) PROVE Requested'
    BY <1>5 DEF SetTask, Terminal
  <1>6. ASSUME NEW e \in Execs, FetchFirst(e) \/ FetchNext(e) PROVE Requested'
    BY <1>1, <1>6, PageFetched DEF PageStep
  <1>7. ASSUME NEW e \in Execs,
               RunPeriodic(e) \/ (\E g \in Groups : RunPartition(e, g)) \/ Start(e) \/ GetTask(e)
               \/ RefuseTask(e) \/ FailUpdate(e) \/ SavePartition(e) \/ Finish(e) \/ Fail(e)
        PROVE  Requested'
    <2>1. UNCHANGED <<task, queue>> /\ \A f \in Execs : job'[f] = job[f] \/ job'[f] = NoTask
      BY <1>7 DEF RunPeriodic, RunPartition, Begin, Start, GetTask, RefuseTask, FailUpdate,
           SavePartition, Finish, Fail
    <2> QED BY <1>1, <2>1
  <1>8. ASSUME NEW e \in Execs, Ack(e) \/ Crash(e) \/ TimeOut(e) PROVE Requested'
    <2>1. UNCHANGED task /\ queue' \subseteq queue /\ Ends(e)
      BY <1>8 DEF Ack, Crash, TimeOut
    <2> QED BY <1>1, <2>1 DEF Ends
  <1>9. CASE DeleteView \/ UNCHANGED vars
    BY <1>1, <1>9 DEF DeleteView, vars, local
  <1> QED
    BY <1>2, <1>3, <1>4, <1>5, <1>6, <1>7, <1>8, <1>9 DEF Next, ExecStep

LEMMA OwedStep ==
    ASSUME Typed, OwedIsThere, [Next]_vars
    PROVE  OwedIsThere'
  <1> USE DEF OwedIsThere
  <1>1. CASE UNCHANGED <<mem, owed>>
    BY <1>1 DEF Present
  <1>2. ASSUME NEW t \in Tasks, RunFull(t) PROVE OwedIsThere'
    <2>1. /\ owed' = [owed EXCEPT ![t] = Restricted(mem, Present)] /\ mem' = mem
          /\ DOMAIN owed = Tasks
      BY <1>2 DEF RunFull, data, Typed, Memory
    <2>2. \A m \in DOMAIN Restricted(mem, Present) : /\ m \in Present /\ mem[m] \in Nat
                                                   /\ Restricted(mem, Present)[m] = mem[m]
      BY BoundsAssumption DEF Restricted, Present, Typed, Memory, BoundsAssumption
    <2> QED BY <2>1, <2>2 DEF Present
  <1>3. ASSUME NEW m \in Memories, AddMemory(m) \/ EditMemory(m) \/ DeleteMemory(m)
        PROVE  OwedIsThere'
    <2>1. Changed(m)
      BY <1>3, MemoriesChange
    <2> SUFFICES ASSUME NEW t \in Tasks, NEW x \in DOMAIN owed'[t]
                 PROVE  x \in Present' /\ mem'[x] >= owed'[t][x]
      OBVIOUS
    <2>2. /\ x \in DOMAIN owed[t] /\ owed'[t][x] = owed[t][x] /\ x \in Memories
          /\ owed[t][x] \in 1 .. version /\ mem[x] >= owed[t][x] /\ mem[x] > 0
      BY <2>1 DEF Changed, Present, Typed, Memory, Versions
    <2>3. CASE x = m
      BY <2>1, <2>2, <2>3, BoundsAssumption
         DEF Changed, Present, Typed, Memory, BoundsAssumption
    <2>4. CASE x # m
      BY <2>1, <2>2, <2>4 DEF Changed, Present
    <2> QED BY <2>3, <2>4
  <1>4. ASSUME NEW e \in Execs, FetchFirst(e) \/ FetchNext(e) PROVE OwedIsThere'
    BY <1>1, <1>4, PageFetched DEF PageStep, data, history
  <1> QED
    BY <1>1, <1>2, <1>3, <1>4
       DEF Next, ExecStep, vars, data, history, DeleteView, RunPeriodic, RunPartition, Deliver,
           DeliverAgain, Start, GetTask, SetTask, RefuseTask, FailUpdate, SavePartition, Finish,
           Fail, Ack, Crash, TimeOut

\* An execution that is not in its loop carries memories only to its SUCCESS.
LEMMA AccountedStep ==
    ASSUME Typed, Truth, [Next]_vars
    PROVE  Accounted'
  <1> USE BoundsAssumption, GroupsAssumption
  <1> USE DEF BoundsAssumption, GroupsAssumption
  <1>0. \A t \in Tasks : Due(t) \subseteq Memories
    BY DEF Due, Typed, Memory, Versions
  <1>1. ASSUME NEW e \in Execs, UNCHANGED <<task, store, owed, missed, setBack>>,
               \A f \in Execs \ {e} : /\ pc'[f] = pc[f] /\ job'[f] = job[f] /\ goal'[f] = goal[f]
                                      /\ todo'[f] = todo[f] /\ ahead'[f] = ahead[f]
                                      /\ got'[f] = got[f],
               \A t \in Tasks : job'[e] = t => \A m \in Due(t) : Carried(e, t, m)'
        PROVE  Accounted'
    <2>1. \A t \in Tasks : Due(t)' = Due(t) /\ \A m : Stored(t, m)' = Stored(t, m)
      BY <1>1 DEF Due, Stored, Covers
    <2>2. ASSUME NEW t \in Tasks, NEW m \in Due(t)', NEW f \in Execs, job'[f] = t
          PROVE  Carried(f, t, m)'
      <3>1. CASE f = e
        BY <1>1, <2>1, <2>2, <3>1
      <3>2. CASE f # e
        <4>1. Carried(f, t, m)
          BY <1>1, <2>1, <2>2, <3>2 DEF Truth, Accounted
        <4> QED BY <1>1, <2>1, <3>2, <4>1 DEF Carried, Fetched
      <3> QED BY <3>1, <3>2
    <2> QED BY <1>1, <2>1, <2>2 DEF Accounted, Truth
  <1>2. CASE UNCHANGED <<task, store, owed, missed, setBack, pc, job, goal, todo, ahead, got>>
    BY <1>2 DEF Truth, Accounted, Due, Carried, Stored, Covers, Fetched
  <1>3. ASSUME NEW t \in Tasks, RunFull(t) PROVE Accounted'
    <2>1. /\ task[t] = "absent" /\ task' = [task EXCEPT ![t] = "pending"]
          /\ owed' = [owed EXCEPT ![t] = Restricted(mem, Present)]
          /\ UNCHANGED <<store, missed, setBack, pc, job, goal, todo, ahead, got>>
      BY <1>3 DEF RunFull, local
    <2> SUFFICES ASSUME NEW u \in Tasks, NEW m \in Due(u)'
                 PROVE  /\ task'[u] = "success" => Stored(u, m)'
                        /\ \A e \in Execs : job'[e] = u => Carried(e, u, m)'
      BY DEF Accounted
    <2>2. CASE u = t
      BY <2>1, <2>2 DEF Truth, Requested, Typed, Control
    <2>3. CASE u # t
      BY <2>1, <2>3 DEF Truth, Accounted, Due, Carried, Stored, Covers, Fetched, Typed, Control
    <2> QED BY <2>2, <2>3
  <1>4. ASSUME NEW x \in Memories, AddMemory(x) \/ EditMemory(x) \/ DeleteMemory(x)
        PROVE  Accounted'
    <2>1. Changed(x) /\ Moved
      BY <1>4, MemoriesChange
    <2> SUFFICES ASSUME NEW t \in Tasks, NEW m \in Due(t)'
                 PROVE  /\ task'[t] = "success" => Stored(t, m)'
                        /\ \A e \in Execs : job'[e] = t => Carried(e, t, m)'
      BY DEF Accounted
    <2>2. m \in Due(t) /\ owed'[t][m] = owed[t][m] /\ m \notin missed'[t]
      BY <2>1 DEF Changed, Moved, Due
    <2>3. Stored(t, m)' <=> Stored(t, m)
      BY <2>1, <2>2 DEF Changed, Stored, Covers
    <2>4. ASSUME NEW e \in Execs, job'[e] = t PROVE Carried(e, t, m)'
      <3>1. Carried(e, t, m) /\ job[e] = t
        BY <2>1, <2>2, <2>4 DEF Truth, Accounted, Changed
      <3>2. m \in ahead[e] => m \in ahead'[e]
        BY <2>1, <2>2, <3>1 DEF Moved
      <3> QED BY <2>1, <2>2, <2>3, <3>1, <3>2 DEF Changed, Carried, Fetched
    <2> QED BY <2>1, <2>2, <2>3, <2>4 DEF Changed, Truth, Accounted
  <1>5. ASSUME NEW e \in Execs,
               RunPeriodic(e) \/ (\E g \in Groups : RunPartition(e, g))
               \/ (\E t \in Tasks : Deliver(e, t) \/ DeliverAgain(e, t))
        PROVE  Accounted'
    <2>1. /\ UNCHANGED <<task, store, goal, ahead, got, owed, missed, setBack>>
          /\ \A f \in Execs \ {e} : /\ pc'[f] = pc[f] /\ job'[f] = job[f]
                                    /\ todo'[f] = todo[f]
          /\ job'[e] \in Tasks => pc'[e] = "start"
      BY <1>5 DEF RunPeriodic, RunPartition, Deliver, DeliverAgain, Begin, history, Typed, Control,
           Loop
    <2>2. \A t \in Tasks : job'[e] = t => \A m \in Due(t) : Carried(e, t, m)'
      BY <2>1 DEF Carried
    <2> QED BY <1>1, <2>1, <2>2
  <1>6. ASSUME NEW e \in Execs, Ack(e) \/ Crash(e) \/ TimeOut(e) PROVE Accounted'
    <2>1. Ends(e) /\ UNCHANGED <<task, store, owed, missed, setBack>>
      BY <1>6 DEF Ack, Crash, TimeOut, history
    <2>2. /\ job'[e] = NoTask
          /\ \A f \in Execs \ {e} : /\ pc'[f] = pc[f] /\ job'[f] = job[f] /\ goal'[f] = goal[f]
                                    /\ todo'[f] = todo[f] /\ ahead'[f] = ahead[f]
                                    /\ got'[f] = got[f]
      BY <2>1 DEF Ends, Typed, Control, Loop
    <2> QED BY <1>1, <2>1, <2>2
  <1>7. ASSUME NEW e \in Execs, Start(e) \/ GetTask(e) \/ RefuseTask(e) \/ FailUpdate(e)
        PROVE  Accounted'
    <2>1. /\ UNCHANGED <<task, store, job, todo, ahead, got, owed, missed, setBack>>
          /\ \A f \in Execs \ {e} : pc'[f] = pc[f] /\ goal'[f] = goal[f]
      <3>1. CASE Start(e) \/ GetTask(e)
        BY <3>1 DEF Start, GetTask, SetStatus, Goto, history, Typed, Control
      <3>2. CASE RefuseTask(e) \/ FailUpdate(e)
        BY <3>2 DEF RefuseTask, FailUpdate, UpdateRaises, SetStatus, Goto, history, Typed, Control
      <3> QED BY <1>7, <3>1, <3>2
    <2>2. /\ pc'[e] \notin {"more", "save"}
          /\ pc'[e] \in {"get", "set"} /\ goal'[e] = "success" =>
               pc[e] = "get" /\ goal[e] = "success"
      <3>1. CASE Start(e) \/ GetTask(e)
        BY <3>1 DEF Start, GetTask, SetStatus, Goto, Typed, Control
      <3>2. CASE RefuseTask(e) \/ FailUpdate(e)
        BY <3>2 DEF RefuseTask, FailUpdate, UpdateRaises, SetStatus, Goto, Typed, Control
      <3> QED BY <1>7, <3>1, <3>2
    <2>3. \A t \in Tasks : job'[e] = t => \A m \in Due(t) : Carried(e, t, m)'
      <3> SUFFICES ASSUME NEW t \in Tasks, job[e] = t, NEW m \in Due(t)
                   PROVE  Carried(e, t, m)'
        BY <2>1
      <3>1. Carried(e, t, m) /\ (Stored(t, m)' <=> Stored(t, m))
        BY <2>1 DEF Truth, Accounted, Stored, Covers
      <3> QED BY <2>2, <3>1 DEF Carried
    <2> QED BY <1>1, <2>1, <2>3
  <1>8. ASSUME NEW e \in Execs, Finish(e) \/ Fail(e) PROVE Accounted'
    <2>1. /\ UNCHANGED <<task, store, job, owed, missed, setBack>>
          /\ \A f \in Execs \ {e} : /\ pc'[f] = pc[f] /\ goal'[f] = goal[f]
                                    /\ todo'[f] = todo[f] /\ ahead'[f] = ahead[f]
                                    /\ got'[f] = got[f]
          /\ pc'[e] \in {"get", "ack"}
          /\ goal'[e] = "success" => pc[e] = "save" /\ todo[e] = {}
      BY <1>8 DEF Finish, Fail, LeavesLoop, SetStatus, Goto, history, Typed, Control, Loop
    <2>2. \A t \in Tasks : job'[e] = t => \A m \in Due(t) : Carried(e, t, m)'
      <3> SUFFICES ASSUME NEW t \in Tasks, job[e] = t, NEW m \in Due(t)
                   PROVE  Carried(e, t, m)'
        BY <2>1
      <3>1. Carried(e, t, m) /\ (Stored(t, m)' <=> Stored(t, m))
        BY <2>1 DEF Truth, Accounted, Stored, Covers
      <3> QED BY <2>1, <3>1 DEF Carried
    <2> QED BY <1>1, <2>1, <2>2
  <1>9. ASSUME NEW e \in Execs, SetTask(e) PROVE Accounted'
    <2>1. /\ UNCHANGED <<job, goal, todo, ahead, got, store, owed, missed, setBack>>
          /\ job[e] \in Tasks /\ task' = [task EXCEPT ![job[e]] = goal[e]]
          /\ pc[e] = "set" /\ pc'[e] \in {"fetch", "ack"}
          /\ \A f \in Execs \ {e} : pc'[f] = pc[f]
      BY <1>9 DEF SetTask, Goto, history, Typed, Control
    <2> SUFFICES ASSUME NEW t \in Tasks, NEW m \in Due(t)'
                 PROVE  /\ task'[t] = "success" => Stored(t, m)'
                        /\ \A f \in Execs : job'[f] = t => Carried(f, t, m)'
      BY DEF Accounted
    <2>2. m \in Due(t) /\ (Stored(t, m)' <=> Stored(t, m))
      BY <2>1 DEF Due, Stored, Covers
    <2>3. task'[t] = "success" => Stored(t, m)'
      BY <2>1, <2>2 DEF Truth, Accounted, Carried, Typed, Control
    <2>4. ASSUME NEW f \in Execs, job'[f] = t PROVE Carried(f, t, m)'
      <3>1. CASE f = e
        BY <2>1, <3>1 DEF Carried
      <3>2. CASE f # e
        <4>1. Carried(f, t, m)
          BY <2>1, <2>2, <2>4 DEF Truth, Accounted
        <4> QED BY <2>1, <2>2, <3>2, <4>1 DEF Carried, Fetched
      <3> QED BY <3>1, <3>2
    <2> QED BY <2>3, <2>4
  <1>10. ASSUME NEW e \in Execs, FetchFirst(e) \/ FetchNext(e) PROVE Accounted'
    <2>1. PICK listed \in SUBSET Present : \E page \in SUBSET listed :
             /\ PageStep(e, listed, page)
             /\ FullPage(e, listed, page) \/ LastPage(e, listed, page)
             /\ \/ pc[e] = "fetch" /\ listed = Asked(e)
                \/ pc[e] = "more" /\ listed = ahead[e]
      BY <1>10, PageFetched
    <2>2. PICK page \in SUBSET listed :
             /\ PageStep(e, listed, page)
             /\ FullPage(e, listed, page) \/ LastPage(e, listed, page)
             /\ \/ pc[e] = "fetch" /\ listed = Asked(e)
                \/ pc[e] = "more" /\ listed = ahead[e]
      BY <2>1
    <2>3. /\ UNCHANGED <<mem, version, task, store, job, goal, owed, missed, setBack>>
          /\ \A f \in Execs \ {e} : got'[f] = got[f]
          /\ DOMAIN got'[e] = DOMAIN got[e] \cup page
          /\ \A m \in DOMAIN got'[e] : got'[e][m] = IF m \in page THEN mem[m] ELSE got[e][m]
      BY <2>2 DEF PageStep, data, history, Typed, Loop
    <2>4. ASSUME NEW t \in Tasks, job[e] = t, NEW m \in Due(t)
          PROVE  m \in listed \ page \/ Fetched(e, t, m)'
      <3>1. m \in listed \/ Fetched(e, t, m)
        BY <2>2, <2>4 DEF Truth, OwedIsThere, Accounted, Carried, Asked, Due, Typed, Loop
      <3>2. CASE m \in page
        BY <2>3, <2>4, <3>2 DEF Fetched, Truth, OwedIsThere, Due
      <3>3. CASE m \notin page
        BY <2>3, <3>1, <3>3 DEF Fetched
      <3> QED BY <3>2, <3>3
    <2>5. \A t \in Tasks : job'[e] = t => \A m \in Due(t) : Carried(e, t, m)'
      <3> SUFFICES ASSUME NEW t \in Tasks, job[e] = t, NEW m \in Due(t)
                   PROVE  Carried(e, t, m)'
        BY <2>3
      <3>1. CASE FullPage(e, listed, page)
        BY <2>3, <2>4, <3>1 DEF FullPage, Carried, Typed, Control, Loop
      <3>2. CASE LastPage(e, listed, page)
        <4>1. Fetched(e, t, m)'
          BY <2>4, <3>2 DEF LastPage
        <4>2. GroupOf[m] \in todo'[e] /\ pc'[e] = "save"
          BY <2>3, <4>1, <3>2 DEF LastPage, Fetched, Typed, Control, Loop
        <4> QED BY <4>1, <4>2, <2>3 DEF Carried
      <3> QED BY <2>2, <3>1, <3>2
    <2>6. \A f \in Execs \ {e} : pc'[f] = pc[f] /\ todo'[f] = todo[f] /\ ahead'[f] = ahead[f]
      BY <2>2 DEF FullPage, LastPage, Typed, Control, Loop
    <2> QED BY <1>1, <2>3, <2>5, <2>6
  <1>11. ASSUME NEW e \in Execs, SavePartition(e) PROVE Accounted'
    <2>1. PICK g \in todo[e] : \E text \in Texts(Of(DOMAIN got[e], g)) :
             /\ store' = [h \in DOMAIN store \cup {g} |->
                            IF h = g THEN Result(e, g, text) ELSE store[h]]
             /\ SetsBack(e, g, Result(e, g, text))
             /\ todo' = [todo EXCEPT ![e] = @ \ {g}]
      BY <1>11 DEF SavePartition
    <2>2. PICK text : /\ store' = [h \in DOMAIN store \cup {g} |->
                                     IF h = g THEN Result(e, g, text) ELSE store[h]]
                      /\ SetsBack(e, g, Result(e, g, text))
                      /\ todo' = [todo EXCEPT ![e] = @ \ {g}]
      BY <2>1
    <2>3. pc[e] = "save" /\ UNCHANGED <<task, pc, job, goal, ahead, got, owed, missed>>
      BY <1>11 DEF SavePartition
    <2> SUFFICES ASSUME NEW t \in Tasks, NEW m \in Due(t)'
                 PROVE  /\ task'[t] = "success" => Stored(t, m)'
                        /\ \A f \in Execs : job'[f] = t => Carried(f, t, m)'
      BY DEF Accounted
    <2>4. m \in Due(t) /\ m \in Memories /\ m \in DOMAIN owed[t]
      BY <2>3, <1>0 DEF Due
    <2> DEFINE r == Result(e, g, text)
    <2>5. DOMAIN store' = DOMAIN store \cup {g} /\ store'[g] = r
          /\ \A h \in DOMAIN store \ {g} : store'[h] = store[h]
      BY <2>2
    <2>6. Fetched(e, t, m) /\ GroupOf[m] = g => Covers(r, m, owed[t][m])
      BY <2>4 DEF Fetched, Covers, Result, Restricted, Of
    <2>7. setBack'[t] = (setBack[t] \ Of(Memories, g)) \cup
             {x \in Of(DOMAIN owed[t], g) : t # job[e] /\ ~Covers(r, x, owed[t][x])}
      BY <2>2 DEF SetsBack
    <2> HIDE DEF r
    <2>8. Stored(t, m) /\ GroupOf[m] # g => Stored(t, m)'
      BY <2>3, <2>4, <2>5, <2>7 DEF Stored, Of
    <2>9. GroupOf[m] = g /\ t # job[e] => Stored(t, m)'
      BY <2>3, <2>4, <2>5, <2>7 DEF Stored, Of
    <2>10. GroupOf[m] = g /\ t = job[e] => Stored(t, m)'
      <3>1. t = job[e] => Fetched(e, t, m)
        BY <2>3, <2>4 DEF Truth, Accounted, Carried
      <3> QED BY <2>3, <2>5, <2>6, <3>1 DEF Stored
    <2>11. Stored(t, m) => Stored(t, m)'
      BY <2>8, <2>9, <2>10
    <2>12. ASSUME NEW f \in Execs, job'[f] = t PROVE Carried(f, t, m)'
      <3>1. Carried(f, t, m) /\ (Fetched(f, t, m)' <=> Fetched(f, t, m))
        BY <2>3, <2>4, <2>12 DEF Truth, Accounted, Fetched
      <3>2. GroupOf[m] \in todo[f] => GroupOf[m] \in todo'[f] \/ Stored(t, m)'
        <4>1. GroupOf[m] # g => (GroupOf[m] \in todo[f] => GroupOf[m] \in todo'[f])
          BY <2>2 DEF Typed, Loop
        <4> QED BY <2>9, <2>10, <4>1
      <3> QED BY <2>3, <2>11, <3>1, <3>2 DEF Carried
    <2> QED BY <2>3, <2>4, <2>11, <2>12 DEF Truth, Accounted
  <1> QED
    BY <1>2, <1>3, <1>4, <1>5, <1>6, <1>7, <1>8, <1>9, <1>10, <1>11
       DEF Next, ExecStep, DeleteView, vars, local, history

\* When a client sees SUCCESS, every memory that its request found and that is there
\* since is in the result of its partition, in the version of the request or a later one,
\* unless it slipped between two pages or another run has set the result back.
THEOREM SuccessIsTrue == Spec => []SuccessIsFresh
  <1>1. Typed /\ Truth /\ [Next]_vars => Truth'
    BY RequestedStep, OwedStep, AccountedStep DEF Truth
  <1>2. Truth => SuccessIsFresh
    BY DEF Truth, Accounted, Due, Stored, SuccessIsFresh
  <1> QED BY TypedAlways, TruthInit, <1>1, <1>2, PTL DEF Spec
=============================================================================
