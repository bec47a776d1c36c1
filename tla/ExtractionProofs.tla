-------------------------- MODULE ExtractionProofs --------------------------
(***************************************************************************)
(* With Docket, an extraction that goes ahead was scheduled a whole        *)
(* debounce period before, and nothing was scheduled since: QuietPeriod    *)
(* for any messages, any debounce, any number of runs, any client, and     *)
(* with failures, crashes and a worker that is late.  The pending key is   *)
(* what carries the argument: while it names a run, the ticks since the    *)
(* last scheduling and the ticks the run has still to wait add up to       *)
(* Debounce.                                                               *)
(* The types; that what a run marks it holds or lost, as long as clients   *)
(* only add messages; and that a run gives way only to a later one, as long *)
(* as client and worker keep their time.                                   *)
(***************************************************************************)
EXTENDS Extraction, FiniteSetTheorems, TLAPS

\* The timers, and only they, matter here.
Timers ==
    /\ quiet \in 0 .. Debounce
    /\ pending \in Nat
    /\ due \in [Runs -> 0 .. Debounce]

\* The run the pending key names was the last one scheduled.
PendingWaits == pending # 0 => pending \in Runs /\ quiet + due[pending] = Debounce

IInv == Timers /\ PendingWaits

LEMMA InitHolds == Init => IInv
  BY DebounceAssumption DEF Init, IInv, Timers, PendingWaits

\* A scheduling restarts the count and moves the key to the new run.
LEMMA ScheduleKeeps == ASSUME UseDocket, IInv, Schedule PROVE IInv'
  <1>1. PICK n \in Runs : /\ due' = [due EXCEPT ![n] = Debounce]
                          /\ pending' = n
    BY DEF Schedule
  <1>2. quiet' = 0
    BY DEF Schedule
  <1>3. n \in Nat /\ due'[n] = Debounce /\ Debounce \in Nat
    BY <1>1, DebounceAssumption DEF IInv, Timers, Runs
  <1>4. Timers'
    BY <1>1, <1>2, <1>3 DEF IInv, Timers
  <1>5. PendingWaits'
    BY <1>1, <1>2, <1>3 DEF PendingWaits
  <1> QED BY <1>4, <1>5 DEF IInv

\* A tick moves what a waiting run has left to what has passed; once due, both rest.
LEMMA TickKeeps == ASSUME IInv, Tick PROVE IInv'
  <1>1. Debounce \in Nat
    BY DebounceAssumption
  <1>2. /\ due' = [n \in Runs |-> Less(due[n])]
        /\ quiet' = IF quiet < Debounce THEN quiet + 1 ELSE quiet
        /\ pending' \in {0, pending}
    BY DEF Tick
  <1>3. ASSUME NEW n \in Runs PROVE Less(due[n]) \in 0 .. Debounce
    BY <1>1 DEF IInv, Timers, Less
  <1>4. Timers'
    BY <1>1, <1>2, <1>3 DEF IInv, Timers
  <1>5. PendingWaits'
    <2> SUFFICES ASSUME pending' # 0
                 PROVE  pending' \in Runs /\ quiet' + due'[pending'] = Debounce
      BY DEF PendingWaits
    <2>1. pending' = pending /\ pending \in Runs /\ quiet + due[pending] = Debounce
      BY <1>2 DEF IInv, PendingWaits
    <2>2. due[pending] \in 0 .. Debounce /\ quiet \in 0 .. Debounce
      BY <2>1 DEF IInv, Timers
    <2>3. due'[pending] = Less(due[pending])
      BY <1>2, <2>1
    <2> QED BY <1>1, <1>2, <2>1, <2>2, <2>3 DEF Less
  <1> QED BY <1>4, <1>5 DEF IInv

\* No other step starts a timer: the key stays or is deleted.
LEMMA OthersKeep ==
    ASSUME IInv, UNCHANGED <<due, quiet>>, pending' \in {0, pending}
    PROVE  IInv'
  BY DEF IInv, Timers, PendingWaits

LEMMA NextKeeps == ASSUME UseDocket, IInv, [Next]_vars PROVE IInv'
  <1>1. CASE Schedule
    BY <1>1, ScheduleKeeps
  <1>2. CASE Tick
    BY <1>2, TickKeeps
  <1>3. CASE Put
    BY <1>3, OthersKeep DEF Put, QueuePromotion, keyVars, runVars, history
  <1>4. CASE Promote
    BY <1>4, OthersKeep DEF Promote, keyVars, runVars, history
  <1>5. ASSUME NEW n \in Runs, RunStep(n) PROVE IInv'
    BY <1>5, OthersKeep
       DEF RunStep, CheckPending, CheckDebounce, ReadMessages, Extract, Mark, SetDebounce,
           ClearPending, DeletePending, Index, keyVars, history
  <1>6. ASSUME NEW n \in Runs, Fail(n) PROVE IInv'
    BY <1>6, OthersKeep DEF Fail, DeletePending, history
  <1>7. ASSUME NEW n \in Runs, Crash(n) PROVE IInv'
    BY <1>7, OthersKeep DEF Crash, Redelivered, keyVars, history
  <1>8. CASE UNCHANGED vars
    BY <1>8, OthersKeep DEF vars, keyVars, runVars, history
  <1> QED BY <1>1, <1>2, <1>3, <1>4, <1>5, <1>6, <1>7, <1>8 DEF Next

\* Only CheckPending starts a run, and only the pending one.
LEMMA StartIsQuiet ==
    ASSUME UseDocket, IInv, [Next]_vars, run \in [Runs -> States],
           NEW n \in Runs, run[n] = "queued", run'[n] = "valid"
    PROVE  quiet = Debounce
  <1>1. PICK k \in Runs : CheckPending(k)
    <2>1. CASE Put \/ Promote \/ Tick \/ UNCHANGED vars
      BY <2>1 DEF Put, QueuePromotion, Promote, Tick, vars, runVars
    <2>2. CASE Schedule
      BY <2>2 DEF Schedule
    <2>3. ASSUME NEW k \in Runs, RunStep(k) PROVE CheckPending(k)
      BY <2>3 DEF RunStep, CheckDebounce, ReadMessages, Extract, Mark, SetDebounce,
                  ClearPending, Index, Goto, End
    <2>4. ASSUME NEW k \in Runs, Fail(k) \/ Crash(k) PROVE FALSE
      BY <2>4 DEF Fail, Crash, Redelivered, Started, End, Goto
    <2> QED BY <2>1, <2>2, <2>3, <2>4 DEF Next
  <1>2. n = k
    BY <1>1 DEF CheckPending, Goto
  <1>3. pending = n /\ due[n] = 0 /\ n # 0
    BY <1>1, <1>2 DEF CheckPending, Goto, Runs
  <1>4. quiet + 0 = Debounce
    BY <1>3 DEF IInv, PendingWaits
  <1> QED BY <1>4 DEF IInv, Timers

\* run stays a function of the runs.
LEMMA RunTyped ==
    ASSUME run \in [Runs -> States], [Next]_vars PROVE run' \in [Runs -> States]
  <1>1. CASE Put \/ Promote \/ Tick \/ UNCHANGED vars
    BY <1>1 DEF Put, QueuePromotion, Promote, Tick, vars, runVars
  <1>2. CASE Schedule
    BY <1>2 DEF Schedule, States
  <1>3. ASSUME NEW n \in Runs, RunStep(n) \/ Fail(n) \/ Crash(n)
        PROVE  run' \in [Runs -> States]
    BY <1>3 DEF RunStep, CheckPending, CheckDebounce, ReadMessages, Extract, Mark,
                SetDebounce, ClearPending, Index, Fail, Crash, Redelivered, Goto, End, States
  <1> QED BY <1>1, <1>2, <1>3 DEF Next

\* With Docket every extraction that goes ahead was scheduled Debounce before, and
\* nothing was scheduled since, whatever the client, the worker and failures do.
THEOREM TrailingEdge == ASSUME UseDocket PROVE Spec => QuietPeriod
  <1> DEFINE Both == IInv /\ run \in [Runs -> States]
  <1>1. Init => Both
    BY InitHolds DEF Init, States
  <1>2. Both /\ [Next]_vars => Both'
    BY NextKeeps, RunTyped
  <1>3. Both /\ [Next]_vars =>
          [\A n \in Runs : run[n] = "queued" /\ run'[n] = "valid" => quiet = Debounce]_vars
    BY StartIsQuiet
  <1> QED BY <1>1, <1>2, <1>3, PTL DEF Spec, QuietPeriod

-----------------------------------------------------------------------------
(***************************************************************************)
(* The memories of marked messages, for both backends and any settings of  *)
(* the constants, as long as clients only add messages.  A run marks what  *)
(* it read before its LLM call, and the LLM call sees all that was there   *)
(* then and may see more: that messages stay in the session is what makes  *)
(* the second read of the code cover the first.                            *)
(***************************************************************************)

\* The parts of the state the argument is about have their types.
MarkTypes ==
    /\ wm \in [Msgs -> {"absent", "f", "t"}]
    /\ run \in [Runs -> States]
    /\ snap \in [Runs -> SUBSET Msgs]
    /\ found \in [Runs -> SUBSET Msgs]
    /\ ltm \in SUBSET Msgs
    /\ lost \in SUBSET Msgs

\* What a run read is still in the session when the LLM is called.
ReadIsPresent == \A n \in Runs : run[n] = "extract" => snap[n] \subseteq Present

\* What a run is about to mark was covered by its LLM call, or that call failed.
CoveredBeforeMarked == \A n \in Runs : run[n] = "mark" => snap[n] \subseteq found[n] \cup lost

MarkInv == MarkTypes /\ ReadIsPresent /\ CoveredBeforeMarked /\ OnlyFailuresLoseMemories

LEMMA MarkInitHolds == Init => MarkInv
  BY DEF Init, MarkInv, MarkTypes, ReadIsPresent, CoveredBeforeMarked, States,
         OnlyFailuresLoseMemories

\* Clients that only add messages mark none and remove none.
LEMMA PutKeepsMarks == ASSUME ~ClientRewrites, MarkInv, Put PROVE MarkInv'
  <1>1. PICK new \in SUBSET (Msgs \ Present) :
          wm' = [m \in Msgs |-> IF m \in new THEN "f" ELSE wm[m]]
    <2>1. PICK new \in SUBSET (Msgs \ Present) :
            \E gone \in SUBSET Present : \E again \in SUBSET (Present \ gone) :
              /\ ClientRewrites \/ gone \cup again = {}
              /\ new \cup gone \cup again # {}
              /\ wm' = [m \in Msgs |-> IF m \in new \cup again THEN "f"
                                       ELSE IF m \in gone THEN "absent" ELSE wm[m]]
              /\ IF new \cup (Present \ gone) # {} THEN QueuePromotion
                                                      ELSE UNCHANGED promotes
      BY DEF Put
    <2>2. wm' = [m \in Msgs |-> IF m \in new THEN "f" ELSE wm[m]]
      BY <2>1
    <2> QED BY <2>2
  <1>2. UNCHANGED <<run, snap, found, ltm, lost>>
    BY DEF Put, runVars, history
  <1>3. Present \subseteq Present' /\ \A m \in Msgs : wm'[m] = "t" => wm[m] = "t"
    BY <1>1 DEF Present, MarkInv, MarkTypes
  <1>4. MarkTypes'
    BY <1>1, <1>2 DEF MarkInv, MarkTypes
  <1>5. ReadIsPresent'
    BY <1>2, <1>3 DEF MarkInv, ReadIsPresent
  <1>6. CoveredBeforeMarked' /\ OnlyFailuresLoseMemories'
    BY <1>2, <1>3 DEF MarkInv, CoveredBeforeMarked, OnlyFailuresLoseMemories
  <1> QED BY <1>4, <1>5, <1>6 DEF MarkInv

\* A step of one run that touches no message and only moves the run along.
LEMMA MoveKeepsMarks ==
    ASSUME MarkInv, NEW n \in Runs, NEW s \in States \ {"extract", "mark"}, Goto(n, s),
           UNCHANGED <<wm, snap, found, ltm, lost>>
    PROVE  MarkInv'
  BY DEF MarkInv, MarkTypes, ReadIsPresent, CoveredBeforeMarked, OnlyFailuresLoseMemories,
         Goto, Present

\* A run that ends leaves its memories in the store or among the lost.
LEMMA EndKeepsMarks ==
    ASSUME MarkInv, NEW n \in Runs, NEW s \in {"queued", "done", "failed"}, End(n, s),
           UNCHANGED wm, ltm' \in SUBSET Msgs, lost' \in SUBSET Msgs,
           ltm \subseteq ltm', lost \subseteq lost',
           {m \in found[n] : wm[m] = "t"} \subseteq ltm' \cup lost'
    PROVE  MarkInv'
  <1>1. MarkTypes'
    BY DEF MarkInv, MarkTypes, End, Goto, States
  <1>2. ReadIsPresent' /\ CoveredBeforeMarked'
    BY DEF MarkInv, MarkTypes, ReadIsPresent, CoveredBeforeMarked, End, Goto, Present
  <1>3. OnlyFailuresLoseMemories'
    BY DEF MarkInv, MarkTypes, OnlyFailuresLoseMemories, End, Goto
  <1> QED BY <1>1, <1>2, <1>3 DEF MarkInv

LEMMA ReadKeepsMarks == ASSUME MarkInv, NEW n \in Runs, ReadMessages(n) PROVE MarkInv'
  <1>1. UNCHANGED <<wm, found, ltm, lost>>
    BY DEF ReadMessages, clientVars, history
  <1>2. CASE Unextracted = {}
    BY <1>1, <1>2, MoveKeepsMarks DEF ReadMessages, States
  <1>3. CASE Unextracted # {}
    BY <1>1, <1>3 DEF ReadMessages, Goto, MarkInv, MarkTypes, ReadIsPresent, States,
                      CoveredBeforeMarked, OnlyFailuresLoseMemories, Present, Unextracted
  <1> QED BY <1>2, <1>3

LEMMA ExtractKeepsMarks == ASSUME MarkInv, NEW n \in Runs, Extract(n) PROVE MarkInv'
  <1>1. UNCHANGED <<wm, snap, ltm>> /\ run[n] = "extract" /\ Goto(n, "mark")
    BY DEF Extract, clientVars
  <1>2. \/ found' = [found EXCEPT ![n] = Present] /\ lost' = lost
        \/ found' = found /\ lost' = lost \cup snap[n]
    BY DEF Extract
  <1>3. MarkTypes'
    BY <1>1, <1>2 DEF MarkInv, MarkTypes, Goto, States, Present
  <1>4. ReadIsPresent' /\ CoveredBeforeMarked'
    BY <1>1, <1>2 DEF MarkInv, MarkTypes, ReadIsPresent, CoveredBeforeMarked, Goto, Present
  <1>5. OnlyFailuresLoseMemories'
    <2>1. \A m \in Msgs, k \in Runs : wm[m] = "t" /\ m \in found[k] => m \in found'[k]
      BY <1>2 DEF MarkInv, MarkTypes, Present
    <2> QED BY <1>1, <1>2, <2>1 DEF MarkInv, OnlyFailuresLoseMemories
  <1> QED BY <1>3, <1>4, <1>5 DEF MarkInv

LEMMA MarkKeepsMarks == ASSUME MarkInv, NEW n \in Runs, Mark(n) PROVE MarkInv'
  <1>1. UNCHANGED <<snap, found, ltm, lost>> /\ run[n] = "mark" /\ Goto(n, "debounce")
    BY DEF Mark, history
  <1>2. wm' = [m \in Msgs |-> IF m \in snap[n] \cap Unextracted THEN "t" ELSE wm[m]]
    BY DEF Mark
  <1>3. Present' = Present
    BY <1>2 DEF Present, Unextracted, MarkInv, MarkTypes
  <1>4. MarkTypes'
    BY <1>1, <1>2 DEF MarkInv, MarkTypes, Goto, States
  <1>5. ReadIsPresent' /\ CoveredBeforeMarked'
    BY <1>1, <1>3 DEF MarkInv, MarkTypes, ReadIsPresent, CoveredBeforeMarked, Goto
  <1>6. OnlyFailuresLoseMemories'
    BY <1>1, <1>2 DEF MarkInv, MarkTypes, CoveredBeforeMarked, OnlyFailuresLoseMemories
  <1> QED BY <1>4, <1>5, <1>6 DEF MarkInv

LEMMA NextKeepsMarks == ASSUME ~ClientRewrites, MarkInv, [Next]_vars PROVE MarkInv'
  <1>1. CASE Put
    BY <1>1, PutKeepsMarks
  <1>2. CASE Promote \/ Tick \/ UNCHANGED vars
    BY <1>2 DEF Promote, Tick, vars, clientVars, runVars, history, MarkInv, MarkTypes,
                ReadIsPresent, CoveredBeforeMarked, OnlyFailuresLoseMemories, Present
  <1>3. CASE Schedule
    <2>1. PICK n \in Runs : Goto(n, "queued") \/ Goto(n, "failed")
      BY <1>3 DEF Schedule, Goto
    <2>2. UNCHANGED <<wm, snap, found, ltm, lost>>
      BY <1>3 DEF Schedule
    <2> QED BY <2>1, <2>2, MoveKeepsMarks DEF States
  <1>4. ASSUME NEW n \in Runs, CheckPending(n) \/ CheckDebounce(n) \/ SetDebounce(n)
                               \/ ClearPending(n)
        PROVE  MarkInv'
    <2>1. UNCHANGED <<wm, snap, found, ltm, lost>>
      BY <1>4 DEF CheckPending, CheckDebounce, SetDebounce, ClearPending, clientVars, history
    <2>2. \E s \in States \ {"extract", "mark"} : Goto(n, s)
      BY <1>4 DEF CheckPending, CheckDebounce, SetDebounce, ClearPending, States
    <2> QED BY <2>1, <2>2, MoveKeepsMarks
  <1>5. ASSUME NEW n \in Runs, Index(n) PROVE MarkInv'
    <2>1. End(n, "done") /\ UNCHANGED <<wm, lost>> /\ ltm' = ltm \cup found[n]
      BY <1>5 DEF Index, clientVars
    <2>2. ltm' \in SUBSET Msgs /\ lost' \in SUBSET Msgs
      BY <2>1 DEF MarkInv, MarkTypes
    <2> QED BY <2>1, <2>2, EndKeepsMarks
  <1>6. ASSUME NEW n \in Runs, Fail(n) \/ Crash(n) PROVE MarkInv'
    <2>1. /\ \E s \in {"queued", "done", "failed"} : End(n, s)
          /\ UNCHANGED <<wm, ltm>> /\ Lose(n)
      BY <1>6 DEF Fail, Crash, Redelivered, clientVars
    <2>2. ltm' \in SUBSET Msgs /\ lost' \in SUBSET Msgs
      BY <2>1 DEF MarkInv, MarkTypes, Lose
    <2> QED BY <2>1, <2>2, EndKeepsMarks DEF Lose
  <1> QED BY <1>1, <1>2, <1>3, <1>4, <1>5, <1>6, ReadKeepsMarks, ExtractKeepsMarks,
             MarkKeepsMarks
          DEF Next, RunStep

\* As long as clients only add messages, a message is never marked extracted while its
\* memories are neither stored, nor held by a run, nor lost to an error or a crash.
THEOREM MarkedIsCovered == ASSUME ~ClientRewrites PROVE Spec => []OnlyFailuresLoseMemories
  <1>1. Init => MarkInv
    BY MarkInitHolds
  <1>2. MarkInv /\ [Next]_vars => MarkInv'
    BY NextKeepsMarks
  <1>3. MarkInv => OnlyFailuresLoseMemories
    BY DEF MarkInv
  <1> QED BY <1>1, <1>2, <1>3, PTL DEF Spec

-----------------------------------------------------------------------------
(***************************************************************************)
(* Types, for both backends and any settings of the constants.             *)
(***************************************************************************)
Scheduled == {n \in Runs : run[n] # "none"}

Ranges ==
    /\ wm \in [Msgs -> {"absent", "f", "t"}]
    /\ pending \in 0 .. MaxRuns /\ pendingTtl \in 0 .. 2 * Debounce
    /\ pending = 0 <=> pendingTtl = 0
    /\ debounceTtl \in 0 .. Debounce
    /\ due \in [Runs -> 0 .. Debounce]
    /\ quiet \in 0 .. Debounce

\* Runs that have not begun or have ended; they hold nothing.
Empty == Ended \cup {"queued", "valid", "read"}

RunTypes ==
    /\ run \in [Runs -> States]
    /\ \A n \in Runs : run[n] # "none" => \A k \in 1 .. n : run[k] # "none"
    /\ snap \in [Runs -> SUBSET Msgs] /\ found \in [Runs -> SUBSET Msgs]
    /\ \A n \in Runs : run[n] \in Empty => snap[n] \cup found[n] = {}

\* What was indexed came from an LLM call.
Heard == /\ ltm \subseteq heard /\ heard \subseteq Msgs /\ lost \subseteq Msgs
         /\ \A n \in Runs : found[n] \subseteq heard

\* A promotion becomes at most one run, so that the bound on their sum stays.
Budget == /\ promotes \in Nat /\ deciding \in Nat
          /\ promotes + deciding + Cardinality(Scheduled) <= MaxRuns

TypeInv == Ranges /\ RunTypes /\ Heard /\ Budget

LEMMA ScheduledIsFinite ==
    /\ IsFiniteSet(Scheduled) /\ Cardinality(Scheduled) \in Nat
    /\ \A n \in Runs \ Scheduled : Cardinality(Scheduled \cup {n}) = Cardinality(Scheduled) + 1
  <1>1. IsFiniteSet(Runs)
    BY BoundAssumption, FS_Interval DEF BoundAssumption, Runs
  <1>2. IsFiniteSet(Scheduled)
    BY <1>1, FS_Subset DEF Scheduled
  <1> QED BY <1>2, FS_CardinalityType, FS_AddElement

LEMMA TypeInitHolds == Init => TypeInv
  <1> SUFFICES ASSUME Init PROVE TypeInv
    OBVIOUS
  <1>1. Ranges /\ RunTypes /\ Heard
    BY DebounceAssumption, BoundAssumption
       DEF DebounceAssumption, BoundAssumption, Init, Ranges, RunTypes, Heard, States, Empty
  <1>2. Scheduled = {}
    BY DEF Init, Scheduled
  <1>3. Budget
    BY <1>2, BoundAssumption, FS_EmptySet DEF BoundAssumption, Init, Budget
  <1> QED BY <1>1, <1>3 DEF TypeInv

LEMMA TypeInvMeansTypeOK == TypeInv => TypeOK
  BY ScheduledIsFinite, BoundAssumption
     DEF BoundAssumption, TypeInv, Ranges, RunTypes, Heard, Budget, TypeOK, Empty

LEMMA RangesStep == ASSUME TypeInv, [Next]_vars PROVE Ranges'
  <1> USE DebounceAssumption, BoundAssumption
      DEF DebounceAssumption, BoundAssumption, TypeInv, Ranges
  <1>1. CASE Put
    BY <1>1 DEF Put, keyVars, runVars, history
  <1>2. CASE Promote
    BY <1>2 DEF Promote, keyVars, runVars, history
  <1>3. CASE Schedule
    BY <1>3 DEF Schedule, PendingTtl, Runs
  <1>4. CASE Tick
    BY <1>4 DEF Tick, Less, clientVars
  <1>5. ASSUME NEW n \in Runs, RunStep(n) PROVE Ranges'
    BY <1>5 DEF RunStep, CheckPending, CheckDebounce, ReadMessages, Extract, Mark, SetDebounce,
                ClearPending, Index, DeletePending, clientVars, keyVars, history
  <1>6. ASSUME NEW n \in Runs, Fail(n) \/ Crash(n) PROVE Ranges'
    BY <1>6 DEF Fail, Crash, DeletePending, clientVars, keyVars, history
  <1>7. CASE UNCHANGED vars
    BY <1>7 DEF vars, clientVars, keyVars, runVars, history
  <1> QED BY <1>1, <1>2, <1>3, <1>4, <1>5, <1>6, <1>7 DEF Next

LEMMA RunTypesStep == ASSUME TypeInv, [Next]_vars PROVE RunTypes'
  <1> USE BoundAssumption DEF BoundAssumption, TypeInv, RunTypes, Empty, Ended, States
  <1>1. CASE Put \/ Promote \/ Tick \/ UNCHANGED vars
    BY <1>1 DEF Put, Promote, Tick, vars, runVars
  <1>2. CASE Schedule
    <2>1. PICK n \in Runs : /\ run[n] = "none" /\ \A k \in 1 .. n - 1 : run[k] # "none"
                            /\ \E s \in {"queued", "failed"} : run' = [run EXCEPT ![n] = s]
      BY <1>2 DEF Schedule
    <2>2. UNCHANGED <<snap, found>>
      BY <1>2 DEF Schedule
    <2> QED BY <2>1, <2>2 DEF Runs
  <1>3. ASSUME NEW n \in Runs, NEW s \in States \ {"none"}, Goto(n, s), run[n] # "none",
               snap'[n] \cup found'[n] = {} \/ s \notin Empty,
               \A k \in Runs \ {n} : snap'[k] = snap[k] /\ found'[k] = found[k],
               snap' \in [Runs -> SUBSET Msgs], found' \in [Runs -> SUBSET Msgs]
        PROVE  RunTypes'
    BY <1>3 DEF Goto, Runs
  <1>4. ASSUME NEW n \in Runs, RunStep(n) PROVE RunTypes'
    <2>1. CASE CheckPending(n) \/ CheckDebounce(n) \/ SetDebounce(n) \/ ClearPending(n) \/ Mark(n)
      <3>1. UNCHANGED <<snap, found>> /\ run[n] # "none"
        BY <2>1 DEF CheckPending, CheckDebounce, SetDebounce, ClearPending, Mark
      <3>2. PICK s \in {"valid", "skipped", "read", "done", "debounce", "clear", "index"} :
              Goto(n, s)
        BY <2>1 DEF CheckPending, CheckDebounce, SetDebounce, ClearPending, Mark
      <3>3. s \in {"valid", "skipped", "read", "done"} => snap[n] \cup found[n] = {}
        BY <2>1, <3>2 DEF CheckPending, CheckDebounce, SetDebounce, ClearPending, Mark, Goto
      <3> QED BY <1>3, <3>1, <3>2, <3>3
    <2>2. CASE ReadMessages(n)
      <3>1. CASE Unextracted = {}
        BY <1>3, <2>2, <3>1 DEF ReadMessages
      <3>2. CASE Unextracted # {}
        <4>1. Unextracted \in SUBSET Msgs
          BY DEF Unextracted
        <4> QED BY <1>3, <2>2, <3>2, <4>1 DEF ReadMessages
      <3> QED BY <3>1, <3>2
    <2>3. CASE Extract(n)
      <3>1. Present \in SUBSET Msgs
        BY DEF Present
      <3> QED BY <1>3, <2>3, <3>1 DEF Extract
    <2>4. CASE Index(n)
      BY <1>3, <2>4 DEF Index, End
    <2> QED BY <1>4, <2>1, <2>2, <2>3, <2>4 DEF RunStep
  <1>5. ASSUME NEW n \in Runs, Fail(n) \/ Crash(n) PROVE RunTypes'
    <2>1. run[n] # "none" /\ \E s \in {"queued", "done", "failed"} : End(n, s)
      BY <1>5 DEF Fail, Crash, Ready, Started, Redelivered
    <2> QED BY <1>3, <2>1 DEF End
  <1> QED BY <1>1, <1>2, <1>4, <1>5 DEF Next

LEMMA HeardStep == ASSUME TypeInv, [Next]_vars PROVE Heard'
  <1> USE DEF TypeInv, RunTypes, Heard
  <1>1. CASE Put \/ Promote \/ Schedule \/ Tick \/ UNCHANGED vars
    BY <1>1 DEF Put, Promote, Schedule, Tick, vars, runVars, history
  <1>2. ASSUME NEW n \in Runs, RunStep(n) PROVE Heard'
    BY <1>2 DEF RunStep, CheckPending, CheckDebounce, ReadMessages, Extract, Mark, SetDebounce,
                ClearPending, Index, End, Present, history
  <1>3. ASSUME NEW n \in Runs, Fail(n) \/ Crash(n) PROVE Heard'
    BY <1>3 DEF Fail, Crash, End, Lose
  <1> QED BY <1>1, <1>2, <1>3 DEF Next

LEMMA BudgetStep == ASSUME TypeInv, [Next]_vars PROVE Budget'
  <1> USE ScheduledIsFinite, BoundAssumption DEF BoundAssumption, TypeInv, RunTypes, Budget
  <1>1. CASE Put
    BY <1>1 DEF Put, QueuePromotion, runVars, Scheduled
  <1>2. CASE Promote
    BY <1>2 DEF Promote, runVars, Scheduled
  <1>3. CASE Schedule
    <2>1. PICK n \in Runs : /\ run[n] = "none"
                            /\ \E s \in {"queued", "failed"} : run' = [run EXCEPT ![n] = s]
      BY <1>3 DEF Schedule
    <2>2. Scheduled' = Scheduled \cup {n} /\ n \notin Scheduled
      BY <2>1 DEF Scheduled
    <2> QED BY <1>3, <2>2 DEF Schedule
  <1>4. CASE Tick \/ UNCHANGED vars
    BY <1>4 DEF Tick, vars, clientVars, runVars, Scheduled
  <1>5. ASSUME NEW n \in Runs, RunStep(n) \/ Fail(n) \/ Crash(n) PROVE Budget'
    <2>1. UNCHANGED <<promotes, deciding>>
      BY <1>5 DEF RunStep, CheckPending, CheckDebounce, ReadMessages, Extract, Mark, SetDebounce,
                  ClearPending, Index, Fail, Crash, clientVars
    <2>2. run[n] # "none" /\ \E s \in States \ {"none"} : run' = [run EXCEPT ![n] = s]
      BY <1>5 DEF RunStep, CheckPending, CheckDebounce, ReadMessages, Extract, Mark, SetDebounce,
                  ClearPending, Index, Fail, Crash, Ready, Started, Ended, Redelivered, End, Goto,
                  States
    <2>3. Scheduled' = Scheduled
      BY <2>2 DEF Scheduled
    <2> QED BY <2>1, <2>3
  <1> QED BY <1>1, <1>2, <1>3, <1>4, <1>5 DEF Next

\* Every variable keeps its type; runs are scheduled in order, ended runs hold nothing, and
\* nothing is indexed that no LLM call has covered.
THEOREM ExtractionTypeCorrect == Spec => []TypeOK
  <1>1. TypeInv /\ [Next]_vars => TypeInv'
    BY RangesStep, RunTypesStep, HeardStep, BudgetStep DEF TypeInv
  <1> QED BY TypeInitHolds, TypeInvMeansTypeOK, <1>1, PTL DEF Spec

-----------------------------------------------------------------------------
(***************************************************************************)
(* A run that skips itself was superseded, with Docket, a client that      *)
(* pauses and a prompt worker without failures.  Then nothing is scheduled *)
(* while a run is at work, so the key a run clears is its own, and the key *)
(* of the last run outlives the moment it is due by a whole period.        *)
(***************************************************************************)
Calm == UseDocket /\ CalmClient /\ PromptWorker /\ ~Failures /\ ~Crashes

\* No run was scheduled after n.
Last(n) == run[n] # "none" /\ \A k \in Runs : k > n => run[k] = "none"

\* A run at work was due, and is the last.
WorkerIsLast == \A n \in Started : due[n] = 0 /\ Last(n)

\* Nothing is on its way to be scheduled when a run may take a step.
NoRush == (\E n \in Runs : Ready(n)) => promotes = 0 /\ deciding = 0

\* The pending key names the last run, and as long as that waits it is there.
PendingIsLast ==
    /\ pending # 0 => Last(pending)
    /\ \A n \in Runs : run[n] = "queued" /\ Last(n)
         => pending = n /\ pendingTtl = Debounce + due[n]

CalmInv == WorkerIsLast /\ NoRush /\ PendingIsLast /\ SkippedWasSuperseded

LEMMA CalmInitHolds == Init => CalmInv
  BY DEF Init, CalmInv, WorkerIsLast, NoRush, PendingIsLast, SkippedWasSuperseded, Started, Ended,
         Ready, Last

LEMMA CalmStep == ASSUME Calm, TypeInv, CalmInv, [Next]_vars PROVE CalmInv'
  <1> USE DebounceAssumption, BoundAssumption
      DEF DebounceAssumption, BoundAssumption, Calm, TypeInv, Ranges, RunTypes, Budget, CalmInv,
          WorkerIsLast, NoRush, PendingIsLast, SkippedWasSuperseded, Started, Ended, Ready, Last,
          States, Runs
  <1>1. CASE UNCHANGED <<promotes, deciding, pending, pendingTtl, run, due>>
    BY <1>1
  <1>2. CASE Put
    BY <1>2 DEF Put, MayWrite, keyVars, runVars
  <1>3. CASE Promote
    BY <1>3 DEF Promote, keyVars, runVars
  <1>4. CASE Schedule
    <2>1. PICK n \in Runs : /\ run[n] = "none" /\ \A k \in 1 .. n - 1 : run[k] # "none"
                            /\ due' = [due EXCEPT ![n] = Debounce]
                            /\ run' = [run EXCEPT ![n] = "queued"]
                            /\ pending' = n /\ pendingTtl' = 2 * Debounce
      BY <1>4 DEF Schedule, PendingTtl
    <2>2. deciding > 0
      BY <1>4 DEF Schedule
    <2>3. \A k \in Runs : k > n => run[k] = "none"
      BY <2>1
    <2>4. \A k \in Runs : ~Ready(k)
      BY <2>2
    <2>5. Started' = {} /\ \A k \in Runs : ~Ready(k)'
      BY <2>1, <2>4
    <2>6. Last(n)' /\ \A k \in Runs : Last(k)' => k = n
      BY <2>1, <2>3
    <2>7. SkippedWasSuperseded'
      BY <2>1
    <2> QED BY <2>1, <2>5, <2>6, <2>7
  <1>5. CASE Tick
    <2>1. /\ promotes + deciding = 0 /\ \A n \in Runs : ~Ready(n)
          /\ UNCHANGED <<promotes, deciding, run>>
      BY <1>5 DEF Tick, clientVars
    <2>2. /\ pendingTtl' = Less(pendingTtl) /\ pending' = IF pendingTtl <= 1 THEN 0 ELSE pending
          /\ due' = [n \in Runs |-> Less(due[n])]
      BY <1>5 DEF Tick
    <2>3. Started = {}
      BY <2>1
    <2>4. ASSUME NEW n \in Runs, run[n] = "queued", Last(n)
          PROVE  pending' = n /\ pendingTtl' = Debounce + due'[n]
      <3>1. due[n] > 0 /\ pending = n /\ pendingTtl = Debounce + due[n] /\ due'[n] = due[n] - 1
        BY <2>1, <2>2, <2>4 DEF Less
      <3> QED BY <2>2, <3>1 DEF Less
    <2> QED BY <2>1, <2>2, <2>3, <2>4
  <1>6. ASSUME NEW n \in Runs, RunStep(n) PROVE CalmInv'
    <2>1. UNCHANGED <<promotes, deciding, due>>
      BY <1>6 DEF RunStep, CheckPending, CheckDebounce, ReadMessages, Extract, Mark, SetDebounce,
                  ClearPending, Index, clientVars
    <2>2. CASE CheckPending(n)
      BY <2>1, <2>2 DEF CheckPending, Goto, keyVars
    <2>3. CASE ~CheckPending(n)
      <3>1. PICK s \in States \ {"none", "queued", "skipped"} : Goto(n, s)
        BY <1>6, <2>3 DEF RunStep, CheckDebounce, ReadMessages, Extract, Mark, SetDebounce,
                          ClearPending, Index, End
      <3>2. n \in Started /\ run[n] # "skipped"
        BY <1>6, <2>3 DEF RunStep, CheckDebounce, ReadMessages, Extract, Mark, SetDebounce,
                          ClearPending, Index
      <3>3. UNCHANGED <<pending, pendingTtl>> \/ pending' = 0
        BY <1>6, <2>3 DEF RunStep, CheckDebounce, ReadMessages, Extract, Mark, SetDebounce,
                          ClearPending, DeletePending, Index, keyVars
      <3>4. \A k \in Runs : Last(k)' <=> Last(k)
        BY <3>1, <3>2 DEF Goto
      <3>5. \A k \in Runs : run[k] = "queued" => ~Last(k)
        BY <3>2
      <3>6. \A k \in Runs : run'[k] = "queued" => run[k] = "queued"
        BY <3>1 DEF Goto
      <3>7. PendingIsLast'
        <4>1. pending' # 0 => pending' = pending /\ pending \in Runs /\ Last(pending)
          BY <3>3
        <4> HIDE DEF Last
        <4> QED BY <3>4, <3>5, <3>6, <4>1
      <3>8. WorkerIsLast' /\ NoRush'
        BY <2>1, <3>1, <3>2, <3>4 DEF Goto
      <3>9. SkippedWasSuperseded'
        BY <3>1, <3>2 DEF Goto
      <3> QED BY <3>7, <3>8, <3>9
    <2> QED BY <2>2, <2>3
  <1>7. ASSUME NEW n \in Runs PROVE ~Fail(n) /\ ~Crash(n)
    BY DEF Fail, Crash
  <1> QED BY <1>1, <1>2, <1>3, <1>4, <1>5, <1>6, <1>7 DEF Next, vars, clientVars, keyVars, runVars

\* With a client that pauses while an extraction runs and a prompt worker, a run skips itself
\* only because a newer one was scheduled.
THEOREM SkippingIsSuperseding == ASSUME Calm PROVE Spec => []SkippedWasSuperseded
  <1>1. TypeInv /\ [Next]_vars => TypeInv'
    BY RangesStep, RunTypesStep, HeardStep, BudgetStep DEF TypeInv
  <1>2. TypeInv /\ CalmInv /\ [Next]_vars => CalmInv'
    BY CalmStep
  <1>3. CalmInv => SkippedWasSuperseded
    BY DEF CalmInv
  <1> QED BY TypeInitHolds, CalmInitHolds, <1>1, <1>2, <1>3, PTL DEF Spec
=============================================================================
