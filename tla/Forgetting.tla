----------------------------- MODULE Forgetting -----------------------------
(***************************************************************************)
(* Forgetting by policy (agent_memory_server/long_term_memory.py,          *)
(* select_ids_for_forgetting and the passes, and utils/recency.py).  A     *)
(* pass lists the first memories of the index, decides from that list, and *)
(* deletes in a later step; memories are stored, read and pinned between.  *)
(* Time is counted in days.                                                *)
(***************************************************************************)
EXTENDS Naturals, FiniteSets

CONSTANTS
    Records,   \* memory ids, numbers in the order of the index
    HardAge,   \* hard_age_multiplier
    MaxDay,    \* bound on the clock
    Policies,  \* policies in use
    PassLimit, \* memories a pass looks at
    Unset      \* no such threshold, no such memory

ASSUME ForgettingAssumption ==
    /\ Records \subseteq Nat /\ HardAge \in Nat \ {0} /\ MaxDay \in Nat
    /\ PassLimit \in Nat /\ Unset \notin Nat
    /\ Policies \subseteq [maxAge : Nat \cup {Unset}, maxIdle : Nat \cup {Unset},
                         budget : Nat \cup {Unset}]

VARIABLES
    day,
    policy, \* of the passes: settings, or the body of a request
    memory, \* memory[m]: when it was created and used, and whether a pass leaves it alone
    pass    \* the pass in progress

forgettingVars == <<day, policy, memory, pass>>

\* exempt: pinned, named in the request's pinned_ids, or of a type the policy does not allow
Kept == [created : 0 .. MaxDay, used : 0 .. MaxDay, exempt : BOOLEAN]
NoPass == [pc |-> "idle", eligible |-> {}, doomed |-> {}]

ForgettingInit == /\ day = 0 /\ policy \in Policies
                  /\ memory = [m \in Records |-> Unset]
                  /\ pass = NoPass

Present == {m \in Records : memory[m] # Unset}
Under(rs, n) == {m \in rs : Cardinality({k \in rs : k < m}) < n}

NextDay == /\ day < MaxDay /\ day' = day + 1
           /\ UNCHANGED <<policy, memory, pass>>

Remember(m) ==
    /\ memory[m] = Unset
    /\ \E exempt \in BOOLEAN :
         memory' = [memory EXCEPT ![m] = [created |-> day, used |-> day, exempt |-> exempt]]
    /\ UNCHANGED <<day, policy, pass>>

\* update_last_accessed, for what a search has shown.
UseMemory(m) ==
    /\ m \in Present
    /\ memory' = [memory EXCEPT ![m].used = day]
    /\ UNCHANGED <<day, policy, pass>>

\* It is pinned, edited, or named by another request.
PinMemory(m) ==
    /\ m \in Present
    /\ memory' = [memory EXCEPT ![m].exempt = ~@]
    /\ UNCHANGED <<day, policy, pass>>

-----------------------------------------------------------------------------
(***************************************************************************)
(* The choice.                                                             *)
(***************************************************************************)
Exceeds(days, threshold) == threshold # Unset /\ days > threshold

\* With both thresholds set, what is in use stays unless it is extremely old.
Past(r) ==
    LET old == Exceeds(day - r.created, policy.maxAge)
        idle == Exceeds(day - r.used, policy.maxIdle)
    IN  IF policy.maxAge # Unset /\ policy.maxIdle # Unset
        THEN day - r.created > policy.maxAge * HardAge \/ (old /\ idle)
        ELSE old \/ idle

\* score_recency grows with both dates; how it weighs them is left open.
Staler(r, q) == /\ r.created <= q.created /\ r.used <= q.used
                /\ r.created < q.created \/ r.used < q.used

\* Mutant: the ranking is read from the wrong end.
StalestOf(rest, n) ==
    {keep \in SUBSET rest : /\ Cardinality(keep) = n
                            /\ \A k \in keep, m \in rest \ keep : ~Staler(memory[m], memory[k])}

\* rerank_with_recency: the first n of rest, by any ranking.
FreshestOf(rest, n) ==
    {keep \in SUBSET rest : /\ Cardinality(keep) = n
                            /\ \A k \in keep, m \in rest \ keep : ~Staler(memory[k], memory[m])}

\* select_ids_for_forgetting: what is past the thresholds, and of the rest all but the
\* budget's freshest.
Selections(eligible) ==
    LET past == {m \in eligible : Past(memory[m])}
        rest == eligible \ past
    IN  IF policy.budget = Unset \/ policy.budget >= Cardinality(rest) THEN {past}
        ELSE {eligible \ keep : keep \in FreshestOf(rest, policy.budget)}

-----------------------------------------------------------------------------
(***************************************************************************)
(* forget_long_term_memories.                                              *)
(***************************************************************************)

\* Of the first memories of the index, those that nothing exempts.
Eligible == {m \in Under(Present, PassLimit) : ~memory[m].exempt}

\* A pass lists and decides.
StartPass ==
    /\ pass.pc = "idle"
    /\ \E doomed \in Selections(Eligible) :
         pass' = [pc |-> "delete", eligible |-> Eligible, doomed |-> doomed]
    /\ UNCHANGED <<day, policy, memory>>

\* The memories are deleted, as they are now; not in a dry run, or if the server dies.
EndPass ==
    /\ pass.pc = "delete"
    /\ memory' \in {memory, [m \in Records |-> IF m \in pass.doomed THEN Unset ELSE memory[m]]}
    /\ pass' = NoPass
    /\ UNCHANGED <<day, policy>>

ForgettingNext == \/ NextDay \/ StartPass \/ EndPass
                  \/ \E m \in Records : Remember(m) \/ UseMemory(m) \/ PinMemory(m)

ForgettingSpec == ForgettingInit /\ [][ForgettingNext]_forgettingVars

-----------------------------------------------------------------------------
(***************************************************************************)
(* Properties.                                                             *)
(***************************************************************************)
ForgettingTypeOK ==
    /\ day \in 0 .. MaxDay /\ policy \in Policies
    /\ memory \in [Records -> Kept \cup {Unset}]
    /\ \A m \in Present : memory[m].created <= memory[m].used /\ memory[m].used <= day
    /\ pass.doomed \subseteq pass.eligible /\ pass.eligible \subseteq Records
    /\ pass.pc = "idle" => pass = NoPass

\* The thresholds and the budget never choose a memory and spare a staler one that the pass
\* looked at and might have chosen (long_term_memory.py 2498-2506).
ForgettingIsMonotone ==
    [][pass.pc = "idle" =>
         \A d \in pass'.doomed, k \in pass'.eligible \ pass'.doomed :
             ~Staler(memory[k], memory[d])]_forgettingVars
=============================================================================
