------------------------ MODULE LongTermStoreProofs ------------------------
(***************************************************************************)
(* What is proved of the store, for any ids, facts, operations and         *)
(* crashes: it keeps its types; as long as what overlaps is orderly,       *)
(* nothing that clients submitted is lost and vectors are those of the     *)
(* texts; and pins are kept when operations come one at a time.            *)
(***************************************************************************)
EXTENDS LongTermStore, FiniteSetTheorems, TLAPS

Stages == {"idle", "byId", "replace", "byHash", "touch", "search", "drop", "dropAnchor", "add",
           "ack", "group", "remove", "anchor", "write", "access", "forget"}
Modes == {"none", "full", "summary", "pinning", "compact", "pin", "text", "mark"}

\* The stages at which an operation has a record to store.
Bearing == {"byId", "replace", "byHash", "touch", "search", "drop", "dropAnchor", "add", "write"}

Slots == [pc : Stages, mode : Modes, mem : Memories \cup {Absent}, src : Memories \cup {Absent},
          group : SUBSET Ids, anchor : Ids \cup {Absent}, todo : Seq(Texts \X Sessions),
          snap : SUBSET Memories, gone : BOOLEAN]

\* A slot names ids that are given out and is empty when it is idle.  What was submitted or
\* is written has a text.  A listed record is named only from the decision to merge it until
\* what it was merged to is stored.
Proper(p, ids) ==
    /\ p.pc = "idle" => p = Idle
    /\ p.pc \in Bearing => p.mem # Absent
    /\ p.mem # Absent => p.mem.id \in ids
    /\ p.src # Absent => p.src.id \in ids /\ p.pc \in Bearing \cup {"ack"} /\ p.mode # "compact"
    /\ p.src # Absent =>
         p.src.text # {} /\ (p.mem # Absent /\ p.mem.text = {} => p.mem.id # p.src.id)
    /\ p.pc = "write" => p.mem.text # {}
    /\ p.pc \in Bearing \ {"write"} =>
         p.src # Absent \/ (p.mode = "compact" /\ p.pc \in {"drop", "dropAnchor", "add"})
    /\ p.group \subseteq ids /\ p.anchor \in ids \cup {Absent} /\ p.anchor \notin p.group
    /\ p.anchor # Absent => p.pc \in {"drop", "dropAnchor", "add"} /\ p.mode = "compact"
    /\ p.pc \in {"group", "remove", "anchor"} => p.mode = "compact"
    /\ \A m \in p.snap : m.id \in ids
    /\ p.snap # {} => p.mode = "compact"

Stored == [Ids -> Records \cup Fragments \cup {Absent}]

TypeInv ==
    /\ rec \in Stored /\ \A i \in Ids : rec[i] # Absent => i \in used
    /\ used \subseteq Ids
    /\ op \in [Ops -> Slots] /\ \A o \in Ops : Proper(op[o], used)
    /\ crashes \in 0 .. MaxCrashes
    /\ owed \subseteq Facts /\ curated \subseteq Facts
    /\ queued \subseteq {m \in Memories : m.id \in used /\ m.text # {}}
    /\ together \in Overlaps \cup {{}} /\ merging \in BOOLEAN

LEMMA IdleIsProper == Idle \in Slots /\ \A ids : Proper(Idle, ids)
  BY AbsentAssumption DEF Idle, Slots, Proper, Stages, Modes, Bearing

LEMMA TypeInitHolds == Init => TypeInv
  BY IdleIsProper, KindsAssumption DEF KindsAssumption, Init, TypeInv, Stored

LEMMA TypeInvMeansTypeOK == TypeInv => TypeOK
  <1> SUFFICES ASSUME TypeInv PROVE TypeOK
    OBVIOUS
  <1>1. ASSUME NEW o \in Ops
        PROVE  /\ op[o].pc = "idle" => op[o] = Idle
               /\ op[o].mem \in Memories \cup {Absent} /\ op[o].src \in Memories \cup {Absent}
               /\ op[o].group \subseteq used /\ op[o].snap \subseteq Memories
               /\ op[o].anchor \in (used \cup {Absent}) \ op[o].group
               /\ op[o].pc \in Bearing => op[o].mem # Absent /\ op[o].mem.id \in used
    BY DEF TypeInv, Slots, Proper
  <1> QED BY <1>1 DEF TypeInv, TypeOK, Stored, Bearing

\* A record that is visible is whole.
LEMMA VisibleIsWhole == ASSUME TypeInv, NEW i \in Visible
                        PROVE  /\ i \in used /\ i \in Ids /\ rec[i] \in Records
                               /\ rec[i].text \in Texts /\ Snapshot(i) \in Memories
                               /\ Snapshot(i).id = i
                               /\ Snapshot(i).text # {}
  BY DEF TypeInv, Stored, Visible, Records, Fragments, Snapshot, Memories, Texts

\* What every step has to show: what it leaves in its slot and in the store is proper.
LEMMA SlotKeepsTypes ==
    ASSUME TypeInv, NEW o \in Ops, NEW p \in Slots, op' = [op EXCEPT ![o] = p],
           Proper(p, used'), used \subseteq used', used' \subseteq Ids,
           rec' \in Stored, \A i \in Ids : rec'[i] # Absent => i \in used',
           owed' \subseteq Facts, curated' \subseteq Facts, crashes' \in 0 .. MaxCrashes,
           queued' \subseteq queued \cup {m \in Memories : m.id \in used' /\ m.text # {}},
           UNCHANGED <<merging, together>>
    PROVE  TypeInv'
  <1>1. op' \in [Ops -> Slots]
    BY DEF TypeInv
  <1>2. ASSUME NEW q \in Ops PROVE Proper(op'[q], used')
    <2>1. CASE q = o
      BY <2>1 DEF TypeInv
    <2>2. CASE q # o
      <3>1. op'[q] = op[q] /\ Proper(op[q], used)
        BY <2>2 DEF TypeInv
      <3> QED BY <3>1 DEF Proper
    <2> QED BY <2>1, <2>2
  <1>3. queued' \subseteq {m \in Memories : m.id \in used' /\ m.text # {}}
    BY DEF TypeInv
  <1> QED BY <1>1, <1>2, <1>3 DEF TypeInv

\* Without touches nothing else.
LEMMA WithoutIsStored ==
    ASSUME TypeInv, NEW ids, rec' = Without(ids)
    PROVE  rec' \in Stored /\ \A i \in Ids : rec'[i] # Absent => i \in used
  BY DEF TypeInv, Stored, Without

LEMMA HSetIsStored ==
    ASSUME TypeInv, NEW i \in used, NEW pinning \in BOOLEAN, rec' = HSet(i, pinning)
    PROVE  rec' \in Stored /\ \A j \in Ids : rec'[j] # Absent => j \in used
  <1>1. i \in Ids /\ Fragment(pinning) \in Fragments
    BY KindsAssumption DEF KindsAssumption, TypeInv, Fragment, Fragments
  <1>2. ASSUME rec[i] # Absent, NEW b \in BOOLEAN
        PROVE  [rec[i] EXCEPT !.pin = b] \in Records \cup Fragments
    BY <1>1, <1>2 DEF TypeInv, Stored, Records, Fragments
  <1>3. PICK r \in Records \cup Fragments : rec' = [rec EXCEPT ![i] = r]
    <2>1. CASE rec[i] = Absent
      BY <1>1, <2>1 DEF HSet
    <2>2. CASE rec[i] # Absent
      <3>1. rec[i].pin \in BOOLEAN
        BY <1>1, <2>2 DEF TypeInv, Stored, Records, Fragments
      <3>2. (rec[i].pin \/ pinning) \in BOOLEAN
        OBVIOUS
      <3>3. rec' = [rec EXCEPT ![i] = [rec[i] EXCEPT !.pin = rec[i].pin \/ pinning]]
        BY <2>2 DEF HSet, TypeInv, Stored
      <3> QED BY <1>2, <2>2, <3>2, <3>3
    <2> QED BY <2>1, <2>2
  <1> QED BY <1>1, <1>3 DEF TypeInv, Stored

-----------------------------------------------------------------------------
LEMMA CreateTypes == ASSUME TypeInv, NEW o \in Ops, Create(o), UNCHANGED <<merging, together>>
                     PROVE  TypeInv'
  <1>1. PICK mode \in {"full", "summary", "none"}, mem \in Submissions :
          /\ op' = [op EXCEPT ![o] =
                       [Idle EXCEPT !.pc = IF mode = "none" THEN "add" ELSE "byId",
                                    !.mode = mode, !.mem = mem, !.src = mem]]
          /\ used' = used \cup {mem.id} /\ owed' = owed \cup mem.text
          /\ curated' = IF mem.pin THEN curated \cup mem.text ELSE curated
    BY DEF Create, Set
  <1> DEFINE p == [Idle EXCEPT !.pc = IF mode = "none" THEN "add" ELSE "byId",
                               !.mode = mode, !.mem = mem, !.src = mem]
  <1>2. mem.text # {} /\ mem.text \subseteq Facts /\ mem \in Memories /\ mem.id \in Ids
    BY DEF SaidTexts, Memories, Submissions
  <1>3. p \in Slots
    BY <1>2, IdleIsProper DEF Slots, Stages, Modes, Idle
  <1>4. Proper(p, used')
    BY <1>1, <1>2, AbsentAssumption DEF Proper, Idle, Bearing
  <1>5. UNCHANGED <<rec, queued, crashes>> /\ used \subseteq used'
    BY DEF Create
  <1> QED BY <1>1, <1>2, <1>3, <1>4, <1>5, SlotKeepsTypes DEF TypeInv

LEMMA CompactTypes == ASSUME TypeInv, NEW o \in Ops, Compact(o), UNCHANGED <<merging, together>>
                      PROVE  TypeInv'
  <1>1. PICK todo \in Seq(Texts \X Sessions) :
          op' = [op EXCEPT ![o] = [Idle EXCEPT !.pc = "group", !.mode = "compact", !.todo = todo]]
    <2> DEFINE groups == {h \in Texts \X Sessions : Cardinality(SameHash(h[1], h[2])) > 1}
               n == Cardinality(groups)
    <2>1. PICK rows \in [1 .. n -> groups] :
            \E todo \in {EverySecond(rows)} \cup {<<>>} :
              op' = [op EXCEPT ![o] =
                       [Idle EXCEPT !.pc = "group", !.mode = "compact", !.todo = todo]]
      BY DEF Compact, Set
    <2>2. EverySecond(rows) \in Seq(Texts \X Sessions)
      <3>1. groups \subseteq Texts \X Sessions
        OBVIOUS
      <3>2. n \in Nat
        <4>1. IsFiniteSet(Texts)
          BY KindsAssumption, FS_SUBSET, FS_Subset DEF KindsAssumption, Texts
        <4>2. IsFiniteSet(Texts \X Sessions)
          BY <4>1, KindsAssumption, FS_Product DEF KindsAssumption
        <4> HIDE DEF groups
        <4> QED BY <3>1, <4>2, FS_Subset, FS_CardinalityType
      <3>3. Len(rows) = n
        BY <3>2
      <3>4. (n + 1) \div 2 \in Nat /\ \A k \in 1 .. (n + 1) \div 2 : 2 * k - 1 \in 1 .. n
        <4> HIDE DEF n
        <4>1. (n + 1) \div 2 \in Nat /\ 2 * ((n + 1) \div 2) <= n + 1
          BY <3>2
        <4> QED BY <3>2, <4>1
      <3> DEFINE H == Texts \X Sessions
      <3>5. groups \subseteq H
        BY <3>1
      <3> HIDE DEF groups, n, H
      <3>6. EverySecond(rows) \in Seq(H)
        BY <3>3, <3>4, <3>5 DEF EverySecond
      <3> QED BY <3>6 DEF H
    <2>3. PICK todo \in {EverySecond(rows)} \cup {<<>>} :
            op' = [op EXCEPT ![o] = [Idle EXCEPT !.pc = "group", !.mode = "compact", !.todo = todo]]
      BY <2>1
    <2>4. todo \in Seq(Texts \X Sessions)
      <3>1. <<>> \in Seq(Texts \X Sessions)
        OBVIOUS
      <3> HIDE DEF groups, n
      <3> QED BY <2>2, <3>1
    <2> QED BY <2>3, <2>4
  <1> DEFINE p == [Idle EXCEPT !.pc = "group", !.mode = "compact", !.todo = todo]
  <1>2. p \in Slots
    BY IdleIsProper DEF Slots, Stages, Modes, Idle
  <1>3. Proper(p, used)
    BY DEF Proper, Idle, Bearing
  <1> QED BY <1>1, <1>2, <1>3, SlotKeepsTypes DEF Compact, TypeInv

\* Either way a strategy task gets its records.
Marks(o) == MarkQueued(o) \/ MarkListed(o)

LEMMA EditTypes ==
    ASSUME TypeInv, NEW o \in Ops, Patch(o) \/ Marks(o), UNCHANGED <<merging, together>>
    PROVE  TypeInv'
  <1>1. PICK mode \in {"pin", "text", "mark"}, mem \in Memories :
          /\ op' = [op EXCEPT ![o] = [Idle EXCEPT !.pc = "write", !.mode = mode, !.mem = mem]]
          /\ mem.id \in used /\ mem.text # {}
    <2>1. CASE Patch(o)
      <3>1. PICK i \in Visible, edit \in Edits :
              op' = [op EXCEPT ![o] =
                [Idle EXCEPT !.pc = "write",
                             !.mode = IF edit.text = rec[i].text THEN "pin" ELSE "text",
                             !.mem = [Snapshot(i) EXCEPT !.text = edit.text, !.pin = edit.pin]]]
        BY <2>1 DEF Patch, Set
      <3> DEFINE mem == [Snapshot(i) EXCEPT !.text = edit.text, !.pin = edit.pin]
      <3>2. edit.text \subseteq Facts /\ edit.text # {} /\ edit.pin \in BOOLEAN
        BY DEF Edits, SaidTexts
      <3>3. Snapshot(i) \in Memories /\ Snapshot(i).id \in used
        BY VisibleIsWhole
      <3>4. mem \in Memories /\ mem.id \in used /\ mem.text # {}
        BY <3>2, <3>3 DEF Memories
      <3> QED BY <3>1, <3>4
    <2>2. CASE MarkListed(o)
      BY <2>2, VisibleIsWhole DEF MarkListed, Set
    <2>3. CASE MarkQueued(o)
      BY <2>3 DEF MarkQueued, Set, TypeInv
    <2> QED BY <2>1, <2>2, <2>3 DEF Marks
  <1> DEFINE p == [Idle EXCEPT !.pc = "write", !.mode = mode, !.mem = mem]
  <1>2. p \in Slots
    BY IdleIsProper DEF Slots, Stages, Modes, Idle
  <1>3. Proper(p, used)
    BY <1>1, AbsentAssumption DEF Proper, Idle, Bearing
  <1>4. queued' \subseteq queued /\ UNCHANGED <<rec, used, crashes, owed, curated>>
    BY DEF Patch, Marks, MarkListed, MarkQueued
  <1> QED BY <1>1, <1>2, <1>3, <1>4, SlotKeepsTypes DEF TypeInv

LEMMA PickTypes ==
    ASSUME TypeInv, NEW o \in Ops, Access(o) \/ Forget(o), UNCHANGED <<merging, together>>
    PROVE  TypeInv'
  <1>1. PICK pc \in {"access", "forget"}, group \in SUBSET Visible :
          op' = [op EXCEPT ![o] = [Idle EXCEPT !.pc = pc, !.group = group]]
    <2>1. CASE Access(o)
      BY <2>1 DEF Access, Set
    <2>2. CASE Forget(o)
      BY <2>2 DEF Forget, Set, Unpinned
    <2> QED BY <2>1, <2>2
  <1> DEFINE p == [Idle EXCEPT !.pc = pc, !.group = group]
  <1>2. group \subseteq Ids /\ group \subseteq used
    BY VisibleIsWhole
  <1>3. p \in Slots
    BY <1>2, IdleIsProper DEF Slots, Stages, Modes, Idle
  <1>4. Proper(p, used)
    BY <1>2, AbsentAssumption DEF Proper, Idle, Bearing
  <1> QED BY <1>1, <1>3, <1>4, SlotKeepsTypes DEF Access, Forget, TypeInv

LEMMA DeleteTypes ==
    ASSUME TypeInv, NEW o \in Ops, Delete(o) \/ DeleteInvalid(o), UNCHANGED <<merging, together>>
    PROVE  TypeInv'
  <1>1. /\ \E i : rec' = Without({i})
        /\ UNCHANGED <<used, op, queued, crashes>> /\ owed' \subseteq owed
        /\ curated' \subseteq curated
    BY DEF Delete, DeleteInvalid, Release
  <1>2. rec' \in Stored /\ \A i \in Ids : rec'[i] # Absent => i \in used
    BY <1>1, WithoutIsStored
  <1> QED BY <1>1, <1>2 DEF TypeInv

LEMMA StartTypes == ASSUME TypeInv, NEW o \in Ops, Start(o), UNCHANGED <<merging, together>>
                    PROVE  TypeInv'
  BY CreateTypes, CompactTypes, EditTypes, PickTypes, DeleteTypes DEF Start, Marks

-----------------------------------------------------------------------------
\* The steps that only go on, from one stage to another.
LEMMA GoOnTypes ==
    ASSUME TypeInv, NEW o \in Ops, NEW pc \in Stages, op[o].pc \notin {"idle", "ack", "write"},
           Goto(o, pc), pc # "idle", pc \in Bearing <=> op[o].pc \in Bearing,
           op[o].pc \in {"drop", "dropAnchor", "add"} => pc = "add",
           pc \notin {"group", "remove", "anchor", "write"},
           used' = used, rec' \in Stored, \A i \in Ids : rec'[i] # Absent => i \in used,
           owed' \subseteq owed, curated' \subseteq curated,
           UNCHANGED <<queued, crashes, merging, together>>
    PROVE  TypeInv'
  <1> DEFINE p == [op[o] EXCEPT !.pc = pc]
  <1>1. op[o] \in Slots /\ Proper(op[o], used)
    BY DEF TypeInv
  <1>2. op' = [op EXCEPT ![o] = p]
    BY DEF Goto, TypeInv
  <1>3. p \in Slots
    BY <1>1 DEF Slots
  <1>4. Proper(p, used)
    BY <1>1 DEF Proper, Slots
  <1> QED BY <1>2, <1>3, <1>4, SlotKeepsTypes DEF TypeInv

\* The steps that end an operation.
LEMMA FinishTypes ==
    ASSUME TypeInv, NEW o \in Ops, Finish(o),
           used' = used, rec' \in Stored, \A i \in Ids : rec'[i] # Absent => i \in used,
           owed' \subseteq Facts, curated' \subseteq Facts,
           UNCHANGED <<queued, crashes, merging, together>>
    PROVE  TypeInv'
  BY IdleIsProper, SlotKeepsTypes DEF Finish, TypeInv

LEMMA FindSameIdTypes ==
    ASSUME TypeInv, NEW o \in Ops, FindSameId(o), UNCHANGED <<merging, together>>
    PROVE  TypeInv'
  <1> DEFINE i == op[o].mem.id
  <1>1. /\ op[o].pc = "byId" /\ UNCHANGED <<rec, used, queued, crashes, owed, curated>>
        /\ op[o] \in Slots /\ Proper(op[o], used) /\ op[o].mem \in Memories
    BY DEF FindSameId, TypeInv, Proper, Bearing, Slots
  <1>2. CASE Found(op[o].mem)
    <2>1. PICK b \in BOOLEAN : op' = [op EXCEPT ![o].pc = "replace", ![o].mem.pin = b]
      <3>1. op[o].mem.pin \in BOOLEAN /\ rec[i].pin \in BOOLEAN
        BY <1>1, <1>2, VisibleIsWhole DEF Found, Memories, Records
      <3>2. (op[o].mem.pin \/ rec[i].pin) \in BOOLEAN
        OBVIOUS
      <3>3. op' = [op EXCEPT ![o].pc = "replace", ![o].mem.pin = op[o].mem.pin \/ rec[i].pin]
        BY <1>2 DEF FindSameId, TypeInv
      <3> QED BY <3>2, <3>3
    <2> DEFINE p == [op[o] EXCEPT !.pc = "replace", !.mem = [op[o].mem EXCEPT !.pin = b]]
    <2>2. op' = [op EXCEPT ![o] = p]
      BY <1>1, <2>1 DEF TypeInv, Slots
    <2>3. [op[o].mem EXCEPT !.pin = b] \in Memories /\ [op[o].mem EXCEPT !.pin = b].id = i
          /\ [op[o].mem EXCEPT !.pin = b].text = op[o].mem.text
      BY <1>1 DEF Memories
    <2>4. p \in Slots
      BY <1>1, <2>3 DEF Slots, Stages
    <2>5. Proper(p, used)
      BY <1>1, <2>3, AbsentAssumption DEF Proper, Slots, Bearing
    <2> QED BY <1>1, <2>2, <2>4, <2>5, SlotKeepsTypes DEF TypeInv
  <1>3. CASE ~Found(op[o].mem)
    BY <1>1, <1>3, GoOnTypes DEF FindSameId, AfterId, Stages, Bearing, TypeInv
  <1> QED BY <1>2, <1>3

LEMMA ReplaceTypes ==
    ASSUME TypeInv, NEW o \in Ops, Replace(o), UNCHANGED <<merging, together>> PROVE TypeInv'
  <1>1. /\ op[o].pc = "replace" /\ UNCHANGED <<used, queued, crashes>>
        /\ owed' \subseteq owed /\ curated' \subseteq curated /\ \E ids : rec' = Without(ids)
    BY DEF Replace, Release
  <1>2. rec' \in Stored /\ \A i \in Ids : rec'[i] # Absent => i \in used
    BY <1>1, WithoutIsStored
  <1>3. PICK pc \in {"add", "byHash"} : op' = [op EXCEPT ![o].pc = pc, ![o].gone = TRUE]
    BY DEF Replace, AfterId
  <1> DEFINE p == [op[o] EXCEPT !.pc = pc, !.gone = TRUE]
  <1>4. op[o] \in Slots /\ Proper(op[o], used) /\ op' = [op EXCEPT ![o] = p]
    BY <1>3 DEF TypeInv
  <1>5. p \in Slots /\ Proper(p, used)
    BY <1>1, <1>4 DEF Slots, Stages, Proper, Bearing
  <1> QED BY <1>1, <1>2, <1>4, <1>5, SlotKeepsTypes DEF TypeInv

LEMMA FindSameHashTypes ==
    ASSUME TypeInv, NEW o \in Ops, FindSameHash(o), UNCHANGED <<merging, together>>
    PROVE  TypeInv'
  <1>1. /\ op[o].pc = "byHash" /\ UNCHANGED <<rec, used, queued, crashes, owed, curated>>
        /\ op[o] \in Slots /\ Proper(op[o], used)
    BY DEF FindSameHash, TypeInv
  <1>2. CASE SameHash(op[o].mem.text, op[o].mem.ses) = {}
    <2>1. PICK pc \in {"search", "add"} : Goto(o, pc)
      BY <1>2 DEF FindSameHash
    <2> QED BY <1>1, <2>1, GoOnTypes DEF Stages, Bearing, TypeInv
  <1>3. CASE SameHash(op[o].mem.text, op[o].mem.ses) # {}
    <2>1. PICK i \in Visible, mode \in {"pinning", "full"} :
            op' = [op EXCEPT ![o].pc = "touch", ![o].group = {i}, ![o].mode = mode]
      BY <1>3 DEF FindSameHash, SameHash
    <2> DEFINE p == [op[o] EXCEPT !.pc = "touch", !.group = {i}, !.mode = mode]
    <2>2. op' = [op EXCEPT ![o] = p] /\ i \in Ids /\ i \in used
      BY <2>1, VisibleIsWhole DEF TypeInv
    <2>3. p \in Slots /\ Proper(p, used)
      BY <1>1, <2>2, AbsentAssumption DEF Slots, Stages, Modes, Proper, Bearing
    <2> QED BY <1>1, <2>2, <2>3, SlotKeepsTypes DEF TypeInv
  <1> QED BY <1>2, <1>3

LEMMA TouchTypes ==
    ASSUME TypeInv, NEW o \in Ops, TouchDuplicate(o) \/ TouchAccessed(o),
           UNCHANGED <<merging, together>>
    PROVE  TypeInv'
  <1>1. PICK i \in op[o].group, pinning \in BOOLEAN : rec' = HSet(i, pinning)
    BY DEF TouchDuplicate, TouchAccessed
  <1>2. i \in used
    BY <1>1 DEF TypeInv, Proper
  <1>3. rec' \in Stored /\ \A j \in Ids : rec'[j] # Absent => j \in used
    BY <1>1, <1>2, HSetIsStored
  <1>4. Finish(o) /\ UNCHANGED <<used, queued, crashes, owed, curated>>
    BY DEF TouchDuplicate, TouchAccessed
  <1> QED BY <1>3, <1>4, FinishTypes DEF TypeInv

\* A merged record is one, under a new id.
LEMMA MergedIsMemory ==
    ASSUME TypeInv, NEW mem \in Memories, NEW group \in Neighbours(mem), NEW id \in Ids,
           NEW new \in Merged(mem, group, id)
    PROVE  /\ new \in Memories /\ new.id = id /\ group \subseteq Unpinned /\ mem.id \notin group
           /\ mem.pin => new.pin
           /\ DeletesFinish => /\ mem.text \subseteq new.text
                               /\ \A i \in group : rec[i].text \subseteq new.text
                               /\ \A f \in new.text : \/ f \in mem.text
                                                      \/ \E i \in group : f \in rec[i].text
  <1> DEFINE texts == {mem.text} \cup {rec[i].text : i \in group}
             pin == mem.pin \/ \E i \in group : rec[i].pin
             others == {rec[i].ses : i \in group}
  <1>1. group \subseteq Visible /\ group \subseteq Unpinned /\ mem.id \notin group
    BY DEF Neighbours, Unpinned
  <1>2. UNION texts \subseteq Facts
    BY <1>1, VisibleIsWhole DEF Texts, Memories
  <1>3. pin \in BOOLEAN
    OBVIOUS
  <1>4. others \subseteq Sessions /\ mem.ses \in Sessions
    BY <1>1, VisibleIsWhole DEF Records, Memories
  <1>5. new \in [id : {id}, text : Merges(texts), pin : {pin}, ses : SessionOf(mem.ses, others)]
    BY DEF Merged
  <1>6. mem.text \subseteq UNION texts /\ \A i \in group : rec[i].text \subseteq UNION texts
    OBVIOUS
  <1>12. \A f \in UNION texts : f \in mem.text \/ \E i \in group : f \in rec[i].text
    OBVIOUS
  <1> HIDE DEF texts, pin, others
  <1>7. SessionOf(mem.ses, others) \subseteq Sessions
    BY <1>4 DEF SessionOf
  <1>8. Merges(texts) \subseteq SUBSET Facts /\ (DeletesFinish => Merges(texts) = {UNION texts})
    BY <1>2 DEF Merges
  <1>9. new \in Memories /\ new.id = id
    BY <1>3, <1>5, <1>7, <1>8 DEF Memories
  <1>10. mem.pin => new.pin
    BY <1>5 DEF pin
  <1>11. DeletesFinish => new.text = UNION texts
    BY <1>5, <1>8
  <1> QED BY <1>1, <1>6, <1>9, <1>10, <1>11, <1>12

\* The slot p after a merge was decided on.
MergeSlot(p, new, group, anchor, snap) ==
    [p EXCEPT !.pc = "drop", !.group = group, !.anchor = anchor, !.snap = snap, !.mem = new]

LEMMA MergeSlotIsProper ==
    ASSUME TypeInv, NEW o \in Ops, op[o].pc # "idle",
           NEW mem \in Memories, NEW group \in Neighbours(mem), NEW id \in Ids,
           NEW new \in Merged(mem, group, id),
           NEW anchor \in {Absent, mem.id},
           anchor # Absent => anchor \in used /\ op[o].mode = "compact",
           op[o].src = Absent => op[o].mode = "compact",
           op[o].src # Absent => op[o].mode # "compact" /\ id # op[o].src.id,
           NEW snap \in SUBSET op[o].snap
    PROVE  /\ MergeSlot(op[o], new, group, anchor, snap) \in Slots
           /\ Proper(MergeSlot(op[o], new, group, anchor, snap), used \cup {id})
  <1>1. new \in Memories /\ new.id = id /\ group \subseteq Visible /\ anchor \notin group
    <2>1. /\ new \in Memories /\ new.id = id /\ group \subseteq Unpinned /\ mem.id \notin group
      BY MergedIsMemory
    <2>2. Absent \notin Visible /\ Unpinned \subseteq Visible
      BY AbsentAssumption DEF Visible, Unpinned
    <2> QED BY <2>1, <2>2
  <1>2. group \subseteq used /\ group \subseteq Ids /\ used \subseteq Ids
    BY <1>1, VisibleIsWhole DEF TypeInv
  <1>3. op[o] \in Slots /\ Proper(op[o], used)
    BY DEF TypeInv
  <1>4. MergeSlot(op[o], new, group, anchor, snap) \in Slots
    BY <1>1, <1>2, <1>3 DEF MergeSlot, Slots, Stages
  <1>5. Proper(MergeSlot(op[o], new, group, anchor, snap), used \cup {id})
    BY <1>1, <1>2, <1>3, AbsentAssumption DEF MergeSlot, Proper, Slots, Bearing
  <1> QED BY <1>4, <1>5

LEMMA SearchSimilarTypes ==
    ASSUME TypeInv, NEW o \in Ops, SearchSimilar(o), UNCHANGED <<merging, together>>
    PROVE  TypeInv'
  <1>1. /\ op[o].pc = "search" /\ UNCHANGED <<rec, queued, crashes, owed, curated>>
        /\ op[o] \in Slots /\ Proper(op[o], used) /\ op[o].mem \in Memories
    BY DEF SearchSimilar, TypeInv, Proper, Bearing, Slots
  <1>2. CASE Goto(o, "add") /\ UNCHANGED used
    BY <1>1, <1>2, GoOnTypes DEF Stages, Bearing, TypeInv
  <1>3. ASSUME NEW group \in Neighbours(op[o].mem), NEW id \in Ids \ used,
               NEW new \in Merged(op[o].mem, group, id),
               op' = [op EXCEPT ![o].pc = "drop", ![o].group = group, ![o].mem = new],
               used' = used \cup {id}
        PROVE  TypeInv'
    <2> DEFINE p == MergeSlot(op[o], new, group, Absent, op[o].snap)
    <2>1. /\ op[o].anchor = Absent /\ op[o].src # Absent
          /\ op[o].mode # "compact" /\ id # op[o].src.id
      BY <1>1, <1>3 DEF Proper, Bearing
    <2>2. op' = [op EXCEPT ![o] = p]
      BY <1>1, <1>3, <2>1 DEF TypeInv, Slots, MergeSlot
    <2>3. op[o].pc # "idle" /\ op[o].snap \in SUBSET op[o].snap
      BY <1>1
    <2>4. p \in Slots /\ Proper(p, used')
      BY <1>1, <1>3, <2>1, <2>3, MergeSlotIsProper
    <2>5. /\ used \subseteq used' /\ used' \subseteq Ids /\ queued' \subseteq queued
          /\ rec' \in Stored /\ \A i \in Ids : rec'[i] # Absent => i \in used'
          /\ owed' \subseteq Facts /\ curated' \subseteq Facts /\ crashes' \in 0 .. MaxCrashes
      BY <1>1, <1>3 DEF TypeInv
    <2> HIDE DEF p
    <2> QED BY <2>2, <2>4, <2>5, SlotKeepsTypes
  <1> QED BY <1>2, <1>3 DEF SearchSimilar

LEMMA MergeListedTypes ==
    ASSUME TypeInv, NEW o \in Ops, MergeListed(o), UNCHANGED <<merging, together>>
    PROVE  TypeInv'
  <1>1. /\ op[o].pc = "anchor" /\ UNCHANGED <<rec, queued, crashes, owed, curated>>
        /\ op[o] \in Slots /\ Proper(op[o], used)
    BY DEF MergeListed, TypeInv
  <1>2. CASE Finish(o) /\ UNCHANGED used
    BY <1>1, <1>2, FinishTypes DEF TypeInv
  <1>3. ASSUME NEW mem \in op[o].snap, op' = [op EXCEPT ![o].snap = @ \ {mem}], UNCHANGED used
        PROVE  TypeInv'
    <2> DEFINE p == [op[o] EXCEPT !.snap = op[o].snap \ {mem}]
    <2>1. p \in Slots /\ Proper(p, used) /\ op' = [op EXCEPT ![o] = p]
      BY <1>1, <1>3 DEF Slots, Proper, Bearing, TypeInv
    <2> QED BY <1>1, <1>3, <2>1, SlotKeepsTypes DEF TypeInv
  <1>4. ASSUME NEW mem \in op[o].snap, NEW group \in Neighbours(mem), NEW id \in Ids \ used,
               NEW new \in Merged(mem, group, id),
               op' = [op EXCEPT ![o].pc = "drop", ![o].group = group, ![o].mem = new,
                                ![o].anchor = mem.id, ![o].snap = @ \ {mem}],
               used' = used \cup {id}
        PROVE  TypeInv'
    <2>1. /\ mem \in Memories /\ mem.id \in used /\ op[o].mode = "compact"
          /\ op[o].snap \ {mem} \in SUBSET op[o].snap
          /\ op[o].pc # "idle" /\ op[o].src = Absent
      BY <1>1 DEF Slots, Proper, Bearing
    <2> DEFINE p == MergeSlot(op[o], new, group, mem.id, op[o].snap \ {mem})
    <2>2. op' = [op EXCEPT ![o] = p]
      BY <1>1, <1>4 DEF TypeInv, Slots, MergeSlot
    <2>3. p \in Slots /\ Proper(p, used')
      BY <1>4, <2>1, MergeSlotIsProper
    <2>4. /\ used \subseteq used' /\ used' \subseteq Ids /\ queued' \subseteq queued
          /\ rec' \in Stored /\ \A i \in Ids : rec'[i] # Absent => i \in used'
          /\ owed' \subseteq Facts /\ curated' \subseteq Facts /\ crashes' \in 0 .. MaxCrashes
      BY <1>1, <1>4 DEF TypeInv
    <2> HIDE DEF p
    <2> QED BY <2>2, <2>3, <2>4, SlotKeepsTypes
  <1> QED BY <1>2, <1>3, <1>4 DEF MergeListed

LEMMA DropTypes ==
    ASSUME TypeInv, NEW o \in Ops, DropMerged(o) \/ DropAnchor(o), UNCHANGED <<merging, together>>
    PROVE  TypeInv'
  <1>1. /\ op[o] \in Slots /\ Proper(op[o], used)
        /\ UNCHANGED <<used, queued, crashes, owed, curated>>
        /\ \E ids : rec' = Without(ids)
    BY DEF DropMerged, DropAnchor, TypeInv
  <1>2. rec' \in Stored /\ \A i \in Ids : rec'[i] # Absent => i \in used
    BY <1>1, WithoutIsStored
  <1>3. CASE DropMerged(o)
    <2>1. PICK pc \in {"add", "dropAnchor"} : 
                 /\ op' = [op EXCEPT ![o].pc = pc, ![o].group = {}, ![o].gone = TRUE]
                 /\ op[o].anchor # Absent => pc = "dropAnchor"
      BY <1>3 DEF DropMerged
    <2> DEFINE p == [op[o] EXCEPT !.pc = pc, !.group = {}, !.gone = TRUE]
    <2>2. op' = [op EXCEPT ![o] = p]
      BY <2>1 DEF TypeInv
    <2>3. p \in Slots /\ Proper(p, used)
      BY <1>1, <1>3 DEF DropMerged, Slots, Stages, Proper, Bearing
    <2> QED BY <1>1, <1>2, <2>2, <2>3, SlotKeepsTypes DEF TypeInv
  <1>4. CASE DropAnchor(o)
    BY <1>1, <1>2, <1>4, GoOnTypes DEF DropAnchor, Stages, Bearing
  <1> QED BY <1>3, <1>4

\* The record that Add and Write store.
LEMMA PutIsStored ==
    ASSUME TypeInv, NEW mem \in Memories, mem.id \in used, NEW vec \in Texts \cup {{}},
           mem.text = {} => vec = {},
           rec' = [rec EXCEPT ![mem.id] = [text |-> mem.text, vec |-> vec, pin |-> mem.pin,
                                           ses |-> mem.ses]]
    PROVE  rec' \in Stored /\ \A i \in Ids : rec'[i] # Absent => i \in used
  <1>1. [text |-> mem.text, vec |-> vec, pin |-> mem.pin, ses |-> mem.ses]
          \in Records \cup Fragments
    BY DEF Records, Fragments, Memories, Texts
  <1> QED BY <1>1 DEF TypeInv, Stored

LEMMA AddTypes == ASSUME TypeInv, NEW o \in Ops, Add(o), UNCHANGED <<merging, together>>
                  PROVE  TypeInv'
  <1> DEFINE mem == op[o].mem
             p == [op[o] EXCEPT !.pc = "ack", !.mem = Absent, !.gone = FALSE]
  <1>1. /\ op[o] \in Slots /\ Proper(op[o], used) /\ op[o].pc = "add" /\ mem \in Memories
        /\ op[o].mode # "compact" /\ mem.id \in used /\ UNCHANGED <<used, crashes>>
    BY DEF Add, TypeInv, Slots, Proper, Bearing
  <1>2. /\ owed' \subseteq Facts /\ curated' \subseteq Facts
    BY <1>1 DEF Add, Release, TypeInv
  <1>6. queued' \subseteq queued \cup {m \in Memories : m.id \in used /\ m.text # {}}
    <2>1. CASE UNCHANGED queued
      BY <2>1
    <2>2. CASE mem.id = op[o].src.id /\ queued' = queued \cup {mem}
      <3>1. op[o].src # Absent
        BY <1>1 DEF Proper, Bearing
      <3> QED BY <1>1, <2>2, <3>1, AbsentAssumption DEF Proper
    <2> QED BY <2>1, <2>2 DEF Add
  <1>3. rec' \in Stored /\ \A i \in Ids : rec'[i] # Absent => i \in used
    <2>1. rec' = [rec EXCEPT ![mem.id] = [text |-> mem.text, vec |-> mem.text, pin |-> mem.pin,
                                          ses |-> mem.ses]]
      BY DEF Add
    <2>2. mem.text \in Texts \cup {{}}
      BY <1>1 DEF Memories, Texts
    <2> QED BY <1>1, <2>1, <2>2, PutIsStored
  <1>4. op' = [op EXCEPT ![o] = p]
    BY <1>1 DEF Add, TypeInv
  <1>5. p \in Slots /\ Proper(p, used)
    BY <1>1 DEF Slots, Stages, Proper, Bearing
  <1> QED BY <1>1, <1>2, <1>3, <1>4, <1>5, <1>6, SlotKeepsTypes DEF TypeInv

LEMMA AddMergedTypes ==
    ASSUME TypeInv, NEW o \in Ops, AddMerged(o), UNCHANGED <<merging, together>>
    PROVE  TypeInv'
  <1> DEFINE mem == op[o].mem
             p == [op[o] EXCEPT !.pc = "anchor", !.mem = Absent, !.anchor = Absent, !.gone = FALSE]
  <1>1. /\ op[o] \in Slots /\ Proper(op[o], used) /\ op[o].pc = "add" /\ mem \in Memories
        /\ op[o].mode = "compact" /\ mem.id \in used
        /\ UNCHANGED <<used, queued, crashes, owed, curated>>
    BY DEF AddMerged, TypeInv, Slots, Proper, Bearing
  <1>2. rec' \in Stored /\ \A i \in Ids : rec'[i] # Absent => i \in used
    <2>1. CASE rec' = rec
      BY <2>1 DEF TypeInv
    <2>2. CASE rec' = [rec EXCEPT ![mem.id] = [text |-> mem.text, vec |-> mem.text,
                                               pin |-> mem.pin, ses |-> mem.ses]]
      <3>1. mem.text \in Texts \cup {{}}
        BY <1>1 DEF Memories, Texts
      <3> QED BY <1>1, <2>2, <3>1, PutIsStored
    <2> QED BY <2>1, <2>2 DEF AddMerged
  <1>3. op' = [op EXCEPT ![o] = p]
    BY <1>1 DEF AddMerged, TypeInv
  <1>4. p \in Slots /\ Proper(p, used)
    BY <1>1, AbsentAssumption DEF Slots, Stages, Proper, Bearing
  <1> QED BY <1>1, <1>2, <1>3, <1>4, SlotKeepsTypes DEF TypeInv

LEMMA AckTypes ==
    ASSUME TypeInv, NEW o \in Ops, Ack(o), UNCHANGED <<merging, together>> PROVE TypeInv'
  BY FinishTypes DEF Ack, TypeInv

\* A compaction goes on with its groups.
LEMMA GroupTypes ==
    ASSUME TypeInv, NEW o \in Ops, FindGroup(o) \/ SkipGroup(o) \/ RemoveDuplicates(o),
           UNCHANGED <<merging, together>>
    PROVE  TypeInv'
  <1>1. /\ op[o] \in Slots /\ Proper(op[o], used) /\ op[o].pc \in {"group", "remove"}
        /\ UNCHANGED <<used, queued, crashes, owed, curated>>
    BY DEF FindGroup, SkipGroup, RemoveDuplicates, TypeInv
  <1>2. rec' \in Stored /\ \A i \in Ids : rec'[i] # Absent => i \in used
    BY WithoutIsStored DEF FindGroup, SkipGroup, RemoveDuplicates, TypeInv
  <1>3. PICK pc \in {"group", "remove"}, group \in (SUBSET Visible) \cup {op[o].group},
             todo \in Seq(Texts \X Sessions) :
          op' = [op EXCEPT ![o].pc = pc, ![o].group = group, ![o].todo = todo]
    <2>1. op[o].todo \in Seq(Texts \X Sessions) /\ {} \in SUBSET Visible
      BY <1>1 DEF Slots
    <2>2. op[o].todo # <<>> => Tail(op[o].todo) \in Seq(Texts \X Sessions)
      BY <2>1
    <2>3. CASE FindGroup(o)
      <3>1. PICK doomed \in SUBSET Visible :
              op' = [op EXCEPT ![o].pc = "remove", ![o].group = doomed, ![o].todo = Tail(@)]
        <4> DEFINE docs == SameHash(Head(op[o].todo)[1], Head(op[o].todo)[2])
        <4>1. docs \in SUBSET Visible
          BY DEF SameHash
        <4> HIDE DEF docs
        <4>2. {} \in SUBSET Visible /\ \A doomed \in Doomed(docs) : doomed \in SUBSET Visible
          BY <4>1 DEF Doomed
        <4>3. \E doomed \in IF Cardinality(docs) > 1 THEN Doomed(docs) ELSE {{}} :
                op' = [op EXCEPT ![o].pc = "remove", ![o].group = doomed, ![o].todo = Tail(@)]
          BY <2>3 DEF FindGroup, docs
        <4> QED BY <4>2, <4>3
      <3>2. op' = [op EXCEPT ![o].pc = "remove", ![o].group = doomed, ![o].todo = Tail(op[o].todo)]
        BY <1>1, <3>1 DEF TypeInv, Slots
      <3> QED BY <2>1, <2>2, <2>3, <3>2 DEF FindGroup
    <2>4. CASE op[o].pc = "group" /\ op[o].todo # <<>> /\ op' = [op EXCEPT ![o].todo = Tail(@)]
      <3>1. op' = [op EXCEPT ![o].pc = "group", ![o].group = op[o].group,
                             ![o].todo = Tail(op[o].todo)]
        BY <1>1, <2>4 DEF TypeInv, Slots
      <3> QED BY <1>1, <2>1, <2>2, <2>4, <3>1
    <2>5. CASE op' = [op EXCEPT ![o].pc = "group", ![o].group = {}]
      <3>1. op' = [op EXCEPT ![o].pc = "group", ![o].group = {}, ![o].todo = op[o].todo]
        BY <1>1, <2>5 DEF TypeInv, Slots
      <3> QED BY <2>1, <3>1
    <2> QED BY <2>3, <2>4, <2>5 DEF SkipGroup, RemoveDuplicates
  <1> DEFINE p == [op[o] EXCEPT !.pc = pc, !.group = group, !.todo = todo]
  <1>4. op' = [op EXCEPT ![o] = p]
    BY <1>1, <1>3 DEF TypeInv, Slots
  <1>5. group \subseteq used /\ group \subseteq Ids
    <2>1. Visible \subseteq used /\ used \subseteq Ids
      BY VisibleIsWhole DEF TypeInv
    <2> QED BY <1>1, <2>1 DEF Proper
  <1>6. p \in Slots /\ Proper(p, used)
    BY <1>1, <1>5, AbsentAssumption DEF Slots, Stages, Proper, Bearing
  <1> QED BY <1>1, <1>2, <1>4, <1>6, SlotKeepsTypes DEF TypeInv

LEMMA ListAllTypes ==
    ASSUME TypeInv, NEW o \in Ops, ListAll(o), UNCHANGED <<merging, together>> PROVE TypeInv'
  <1>1. /\ op[o] \in Slots /\ Proper(op[o], used) /\ op[o].pc = "group"
        /\ UNCHANGED <<rec, used, queued, crashes, owed, curated>>
    BY DEF ListAll, TypeInv
  <1>2. CASE Finish(o)
    BY <1>1, <1>2, FinishTypes DEF TypeInv
  <1>3. CASE op' = [op EXCEPT ![o].pc = "anchor", ![o].snap = {Snapshot(i) : i \in Visible}]
    <2> DEFINE snap == {Snapshot(i) : i \in Visible}
               p == [op[o] EXCEPT !.pc = "anchor", !.snap = snap]
    <2>1. op' = [op EXCEPT ![o] = p]
      BY <1>1, <1>3 DEF TypeInv, Slots
    <2>2. snap \in SUBSET Memories /\ \A m \in snap : m.id \in used
      BY VisibleIsWhole
    <2> HIDE DEF snap
    <2>3. p \in Slots /\ Proper(p, used)
      BY <1>1, <2>2 DEF Slots, Stages, Proper, Bearing
    <2> QED BY <1>1, <2>1, <2>3, SlotKeepsTypes DEF TypeInv
  <1> QED BY <1>2, <1>3 DEF ListAll

LEMMA WriteTypes ==
    ASSUME TypeInv, NEW o \in Ops, Write(o), UNCHANGED <<merging, together>> PROVE TypeInv'
  <1> DEFINE mem == op[o].mem
             vec == Embed(op[o].mode, mem.text, rec[mem.id])
  <1>1. /\ op[o] \in Slots /\ Proper(op[o], used) /\ op[o].pc = "write" /\ mem \in Memories
        /\ mem.id \in used /\ mem.id \in Ids /\ UNCHANGED <<used, queued, crashes>>
        /\ mem.text \subseteq Facts /\ mem.text # {}
    BY DEF Write, TypeInv, Slots, Proper, Bearing, Memories
  <1>2. vec \in Texts \cup {{}}
    BY <1>1 DEF Embed, TypeInv, Stored, Records, Fragments, Texts
  <1>3. rec' = [rec EXCEPT ![mem.id] = [text |-> mem.text, vec |-> vec, pin |-> mem.pin,
                                        ses |-> mem.ses]]
    BY DEF Write
  <1> HIDE DEF vec
  <1>4. rec' \in Stored /\ \A i \in Ids : rec'[i] # Absent => i \in used
    BY <1>1, <1>2, <1>3, PutIsStored
  <1>5. owed' \subseteq Facts /\ curated' \subseteq Facts
    BY <1>1 DEF Write, TypeInv
  <1> QED BY <1>1, <1>4, <1>5, FinishTypes DEF Write

\* An operation is given up, or has done its deletion.
LEMMA EndTypes ==
    ASSUME TypeInv, NEW o \in Ops, DeleteForgotten(o) \/ Fail(o), UNCHANGED <<merging, together>>
    PROVE  TypeInv'
  <1>1. /\ Finish(o) /\ UNCHANGED <<used, queued, crashes>>
        /\ owed' \subseteq Facts /\ curated' \subseteq Facts
    BY DEF DeleteForgotten, Fail, Release, TypeInv
  <1>2. rec' \in Stored /\ \A i \in Ids : rec'[i] # Absent => i \in used
    BY WithoutIsStored DEF DeleteForgotten, Fail, TypeInv
  <1> QED BY <1>1, <1>2, FinishTypes

\* The slot of an indexing task that is delivered again.
Again(p, mode) == [Idle EXCEPT !.pc = IF mode = "none" THEN "add" ELSE "byId",
                               !.mode = mode, !.mem = p.src, !.src = p.src]

LEMMA AgainIsProper ==
    ASSUME TypeInv, NEW o \in Ops, op[o].src # Absent, NEW mode \in Modes \ {"compact"}
    PROVE  Again(op[o], mode) \in Slots /\ Proper(Again(op[o], mode), used)
  <1>1. op[o].src \in Memories /\ op[o].src.id \in used /\ op[o].src.text # {}
    BY DEF TypeInv, Slots, Proper
  <1> QED BY <1>1, IdleIsProper DEF Again, Idle, Slots, Proper, Stages, Bearing

LEMMA CrashTypes ==
    ASSUME TypeInv, NEW o \in Ops, Crash(o), UNCHANGED <<merging, together>> PROVE TypeInv'
  <1> DEFINE mode == IF op[o].mode = "pinning" THEN "full" ELSE op[o].mode
  <1>1. PICK p \in Slots : op' = [op EXCEPT ![o] = p] /\ Proper(p, used)
    <2>1. CASE op[o].src = Absent
      BY <2>1, IdleIsProper DEF Crash, Set
    <2>2. CASE op[o].src # Absent
      <3>1. mode \in Modes \ {"compact"}
        BY <2>2 DEF TypeInv, Slots, Modes, Proper
      <3>2. op' = [op EXCEPT ![o] = Again(op[o], mode)]
        BY <2>2 DEF Crash, Set, Again
      <3> HIDE DEF mode
      <3> QED BY <2>2, <3>1, <3>2, AgainIsProper
    <2> QED BY <2>1, <2>2
  <1>2. /\ UNCHANGED <<rec, used, queued, owed, curated>>
        /\ crashes' \in 0 .. MaxCrashes
    BY KindsAssumption DEF KindsAssumption, Crash, TypeInv
  <1> QED BY <1>1, <1>2, SlotKeepsTypes DEF TypeInv

LEMMA TypeStep == TypeInv /\ [Next]_vars => TypeInv'
  <1>1. ASSUME TypeInv, UNCHANGED vars PROVE TypeInv'
    BY <1>1 DEF vars, TypeInv
  <1>2. ASSUME TypeInv, NEW o \in Ops, Start(o) \/ Step(o) \/ Fail(o) \/ Crash(o),
               UNCHANGED <<merging, together>>
        PROVE  TypeInv'
    BY <1>2, StartTypes, FindSameIdTypes, ReplaceTypes, FindSameHashTypes, TouchTypes,
       SearchSimilarTypes, MergeListedTypes, DropTypes, AddTypes, AddMergedTypes, AckTypes,
       GroupTypes, ListAllTypes,
       WriteTypes, EndTypes, CrashTypes DEF Step
  <1> QED BY <1>1, <1>2 DEF Next

\* The type invariant of the store and of the operations on it.
THEOREM StoreTypeCorrect == Spec => []TypeOK
  BY TypeInitHolds, TypeStep, TypeInvMeansTypeOK, PTL DEF Spec

-----------------------------------------------------------------------------
(***************************************************************************)
(* Nothing is lost, and vectors are those of the texts.                    *)
(***************************************************************************)

\* What may overlap: creations under ids of their own, reads, the deletion of fragments and
\* one compaction at a time; and what is deleted to be stored anew is stored.
Orderly == /\ \A K \in Overlaps : K \subseteq {"create", "access", "compact", "deleteInvalid"}
           /\ OneCompaction /\ DeletesFinish

OneByOne == alone => \A o, q \in Ops : op[o] # Idle /\ op[q] # Idle => o = q

\* One sweep for equal texts at a time.
Sweeping(p) == p.pc \in {"group", "remove"}
OneSweep == \A o, q \in Ops : Sweeping(op[o]) /\ Sweeping(op[q]) => o = q

\* What holds of a slot at its stage.
Staged(p) ==
    /\ p.mem # Absent => p.mem.text # {}
    /\ p.pc \notin Bearing => p.mem = Absent
    /\ p.pc \in {"replace", "write", "forget"} => alone
    /\ p.pc \in {"drop", "dropAnchor"} /\ p.src # Absent => p.mem.id # p.src.id
    /\ p.pc \in {"byId", "replace", "byHash", "search"} => p.anchor = Absent /\ p.mode # "compact"
    /\ Sweeping(p) => p.mode = "compact"
    /\ p.pc = "dropAnchor" => p.gone

AllStaged == \A o \in Ops : Staged(op[o])

LEMMA OwnSlot ==
    ASSUME TypeInv, NEW o \in Ops, Start(o) \/ Step(o) \/ Fail(o) \/ Crash(o)
    PROVE  \A q \in Ops \ {o} : op'[q] = op[q]
  <1>1. CASE Start(o)
    BY <1>1 DEF Start, Create, Compact, Patch, Marks, MarkQueued, MarkListed, Access, Forget,
       Delete, DeleteInvalid,
       Set, TypeInv
  <1>2. CASE Fail(o) \/ Crash(o)
    BY <1>2 DEF Fail, Crash, Set, Finish, TypeInv
  <1>3. CASE FindSameId(o) \/ Replace(o) \/ FindSameHash(o) \/ TouchDuplicate(o) \/ SearchSimilar(o)
             \/ DropMerged(o) \/ Add(o) \/ Ack(o) \/ AddMerged(o)
    BY <1>3 DEF FindSameId, Replace, FindSameHash, TouchDuplicate, SearchSimilar, DropMerged, Add,
       Ack, AddMerged, Finish, Goto, TypeInv
  <1>4. CASE FindGroup(o) \/ RemoveDuplicates(o) \/ SkipGroup(o) \/ ListAll(o) \/ MergeListed(o)
             \/ DropAnchor(o) \/ Write(o) \/ TouchAccessed(o) \/ DeleteForgotten(o)
    BY <1>4 DEF FindGroup, RemoveDuplicates, SkipGroup, ListAll, MergeListed, DropAnchor, Write,
       TouchAccessed, DeleteForgotten, Finish, Goto, TypeInv
  <1> QED BY <1>1, <1>2, <1>3, <1>4 DEF Step

\* Only an operation that is under way takes a step.
LEMMA BusySteps ==
    ASSUME NEW o \in Ops, Step(o) \/ Fail(o) \/ Crash(o) PROVE op[o] # Idle
  <1>1. Idle.pc = "idle"
    BY DEF Idle
  <1>2. Step(o) => op[o].pc # "idle"
    BY DEF Step, FindSameId, Replace, FindSameHash, TouchDuplicate, SearchSimilar, DropMerged, Add,
       Ack, AddMerged, FindGroup, RemoveDuplicates, SkipGroup, ListAll, MergeListed, DropAnchor,
       Write,
       TouchAccessed, DeleteForgotten
  <1>3. Fail(o) \/ Crash(o) => op[o] # Idle
    BY DEF Fail, Crash
  <1> QED BY <1>1, <1>2, <1>3

\* An operation begins where nothing is under way, or beside others of its kinds.
LEMMA FreeStarts ==
    ASSUME NEW o \in Ops, Start(o)
    PROVE  op[o] = Idle /\ (alone => \A q \in Ops : op[q] = Idle)
  BY DEF Start, Create, Compact, Patch, Marks, MarkQueued, MarkListed, Access, Forget, Delete,
     DeleteInvalid, Free

\* With one operation at a time, the others are idle before and after a step.
LEMMA OthersIdle ==
    ASSUME TypeInv, OneByOne, alone, NEW o \in Ops, Start(o) \/ Step(o) \/ Fail(o) \/ Crash(o)
    PROVE  \A q \in Ops \ {o} : op[q] = Idle /\ op'[q] = Idle
  BY OwnSlot, BusySteps, FreeStarts DEF OneByOne

LEMMA OneByOneStep ==
    ASSUME TypeInv, OneByOne, UNCHANGED alone,
           NEW o \in Ops, Start(o) \/ Step(o) \/ Fail(o) \/ Crash(o)
    PROVE  OneByOne'
  <1>1. alone => \A q \in Ops \ {o} : op'[q] = Idle
    BY OthersIdle
  <1> QED BY <1>1 DEF OneByOne, Idle

\* The ids an operation will store under, or may, and the ids it has found.
Bears(o, i) == \/ op[o].mem # Absent /\ op[o].mem.id = i
               \/ op[o].src # Absent /\ op[o].pc # "ack" /\ op[o].src.id = i
Names(o, i) == i \in op[o].group \/ i = op[o].anchor \/ \E m \in op[o].snap : m.id = i

\* Operations that overlap store under ids of their own, which nothing else has found.
Apart ==
    ~alone => \A o \in Ops, i \in Ids :
                Bears(o, i) => /\ i \notin Visible
                               /\ \A q \in Ops : ~Names(q, i) /\ (Bears(q, i) => q = o)

\* A record on its way, past the check for its id, replaces nothing, unless it is posted
\* from another session.
Storing(p) == \/ p.pc \in {"byHash", "search", "drop", "dropAnchor"}
              \/ p.pc = "add" /\ p.mode # "none"
Fresh ==
    \A o \in Ops :
        /\ Storing(op[o]) /\ (op[o].mode = "compact" \/ "stray" \notin Kinds) =>
             op[o].mem.id \notin Visible
        /\ Storing(op[o]) /\ op[o].mode = "compact" =>
             \A m \in op[o].snap : m.id # op[o].mem.id
        /\ op[o].pc = "byId" /\ "stray" \notin Kinds /\ op[o].mem.id \in Visible =>
             Found(op[o].mem)

-----------------------------------------------------------------------------
\* The slot an operation leaves, for the steps that only go on.
LEMMA SlotGoesOn ==
    ASSUME TypeInv, NEW o \in Ops, NEW pc, Goto(o, pc)
    PROVE  /\ op'[o].pc = pc /\ op'[o].mode = op[o].mode /\ op'[o].mem = op[o].mem
           /\ op'[o].src = op[o].src /\ op'[o].group = op[o].group
           /\ op'[o].anchor = op[o].anchor /\ op'[o].snap = op[o].snap
           /\ op'[o].gone = op[o].gone
  BY DEF Goto, TypeInv, Slots

LEMMA IdleIsEmpty ==
    /\ Idle.pc = "idle" /\ Idle.mode = "none" /\ Idle.mem = Absent /\ Idle.src = Absent
    /\ Idle.group = {} /\ Idle.anchor = Absent /\ Idle.snap = {} /\ Staged(Idle)
  BY DEF Idle, Staged, Sweeping, Bearing

LEMMA SlotFinishes ==
    ASSUME TypeInv, NEW o \in Ops, Finish(o) PROVE op'[o] = Idle
  BY DEF Finish, TypeInv

\* The slots that operations begin with.
LEMMA SlotBegins ==
    ASSUME TypeInv, NEW o \in Ops, Start(o)
    PROVE  \/ op'[o] = op[o] /\ (Delete(o) \/ DeleteInvalid(o))
           \/ /\ op'[o].anchor = Absent /\ op'[o].snap = {} /\ rec' = rec
              /\ \/ /\ Create(o) /\ op'[o].group = {} /\ op'[o].pc \in {"add", "byId"}
                    /\ op'[o].mem = op'[o].src /\ op'[o].mode \in {"full", "summary", "none"}
                    /\ op'[o].mem # Absent /\ op'[o].mem.text # {}
                    /\ op'[o].pc = "add" <=> op'[o].mode = "none"
                 \/ /\ Compact(o) /\ op'[o].group = {} /\ op'[o].pc = "group"
                    /\ op'[o].mem = Absent /\ op'[o].src = Absent /\ op'[o].mode = "compact"
                 \/ /\ Patch(o) \/ Marks(o)
                    /\ op'[o].group = {} /\ op'[o].pc = "write" /\ op'[o].src = Absent
                    /\ op'[o].mem # Absent /\ op'[o].mem.text # {}
                    /\ \/ op'[o].mode = "mark" /\ op'[o].mem \in queued /\ Marks(o)
                       \/ /\ op'[o].mem.id \in Visible
                          /\ op'[o].mode # "text" => op'[o].mem.text = rec[op'[o].mem.id].text
                          /\ op'[o].mode = "mark" =>
                               op'[o].mem.pin = rec[op'[o].mem.id].pin /\ Marks(o)
                 \/ /\ Access(o) /\ op'[o].pc = "access" /\ op'[o].group \subseteq Visible
                    /\ op'[o].mem = Absent /\ op'[o].src = Absent
                 \/ /\ Forget(o) /\ op'[o].pc = "forget" /\ op'[o].group \subseteq Unpinned
                    /\ op'[o].mem = Absent /\ op'[o].src = Absent
  <1>1. CASE Create(o)
    <2>1. PICK mode \in {"full", "summary", "none"}, mem \in Submissions :
            op' = [op EXCEPT ![o] = [Idle EXCEPT !.pc = IF mode = "none" THEN "add" ELSE "byId",
                                                 !.mode = mode, !.mem = mem, !.src = mem]]
      BY <1>1 DEF Create, Set
    <2>4. mem # Absent /\ mem.text # {}
      BY AbsentAssumption DEF Submissions, SaidTexts
    <2>2. op'[o] = [Idle EXCEPT !.pc = IF mode = "none" THEN "add" ELSE "byId",
                                !.mode = mode, !.mem = mem, !.src = mem]
      BY <2>1 DEF TypeInv
    <2>3. /\ op'[o].anchor = Absent /\ op'[o].snap = {} /\ op'[o].group = {}
          /\ op'[o].pc \in {"add", "byId"} /\ op'[o].mem = op'[o].src
          /\ op'[o].mem # Absent /\ op'[o].mem.text # {}
          /\ op'[o].mode \in {"full", "summary", "none"}
          /\ op'[o].pc = "add" <=> op'[o].mode = "none"
      BY <2>2, <2>4 DEF Idle
    <2> QED BY <1>1, <2>3 DEF Create
  <1>2. CASE Compact(o)
    <2>1. PICK todo : op' = [op EXCEPT ![o] = [Idle EXCEPT !.pc = "group", !.mode = "compact",
                                                           !.todo = todo]]
      BY <1>2 DEF Compact, Set
    <2>2. op'[o] = [Idle EXCEPT !.pc = "group", !.mode = "compact", !.todo = todo]
      BY <2>1 DEF TypeInv
    <2>3. /\ op'[o].anchor = Absent /\ op'[o].snap = {} /\ op'[o].group = {}
          /\ op'[o].pc = "group" /\ op'[o].mem = Absent /\ op'[o].src = Absent
          /\ op'[o].mode = "compact"
      BY <2>2 DEF Idle
    <2> QED BY <1>2, <2>3 DEF Compact
  <1>3. ASSUME Patch(o) \/ Marks(o), NEW i \in Visible, NEW mem, NEW mode,
               op' = [op EXCEPT ![o] = [Idle EXCEPT !.pc = "write", !.mode = mode, !.mem = mem]],
               mem # Absent, mem.text # {}, mem.id = i, mode # "text" => mem.text = rec[i].text,
               mode = "mark" => mem.pin = rec[i].pin /\ Marks(o)
        PROVE  /\ op'[o].anchor = Absent /\ op'[o].snap = {} /\ rec' = rec
               /\ op'[o].group = {} /\ op'[o].pc = "write" /\ op'[o].src = Absent
               /\ op'[o].mem.id \in Visible /\ op'[o].mem # Absent /\ op'[o].mem.text # {}
               /\ op'[o].mode # "text" => op'[o].mem.text = rec[op'[o].mem.id].text
               /\ op'[o].mode = "mark" => op'[o].mem.pin = rec[op'[o].mem.id].pin /\ Marks(o)
    <2>1. op'[o] = [Idle EXCEPT !.pc = "write", !.mode = mode, !.mem = mem]
      BY <1>3 DEF TypeInv
    <2>2. /\ op'[o].anchor = Absent /\ op'[o].snap = {} /\ op'[o].group = {}
          /\ op'[o].pc = "write" /\ op'[o].mode = mode /\ op'[o].mem = mem /\ op'[o].src = Absent
      BY <2>1 DEF Idle
    <2>3. rec' = rec
      BY <1>3 DEF Patch, Marks, MarkQueued, MarkListed
    <2> QED BY <1>3, <2>2, <2>3
  <1>4. CASE Patch(o)
    <2>1. PICK i \in Visible, edit \in Edits :
            op' = [op EXCEPT ![o] =
              [Idle EXCEPT !.pc = "write",
                           !.mode = IF edit.text = rec[i].text THEN "pin" ELSE "text",
                           !.mem = [Snapshot(i) EXCEPT !.text = edit.text, !.pin = edit.pin]]]
      BY <1>4 DEF Patch, Set
    <2> DEFINE mem == [Snapshot(i) EXCEPT !.text = edit.text, !.pin = edit.pin]
               mode == IF edit.text = rec[i].text THEN "pin" ELSE "text"
    <2>2. /\ mem.id = i /\ (mode # "text" => mem.text = rec[i].text) /\ mode # "mark"
          /\ mem # Absent /\ mem.text # {}
      <3>1. Snapshot(i) \in Memories
        BY VisibleIsWhole
      <3>2. edit.text # {} /\ edit.text \subseteq Facts /\ edit.pin \in BOOLEAN
        BY DEF Edits, SaidTexts
      <3>3. mem \in Memories /\ mem.text = edit.text
        BY <3>1, <3>2 DEF Memories
      <3> QED BY <3>2, <3>3, AbsentAssumption DEF Snapshot
    <2>3. op' = [op EXCEPT ![o] = [Idle EXCEPT !.pc = "write", !.mode = mode, !.mem = mem]]
      BY <2>1
    <2>4. mode = "mark" => mem.pin = rec[i].pin /\ Marks(o)
      BY <2>2
    <2>5. mem.id = i /\ (mode # "text" => mem.text = rec[i].text) /\ mem # Absent /\ mem.text # {}
      BY <2>2
    <2> HIDE DEF mem, mode
    <2>6. /\ op'[o].anchor = Absent /\ op'[o].snap = {} /\ rec' = rec
          /\ op'[o].group = {} /\ op'[o].pc = "write" /\ op'[o].src = Absent
          /\ op'[o].mem.id \in Visible /\ op'[o].mem # Absent /\ op'[o].mem.text # {}
          /\ op'[o].mode # "text" => op'[o].mem.text = rec[op'[o].mem.id].text
          /\ op'[o].mode = "mark" => op'[o].mem.pin = rec[op'[o].mem.id].pin /\ Marks(o)
      BY <1>3, <1>4, <2>3, <2>4, <2>5
    <2> QED BY <1>4, <2>6
  <1>5. CASE MarkListed(o)
    <2>1. PICK i \in Visible :
            op' = [op EXCEPT ![o] = [Idle EXCEPT !.pc = "write", !.mode = "mark",
                                                 !.mem = Snapshot(i)]]
      BY <1>5 DEF MarkListed, Set
    <2>2. /\ Snapshot(i).id = i /\ Snapshot(i).text = rec[i].text
          /\ Snapshot(i).pin = rec[i].pin
      BY DEF Snapshot
    <2>3. Snapshot(i) # Absent /\ Snapshot(i).text # {} /\ Marks(o)
      BY <1>5, VisibleIsWhole, AbsentAssumption DEF Marks
    <2> QED BY <1>3, <1>5, <2>1, <2>2, <2>3 DEF Marks
  <1>8. CASE MarkQueued(o)
    <2>1. PICK mem \in queued :
            op' = [op EXCEPT ![o] = [Idle EXCEPT !.pc = "write", !.mode = "mark", !.mem = mem]]
      BY <1>8 DEF MarkQueued, Set
    <2>2. op'[o] = [Idle EXCEPT !.pc = "write", !.mode = "mark", !.mem = mem]
      BY <2>1 DEF TypeInv
    <2>3. /\ op'[o].anchor = Absent /\ op'[o].snap = {} /\ op'[o].group = {}
          /\ op'[o].pc = "write" /\ op'[o].mode = "mark" /\ op'[o].mem = mem /\ op'[o].src = Absent
      BY <2>2 DEF Idle
    <2>4. mem # Absent /\ mem.text # {} /\ rec' = rec /\ Marks(o)
      BY <1>8, AbsentAssumption DEF MarkQueued, Marks, TypeInv
    <2> QED BY <2>1, <2>3, <2>4
  <1>6. CASE Access(o) \/ Forget(o)
    <2>1. PICK pc \in {"access", "forget"}, group \in SUBSET Visible :
            /\ op' = [op EXCEPT ![o] = [Idle EXCEPT !.pc = pc, !.group = group]]
            /\ pc = "access" => Access(o)
            /\ pc = "forget" => Forget(o) /\ group \subseteq Unpinned
      <3>1. CASE Access(o)
        <4>1. PICK i \in Visible :
                op' = [op EXCEPT ![o] = [Idle EXCEPT !.pc = "access", !.group = {i}]]
          BY <3>1 DEF Access, Set
        <4>2. {i} \in SUBSET Visible
          OBVIOUS
        <4> QED BY <3>1, <4>1, <4>2
      <3>2. CASE Forget(o)
        <4>1. PICK old \in (SUBSET Unpinned) \ {{}} :
                op' = [op EXCEPT ![o] = [Idle EXCEPT !.pc = "forget", !.group = old]]
          BY <3>2 DEF Forget, Set
        <4>2. old \in SUBSET Visible
          BY DEF Unpinned
        <4> QED BY <3>2, <4>1, <4>2
      <3> QED BY <1>6, <3>1, <3>2
    <2>2. op'[o] = [Idle EXCEPT !.pc = pc, !.group = group]
      BY <2>1 DEF TypeInv
    <2>3. /\ op'[o].anchor = Absent /\ op'[o].snap = {} /\ op'[o].group = group
          /\ op'[o].pc = pc /\ op'[o].mem = Absent /\ op'[o].src = Absent
      BY <2>2 DEF Idle
    <2>4. rec' = rec
      BY <1>6 DEF Access, Forget
    <2> QED BY <2>1, <2>3, <2>4
  <1>7. CASE Delete(o) \/ DeleteInvalid(o)
    BY <1>7 DEF Delete, DeleteInvalid
  <1> QED BY <1>1, <1>2, <1>4, <1>5, <1>6, <1>7, <1>8 DEF Start

\* What a step leaves of the slot besides the stage, when it keeps the rest.
Kept(o) == /\ op'[o].mode = op[o].mode /\ op'[o].src = op[o].src
           /\ op'[o].anchor = op[o].anchor /\ op'[o].snap = op[o].snap

LEMMA SlotFindsId ==
    ASSUME TypeInv, NEW o \in Ops, FindSameId(o)
    PROVE  /\ Kept(o) /\ op'[o].group = op[o].group /\ rec' = rec
           /\ op'[o].mem.id = op[o].mem.id /\ op'[o].mem.text = op[o].mem.text
           /\ op[o].pc = "byId" /\ op'[o].mem \in Memories
           /\ Found(op[o].mem) => op'[o].mem.pin = (op[o].mem.pin \/ rec[op[o].mem.id].pin)
           /\ ~Found(op[o].mem) => op'[o].mem = op[o].mem
           /\ op'[o].pc = IF Found(op[o].mem) THEN "replace" ELSE AfterId(o)
  <1> DEFINE i == op[o].mem.id
  <1>1. op[o].pc = "byId" /\ op[o] \in Slots /\ op[o].mem \in Memories /\ rec' = rec
    BY DEF FindSameId, TypeInv, Proper, Bearing, Slots
  <1>2. CASE Found(op[o].mem)
    <2>1. op' = [op EXCEPT ![o] = [op[o] EXCEPT !.pc = "replace",
                   !.mem = [op[o].mem EXCEPT !.pin = op[o].mem.pin \/ rec[i].pin]]]
      BY <1>1, <1>2 DEF FindSameId, TypeInv, Slots
    <2>2. op'[o] = [op[o] EXCEPT !.pc = "replace",
                   !.mem = [op[o].mem EXCEPT !.pin = op[o].mem.pin \/ rec[i].pin]]
      BY <2>1 DEF TypeInv
    <2>3. (op[o].mem.pin \/ rec[i].pin) \in BOOLEAN
      BY <1>1, <1>2, VisibleIsWhole DEF Found, Memories, Records
    <2>4. [op[o].mem EXCEPT !.pin = op[o].mem.pin \/ rec[i].pin] \in Memories
      BY <1>1, <2>3 DEF Memories
    <2> QED BY <1>1, <1>2, <2>2, <2>4 DEF Kept, Slots, Memories
  <1>3. CASE ~Found(op[o].mem)
    BY <1>1, <1>3, SlotGoesOn DEF FindSameId, Kept
  <1> QED BY <1>2, <1>3

LEMMA SlotFindsHash ==
    ASSUME TypeInv, NEW o \in Ops, FindSameHash(o)
    PROVE  /\ op[o].pc = "byHash" /\ rec' = rec /\ op'[o].mem = op[o].mem
           /\ op'[o].src = op[o].src /\ op'[o].anchor = op[o].anchor /\ op'[o].snap = op[o].snap
           /\ \/ op'[o].pc \in {"search", "add"} /\ Kept(o) /\ op'[o].group = op[o].group
              \/ \E i \in SameHash(op[o].mem.text, op[o].mem.ses) :
                   /\ op'[o].pc = "touch" /\ op'[o].group = {i}
                   /\ op[o].mem.pin => rec[i].pin \/ op'[o].mode = "pinning"
  <1>1. op[o].pc = "byHash" /\ op[o] \in Slots /\ rec' = rec
    BY DEF FindSameHash, TypeInv
  <1>2. CASE SameHash(op[o].mem.text, op[o].mem.ses) = {}
    <2>1. PICK pc \in {"search", "add"} : Goto(o, pc)
      BY <1>2 DEF FindSameHash
    <2> QED BY <1>1, <2>1, SlotGoesOn DEF Kept
  <1>3. CASE SameHash(op[o].mem.text, op[o].mem.ses) # {}
    <2>1. PICK i \in SameHash(op[o].mem.text, op[o].mem.ses), mode \in {"pinning", "full"} :
            /\ op' = [op EXCEPT ![o].pc = "touch", ![o].group = {i}, ![o].mode = mode]
            /\ op[o].mem.pin => rec[i].pin \/ mode = "pinning"
      BY <1>3 DEF FindSameHash
    <2>2. op'[o] = [op[o] EXCEPT !.pc = "touch", !.group = {i}, !.mode = mode]
      BY <2>1 DEF TypeInv
    <2>3. /\ op'[o].pc = "touch" /\ op'[o].group = {i} /\ op'[o].mem = op[o].mem
          /\ op'[o].src = op[o].src /\ op'[o].anchor = op[o].anchor /\ op'[o].snap = op[o].snap
          /\ op'[o].mode = mode
      BY <1>1, <2>2 DEF Slots
    <2> QED BY <1>1, <2>1, <2>3
  <1> QED BY <1>2, <1>3

\* What a merged record is when the LLM answered.
LEMMA MergedIsWhole ==
    ASSUME TypeInv, DeletesFinish, NEW mem \in Memories, NEW group \in Neighbours(mem),
           NEW id \in Ids, NEW new \in Merged(mem, group, id)
    PROVE  /\ new # Absent /\ new.id = id /\ new.text # {} /\ mem.text \subseteq new.text
           /\ \A i \in group : rec[i].text \subseteq new.text
           /\ \A f \in new.text : f \in mem.text \/ \E i \in group : f \in rec[i].text
           /\ group \subseteq Unpinned /\ group \subseteq Visible /\ (mem.pin => new.pin)
  <1>1. /\ new \in Memories /\ new.id = id /\ mem.text \subseteq new.text
        /\ group \subseteq Unpinned /\ (mem.pin => new.pin)
        /\ \A i \in group : rec[i].text \subseteq new.text
        /\ \A f \in new.text : f \in mem.text \/ \E i \in group : f \in rec[i].text
    BY MergedIsMemory
  <1>2. Unpinned \subseteq Visible /\ group # {}
    BY DEF Unpinned, Neighbours
  <1>3. new.text # {}
    <2>1. PICK i \in group : TRUE
      BY <1>2
    <2> QED BY <1>1, <1>2, <2>1, VisibleIsWhole DEF Texts
  <1> QED BY <1>1, <1>2, <1>3, AbsentAssumption

LEMMA SlotMerges ==
    ASSUME TypeInv, DeletesFinish, NEW o \in Ops, SearchSimilar(o) \/ MergeListed(o)
    PROVE  /\ rec' = rec /\ op'[o].src = op[o].src /\ used \subseteq used'
           /\ \/ SearchSimilar(o) /\ op'[o].pc = "add" /\ op'[o].mem = op[o].mem /\ Kept(o)
                 /\ op'[o].group = op[o].group
              \/ MergeListed(o) /\ op'[o] = Idle
              \/ MergeListed(o) /\ op'[o].pc = "anchor" /\ op'[o].snap \subseteq op[o].snap
                 /\ op'[o].mem = op[o].mem /\ op'[o].anchor = op[o].anchor
                 /\ op'[o].group = op[o].group /\ op'[o].mode = op[o].mode
              \/ /\ op'[o].pc = "drop" /\ op'[o].mode = op[o].mode
                 /\ op'[o].group \subseteq Visible /\ op'[o].snap \subseteq op[o].snap
                 /\ op'[o].mem # Absent /\ op'[o].mem.id \in Ids \ used /\ op'[o].mem.text # {}
                 /\ \A i \in op'[o].group : rec[i].text \subseteq op'[o].mem.text
                 /\ op'[o].group \subseteq Unpinned
                 /\ \/ SearchSimilar(o) /\ op'[o].anchor = op[o].anchor
                       /\ op[o].mem.text \subseteq op'[o].mem.text
                       /\ (op[o].mem.pin => op'[o].mem.pin)
                       /\ \A f \in op'[o].mem.text :
                            f \in op[o].mem.text \/ \E i \in op'[o].group : f \in rec[i].text
                    \/ MergeListed(o) /\ \E m \in op[o].snap :
                         /\ op'[o].anchor = m.id /\ ~m.pin /\ m.text \subseteq op'[o].mem.text
                         /\ \A f \in op'[o].mem.text :
                              f \in m.text \/ \E i \in op'[o].group : f \in rec[i].text
  <1>1. op[o] \in Slots /\ rec' = rec /\ Proper(op[o], used)
    BY DEF SearchSimilar, MergeListed, TypeInv
  <1>3. CASE SearchSimilar(o)
    <2>1. op[o].mem \in Memories /\ op[o].pc = "search"
      BY <1>1, <1>3 DEF SearchSimilar, Proper, Bearing, Slots
    <2>2. CASE Goto(o, "add") /\ UNCHANGED used
      BY <1>1, <1>3, <2>2, SlotGoesOn DEF Kept
    <2>3. ASSUME NEW group \in Neighbours(op[o].mem), NEW id \in Ids \ used,
                 NEW new \in Merged(op[o].mem, group, id),
                 op' = [op EXCEPT ![o].pc = "drop", ![o].group = group, ![o].mem = new],
                 used' = used \cup {id}
          PROVE  /\ op'[o].pc = "drop" /\ op'[o].mode = op[o].mode /\ op'[o].src = op[o].src
                 /\ op'[o].group \subseteq Visible /\ op'[o].snap \subseteq op[o].snap
                 /\ op'[o].mem # Absent /\ op'[o].mem.id \in Ids \ used /\ op'[o].mem.text # {}
                 /\ \A i \in op'[o].group : rec[i].text \subseteq op'[o].mem.text
                 /\ op'[o].group \subseteq Unpinned /\ op'[o].anchor = op[o].anchor
                 /\ op[o].mem.text \subseteq op'[o].mem.text
                 /\ (op[o].mem.pin => op'[o].mem.pin) /\ used \subseteq used'
                 /\ \A f \in op'[o].mem.text :
                      f \in op[o].mem.text \/ \E i \in op'[o].group : f \in rec[i].text
      <3>1. op'[o] = MergeSlot(op[o], new, group, op[o].anchor, op[o].snap)
        BY <1>1, <2>3 DEF TypeInv, Slots, MergeSlot
      <3>2. /\ op'[o].pc = "drop" /\ op'[o].mode = op[o].mode /\ op'[o].src = op[o].src
            /\ op'[o].group = group /\ op'[o].snap = op[o].snap
            /\ op'[o].anchor = op[o].anchor /\ op'[o].mem = new
        BY <3>1, <1>1 DEF MergeSlot, Slots
      <3>4. /\ new # Absent /\ new.id = id /\ new.text # {} /\ op[o].mem.text \subseteq new.text
            /\ \A i \in group : rec[i].text \subseteq new.text
            /\ \A f \in new.text : f \in op[o].mem.text \/ \E i \in group : f \in rec[i].text
            /\ group \subseteq Unpinned /\ group \subseteq Visible /\ (op[o].mem.pin => new.pin)
        BY <2>1, <2>3, MergedIsWhole
      <3> QED BY <2>3, <3>2, <3>4
    <2> QED BY <1>1, <1>3, <2>2, <2>3 DEF SearchSimilar
  <1>4. CASE MergeListed(o)
    <2>1. CASE Finish(o) /\ UNCHANGED used /\ op[o].pc = "anchor"
      <3>1. op'[o] = Idle /\ op[o].src = Absent
        BY <1>1, <2>1, SlotFinishes DEF Proper, Bearing
      <3> QED BY <1>1, <1>4, <2>1, <3>1, IdleIsEmpty
    <2>2. ASSUME NEW mem \in op[o].snap, op' = [op EXCEPT ![o].snap = @ \ {mem}], UNCHANGED used,
                 op[o].pc = "anchor"
          PROVE  /\ op'[o].pc = "anchor" /\ op'[o].snap \subseteq op[o].snap
                 /\ op'[o].src = op[o].src /\ used \subseteq used'
                 /\ op'[o].mem = op[o].mem /\ op'[o].anchor = op[o].anchor
                 /\ op'[o].group = op[o].group /\ op'[o].mode = op[o].mode
      <3>1. op'[o] = [op[o] EXCEPT !.snap = op[o].snap \ {mem}]
        BY <2>2 DEF TypeInv
      <3> QED BY <1>1, <2>2, <3>1 DEF Slots
    <2>3. ASSUME NEW mem \in op[o].snap, ~mem.pin, NEW group \in Neighbours(mem),
                 NEW id \in Ids \ used, NEW new \in Merged(mem, group, id),
                 op' = [op EXCEPT ![o].pc = "drop", ![o].group = group, ![o].mem = new,
                                  ![o].anchor = mem.id, ![o].snap = @ \ {mem}],
                 used' = used \cup {id}
          PROVE  /\ op'[o].pc = "drop" /\ op'[o].mode = op[o].mode /\ op'[o].src = op[o].src
                 /\ op'[o].group \subseteq Visible /\ op'[o].snap \subseteq op[o].snap
                 /\ op'[o].mem # Absent /\ op'[o].mem.id \in Ids \ used /\ op'[o].mem.text # {}
                 /\ \A i \in op'[o].group : rec[i].text \subseteq op'[o].mem.text
                 /\ op'[o].anchor = mem.id /\ mem.text \subseteq op'[o].mem.text
                 /\ op'[o].group \subseteq Unpinned
                 /\ used \subseteq used'
                 /\ \A f \in op'[o].mem.text :
                      f \in mem.text \/ \E i \in op'[o].group : f \in rec[i].text
      <3>1. mem \in Memories
        BY <1>1 DEF Slots
      <3>2. op'[o] = MergeSlot(op[o], new, group, mem.id, op[o].snap \ {mem})
        BY <1>1, <2>3 DEF TypeInv, Slots, MergeSlot
      <3>3. /\ op'[o].pc = "drop" /\ op'[o].mode = op[o].mode /\ op'[o].src = op[o].src
            /\ op'[o].group = group /\ op'[o].snap = op[o].snap \ {mem}
            /\ op'[o].anchor = mem.id /\ op'[o].mem = new
        BY <3>2, <1>1 DEF MergeSlot, Slots
      <3>4. /\ new # Absent /\ new.id = id /\ new.text # {} /\ mem.text \subseteq new.text
            /\ \A i \in group : rec[i].text \subseteq new.text
            /\ \A f \in new.text : f \in mem.text \/ \E i \in group : f \in rec[i].text
            /\ group \subseteq Unpinned /\ group \subseteq Visible /\ (mem.pin => new.pin)
        BY <2>3, <3>1, MergedIsWhole
      <3> QED BY <2>3, <3>3, <3>4
    <2>4. CASE \E mem \in op[o].snap : ~mem.pin /\
                 \E group \in Neighbours(mem), id \in Ids \ used :
                   /\ \E new \in Merged(mem, group, id) :
                        op' = [op EXCEPT ![o].pc = "drop", ![o].group = group, ![o].mem = new,
                                         ![o].anchor = mem.id, ![o].snap = @ \ {mem}]
                   /\ used' = used \cup {id}
      <3>1. PICK mem \in op[o].snap : ~mem.pin /\
                 \E group \in Neighbours(mem), id \in Ids \ used :
                   /\ \E new \in Merged(mem, group, id) :
                        op' = [op EXCEPT ![o].pc = "drop", ![o].group = group, ![o].mem = new,
                                         ![o].anchor = mem.id, ![o].snap = @ \ {mem}]
                   /\ used' = used \cup {id}
        BY <2>4
      <3>2. /\ op'[o].pc = "drop" /\ op'[o].mode = op[o].mode /\ op'[o].src = op[o].src
            /\ op'[o].group \subseteq Visible /\ op'[o].snap \subseteq op[o].snap
            /\ op'[o].mem # Absent /\ op'[o].mem.id \in Ids \ used /\ op'[o].mem.text # {}
            /\ \A i \in op'[o].group : rec[i].text \subseteq op'[o].mem.text
            /\ op'[o].anchor = mem.id /\ mem.text \subseteq op'[o].mem.text
            /\ op'[o].group \subseteq Unpinned
            /\ used \subseteq used'
            /\ \A f \in op'[o].mem.text :
                 f \in mem.text \/ \E i \in op'[o].group : f \in rec[i].text
        BY <2>3, <3>1
      <3> QED BY <1>1, <1>4, <3>1, <3>2
    <2>5. CASE op[o].pc = "anchor" /\ \E mem \in op[o].snap :
                 op' = [op EXCEPT ![o].snap = @ \ {mem}] /\ UNCHANGED used
      BY <1>1, <1>4, <2>2, <2>5
    <2> QED BY <1>1, <1>4, <2>1, <2>4, <2>5 DEF MergeListed
  <1> QED BY <1>3, <1>4

LEMMA SlotDrops ==
    ASSUME TypeInv, NEW o \in Ops, DropMerged(o)
    PROVE  /\ op[o].pc = "drop" /\ Kept(o) /\ op'[o].mem = op[o].mem /\ op'[o].group = {}
           /\ op'[o].pc = IF op[o].anchor = Absent THEN "add" ELSE "dropAnchor"
           /\ rec' = Without(op[o].group) /\ op'[o].gone
  <1> DEFINE pc == IF op[o].anchor = Absent THEN "add" ELSE "dropAnchor"
  <1>1. op'[o] = [op[o] EXCEPT !.pc = pc, !.group = {}, !.gone = TRUE]
    BY DEF DropMerged, TypeInv
  <1> QED BY <1>1 DEF DropMerged, Kept, TypeInv, Slots

LEMMA SlotReplaces ==
    ASSUME TypeInv, NEW o \in Ops, Replace(o)
    PROVE  /\ op[o].pc = "replace" /\ Kept(o) /\ op'[o].mem = op[o].mem
           /\ op'[o].group = op[o].group /\ op'[o].pc = AfterId(o)
           /\ rec' = Without({op[o].mem.id}) /\ op'[o].gone
  <1>1. op'[o] = [op[o] EXCEPT !.pc = AfterId(o), !.gone = TRUE]
    BY DEF Replace, TypeInv
  <1> QED BY <1>1 DEF Replace, Kept, TypeInv, Slots

\* The two ways to store what an operation carries.
Stores(o) == Add(o) \/ AddMerged(o)

LEMMA SlotAdds ==
    ASSUME TypeInv, AllStaged, NEW o \in Ops, Stores(o)
    PROVE  /\ op[o].pc = "add" /\ op[o].mem \in Memories /\ op[o].mem.text # {}
           /\ rec' = [rec EXCEPT ![op[o].mem.id] = [text |-> op[o].mem.text, vec |-> op[o].mem.text,
                                                    pin |-> op[o].mem.pin, ses |-> op[o].mem.ses]]
           /\ op'[o].mem = Absent /\ op'[o].src = op[o].src /\ op'[o].snap = op[o].snap
           /\ op'[o].group = op[o].group /\ op'[o].mode = op[o].mode
           /\ \/ /\ Add(o) /\ op[o].mode # "compact" /\ op'[o].pc = "ack"
                 /\ op'[o].anchor = op[o].anchor
              \/ /\ AddMerged(o) /\ op[o].mode = "compact" /\ op'[o].pc = "anchor"
                 /\ op'[o].anchor = Absent
  <1>1. op[o].pc = "add" /\ op[o] \in Slots /\ op[o].mem \in Memories /\ op[o].mem.text # {}
    BY AbsentAssumption DEF Stores, Add, AddMerged, AllStaged, Staged, TypeInv, Proper, Bearing,
       Slots
  <1>2. CASE Add(o)
    <2>1. op'[o] = [op[o] EXCEPT !.pc = "ack", !.mem = Absent, !.gone = FALSE]
      BY <1>2 DEF Add, TypeInv
    <2>2. /\ op'[o].pc = "ack" /\ op'[o].mem = Absent /\ op'[o].src = op[o].src
          /\ op'[o].snap = op[o].snap /\ op'[o].group = op[o].group
          /\ op'[o].mode = op[o].mode /\ op'[o].anchor = op[o].anchor
      BY <1>1, <2>1 DEF Slots
    <2>3. /\ op[o].mode # "compact"
          /\ rec' = [rec EXCEPT ![op[o].mem.id] =
                       [text |-> op[o].mem.text, vec |-> op[o].mem.text, pin |-> op[o].mem.pin,
                        ses |-> op[o].mem.ses]]
      BY <1>2 DEF Add
    <2> QED BY <1>1, <1>2, <2>2, <2>3
  <1>3. CASE AddMerged(o)
    <2>1. op'[o] = [op[o] EXCEPT !.pc = "anchor", !.mem = Absent, !.anchor = Absent, !.gone = FALSE]
      BY <1>3 DEF AddMerged, TypeInv
    <2>2. /\ op'[o].pc = "anchor" /\ op'[o].mem = Absent /\ op'[o].src = op[o].src
          /\ op'[o].snap = op[o].snap /\ op'[o].group = op[o].group
          /\ op'[o].mode = op[o].mode /\ op'[o].anchor = Absent
      BY <1>1, <2>1 DEF Slots
    <2>3. /\ op[o].mode = "compact"
          /\ rec' = [rec EXCEPT ![op[o].mem.id] =
                       [text |-> op[o].mem.text, vec |-> op[o].mem.text, pin |-> op[o].mem.pin,
                        ses |-> op[o].mem.ses]]
      BY <1>1, <1>3 DEF AddMerged
    <2> QED BY <1>1, <1>3, <2>2, <2>3
  <1> QED BY <1>2, <1>3 DEF Stores

LEMMA SlotSweeps ==
    ASSUME TypeInv, NEW o \in Ops, FindGroup(o) \/ SkipGroup(o) \/ RemoveDuplicates(o)
    PROVE  /\ Kept(o) /\ op'[o].mem = op[o].mem /\ op[o].pc \in {"group", "remove"}
           /\ \/ FindGroup(o) /\ rec' = rec /\ op[o].pc = "group" /\ op'[o].pc = "remove"
                 /\ \/ op'[o].group = {}
                    \/ \E docs \in SUBSET Visible :
                         /\ op'[o].group \in Doomed(docs)
                         /\ \E t \in Texts, z \in Sessions : docs = SameHash(t, z)
              \/ SkipGroup(o) /\ rec' = rec /\ op'[o].pc = "group"
                 /\ op'[o].group \subseteq op[o].group
              \/ RemoveDuplicates(o) /\ rec' = Without(op[o].group) /\ op'[o].pc = "group"
                 /\ op'[o].group = {} /\ op[o].pc = "remove"
  <1>1. op[o] \in Slots /\ op[o].pc \in {"group", "remove"}
    BY DEF FindGroup, SkipGroup, RemoveDuplicates, TypeInv
  <1>2. CASE FindGroup(o)
    <2> DEFINE docs == SameHash(Head(op[o].todo)[1], Head(op[o].todo)[2])
    <2>1. op[o].pc = "group" /\ op[o].todo # <<>> /\ rec' = rec
      BY <1>2 DEF FindGroup
    <2>2. Head(op[o].todo) \in Texts \X Sessions
      <3>1. op[o].todo \in Seq(Texts \X Sessions)
        BY <1>1 DEF Slots
      <3> QED BY <2>1, <3>1
    <2>3. docs \in SUBSET Visible
      BY DEF SameHash
    <2>4. \E t \in Texts, z \in Sessions : docs = SameHash(t, z)
      BY <2>2
    <2>5. PICK doomed \in IF Cardinality(docs) > 1 THEN Doomed(docs) ELSE {{}} :
            op' = [op EXCEPT ![o].pc = "remove", ![o].group = doomed, ![o].todo = Tail(@)]
      BY <1>2 DEF FindGroup
    <2> HIDE DEF docs
    <2>6. op'[o] = [op[o] EXCEPT !.pc = "remove", !.group = doomed, !.todo = Tail(op[o].todo)]
      BY <2>5 DEF TypeInv
    <2>7. op'[o].pc = "remove" /\ op'[o].group = doomed /\ Kept(o) /\ op'[o].mem = op[o].mem
      BY <1>1, <2>6 DEF Kept, Slots
    <2>8. CASE doomed = {}
      BY <1>2, <2>1, <2>7, <2>8
    <2>9. CASE doomed \in Doomed(docs)
      <3>1. \E d \in SUBSET Visible :
              op'[o].group \in Doomed(d) /\ \E t \in Texts, z \in Sessions : d = SameHash(t, z)
        BY <2>3, <2>4, <2>7, <2>9
      <3> QED BY <1>2, <2>1, <2>7, <3>1
    <2> QED BY <2>5, <2>8, <2>9
  <1>3. CASE /\ SkipGroup(o) /\ rec' = rec
             /\ op[o].pc = "group" /\ op' = [op EXCEPT ![o].todo = Tail(@)]
    <2>1. op'[o] = [op[o] EXCEPT !.todo = Tail(op[o].todo)]
      BY <1>3 DEF TypeInv
    <2> QED BY <1>1, <1>3, <2>1 DEF Kept, Slots
  <1>4. CASE /\ op' = [op EXCEPT ![o].pc = "group", ![o].group = {}]
             /\ \/ SkipGroup(o) /\ rec' = rec
                \/ RemoveDuplicates(o) /\ rec' = Without(op[o].group) /\ op[o].pc = "remove"
    <2>1. op'[o] = [op[o] EXCEPT !.pc = "group", !.group = {}]
      BY <1>4 DEF TypeInv
    <2>2. op'[o].pc = "group" /\ op'[o].group = {} /\ Kept(o) /\ op'[o].mem = op[o].mem
      BY <1>1, <2>1 DEF Kept, Slots
    <2>3. {} \subseteq op[o].group
      OBVIOUS
    <2> QED BY <1>1, <1>4, <2>2, <2>3
  <1> QED BY <1>2, <1>3, <1>4 DEF SkipGroup, RemoveDuplicates

LEMMA SlotLists ==
    ASSUME TypeInv, NEW o \in Ops, ListAll(o)
    PROVE  /\ op[o].pc = "group" /\ rec' = rec
           /\ \/ op'[o] = Idle
              \/ /\ op'[o].pc = "anchor" /\ op'[o].snap = {Snapshot(i) : i \in Visible}
                 /\ op'[o].mode = op[o].mode /\ op'[o].mem = op[o].mem /\ op'[o].src = op[o].src
                 /\ op'[o].group = op[o].group /\ op'[o].anchor = op[o].anchor
  <1>1. op[o].pc = "group" /\ rec' = rec /\ op[o] \in Slots
    BY DEF ListAll, TypeInv
  <1>2. CASE Finish(o)
    BY <1>1, <1>2, SlotFinishes
  <1>3. CASE op' = [op EXCEPT ![o].pc = "anchor", ![o].snap = {Snapshot(i) : i \in Visible}]
    <2> DEFINE snap == {Snapshot(i) : i \in Visible}
    <2>1. op'[o] = [op[o] EXCEPT !.pc = "anchor", !.snap = snap]
      BY <1>3 DEF TypeInv
    <2> HIDE DEF snap
    <2>2. /\ op'[o].pc = "anchor" /\ op'[o].snap = snap
          /\ op'[o].mode = op[o].mode /\ op'[o].mem = op[o].mem /\ op'[o].src = op[o].src
          /\ op'[o].group = op[o].group /\ op'[o].anchor = op[o].anchor
      BY <1>1, <2>1 DEF Slots
    <2> QED BY <1>1, <2>2 DEF snap
  <1> QED BY <1>2, <1>3 DEF ListAll

LEMMA SlotCrashes ==
    ASSUME TypeInv, NEW o \in Ops, Crash(o)
    PROVE  /\ rec' = rec /\ ~alone
           /\ \/ op'[o] = Idle /\ op[o].src = Absent
              \/ /\ op[o].src # Absent /\ op'[o].mem = op[o].src /\ op'[o].src = op[o].src
                 /\ op'[o].pc \in {"add", "byId"} /\ op'[o].mode # "compact"
                 /\ op'[o].pc = "add" => op'[o].mode = "none"
                 /\ op'[o].group = {} /\ op'[o].anchor = Absent /\ op'[o].snap = {}
                 /\ op'[o].mem # Absent /\ op'[o].mem.text # {}
  <1> DEFINE mode == IF op[o].mode = "pinning" THEN "full" ELSE op[o].mode
  <1>1. rec' = rec /\ ~alone /\ op[o] \in Slots /\ Proper(op[o], used)
    BY DEF Crash, TypeInv
  <1>2. CASE op[o].src = Absent
    BY <1>1, <1>2 DEF Crash, Set, TypeInv
  <1>3. CASE op[o].src # Absent
    <2>1. op'[o] = Again(op[o], mode)
      BY <1>3 DEF Crash, Set, Again, TypeInv
    <2>2. mode # "compact" /\ op[o].src.text # {}
      BY <1>1, <1>3 DEF Proper
    <2> HIDE DEF mode
    <2> QED BY <1>1, <1>3, <2>1, <2>2 DEF Again, Idle
  <1> QED BY <1>2, <1>3

\* The steps that end an operation, or change records and nothing else.
LEMMA SlotEnds ==
    ASSUME TypeInv, NEW o \in Ops,
           TouchDuplicate(o) \/ TouchAccessed(o) \/ Write(o) \/ DeleteForgotten(o) \/ Ack(o)
             \/ Fail(o)
    PROVE  op'[o] = Idle
  BY SlotFinishes DEF TouchDuplicate, Ack, TouchAccessed, Write, DeleteForgotten, Fail

-----------------------------------------------------------------------------
Acts(o) == Start(o) \/ Step(o) \/ Fail(o) \/ Crash(o)

\* How a step changes the texts stored: it takes some away, or stores one.
Shrinks == \A i \in Visible' : i \in Visible /\ rec'[i].text = rec[i].text
Puts(o) ==
    LET mem == op[o].mem
    IN  /\ mem \in Memories /\ mem.id \in Visible' /\ rec'[mem.id].text = mem.text
        /\ rec'[mem.id].pin = mem.pin /\ \A i \in Ids \ {mem.id} : rec'[i] = rec[i]

LEMMA WithoutShrinks ==
    ASSUME TypeInv, NEW ids, rec' = Without(ids)
    PROVE  /\ Shrinks
           /\ \A i \in Visible : i \notin ids => i \in Visible' /\ rec'[i].text = rec[i].text
           /\ \A i \in ids : i \notin Visible'
  BY DEF Shrinks, Visible, Without

LEMMA HSetShrinks ==
    ASSUME TypeInv, NEW i \in Ids, NEW pinning \in BOOLEAN, rec' = HSet(i, pinning)
    PROVE  Shrinks /\ \A j \in Visible : j \in Visible' /\ rec'[j].text = rec[j].text
  <1>1. DOMAIN rec = Ids
    BY DEF TypeInv, Stored
  <1>2. CASE rec[i] = Absent
    <2>1. rec' = [rec EXCEPT ![i] = Fragment(pinning)] /\ Fragment(pinning).text = {}
      BY <1>2 DEF HSet, Fragment
    <2> QED BY <1>1, <1>2, <2>1 DEF Shrinks, Visible
  <1>3. CASE rec[i] # Absent
    <2>1. \A j \in Ids : j # i => rec'[j] = rec[j]
      BY <1>1, <1>3 DEF HSet
    <2>2. rec[i] \in Records \cup Fragments
      BY <1>3 DEF TypeInv, Stored
    <2>3. rec'[i] = [rec[i] EXCEPT !.pin = rec[i].pin \/ pinning]
      BY <1>1, <1>3 DEF HSet
    <2>4. rec'[i].text = rec[i].text
      BY <2>2, <2>3 DEF Records, Fragments
    <2>5. rec[i].pin \in BOOLEAN
      BY <2>2 DEF Records, Fragments
    <2>6. rec'[i] # Absent
      BY <2>2, <2>3, <2>5, AbsentAssumption DEF Records, Fragments
    <2> QED BY <1>3, <2>1, <2>4, <2>6 DEF Shrinks, Visible
  <1> QED BY <1>2, <1>3

\* A step that overwrites nothing and deletes nothing that is visible.
LEMMA SameStore == rec' = rec => Shrinks /\ Visible' = Visible
  BY DEF Shrinks, Visible

LEMMA AddPuts == ASSUME TypeInv, AllStaged, NEW o \in Ops, Stores(o) PROVE Puts(o)
  <1> DEFINE mem == op[o].mem
  <1>1. mem \in Memories /\ DOMAIN rec = Ids /\ mem.text # {}
    BY SlotAdds DEF TypeInv, Stored
  <1>2. /\ mem.id \in Ids /\ mem.text \in Texts /\ mem.pin \in BOOLEAN
        /\ mem.ses \in Sessions
    BY <1>1 DEF Memories, Texts
  <1>3. rec' = [rec EXCEPT ![mem.id] = [text |-> mem.text, vec |-> mem.text, pin |-> mem.pin,
                                        ses |-> mem.ses]]
    BY SlotAdds
  <1>4. [text |-> mem.text, vec |-> mem.text, pin |-> mem.pin, ses |-> mem.ses] \in Records
    BY <1>2 DEF Records
  <1> HIDE DEF mem
  <1>5. /\ mem.id \in Visible' /\ rec'[mem.id].text = mem.text
        /\ rec'[mem.id].pin = mem.pin /\ \A i \in Ids \ {mem.id} : rec'[i] = rec[i]
    BY <1>1, <1>2, <1>3, <1>4, AbsentAssumption DEF Visible, Texts
  <1> QED BY <1>1, <1>5 DEF Puts, mem

LEMMA WritePuts == ASSUME TypeInv, NEW o \in Ops, Write(o) PROVE Puts(o)
  <1> DEFINE mem == op[o].mem
             vec == Embed(op[o].mode, mem.text, rec[mem.id])
  <1>1. mem \in Memories /\ DOMAIN rec = Ids /\ mem.text # {}
    BY DEF Write, TypeInv, Stored, Slots, Proper, Bearing
  <1>2. /\ mem.id \in Ids /\ mem.text \in Texts /\ mem.pin \in BOOLEAN
        /\ mem.ses \in Sessions
    BY <1>1 DEF Memories, Texts
  <1>3. rec' = [rec EXCEPT ![mem.id] = [text |-> mem.text, vec |-> vec, pin |-> mem.pin,
                                        ses |-> mem.ses]]
    BY DEF Write
  <1>4. vec \in Texts \cup {{}}
    BY <1>2 DEF Embed, TypeInv, Stored, Records, Fragments
  <1> HIDE DEF vec
  <1>5. [text |-> mem.text, vec |-> vec, pin |-> mem.pin, ses |-> mem.ses] \in Records
    BY <1>2, <1>4 DEF Records
  <1> HIDE DEF mem
  <1>6. /\ mem.id \in Visible' /\ rec'[mem.id].text = mem.text
        /\ rec'[mem.id].pin = mem.pin /\ \A i \in Ids \ {mem.id} : rec'[i] = rec[i]
    BY <1>1, <1>2, <1>3, <1>5, AbsentAssumption DEF Visible, Texts
  <1> QED BY <1>1, <1>6 DEF Puts, mem

\* The ways in which a step may change what is stored.
LEMMA StoreIs ==
    ASSUME TypeInv, NEW o \in Ops, Acts(o)
    PROVE  \/ rec' = rec
           \/ \E ids \in SUBSET Ids : rec' = Without(ids)
           \/ \E i \in Ids, pinning \in BOOLEAN : rec' = HSet(i, pinning)
           \/ Stores(o) \/ Write(o)
  <1>1. op[o] \in Slots
    BY DEF TypeInv
  <1>2. CASE Delete(o) \/ DeleteInvalid(o)
    <2>1. PICK i \in Ids : rec' = Without({i})
      BY <1>2 DEF Delete, DeleteInvalid, TypeInv
    <2>2. {i} \in SUBSET Ids
      OBVIOUS
    <2> QED BY <2>1, <2>2
  <1>3. CASE Create(o) \/ Compact(o) \/ Patch(o) \/ Marks(o) \/ Access(o) \/ Forget(o)
             \/ Fail(o) \/ Crash(o)
    BY <1>3 DEF Create, Compact, Patch, Marks, MarkQueued, MarkListed, Access, Forget, Fail, Crash
  <1>4. CASE TouchDuplicate(o) \/ TouchAccessed(o)
    BY <1>1, <1>4 DEF TouchDuplicate, TouchAccessed, Slots
  <1>5. CASE FindSameId(o) \/ FindSameHash(o) \/ SearchSimilar(o) \/ FindGroup(o) \/ SkipGroup(o)
             \/ ListAll(o) \/ MergeListed(o) \/ Ack(o)
    BY <1>5 DEF FindSameId, FindSameHash, SearchSimilar, FindGroup, SkipGroup, ListAll, MergeListed,
       Ack
  <1>6. CASE Replace(o) \/ DropMerged(o) \/ RemoveDuplicates(o) \/ DropAnchor(o)
             \/ DeleteForgotten(o)
    <2>1. PICK ids : rec' = Without(ids)
      BY <1>6 DEF Replace, DropMerged, RemoveDuplicates, DropAnchor, DeleteForgotten
    <2>2. Without(ids) = Without(ids \cap Ids)
      BY DEF Without
    <2> QED BY <2>1, <2>2
  <1> QED BY <1>2, <1>3, <1>4, <1>5, <1>6 DEF Acts, Start, Step, Marks, Stores

LEMMA StoreChanges ==
    ASSUME TypeInv, AllStaged, NEW o \in Ops, Acts(o)
    PROVE  Shrinks \/ ((Stores(o) \/ Write(o)) /\ Puts(o))
  BY StoreIs, SameStore, WithoutShrinks, HSetShrinks, AddPuts, WritePuts

-----------------------------------------------------------------------------
\* Of operations that overlap, none replaces, edits or forgets.
LEMMA OverlapHappens ==
    ASSUME TypeInv, Orderly, ~alone
    PROVE  Happening \subseteq {"create", "access", "compact", "deleteInvalid"}
  <1>1. together \in Overlaps
    BY DEF TypeInv, alone
  <1> QED BY <1>1 DEF Happening, Orderly

LEMMA OverlapKindsOnly ==
    ASSUME TypeInv, Orderly, ~alone, NEW o \in Ops, Start(o)
    PROVE  ~Patch(o) /\ ~Marks(o) /\ ~Forget(o) /\ ~Delete(o)
  <1>1. Happening \subseteq {"create", "access", "compact", "deleteInvalid"}
    BY OverlapHappens
  <1>2. /\ ~Free(o, "patch") /\ ~Free(o, "mark")
        /\ ~Free(o, "forget") /\ ~Free(o, "delete")
    BY <1>1 DEF Free
  <1>3. ~Patch(o) /\ ~Forget(o) /\ ~Delete(o)
    BY <1>2 DEF Patch, Forget, Delete
  <1>4. ~MarkQueued(o) /\ ~MarkListed(o)
    BY <1>2 DEF MarkQueued, MarkListed
  <1> QED BY <1>3, <1>4 DEF Marks

LEMMA StagedStep ==
    ASSUME TypeInv, DeletesFinish, alone \/ Orderly, AllStaged, Apart, UNCHANGED alone,
           NEW o \in Ops, Acts(o)
    PROVE  AllStaged'
  <1> SUFFICES Staged(op'[o])
    <2>1. \A q \in Ops \ {o} : op'[q] = op[q]
      BY OwnSlot DEF Acts
    <2> QED BY <2>1 DEF AllStaged, Staged, Sweeping
  <1>1. Staged(op[o]) /\ op[o] \in Slots /\ Proper(op[o], used)
    BY DEF AllStaged, TypeInv
  <1>2. CASE op'[o] = Idle \/ op'[o] = op[o]
    BY <1>1, <1>2, IdleIsEmpty DEF Staged, Sweeping
  <1>3. CASE Start(o)
    BY <1>2, <1>3, SlotBegins, OverlapKindsOnly DEF Staged, Sweeping, Bearing
  <1>4. CASE Crash(o)
    BY <1>2, <1>4, SlotCrashes, AbsentAssumption DEF Staged, Sweeping, Bearing
  <1>5. CASE FindSameId(o)
    <2>1. op[o].mem \in Memories /\ op[o].mem.id \in Ids
      BY <1>1, <1>5, SlotFindsId DEF Proper, Bearing, Slots, Memories
    <2>2. Found(op[o].mem) => alone
      BY <2>1, AbsentAssumption DEF Apart, Bears, Found
    <2> QED BY <1>1, <1>5, <2>1, <2>2, SlotFindsId, AbsentAssumption
            DEF Staged, Sweeping, Bearing, Kept, AfterId
  <1>6. CASE Replace(o)
    BY <1>1, <1>6, SlotReplaces, AbsentAssumption DEF Staged, Sweeping, Bearing, AfterId, Kept
  <1>7. CASE FindSameHash(o)
    BY <1>1, <1>7, SlotFindsHash DEF Staged, Sweeping, Bearing, Kept
  <1>8. CASE SearchSimilar(o) \/ MergeListed(o)
    <2>1. CASE op'[o].pc = "drop"
      <3>1. op'[o].src = op[o].src /\ op'[o].mem.id \in Ids \ used /\ op'[o].mem.text # {}
        BY <1>8, <2>1, SlotMerges, IdleIsEmpty
      <3>2. op[o].src # Absent => op[o].src.id \in used
        BY <1>1 DEF Proper
      <3> QED BY <2>1, <3>1, <3>2 DEF Staged, Sweeping, Bearing
    <2>2. CASE op'[o].pc # "drop"
      BY <1>1, <1>2, <1>8, <2>2, SlotMerges
         DEF Staged, Sweeping, Bearing, Kept, SearchSimilar, MergeListed
    <2> QED BY <2>1, <2>2
  <1>9. CASE DropMerged(o)
    BY <1>1, <1>9, SlotDrops DEF Staged, Sweeping, Bearing, Kept
  <1>10. CASE DropAnchor(o)
    BY <1>1, <1>10, SlotGoesOn DEF DropAnchor, Staged, Sweeping, Bearing
  <1>11. CASE Stores(o)
    BY <1>1, <1>11, SlotAdds DEF Staged, Sweeping, Bearing
  <1>12. CASE FindGroup(o) \/ SkipGroup(o) \/ RemoveDuplicates(o)
    BY <1>1, <1>12, SlotSweeps DEF Staged, Sweeping, Bearing, Kept
  <1>13. CASE ListAll(o)
    BY <1>1, <1>2, <1>13, SlotLists DEF Staged, Sweeping, Bearing
  <1>14. CASE TouchDuplicate(o) \/ TouchAccessed(o) \/ Write(o) \/ DeleteForgotten(o) \/ Ack(o)
              \/ Fail(o)
    BY <1>2, <1>14, SlotEnds
  <1> QED BY <1>3, <1>4, <1>5, <1>6, <1>7, <1>8, <1>9, <1>10, <1>11, <1>12, <1>13, <1>14
          DEF Acts, Step, Stores

LEMMA SweepStep ==
    ASSUME TypeInv, Orderly, AllStaged, OneSweep, NEW o \in Ops, Acts(o)
    PROVE  OneSweep'
  <1>1. \A q \in Ops \ {o} : op'[q] = op[q]
    BY OwnSlot DEF Acts
  <1>2. Sweeping(op'[o]) => Sweeping(op[o]) \/ \A q \in Ops : ~Sweeping(op[q])
    <2>1. ~Sweeping(Idle)
      BY IdleIsEmpty DEF Sweeping
    <2>2. CASE Start(o)
      <3>1. Compact(o) => \A q \in Ops : ~Sweeping(op[q])
        BY DEF Compact, Orderly, AllStaged, Staged
      <3> QED BY <2>2, <3>1, SlotBegins DEF Sweeping
    <2>3. CASE Crash(o)
      BY <2>1, <2>3, SlotCrashes DEF Sweeping
    <2>4. CASE FindSameId(o) \/ FindSameHash(o)
      BY <2>4, SlotFindsId, SlotFindsHash DEF Sweeping, AfterId
    <2>5. CASE SearchSimilar(o) \/ MergeListed(o)
      <3>1. \/ op'[o].pc \in {"add", "anchor", "drop"}
            \/ op'[o] = Idle
        BY <2>5, SlotMerges DEF Orderly
      <3> QED BY <2>1, <3>1 DEF Sweeping
    <2>6. CASE Replace(o) \/ DropAnchor(o)
      <3>1. op'[o].pc \in {"add", "byHash"}
        BY <2>6, SlotReplaces, SlotGoesOn DEF DropAnchor, AfterId
      <3> QED BY <3>1 DEF Sweeping
    <2>7. CASE DropMerged(o) \/ Stores(o)
      BY <2>1, <2>7, SlotDrops, SlotAdds DEF Sweeping
    <2>8. CASE FindGroup(o) \/ SkipGroup(o) \/ RemoveDuplicates(o) \/ ListAll(o)
      BY <2>1, <2>8, SlotSweeps, SlotLists DEF Sweeping
    <2>9. CASE TouchDuplicate(o) \/ TouchAccessed(o) \/ Write(o) \/ DeleteForgotten(o)
               \/ Ack(o) \/ Fail(o)
      BY <2>1, <2>9, SlotEnds
    <2> QED BY <2>2, <2>3, <2>4, <2>5, <2>6, <2>7, <2>8, <2>9 DEF Acts, Step, Stores
  <1> QED BY <1>1, <1>2 DEF OneSweep, Sweeping

\* Beside other operations, a record is created under a new id.
LEMMA CreatesNew ==
    ASSUME TypeInv, Orderly, ~alone, NEW o \in Ops, Create(o)
    PROVE  op'[o].mem.id \notin used
  <1>1. PICK mode \in {"full", "summary", "none"}, mem \in Submissions :
          /\ Free(o, Posting(mem))
          /\ Set(o, [Idle EXCEPT !.pc = IF mode = "none" THEN "add" ELSE "byId",
                                 !.mode = mode, !.mem = mem, !.src = mem])
    BY DEF Create
  <1>2. mem.id \notin used
    BY <1>1, OverlapHappens DEF Free, Posting
  <1>3. op'[o] = [Idle EXCEPT !.pc = IF mode = "none" THEN "add" ELSE "byId",
                              !.mode = mode, !.mem = mem, !.src = mem]
    BY <1>1 DEF Set, TypeInv
  <1> QED BY <1>2, <1>3 DEF Idle

LEMMA BearsOnly ==
    ASSUME TypeInv, Orderly, ~alone, AllStaged, NEW o \in Ops, Acts(o), NEW i \in Ids, Bears(o, i)'
    PROVE  Bears(o, i) \/ i \notin used
  <1>1. ~(Idle.mem # Absent) /\ ~(Idle.src # Absent)
    BY IdleIsEmpty
  <1>2. op'[o] # Idle
    BY <1>1 DEF Bears
  <1>3. CASE Start(o)
    <2>1. CASE op'[o] = op[o]
      BY <2>1 DEF Bears
    <2>2. CASE op'[o] # op[o]
      <3>1. Create(o) /\ op'[o].mem = op'[o].src
        BY <1>3, <2>2, SlotBegins, OverlapKindsOnly DEF Bears
      <3> QED BY <3>1, CreatesNew DEF Bears
    <2> QED BY <2>1, <2>2
  <1>4. CASE Crash(o)
    <2>1. op[o].pc # "ack"
      BY <1>4, OverlapHappens DEF Crash
    <2> QED BY <1>2, <1>4, <2>1, SlotCrashes DEF Bears
  <1>5. CASE FindSameId(o)
    <2>1. op[o].mem # Absent
      BY <1>5, SlotFindsId DEF TypeInv, Proper, Bearing
    <2> QED BY <1>5, <2>1, SlotFindsId DEF Bears, Kept
  <1>6. CASE FindSameHash(o)
    BY <1>6, SlotFindsHash DEF Bears
  <1>7. CASE SearchSimilar(o) \/ MergeListed(o)
    <2>1. /\ op'[o].src = op[o].src /\ op'[o].pc # "ack" /\ op[o].pc # "ack"
          /\ op'[o].mem = op[o].mem \/ op'[o].mem.id \notin used
      BY <1>2, <1>7, SlotMerges DEF Orderly, SearchSimilar, MergeListed
    <2> QED BY <2>1 DEF Bears
  <1>8. CASE Replace(o) \/ DropAnchor(o)
    BY <1>8, SlotReplaces, SlotGoesOn DEF DropAnchor, Bears, Kept
  <1>9. CASE DropMerged(o) \/ Stores(o)
    BY <1>2, <1>9, SlotDrops, SlotAdds DEF Bears, Kept
  <1>10. CASE FindGroup(o) \/ SkipGroup(o) \/ RemoveDuplicates(o) \/ ListAll(o)
    BY <1>2, <1>10, SlotSweeps, SlotLists DEF Bears, Kept
  <1>11. CASE TouchDuplicate(o) \/ TouchAccessed(o) \/ Write(o) \/ DeleteForgotten(o) \/ Ack(o)
              \/ Fail(o)
    BY <1>2, <1>11, SlotEnds
  <1> QED BY <1>3, <1>4, <1>5, <1>6, <1>7, <1>8, <1>9, <1>10, <1>11 DEF Acts, Step, Stores

LEMMA NamesOnly ==
    ASSUME TypeInv, DeletesFinish, AllStaged, NEW o \in Ops, Acts(o), NEW i \in Ids,
           Names(o, i)'
    PROVE  Names(o, i) \/ i \in Visible
  <1>1. op'[o] # Idle
    BY IdleIsEmpty, AbsentAssumption DEF Names
  <1>2. CASE Start(o)
    BY <1>2, SlotBegins, AbsentAssumption DEF Names, Unpinned
  <1>3. CASE Crash(o)
    BY <1>1, <1>3, SlotCrashes, AbsentAssumption DEF Names
  <1>4. CASE FindSameId(o)
    BY <1>4, SlotFindsId DEF Names, Kept
  <1>5. CASE FindSameHash(o)
    <2>1. SameHash(op[o].mem.text, op[o].mem.ses) \subseteq Visible
      BY DEF SameHash
    <2> QED BY <1>5, <2>1, SlotFindsHash DEF Names, Kept
  <1>6. CASE SearchSimilar(o) \/ MergeListed(o)
    BY <1>1, <1>6, SlotMerges DEF Names, Kept
  <1>7. CASE Replace(o) \/ DropAnchor(o)
    BY <1>7, SlotReplaces, SlotGoesOn DEF DropAnchor, Names, Kept
  <1>8. CASE DropMerged(o) \/ Stores(o)
    BY <1>1, <1>8, SlotDrops, SlotAdds, AbsentAssumption DEF Names, Kept
  <1>9. CASE FindGroup(o) \/ SkipGroup(o) \/ RemoveDuplicates(o)
    <2>1. \A docs \in SUBSET Visible : \A d \in Doomed(docs) : d \subseteq Visible
      BY DEF Doomed
    <2> QED BY <1>9, <2>1, SlotSweeps DEF Names, Kept
  <1>10. CASE ListAll(o)
    <2>1. \A m \in {Snapshot(j) : j \in Visible} : m.id \in Visible
      BY VisibleIsWhole
    <2> QED BY <1>1, <1>10, <2>1, SlotLists DEF Names
  <1>11. CASE TouchDuplicate(o) \/ TouchAccessed(o) \/ Write(o) \/ DeleteForgotten(o) \/ Ack(o)
              \/ Fail(o)
    BY <1>1, <1>11, SlotEnds
  <1> QED BY <1>2, <1>3, <1>4, <1>5, <1>6, <1>7, <1>8, <1>9, <1>10, <1>11 DEF Acts, Step, Stores

\* Where operations overlap, a step makes one id visible at most: one it has borne, and
\* bears no more.
LEMMA BecomesVisible ==
    ASSUME TypeInv, AllStaged, ~alone, NEW o \in Ops, Acts(o), NEW i \in Visible'
    PROVE  \/ i \in Visible /\ rec'[i].text = rec[i].text
           \/ /\ Stores(o) /\ i = op[o].mem.id /\ rec'[i].text = op[o].mem.text /\ Bears(o, i)
              /\ ~Bears(o, i)'
  <1>1. CASE Shrinks
    BY <1>1 DEF Shrinks
  <1>2. CASE Write(o)
    BY <1>2 DEF Write, AllStaged, Staged
  <1>3. CASE Stores(o) /\ Puts(o)
    <2>1. i \in Ids
      BY DEF Visible
    <2>2. CASE i # op[o].mem.id
      BY <1>3, <2>1, <2>2 DEF Puts, Visible
    <2>3. CASE i = op[o].mem.id
      <3>1. op[o].mem # Absent /\ op'[o].mem = Absent /\ op'[o].src = op[o].src
        BY <1>3, SlotAdds, AbsentAssumption
      <3>2. op'[o].pc = "ack" \/ op[o].src = Absent
        BY <1>3, SlotAdds DEF TypeInv, Proper
      <3> QED BY <1>3, <2>3, <3>1, <3>2 DEF Puts, Bears
    <2> QED BY <2>2, <2>3
  <1> QED BY <1>1, <1>2, <1>3, StoreChanges

LEMMA ApartStep ==
    ASSUME TypeInv, Orderly, AllStaged, Apart, UNCHANGED alone, NEW o \in Ops, Acts(o)
    PROVE  Apart'
  <1> SUFFICES ASSUME ~alone, NEW p \in Ops, NEW i \in Ids, Bears(p, i)'
               PROVE  /\ i \notin Visible'
                      /\ \A q \in Ops : ~Names(q, i)' /\ (Bears(q, i)' => q = p)
    BY DEF Apart
  <1>1. \A q \in Ops \ {o} : op'[q] = op[q]
    BY OwnSlot DEF Acts
  <1>2. \A q \in Ops : Bears(q, i)' => Bears(q, i) \/ (q = o /\ i \notin used)
    BY <1>1, BearsOnly DEF Bears
  <1>3. \A q \in Ops : Names(q, i)' => Names(q, i) \/ i \in Visible
    BY <1>1, NamesOnly DEF Names, Orderly
  <1>4. \A q \in Ops : Bears(q, i) \/ Names(q, i) \/ i \in Visible => i \in used
    BY VisibleIsWhole, AbsentAssumption DEF TypeInv, Proper, Bears, Names
  <1>5. Bears(p, i) => i \notin Visible /\ \A q \in Ops : ~Names(q, i) /\ (Bears(q, i) => q = p)
    BY DEF Apart
  <1>6. i \notin Visible'
    <2> SUFFICES ASSUME i \in Visible' PROVE FALSE
      OBVIOUS
    <2>1. CASE i \in Visible
      BY <1>2, <1>4, <1>5, <2>1
    <2>2. CASE Bears(o, i) /\ ~Bears(o, i)'
      BY <1>2, <1>4, <2>2 DEF Apart
    <2> QED BY <2>1, <2>2, BecomesVisible
  <1> QED BY <1>2, <1>3, <1>4, <1>5, <1>6

\* The check for the id comes first, when a task is submitted or delivered again.
LEMMA OnlyToById ==
    ASSUME TypeInv, DeletesFinish, AllStaged, NEW o \in Ops, Acts(o), op'[o].pc = "byId"
    PROVE  Create(o) \/ Crash(o)
  <1>1. op'[o] # Idle
    BY IdleIsEmpty
  <1>2. CASE Start(o)
    BY <1>1, <1>2, SlotBegins, FreeStarts
  <1>3. CASE FindSameId(o)
    BY <1>3, SlotFindsId DEF AfterId
  <1>4. CASE FindSameHash(o)
    BY <1>4, SlotFindsHash
  <1>5. CASE SearchSimilar(o) \/ MergeListed(o)
    BY <1>1, <1>5, SlotMerges
  <1>6. CASE Replace(o)
    BY <1>6, SlotReplaces DEF AfterId
  <1>7. CASE DropAnchor(o)
    BY <1>7, SlotGoesOn DEF DropAnchor
  <1>8. CASE DropMerged(o) \/ Stores(o)
    BY <1>8, SlotDrops, SlotAdds
  <1>9. CASE FindGroup(o) \/ SkipGroup(o) \/ RemoveDuplicates(o) \/ ListAll(o)
    BY <1>1, <1>9, SlotSweeps, SlotLists
  <1>10. CASE TouchDuplicate(o) \/ TouchAccessed(o) \/ Write(o) \/ DeleteForgotten(o)
              \/ Ack(o) \/ Fail(o)
    BY <1>1, <1>10, SlotEnds
  <1> QED BY <1>2, <1>3, <1>4, <1>5, <1>6, <1>7, <1>8, <1>9, <1>10 DEF Acts, Step, Stores

LEMMA FreshStep ==
    ASSUME TypeInv, DeletesFinish, alone \/ Orderly, OneByOne, AllStaged, Apart, Fresh,
           UNCHANGED alone, NEW o \in Ops, Acts(o)
    PROVE  Fresh'
  <1> DEFINE Proud(p) == p.mode = "compact" \/ "stray" \notin Kinds
  <1>1. \A q \in Ops \ {o} : op'[q] = op[q]
    BY OwnSlot DEF Acts
  <1>2. ASSUME NEW q \in Ops \ {o}, op[q].pc = "byId" \/ Storing(op[q])
        PROVE  op[q].mem.id \notin Visible'
    <2>1. op[q].mem # Absent /\ op[q].mem.id \in Ids
      BY <1>2 DEF TypeInv, Slots, Proper, Storing, Bearing, Memories
    <2>2. ~alone
      BY <1>2, OthersIdle, IdleIsEmpty DEF Acts, Storing
    <2>3. op[q].mem.id \notin Visible
      BY <2>1, <2>2 DEF Apart, Bears
    <2> QED BY <2>1, <2>2, <2>3, BecomesVisible DEF Apart, Bears
  <1>3. ASSUME Storing(op'[o])
        PROVE  /\ Proud(op'[o]) => op'[o].mem.id \notin Visible'
               /\ op'[o].mode = "compact" => \A m \in op'[o].snap : m.id # op'[o].mem.id
    <2>1. op'[o] # Idle
      BY <1>3, IdleIsEmpty DEF Storing
    <2>2. Visible \subseteq used /\ \A m \in op[o].snap : m.id \in used
      BY VisibleIsWhole DEF TypeInv, Proper
    <2>3. CASE Start(o)
      <3>1. CASE op'[o] = op[o]
        BY <2>1, <2>3, <3>1, FreeStarts
      <3>2. CASE op'[o] # op[o]
        BY <1>3, <2>3, <3>2, SlotBegins DEF Storing
      <3> QED BY <3>1, <3>2
    <2>4. CASE Crash(o)
      BY <1>3, <2>1, <2>4, SlotCrashes DEF Storing
    <2>5. CASE FindSameId(o)
      <3>1. op[o].pc = "byId" /\ op'[o].mem.id = op[o].mem.id /\ op'[o].mode = op[o].mode
        BY <2>5, SlotFindsId DEF Kept
      <3>2. op[o].mode # "compact" /\ ~Found(op[o].mem) /\ Visible' = Visible
        BY <1>3, <2>5, <3>1, SlotFindsId, SameStore DEF AllStaged, Staged, Storing
      <3> QED BY <3>1, <3>2 DEF Fresh
    <2>6. CASE Replace(o)
      <3>1. op'[o].mem.id \notin Visible' /\ op'[o].mode # "compact"
        BY <2>6, SlotReplaces, WithoutShrinks DEF AllStaged, Staged, Kept
      <3> QED BY <3>1
    <2>7. CASE FindSameHash(o)
      <3>1. op[o].pc = "byHash" /\ op[o].mode # "compact" /\ Visible' = Visible
        BY <2>7, SlotFindsHash, SameStore DEF AllStaged, Staged
      <3>2. op'[o].mem = op[o].mem /\ op'[o].mode = op[o].mode
        BY <1>3, <2>7, SlotFindsHash DEF Storing, Kept
      <3> QED BY <3>1, <3>2 DEF Fresh, Storing
    <2>8. CASE SearchSimilar(o) \/ MergeListed(o)
      <3>1. Visible' = Visible
        BY <2>8, SlotMerges, SameStore
      <3>2. CASE op'[o].pc = "drop"
        <4>1. op'[o].mem.id \notin used /\ op'[o].snap \subseteq op[o].snap
          BY <2>1, <2>8, <3>2, SlotMerges
        <4> QED BY <2>2, <3>1, <4>1
      <3>3. CASE op'[o].pc # "drop"
        <4>1. SearchSimilar(o) /\ op'[o].mem = op[o].mem /\ Kept(o)
          BY <1>3, <2>1, <2>8, <3>3, SlotMerges DEF Storing
        <4>2. op[o].pc = "search" /\ op[o].mode # "compact"
          BY <4>1 DEF SearchSimilar, AllStaged, Staged
        <4> QED BY <3>1, <4>1, <4>2 DEF Fresh, Storing, Kept
      <3> QED BY <3>2, <3>3
    <2>9. CASE DropMerged(o)
      <3>1. /\ op[o].pc = "drop" /\ Kept(o) /\ op'[o].mem = op[o].mem
            /\ \A i \in Visible' : i \in Visible
        BY <2>9, SlotDrops, WithoutShrinks DEF Shrinks
      <3> QED BY <3>1 DEF Fresh, Storing, Kept
    <2>10. CASE DropAnchor(o)
      <3>1. /\ op[o].pc = "dropAnchor" /\ Goto(o, "add")
            /\ \A i \in Visible' : i \in Visible
        BY <2>10, WithoutShrinks DEF DropAnchor, Shrinks
      <3> QED BY <3>1, SlotGoesOn DEF Fresh, Storing
    <2>11. CASE Stores(o)
      BY <1>3, <2>11, SlotAdds DEF Storing
    <2>12. CASE FindGroup(o) \/ SkipGroup(o) \/ RemoveDuplicates(o) \/ ListAll(o)
      BY <1>3, <2>1, <2>12, SlotSweeps, SlotLists DEF Storing
    <2>13. CASE TouchDuplicate(o) \/ TouchAccessed(o) \/ Write(o) \/ DeleteForgotten(o)
                \/ Ack(o) \/ Fail(o)
      BY <2>1, <2>13, SlotEnds
    <2> QED BY <2>3, <2>4, <2>5, <2>6, <2>7, <2>8, <2>9, <2>10, <2>11, <2>12, <2>13
            DEF Acts, Step, Stores
  <1>4. ASSUME op'[o].pc = "byId", "stray" \notin Kinds, op'[o].mem.id \in Visible'
        PROVE  Found(op[o].mem)'
    <2>1. Acts(o) => Create(o) \/ Crash(o)
      BY <1>4, OnlyToById
    <2>2. CASE Crash(o)
      <3>1. ~alone /\ rec' = rec /\ op[o].src # Absent /\ op'[o].mem = op[o].src
        BY <1>4, <2>2, SlotCrashes, IdleIsEmpty
      <3>2. op[o].pc # "ack"
        BY <2>2, <3>1, OverlapHappens DEF Crash
      <3>3. op[o].src.id \in Ids
        BY <3>1 DEF TypeInv, Slots, Memories
      <3> QED BY <1>4, <3>1, <3>2, <3>3, SameStore DEF Apart, Bears
    <2>3. CASE Create(o)
      <3>1. PICK mode \in {"full", "summary", "none"}, mem \in Submissions :
              /\ Free(o, Posting(mem))
              /\ Set(o, [Idle EXCEPT !.pc = IF mode = "none" THEN "add" ELSE "byId",
                                     !.mode = mode, !.mem = mem, !.src = mem])
        BY <2>3 DEF Create
      <3>2. Posting(mem) # "stray"
        BY <1>4, <3>1, OverlapHappens DEF Free, Happening
      <3>3. mem.id \in Visible => Found(mem)
        BY <3>2, VisibleIsWhole DEF Posting
      <3>4. op'[o] = [Idle EXCEPT !.pc = IF mode = "none" THEN "add" ELSE "byId",
                                  !.mode = mode, !.mem = mem, !.src = mem]
        BY <3>1 DEF Set, TypeInv
      <3>5. op'[o].mem = mem /\ rec' = rec
        BY <2>3, <3>4 DEF Idle, Create
      <3> QED BY <1>4, <3>3, <3>5 DEF Found, Visible
    <2> QED BY <2>1, <2>2, <2>3
  <1>5. ASSUME NEW q \in Ops
        PROVE  /\ Storing(op'[q]) /\ Proud(op'[q]) => op'[q].mem.id \notin Visible'
               /\ Storing(op'[q]) /\ op'[q].mode = "compact" =>
                    \A m \in op'[q].snap : m.id # op'[q].mem.id
               /\ op'[q].pc = "byId" /\ "stray" \notin Kinds /\ op'[q].mem.id \in Visible' =>
                    Found(op[q].mem)'
    <2>1. CASE q = o
      BY <1>3, <1>4, <2>1
    <2>2. CASE q # o
      <3>1. Storing(op[q]) /\ op[q].mode = "compact" => \A m \in op[q].snap : m.id # op[q].mem.id
        BY DEF Fresh
      <3> QED BY <1>1, <1>2, <2>2, <3>1
    <2> QED BY <2>1, <2>2
  <1> QED BY <1>5 DEF Fresh, Storing

-----------------------------------------------------------------------------
\* What an operation has read still holds: a record it will write over or delete in favour
\* of the one it merged states nothing that the record it holds does not.
ReadBySlot(p) ==
    /\ p.pc = "drop" => \A i \in p.group \cap Visible : rec[i].text \subseteq p.mem.text
    /\ p.pc \in {"drop", "dropAnchor"} /\ p.anchor \in Visible =>
         rec[p.anchor].text \subseteq p.mem.text
    /\ \A m \in p.snap : m.id \in Visible => rec[m.id].text = m.text
    /\ p.pc = "write" /\ p.mode # "text" =>
         p.mem.id \in Visible /\ rec[p.mem.id].text = p.mem.text
    /\ p.pc = "write" /\ p.mode = "mark" => rec[p.mem.id].pin = p.mem.pin
AsRead == \A o \in Ops : ReadBySlot(op[o])

\* The slot of a strategy task.
LEMMA SlotMarks ==
    ASSUME TypeInv, NEW o \in Ops, Marks(o)
    PROVE  op'[o].pc = "write" /\ op'[o].mode = "mark"
  <1>1. PICK mem : op' = [op EXCEPT ![o] = [Idle EXCEPT !.pc = "write", !.mode = "mark",
                                                        !.mem = mem]]
    BY DEF Marks, MarkQueued, MarkListed, Set
  <1>2. op'[o] = [Idle EXCEPT !.pc = "write", !.mode = "mark", !.mem = mem]
    BY <1>1 DEF TypeInv
  <1> QED BY <1>2 DEF Idle

\* A queued strategy task has its record as it is stored, since only it, its kind and the
\* operation that queued it are under way until it is over.
Waits(p) == p = Idle \/ p.pc = "ack" \/ (p.pc = "write" /\ p.mode = "mark")
Queue == /\ ~alone => queued = {}
         /\ queued # {} => \A o \in Ops : Waits(op[o])
         /\ \A m \in queued : m.id \in Visible /\ rec[m.id].text = m.text /\ rec[m.id].pin = m.pin

LEMMA QueueStep ==
    ASSUME TypeInv, DeletesFinish, alone \/ Orderly, OneByOne, AllStaged, AsRead, Queue,
           UNCHANGED alone, NEW o \in Ops, Acts(o)
    PROVE  Queue'
  <1>1. \A q \in Ops \ {o} : op'[q] = op[q]
    BY OwnSlot DEF Acts
  <1>2. CASE ~alone
    <2>1. queued' \subseteq queued \/ Add(o)
      BY DEF Acts, Start, Step, Fail, Crash, Create, Compact, Patch, MarkQueued, MarkListed,
         Access, Forget, Delete, DeleteInvalid, FindSameId, Replace, FindSameHash, TouchDuplicate,
         SearchSimilar, DropMerged, Ack, AddMerged, FindGroup, RemoveDuplicates, SkipGroup,
         ListAll, MergeListed, DropAnchor, Write, TouchAccessed, DeleteForgotten
    <2>2. Add(o) => queued' = queued
      BY <1>2, OverlapHappens DEF Add
    <2> QED BY <1>2, <2>1, <2>2 DEF Queue
  <1>3. CASE alone /\ Start(o)
    <2>1. /\ op[o] = Idle /\ (\A q \in Ops : op[q] = Idle)
          /\ rec' = rec \/ queued = {}
          /\ queued' \subseteq queued
          /\ queued = {} \/ Marks(o)
      <3>1. Marks(o) \/ queued = {}
        BY <1>3 DEF Start, Create, Compact, Patch, MarkQueued, MarkListed, Access, Forget, Delete,
           DeleteInvalid, Free, Posting, Marks
      <3>2. Marks(o) => rec' = rec
        BY DEF Marks, MarkQueued, MarkListed
      <3>3. queued' \subseteq queued
        BY <1>3 DEF Start, Create, Compact, Patch, MarkQueued, MarkListed, Access, Forget, Delete,
           DeleteInvalid
      <3> QED BY <1>3, <3>1, <3>2, <3>3, FreeStarts
    <2>2. CASE queued = {}
      BY <1>3, <2>1, <2>2 DEF Queue
    <2>3. CASE queued # {}
      <3>1. Marks(o) /\ rec' = rec /\ \A q \in Ops \ {o} : op'[q] = Idle
        BY <1>1, <2>1, <2>3
      <3>2. op'[o].pc = "write" /\ op'[o].mode = "mark"
        BY <1>3, <3>1, SlotMarks
      <3> QED BY <1>3, <2>1, <3>1, <3>2, SameStore DEF Queue, Waits
    <2> QED BY <2>2, <2>3
  <1>4. CASE alone /\ Add(o)
    <2>1. op[o].pc = "add" /\ op[o] # Idle /\ op[o].mem \in Memories /\ op'[o].pc = "ack"
      BY <1>4, SlotAdds, IdleIsEmpty DEF Stores, Add
    <2>2. queued = {}
      BY <2>1 DEF Queue, Waits
    <2>3. queued' \subseteq {op[o].mem}
      BY <1>4, <2>2 DEF Add
    <2>4. \A q \in Ops : Waits(op[q])'
      BY <1>1, <1>4, <2>1, OthersIdle DEF Acts, Waits
    <2>5. Puts(o)
      BY <1>4, AddPuts DEF Stores
    <2> QED BY <1>4, <2>3, <2>4, <2>5 DEF Queue, Puts
  <1>5. CASE alone /\ ~Start(o) /\ ~Add(o)
    <2>1. queued' = queued
      BY <1>5 DEF Acts, Step, Fail, Crash, FindSameId, Replace, FindSameHash, TouchDuplicate,
         SearchSimilar, DropMerged, Ack, AddMerged, FindGroup, RemoveDuplicates, SkipGroup,
         ListAll, MergeListed, DropAnchor, Write, TouchAccessed, DeleteForgotten
    <2>2. CASE queued = {}
      BY <1>5, <2>1, <2>2 DEF Queue
    <2>3. CASE queued # {}
      <3>1. Waits(op[o]) /\ op[o] # Idle
        BY <1>5, <2>3, BusySteps DEF Queue, Acts
      <3>2. op[o].pc \in {"ack", "write"} /\ (op[o].pc = "write" => op[o].mode = "mark")
        BY <3>1 DEF Waits
      <3>3. Ack(o) \/ Write(o) \/ Fail(o)
        <4>1. ~Crash(o)
          BY <1>5 DEF Crash
        <4> QED BY <1>5, <3>2, <4>1 DEF Acts, Step, FindSameId, Replace, FindSameHash,
                TouchDuplicate, SearchSimilar, DropMerged, AddMerged, FindGroup, RemoveDuplicates,
                SkipGroup, ListAll, MergeListed, DropAnchor, TouchAccessed, DeleteForgotten
      <3>4. op'[o] = Idle
        BY <3>3, SlotEnds
      <3>5. \A q \in Ops : Waits(op[q])'
        BY <1>1, <2>3, <3>4 DEF Queue, Waits
      <3>6. CASE Write(o)
        <4>1. op[o].pc = "write" /\ op[o].mode = "mark" /\ Puts(o)
          BY <3>2, <3>6, WritePuts DEF Write
        <4>2. /\ rec[op[o].mem.id].text = op[o].mem.text
              /\ rec[op[o].mem.id].pin = op[o].mem.pin
          BY <4>1 DEF AsRead, ReadBySlot
        <4>3. \A m \in queued : /\ m.id \in Visible' /\ rec'[m.id].text = m.text
                                /\ rec'[m.id].pin = m.pin
          <5> TAKE m \in queued
          <5>1. m.id \in Visible /\ rec[m.id].text = m.text /\ rec[m.id].pin = m.pin
            BY DEF Queue
          <5>2. CASE m.id = op[o].mem.id
            BY <4>1, <4>2, <5>1, <5>2 DEF Puts
          <5>3. CASE m.id # op[o].mem.id
            BY <4>1, <5>1, <5>3 DEF Puts, Visible
          <5> QED BY <5>2, <5>3
        <4> QED BY <1>5, <2>1, <3>5, <4>3 DEF Queue
      <3>7. CASE Ack(o) \/ Fail(o)
        <4>1. rec' = rec
          BY <3>7 DEF Ack, Fail
        <4> QED BY <1>5, <2>1, <3>5, <4>1, SameStore DEF Queue
      <3> QED BY <3>3, <3>6, <3>7
    <2> QED BY <2>2, <2>3
  <1> QED BY <1>2, <1>3, <1>4, <1>5

\* The steps of others leave it so.
LEMMA StaysRead ==
    ASSUME TypeInv, OneByOne, AllStaged, Apart, AsRead, UNCHANGED alone,
           NEW o \in Ops, Acts(o), NEW q \in Ops \ {o}
    PROVE  ReadBySlot(op[q])'
  <1>1. op'[q] = op[q]
    BY OwnSlot DEF Acts
  <1>2. CASE alone
    BY <1>2, OthersIdle, IdleIsEmpty, AbsentAssumption DEF Acts, ReadBySlot, Visible
  <1>3. CASE ~alone
    <2>1. \A i \in Visible' : Names(q, i) => i \in Visible /\ rec'[i].text = rec[i].text
      <3>1. \A i \in Ids : Bears(o, i) => ~Names(q, i)
        BY <1>3 DEF Apart
      <3> QED BY <1>3, <3>1, BecomesVisible DEF Visible
    <2>2. \A i \in op[q].group : Names(q, i)
      BY DEF Names
    <2>3. Names(q, op[q].anchor) /\ \A m \in op[q].snap : Names(q, m.id)
      BY DEF Names
    <2>4. op[q].pc # "write"
      BY <1>3 DEF AllStaged, Staged
    <2>5. ReadBySlot(op[q])
      BY DEF AsRead
    <2> QED BY <1>1, <2>1, <2>2, <2>3, <2>4, <2>5 DEF ReadBySlot
  <1> QED BY <1>2, <1>3

LEMMA AsReadStep ==
    ASSUME TypeInv, DeletesFinish, OneByOne, AllStaged, Apart, Fresh, AsRead, Queue,
           UNCHANGED alone, NEW o \in Ops, Acts(o)
    PROVE  AsRead'
  <1> SUFFICES ReadBySlot(op[o])'
    BY StaysRead DEF AsRead
  <1>1. ReadBySlot(op[o]) /\ Staged(op[o])
    BY DEF AsRead, AllStaged
  <1>2. CASE op'[o] = Idle
    BY <1>2, IdleIsEmpty DEF ReadBySlot
  <1>3. CASE Start(o)
    <2>1. CASE op'[o] = op[o]
      BY <1>2, <1>3, <2>1, FreeStarts
    <2>2. CASE op'[o] # op[o]
      <3>1. /\ rec' = rec /\ op'[o].snap = {} /\ op'[o].anchor = Absent
            /\ op'[o].pc \notin {"drop", "dropAnchor"}
        BY <1>3, <2>2, SlotBegins
      <3>2. op'[o].pc = "write" /\ op'[o].mode # "text" =>
              op'[o].mem.id \in Visible /\ rec[op'[o].mem.id].text = op'[o].mem.text
        BY <1>3, <2>2, SlotBegins DEF Queue
      <3>3. op'[o].pc = "write" /\ op'[o].mode = "mark" => rec[op'[o].mem.id].pin = op'[o].mem.pin
        BY <1>3, <2>2, SlotBegins DEF Queue
      <3> QED BY <3>1, <3>2, <3>3, SameStore DEF ReadBySlot
    <2> QED BY <2>1, <2>2
  <1>4. CASE Crash(o)
    <2>1. op'[o] # Idle => /\ op'[o].snap = {} /\ op'[o].pc \in {"add", "byId"}
      BY <1>4, SlotCrashes
    <2> QED BY <1>2, <2>1 DEF ReadBySlot
  <1>5. ASSUME Shrinks, op'[o].snap \subseteq op[o].snap,
               op'[o].pc \notin {"drop", "dropAnchor", "write"}
        PROVE  ReadBySlot(op[o])'
    BY <1>1, <1>5 DEF ReadBySlot, Shrinks
  <1>6. CASE FindSameId(o) \/ FindSameHash(o)
    BY <1>5, <1>6, SlotFindsId, SlotFindsHash, SameStore DEF Kept, AfterId
  <1>7. CASE Replace(o)
    BY <1>5, <1>7, SlotReplaces, WithoutShrinks DEF AfterId, Kept
  <1>14. CASE DropAnchor(o)
    BY <1>5, <1>14, SlotGoesOn, WithoutShrinks DEF DropAnchor
  <1>8. CASE SearchSimilar(o) \/ MergeListed(o)
    <2>1. CASE op'[o].pc # "drop"
      <3>1. \/ op'[o] = Idle
            \/ /\ rec' = rec /\ op'[o].snap \subseteq op[o].snap
               /\ op'[o].pc \in {"add", "anchor"}
        BY <1>8, <2>1, SlotMerges DEF Kept
      <3> QED BY <1>2, <1>5, <3>1, SameStore
    <2>2. CASE op'[o].pc = "drop"
      <3>1. /\ rec' = rec /\ op'[o].snap \subseteq op[o].snap
            /\ \A i \in op'[o].group : rec[i].text \subseteq op'[o].mem.text
        BY <1>8, <2>2, SlotMerges, IdleIsEmpty
      <3>2. \/ op'[o].anchor = Absent
            \/ \E m \in op[o].snap : op'[o].anchor = m.id /\ m.text \subseteq op'[o].mem.text
        BY <1>1, <1>8, <2>2, SlotMerges, IdleIsEmpty DEF Staged, SearchSimilar
      <3>3. op'[o].anchor \in Visible => rec[op'[o].anchor].text \subseteq op'[o].mem.text
        BY <1>1, <3>2, AbsentAssumption DEF ReadBySlot, Visible
      <3> QED BY <1>1, <2>2, <3>1, <3>3, SameStore DEF ReadBySlot
    <2> QED BY <2>1, <2>2
  <1>9. CASE DropMerged(o)
    <2>1. Shrinks
      BY <1>9, SlotDrops, WithoutShrinks
    <2> QED BY <1>1, <1>9, <2>1, SlotDrops DEF ReadBySlot, Shrinks, Kept
  <1>10. CASE Stores(o)
    <2>1. /\ op[o].pc = "add" /\ op'[o].snap = op[o].snap /\ op'[o].mode = op[o].mode
          /\ op'[o].pc \in {"ack", "anchor"}
          /\ op'[o].pc = "anchor" => op[o].mode = "compact"
      BY <1>10, SlotAdds
    <2>2. \A m \in op[o].snap : m.id # op[o].mem.id
      BY <1>10, <2>1 DEF TypeInv, Proper, Fresh, Storing
    <2>3. Puts(o)
      BY <1>10, AddPuts
    <2>4. \A i \in Visible' : i # op[o].mem.id => i \in Visible /\ rec'[i].text = rec[i].text
      BY <2>3 DEF Puts, Visible
    <2> QED BY <1>1, <2>1, <2>2, <2>4 DEF ReadBySlot
  <1>11. CASE FindGroup(o) \/ SkipGroup(o) \/ RemoveDuplicates(o)
    BY <1>5, <1>11, SlotSweeps, SameStore, WithoutShrinks DEF Kept
  <1>12. CASE ListAll(o)
    <2>1. CASE op'[o] # Idle
      <3>1. rec' = rec /\ op'[o].pc = "anchor" /\ op'[o].snap = {Snapshot(i) : i \in Visible}
        BY <1>12, <2>1, SlotLists
      <3>2. \A m \in op'[o].snap : m.id \in Visible => rec[m.id].text = m.text
        BY <3>1 DEF Snapshot
      <3> QED BY <3>1, <3>2, SameStore DEF ReadBySlot
    <2> QED BY <1>2, <2>1
  <1>13. CASE TouchDuplicate(o) \/ TouchAccessed(o) \/ Write(o) \/ DeleteForgotten(o)
              \/ Ack(o) \/ Fail(o)
    BY <1>2, <1>13, SlotEnds
  <1> QED BY <1>3, <1>4, <1>6, <1>7, <1>8, <1>9, <1>10, <1>11, <1>12, <1>13, <1>14
          DEF Acts, Step, Stores

\* The vector of every record is that of its text.
LEMMA VectorsStep ==
    ASSUME TypeInv, AllStaged, AsRead, VectorTracksText, NEW o \in Ops, Acts(o)
    PROVE  VectorTracksText'
  <1>1. CASE rec' = rec
    BY <1>1 DEF VectorTracksText
  <1>2. ASSUME NEW ids, rec' = Without(ids) PROVE VectorTracksText'
    BY <1>2 DEF VectorTracksText, Without
  <1>3. ASSUME NEW i \in Ids, NEW pinning \in BOOLEAN, rec' = HSet(i, pinning)
        PROVE  VectorTracksText'
    <2>1. CASE rec[i] = Absent
      BY <1>3, <2>1 DEF HSet, Fragment, VectorTracksText, TypeInv, Stored
    <2>2. CASE rec[i] # Absent
      <3>1. rec[i] \in Records \cup Fragments /\ rec[i].vec = rec[i].text
        BY <2>2 DEF TypeInv, Stored, VectorTracksText
      <3>2. rec' = [rec EXCEPT ![i] = [rec[i] EXCEPT !.pin = rec[i].pin \/ pinning]]
        BY <1>3, <2>2 DEF HSet, TypeInv, Stored
      <3>3. rec'[i].vec = rec'[i].text
        BY <3>1, <3>2 DEF TypeInv, Stored, Records, Fragments
      <3> QED BY <3>2, <3>3 DEF TypeInv, Stored, VectorTracksText
    <2> QED BY <2>1, <2>2
  <1>4. CASE Stores(o)
    <2> DEFINE mem == op[o].mem
    <2>1. rec' = [rec EXCEPT ![mem.id] = [text |-> mem.text, vec |-> mem.text, pin |-> mem.pin,
                                          ses |-> mem.ses]]
      BY <1>4, SlotAdds
    <2> HIDE DEF mem
    <2> QED BY <2>1 DEF VectorTracksText, TypeInv, Stored
  <1>5. CASE Write(o)
    <2> DEFINE mem == op[o].mem
               vec == Embed(op[o].mode, mem.text, rec[mem.id])
    <2>1. rec' = [rec EXCEPT ![mem.id] = [text |-> mem.text, vec |-> vec, pin |-> mem.pin,
                                          ses |-> mem.ses]]
      BY <1>5 DEF Write
    <2>2. vec = mem.text
      <3>1. op[o].mode # "text" => /\ mem.id \in Ids /\ rec[mem.id] # Absent
                                   /\ rec[mem.id].text = mem.text
        BY <1>5 DEF Write, AsRead, ReadBySlot, Visible
      <3> QED BY <3>1 DEF Embed, VectorTracksText
    <2> HIDE DEF vec
    <2> QED BY <2>1, <2>2 DEF VectorTracksText, TypeInv, Stored
  <1> QED BY <1>1, <1>2, <1>3, <1>4, <1>5, StoreIs

-----------------------------------------------------------------------------
\* A fact is safe when a record states it that no sweep is about to delete, or when an
\* operation that cannot be interrupted will store it again.
HoldsMerged(o) == op[o].pc \in {"dropAnchor", "add"} /\ op[o].gone
Marked == UNION {op[o].group : o \in {q \in Ops : op[q].pc = "remove"}}
Safe(f) == \/ \E i \in Visible \ Marked : f \in rec[i].text
           \/ \E o \in Ops : HoldsMerged(o) /\ f \in op[o].mem.text
StoredIsSafe == \A i \in Visible : \A f \in rec[i].text : Safe(f)
TouchedIsSafe == \A o \in Ops : op[o].pc = "touch" => \A f \in op[o].mem.text : Safe(f)

\* What an operation holds and may yet drop is safe, or was submitted with it.
KnownIsSafe ==
    ~alone => \A o \in Ops :
      /\ op[o].mem # Absent /\ ~HoldsMerged(o) =>
           \A f \in op[o].mem.text : Safe(f) \/ (op[o].src # Absent /\ f \in op[o].src.text)
      /\ \A m \in op[o].snap : \A f \in m.text : Safe(f)

\* Two stages begin in one way each.
LEMMA Entered ==
    ASSUME TypeInv, DeletesFinish, AllStaged, NEW o \in Ops, Acts(o)
    PROVE  /\ op'[o].pc = "remove" => FindGroup(o)
           /\ op'[o].pc = "touch" => FindSameHash(o)
  <1>1. Idle.pc = "idle"
    BY IdleIsEmpty
  <1>2. CASE Start(o) \/ Crash(o)
    BY <1>1, <1>2, SlotBegins, SlotCrashes, FreeStarts
  <1>3. CASE FindSameId(o) \/ FindSameHash(o)
    BY <1>3, SlotFindsId, SlotFindsHash DEF AfterId
  <1>4. CASE SearchSimilar(o) \/ MergeListed(o)
    BY <1>1, <1>4, SlotMerges
  <1>5. CASE Replace(o) \/ DropAnchor(o)
    <2>1. op'[o].pc \in {"add", "byHash"}
      BY <1>5, SlotReplaces, SlotGoesOn DEF DropAnchor, AfterId
    <2> QED BY <2>1
  <1>6. CASE DropMerged(o) \/ Stores(o) \/ ListAll(o)
    BY <1>1, <1>6, SlotDrops, SlotAdds, SlotLists
  <1>7. CASE FindGroup(o) \/ SkipGroup(o) \/ RemoveDuplicates(o)
    BY <1>7, SlotSweeps
  <1>8. CASE TouchDuplicate(o) \/ TouchAccessed(o) \/ Write(o) \/ DeleteForgotten(o)
             \/ Ack(o) \/ Fail(o)
    BY <1>1, <1>8, SlotEnds
  <1> QED BY <1>2, <1>3, <1>4, <1>5, <1>6, <1>7, <1>8 DEF Acts, Step, Stores

LEMMA MarkedStays ==
    ASSUME TypeInv, DeletesFinish, AllStaged, NEW o \in Ops, Acts(o), ~FindGroup(o)
    PROVE  Marked' \subseteq UNION {op[q].group : q \in {p \in Ops \ {o} : op[p].pc = "remove"}}
  <1>1. \A q \in Ops \ {o} : op'[q] = op[q]
    BY OwnSlot DEF Acts
  <1> QED BY <1>1, Entered DEF Marked

\* A sweep that has found a group is about to delete from it.
LEMMA GroupIsFound ==
    ASSUME TypeInv, NEW o \in Ops, FindGroup(o)
    PROVE  op[o].pc = "group" /\ op'[o].pc = "remove" /\ rec' = rec
  BY DEF FindGroup, TypeInv, Slots

\* A sweep that keeps one of each group leaves safe what was stored.
LEMMA SweepIsSafe ==
    ASSUME TypeInv, OneSweep, NEW o \in Ops, FindGroup(o), NEW i \in Visible, NEW f \in rec[i].text
    PROVE  Safe(f)'
  <1>1. \A q \in Ops \ {o} : op'[q] = op[q]
    BY OwnSlot DEF Acts, Step
  <1>2. rec' = rec /\ op[o].pc = "group" /\ op'[o].pc = "remove"
    BY GroupIsFound
  <1>3. Marked' = op'[o].group
    <2>1. \A q \in Ops \ {o} : op'[q].pc # "remove"
      BY <1>1, <1>2 DEF OneSweep, Sweeping
    <2> QED BY <1>2, <2>1 DEF Marked
  <1>4. \E j \in Visible \ op'[o].group : f \in rec[j].text
    <2>1. CASE i \notin op'[o].group
      BY <2>1
    <2>2. CASE i \in op'[o].group
      <3>1. \E docs \in SUBSET Visible :
              /\ op'[o].group \in Doomed(docs)
              /\ \E t \in Texts, z \in Sessions : docs = SameHash(t, z)
        <4>1. op'[o].group # {}
          BY <2>2
        <4> QED BY <1>2, <4>1, SlotSweeps
      <3>4. PICK docs \in SUBSET Visible :
              /\ op'[o].group \in Doomed(docs)
              /\ \E t \in Texts, z \in Sessions : docs = SameHash(t, z)
        BY <3>1
      <3>2. \E j \in docs : j \notin op'[o].group
        BY <3>4 DEF Doomed
      <3>3. i \in docs
        BY <2>2, <3>4 DEF Doomed
      <3> QED BY <3>4, <3>2, <3>3 DEF SameHash
    <2> QED BY <2>1, <2>2
  <1>5. Visible' = Visible
    BY <1>2, SameStore
  <1> QED BY <1>2, <1>3, <1>4, <1>5 DEF Safe

\* What an operation has merged it stores: it goes on until it does.
LEMMA HeldStays ==
    ASSUME TypeInv, Orderly, NEW o \in Ops, Acts(o), NEW q \in Ops, HoldsMerged(q)
    PROVE  (HoldsMerged(q)' /\ op'[q].mem = op[q].mem) \/ (q = o /\ Stores(o))
  <1>1. CASE q # o
    BY <1>1, OwnSlot DEF Acts, HoldsMerged
  <1>2. CASE q = o
    <2>1. op[o].pc \in {"add", "dropAnchor"} /\ ~Fail(o) /\ ~Crash(o)
      BY <1>2 DEF HoldsMerged, Fail, Crash, Holds, Orderly
    <2>2. ~Start(o)
      BY <2>1, FreeStarts, IdleIsEmpty
    <2>3. Stores(o) \/ DropAnchor(o)
      BY <2>1, <2>2 DEF Stores, Acts, Step, FindSameId, Replace, FindSameHash, TouchDuplicate,
         SearchSimilar, DropMerged, Ack, FindGroup, RemoveDuplicates, SkipGroup, ListAll,
         MergeListed,
         Write, TouchAccessed, DeleteForgotten
    <2> QED BY <1>2, <2>3, SlotGoesOn DEF DropAnchor, HoldsMerged
  <1> QED BY <1>1, <1>2

\* Where operations overlap, a text that no sweep has marked stays, or goes into a record
\* that an operation holds.
LEMMA UnmarkedStays ==
    ASSUME TypeInv, Orderly, AllStaged, Apart, AsRead, ~alone, NEW o \in Ops, Acts(o),
           NEW i \in Visible \ Marked, NEW f \in rec[i].text
    PROVE  \/ i \in Visible' /\ rec'[i].text = rec[i].text
           \/ HoldsMerged(o)' /\ f \in op'[o].mem.text
  <1>1. i \in Ids /\ ~Bears(o, i)
    BY DEF Visible, Apart
  <1>2. CASE rec' = rec
    BY <1>2 DEF Visible
  <1>3. CASE Start(o)
    <2>1. CASE DeleteInvalid(o)
      <3>1. PICK j \in Ids \ Visible : rec' = Without({j})
        BY <2>1 DEF DeleteInvalid
      <3> QED BY <3>1, WithoutShrinks
    <2>2. CASE ~DeleteInvalid(o)
      BY <1>2, <1>3, <2>2, OverlapKindsOnly DEF Start, Marks, Create, Compact, Access
    <2> QED BY <2>1, <2>2
  <1>4. CASE DropMerged(o)
    <2>1. /\ op[o].pc = "drop" /\ Kept(o) /\ op'[o].mem = op[o].mem
          /\ op'[o].pc \in {"add", "dropAnchor"} /\ rec' = Without(op[o].group) /\ op'[o].gone
      BY <1>4, SlotDrops
    <2>2. HoldsMerged(o)'
      BY <2>1 DEF HoldsMerged, AllStaged, Staged, Kept
    <2>3. i \in op[o].group => f \in op[o].mem.text
      BY <2>1 DEF AsRead, ReadBySlot
    <2> QED BY <2>1, <2>2, <2>3, WithoutShrinks
  <1>5. CASE DropAnchor(o)
    <2>1. /\ op[o].pc = "dropAnchor" /\ Goto(o, "add") /\ rec' = Without({op[o].anchor})
      BY <1>5 DEF DropAnchor
    <2>2. HoldsMerged(o)' /\ op'[o].mem = op[o].mem
      BY <2>1, SlotGoesOn DEF HoldsMerged, AllStaged, Staged
    <2>3. i = op[o].anchor => f \in op[o].mem.text
      BY <2>1 DEF AsRead, ReadBySlot
    <2> QED BY <2>1, <2>2, <2>3, WithoutShrinks
  <1>6. CASE RemoveDuplicates(o)
    <2>1. rec' = Without(op[o].group) /\ i \notin op[o].group
      BY <1>6 DEF RemoveDuplicates, Marked
    <2> QED BY <2>1, WithoutShrinks
  <1>7. CASE Stores(o)
    <2>1. op[o].mem # Absent /\ Puts(o)
      BY <1>7, SlotAdds, AddPuts, AbsentAssumption
    <2>2. i # op[o].mem.id
      BY <1>1, <2>1 DEF Bears
    <2> QED BY <1>1, <2>1, <2>2 DEF Puts, Visible
  <1>8. ~Replace(o) /\ ~Write(o) /\ ~DeleteForgotten(o)
    BY DEF Replace, Write, DeleteForgotten, AllStaged, Staged
  <1>9. CASE TouchDuplicate(o) \/ TouchAccessed(o)
    <2>1. op[o].group \subseteq Ids
      BY DEF TypeInv, Slots
    <2>2. PICK j \in op[o].group, pinning \in BOOLEAN : rec' = HSet(j, pinning)
      BY <1>9 DEF TouchDuplicate, TouchAccessed
    <2> QED BY <2>1, <2>2, HSetShrinks
  <1>10. CASE FindSameId(o) \/ FindSameHash(o) \/ SearchSimilar(o) \/ FindGroup(o) \/ SkipGroup(o)
              \/ ListAll(o) \/ MergeListed(o) \/ Ack(o) \/ Fail(o) \/ Crash(o)
    BY <1>2, <1>10 DEF FindSameId, FindSameHash, SearchSimilar, FindGroup, SkipGroup, ListAll,
       MergeListed, Ack, Fail, Crash
  <1> QED BY <1>3, <1>4, <1>5, <1>6, <1>7, <1>8, <1>9, <1>10 DEF Acts, Step, Stores

LEMMA SafeStays ==
    ASSUME TypeInv, Orderly, AllStaged, OneSweep, Apart, AsRead, ~alone, NEW o \in Ops, Acts(o),
           NEW f, Safe(f)
    PROVE  Safe(f)'
  <1>1. ASSUME NEW q \in Ops, HoldsMerged(q), f \in op[q].mem.text PROVE Safe(f)'
    <2>1. CASE HoldsMerged(q)' /\ op'[q].mem = op[q].mem
      BY <1>1, <2>1 DEF Safe
    <2>2. CASE q = o /\ Stores(o)
      <3> DEFINE i == op[o].mem.id
      <3>1. op[o].mem \in Memories /\ op[o].mem # Absent /\ i \in Ids
        BY <2>2, SlotAdds, AbsentAssumption DEF Memories
      <3>2. i \in Visible' /\ f \in rec'[i].text
        BY <1>1, <2>2, AddPuts DEF Puts
      <3>3. \A p \in Ops : i \notin op[p].group
        BY <3>1 DEF Apart, Bears, Names
      <3>4. i \notin Marked'
        <4>1. ~FindGroup(o)
          BY <2>2, SlotAdds DEF FindGroup
        <4> QED BY <3>3, <4>1, MarkedStays DEF Orderly
      <3> QED BY <3>2, <3>4 DEF Safe
    <2> QED BY <1>1, <2>1, <2>2, HeldStays
  <1>2. ASSUME NEW i \in Visible \ Marked, f \in rec[i].text PROVE Safe(f)'
    <2>1. CASE FindGroup(o)
      BY <1>2, <2>1, SweepIsSafe
    <2>2. CASE ~FindGroup(o)
      <3>1. i \notin Marked'
        BY <2>2, MarkedStays DEF Marked, Orderly
      <3> QED BY <1>2, <3>1, UnmarkedStays DEF Safe
    <2> QED BY <2>1, <2>2
  <1> QED BY <1>1, <1>2 DEF Safe

LEMMA SafeStep ==
    ASSUME TypeInv, Orderly, OneByOne, AllStaged, OneSweep, Apart, AsRead,
           StoredIsSafe, TouchedIsSafe, NEW o \in Ops, Acts(o)
    PROVE  StoredIsSafe' /\ TouchedIsSafe'
  <1>1. ASSUME NEW i \in Visible', NEW f \in rec'[i].text PROVE Safe(f)'
    <2>1. CASE FindGroup(o)
      <3>1. rec' = rec
        BY <2>1 DEF FindGroup
      <3>2. i \in Visible /\ f \in rec[i].text
        BY <3>1, SameStore
      <3> QED BY <2>1, <3>2, SweepIsSafe
    <2>2. CASE ~FindGroup(o) /\ alone
      <3>1. \A q \in Ops \ {o} : op[q].pc # "remove"
        BY <2>2, OthersIdle, IdleIsEmpty DEF Acts
      <3>2. i \notin Marked'
        BY <2>2, <3>1, MarkedStays DEF Orderly
      <3> QED BY <3>2 DEF Safe
    <2>3. CASE ~alone /\ i \in Visible /\ rec'[i].text = rec[i].text
      BY <2>3, SafeStays DEF StoredIsSafe
    <2>4. CASE ~FindGroup(o) /\ ~alone /\ i \in Ids /\ Bears(o, i)
      <3>1. \A q \in Ops : i \notin op[q].group
        BY <2>4 DEF Apart, Names
      <3>2. i \notin Marked'
        BY <2>4, <3>1, MarkedStays DEF Orderly
      <3> QED BY <3>2 DEF Safe
    <2>5. i \in Ids
      BY DEF Visible
    <2> QED BY <2>1, <2>2, <2>3, <2>4, <2>5, BecomesVisible
  <1>2. ASSUME NEW q \in Ops, op'[q].pc = "touch", NEW f \in op'[q].mem.text PROVE Safe(f)'
    <2>1. CASE q = o
      <3>1. FindSameHash(o) /\ rec' = rec
        BY <1>2, <2>1, Entered DEF FindSameHash, Orderly
      <3>2. op'[o].mem = op[o].mem /\ SameHash(op[o].mem.text, op[o].mem.ses) # {}
        BY <1>2, <2>1, <3>1, SlotFindsHash
      <3>3. PICK i \in Visible : rec[i].text = op[o].mem.text
        BY <3>2 DEF SameHash
      <3>4. i \in Visible' /\ f \in rec'[i].text
        BY <1>2, <2>1, <3>1, <3>2, <3>3, SameStore
      <3> QED BY <1>1, <3>4
    <2>2. CASE q # o
      <3>1. op'[q] = op[q]
        BY <2>2, OwnSlot DEF Acts
      <3>2. ~alone
        BY <1>2, <2>2, OthersIdle, IdleIsEmpty DEF Acts
      <3> QED BY <1>2, <3>1, <3>2, SafeStays DEF TouchedIsSafe
    <2> QED BY <2>1, <2>2
  <1> QED BY <1>1, <1>2 DEF StoredIsSafe, TouchedIsSafe

LEMMA KnownStep ==
    ASSUME TypeInv, Orderly, AllStaged, OneSweep, Apart, AsRead, UNCHANGED alone,
           StoredIsSafe, KnownIsSafe, NEW o \in Ops, Acts(o)
    PROVE  KnownIsSafe'
  <1> SUFFICES ASSUME ~alone, NEW q \in Ops
               PROVE  /\ op'[q].mem # Absent /\ ~HoldsMerged(q)' =>
                           \A f \in op'[q].mem.text :
                             Safe(f)' \/ (op'[q].src # Absent /\ f \in op'[q].src.text)
                      /\ \A m \in op'[q].snap : \A f \in m.text : Safe(f)'
    BY DEF KnownIsSafe
  <1>1. /\ op[q].mem # Absent /\ ~HoldsMerged(q) =>
             \A f \in op[q].mem.text : Safe(f) \/ (op[q].src # Absent /\ f \in op[q].src.text)
        /\ \A m \in op[q].snap : \A f \in m.text : Safe(f)
    BY DEF KnownIsSafe
  <1>2. \A f : Safe(f) => Safe(f)'
    BY SafeStays
  <1>3. ASSUME op'[q].mem = op[q].mem, op'[q].src = op[q].src,
               HoldsMerged(q) => HoldsMerged(q)', op'[q].snap \subseteq op[q].snap
        PROVE  /\ op'[q].mem # Absent /\ ~HoldsMerged(q)' =>
                    \A f \in op'[q].mem.text :
                      Safe(f)' \/ (op'[q].src # Absent /\ f \in op'[q].src.text)
               /\ \A m \in op'[q].snap : \A f \in m.text : Safe(f)'
    BY <1>1, <1>2, <1>3
  <1>4. ASSUME op'[q].mem = Absent \/ op'[q].mem = op'[q].src,
               op'[q].snap \subseteq op[q].snap
        PROVE  /\ op'[q].mem # Absent /\ ~HoldsMerged(q)' =>
                    \A f \in op'[q].mem.text :
                      Safe(f)' \/ (op'[q].src # Absent /\ f \in op'[q].src.text)
               /\ \A m \in op'[q].snap : \A f \in m.text : Safe(f)'
    BY <1>1, <1>2, <1>4
  <1>5. CASE q # o
    <2>1. op'[q] = op[q]
      BY <1>5, OwnSlot DEF Acts
    <2> QED BY <1>3, <2>1 DEF HoldsMerged
  <1>6. CASE q = o /\ op'[o] = Idle
    BY <1>4, <1>6, IdleIsEmpty
  <1>7. CASE q = o /\ Start(o)
    <2>1. CASE op'[o] = op[o]
      BY <1>3, <1>7, <2>1 DEF HoldsMerged
    <2>2. CASE op'[o] # op[o]
      <3>1. op'[o].snap = {} /\ (op'[o].mem = op'[o].src \/ op'[o].mem = Absent)
        BY <1>7, <2>2, SlotBegins, OverlapKindsOnly
      <3> QED BY <1>4, <1>7, <3>1
    <2> QED BY <2>1, <2>2
  <1>8. CASE q = o /\ Crash(o)
    <2>1. \/ op'[o] = Idle
          \/ op'[o].mem = op'[o].src /\ op'[o].snap = {}
      BY <1>8, SlotCrashes
    <2> QED BY <1>4, <1>6, <1>8, <2>1
  <1>9. CASE q = o /\ FindSameId(o)
    <2>1. /\ op[o].pc = "byId" /\ op'[o].mem.text = op[o].mem.text /\ op[o].mem # Absent
          /\ op'[o].src = op[o].src /\ op'[o].snap = op[o].snap
      BY <1>9, SlotFindsId DEF Kept, TypeInv, Proper, Bearing
    <2>2. ~HoldsMerged(o)
      BY <2>1 DEF HoldsMerged
    <2> QED BY <1>1, <1>2, <1>9, <2>1, <2>2
  <1>10. CASE q = o /\ FindSameHash(o)
    <2>1. ~HoldsMerged(o)
      BY <1>10 DEF HoldsMerged, FindSameHash
    <2> QED BY <1>3, <1>10, <2>1, SlotFindsHash
  <1>11. CASE q = o /\ Replace(o)
    BY <1>11 DEF Replace, AllStaged, Staged
  <1>12. CASE q = o /\ (SearchSimilar(o) \/ MergeListed(o))
    <2>1. ~HoldsMerged(o)
      BY <1>12 DEF HoldsMerged, SearchSimilar, MergeListed
    <2>2. CASE op'[o].pc # "drop"
      <3>1. \/ op'[o] = Idle
            \/ /\ op'[o].mem = op[o].mem /\ op'[o].src = op[o].src
               /\ op'[o].snap \subseteq op[o].snap
        BY <1>12, <2>2, SlotMerges DEF Kept, Orderly
      <3> QED BY <1>3, <1>6, <1>12, <2>1, <3>1
    <2>3. CASE op'[o].pc = "drop"
      <3>1. /\ op'[o].snap \subseteq op[o].snap /\ op'[o].src = op[o].src
            /\ op'[o].group \subseteq Visible
        BY <1>12, <2>3, SlotMerges, IdleIsEmpty DEF Orderly
      <3>2. \/ /\ SearchSimilar(o)
               /\ \A f \in op'[o].mem.text :
                    f \in op[o].mem.text \/ \E i \in op'[o].group : f \in rec[i].text
            \/ \E m \in op[o].snap : \A f \in op'[o].mem.text :
                 f \in m.text \/ \E i \in op'[o].group : f \in rec[i].text
        BY <1>12, <2>3, SlotMerges, IdleIsEmpty DEF Orderly
      <3>3. \A i \in op'[o].group : \A f \in rec[i].text : Safe(f)
        BY <3>1 DEF StoredIsSafe
      <3>4. SearchSimilar(o) => op[o].mem # Absent
        BY DEF SearchSimilar, TypeInv, Proper, Bearing
      <3>5. \A f \in op'[o].mem.text : Safe(f) \/ (op[o].src # Absent /\ f \in op[o].src.text)
        BY <1>1, <1>12, <2>1, <3>2, <3>3, <3>4
      <3> QED BY <1>1, <1>2, <1>12, <3>1, <3>5
    <2> QED BY <2>2, <2>3
  <1>13. CASE q = o /\ DropMerged(o)
    <2>1. HoldsMerged(o)' /\ op'[o].snap = op[o].snap
      BY <1>13, SlotDrops DEF HoldsMerged, Kept
    <2> QED BY <1>1, <1>2, <1>13, <2>1
  <1>14. CASE q = o /\ DropAnchor(o)
    <2>1. op[o].pc = "dropAnchor" /\ Goto(o, "add")
      BY <1>14 DEF DropAnchor
    <2>2. HoldsMerged(o)' /\ op'[o].snap = op[o].snap
      BY <2>1, SlotGoesOn DEF HoldsMerged, AllStaged, Staged
    <2> QED BY <1>1, <1>2, <1>14, <2>2
  <1>15. CASE q = o /\ Stores(o)
    BY <1>4, <1>15, SlotAdds
  <1>16. CASE q = o /\ (FindGroup(o) \/ SkipGroup(o) \/ RemoveDuplicates(o))
    <2>1. /\ op[o].pc \in {"group", "remove"} /\ op'[o].mem = op[o].mem
          /\ op'[o].src = op[o].src /\ op'[o].snap = op[o].snap
      BY <1>16, SlotSweeps DEF Kept
    <2> QED BY <1>3, <1>16, <2>1 DEF HoldsMerged
  <1>17. CASE q = o /\ ListAll(o)
    <2>1. CASE op'[o] # Idle
      <3>1. /\ op[o].pc = "group" /\ op'[o].mem = op[o].mem
            /\ op'[o].snap = {Snapshot(i) : i \in Visible}
        BY <1>17, <2>1, SlotLists
      <3>2. op[o].mem = Absent
        BY <3>1 DEF AllStaged, Staged, Bearing
      <3>3. \A m \in op'[o].snap : \A f \in m.text : Safe(f)
        BY <3>1 DEF StoredIsSafe, Snapshot
      <3> QED BY <1>2, <1>17, <3>1, <3>2, <3>3
    <2> QED BY <1>6, <1>17, <2>1
  <1>18. CASE q = o /\ (TouchDuplicate(o) \/ TouchAccessed(o) \/ Write(o) \/ DeleteForgotten(o)
                        \/ Ack(o) \/ Fail(o))
    BY <1>6, <1>18, SlotEnds
  <1> QED BY <1>5, <1>7, <1>8, <1>9, <1>10, <1>11, <1>12, <1>13, <1>14, <1>15, <1>16, <1>17, <1>18
          DEF Acts, Step, Stores

-----------------------------------------------------------------------------
\* What is stated, by the records that are visible and by the operations.
InStore(f) == \E i \in Visible : f \in rec[i].text
OnItsWay(o, f) == op[o].mem # Absent /\ f \in op[o].mem.text
Says(f) == InStore(f) \/ \E o \in Ops : OnItsWay(o, f)

LEMMA StatedIs ==
    ASSUME NEW f
    PROVE  /\ f \in Stated(rec, op) <=> Says(f)
           /\ f \in Stated(rec', op') <=> Says(f)'
  <1>1. ASSUME NEW r, NEW p
        PROVE  f \in Stated(r, p) <=> \/ \E i \in Ids : r[i] # Absent /\ f \in r[i].text
                                      \/ \E o \in Ops : p[o].mem # Absent /\ f \in p[o].mem.text
    <2> DEFINE R == {[text |-> r[i].text, pin |-> r[i].pin] : i \in {j \in Ids : r[j] # Absent}}
               P == {[text |-> p[o].mem.text, pin |-> p[o].mem.pin] :
                       o \in {q \in Ops : p[q].mem # Absent}}
    <2>1. (\E c \in R : f \in c.text) <=> \E i \in Ids : r[i] # Absent /\ f \in r[i].text
      <3>1. ASSUME NEW c \in R, f \in c.text
            PROVE  \E i \in Ids : r[i] # Absent /\ f \in r[i].text
        <4>1. PICK i \in {j \in Ids : r[j] # Absent} : c = [text |-> r[i].text, pin |-> r[i].pin]
          OBVIOUS
        <4> QED BY <3>1, <4>1
      <3>2. ASSUME NEW i \in Ids, r[i] # Absent, f \in r[i].text PROVE \E c \in R : f \in c.text
        <4>1. [text |-> r[i].text, pin |-> r[i].pin] \in R
          BY <3>2
        <4> HIDE DEF R
        <4> QED BY <3>2, <4>1
      <3> QED BY <3>1, <3>2
    <2>2. (\E c \in P : f \in c.text) <=> \E o \in Ops : p[o].mem # Absent /\ f \in p[o].mem.text
      <3>1. ASSUME NEW c \in P, f \in c.text
            PROVE  \E o \in Ops : p[o].mem # Absent /\ f \in p[o].mem.text
        <4>1. PICK o \in {q \in Ops : p[q].mem # Absent} :
                c = [text |-> p[o].mem.text, pin |-> p[o].mem.pin]
          OBVIOUS
        <4> QED BY <3>1, <4>1
      <3>2. ASSUME NEW o \in Ops, p[o].mem # Absent, f \in p[o].mem.text
            PROVE  \E c \in P : f \in c.text
        <4>1. [text |-> p[o].mem.text, pin |-> p[o].mem.pin] \in P
          BY <3>2
        <4> HIDE DEF P
        <4> QED BY <3>2, <4>1
      <3> QED BY <3>1, <3>2
    <2>3. f \in Stated(r, p) <=> (\E c \in R : f \in c.text) \/ (\E c \in P : f \in c.text)
      <3>1. Carried(r, p) = R \cup P
        BY DEF Carried
      <3> HIDE DEF R, P
      <3> QED BY <3>1 DEF Stated
    <2> HIDE DEF R, P
    <2> QED BY <2>1, <2>2, <2>3
  <1> QED BY <1>1 DEF Says, InStore, OnItsWay, Visible

\* The steps by which clients take something back, or a policy forgets it.
Released(o) ==
    LET mem == op[o].mem
    IN  \/ Delete(o) \/ DeleteForgotten(o)
        \/ Replace(o) /\ Overwrites(mem)
        \/ Add(o) /\ (op[o].mode = "none" \/ Overwrites(mem))
        \/ Write(o) /\ op[o].mode = "text"

\* A step keeps the texts of the store, or has an operation carry them.
LEMMA StoreStays ==
    ASSUME TypeInv, Orderly, OneByOne, AllStaged, Apart, Fresh, AsRead, StoredIsSafe,
           NEW o \in Ops, Acts(o), NEW i \in Visible, NEW f \in rec[i].text
    PROVE  Says(f)' \/ Released(o)
  <1>1. CASE i \in Visible' /\ rec'[i].text = rec[i].text
    BY <1>1 DEF Says, InStore
  <1>2. CASE rec' = rec
    BY <1>1, <1>2, SameStore
  <1>3. CASE DeleteInvalid(o)
    <2>1. PICK j \in Ids \ Visible : rec' = Without({j})
      BY <1>3 DEF DeleteInvalid
    <2> QED BY <1>1, <2>1, WithoutShrinks
  <1>4. CASE Replace(o) /\ ~Overwrites(op[o].mem)
    <2>1. /\ rec' = Without({op[o].mem.id}) /\ op'[o].mem = op[o].mem /\ op[o].mem # Absent
      BY <1>4, SlotReplaces DEF TypeInv, Proper, Bearing
    <2>2. i = op[o].mem.id => OnItsWay(o, f)'
      BY <1>4, <2>1 DEF OnItsWay, Visible, Overwrites
    <2> QED BY <1>1, <2>1, <2>2, WithoutShrinks DEF Says
  <1>5. CASE DropMerged(o) \/ DropAnchor(o)
    <2>1. PICK ids : /\ rec' = Without(ids) /\ op'[o].mem = op[o].mem /\ op[o].mem # Absent
                     /\ i \in ids => f \in op[o].mem.text
      <3>1. CASE DropMerged(o)
        <4>1. op[o].pc = "drop" /\ rec' = Without(op[o].group) /\ op'[o].mem = op[o].mem
          BY <3>1, SlotDrops
        <4> QED BY <4>1 DEF TypeInv, Proper, Bearing, AsRead, ReadBySlot
      <3>2. CASE DropAnchor(o)
        <4>1. /\ op[o].pc = "dropAnchor" /\ rec' = Without({op[o].anchor})
              /\ op'[o].mem = op[o].mem
          BY <3>2, SlotGoesOn DEF DropAnchor
        <4> QED BY <4>1 DEF TypeInv, Proper, Bearing, AsRead, ReadBySlot
      <3> QED BY <1>5, <3>1, <3>2
    <2> QED BY <1>1, <2>1, WithoutShrinks DEF Says, OnItsWay
  <1>6. CASE RemoveDuplicates(o)
    <2>1. rec' = Without(op[o].group) /\ op[o].group \subseteq Marked /\ op[o].pc = "remove"
      BY <1>6 DEF RemoveDuplicates, Marked
    <2>2. CASE \E j \in Visible \ Marked : f \in rec[j].text
      BY <2>1, <2>2, WithoutShrinks DEF Says, InStore
    <2>3. CASE \E q \in Ops : HoldsMerged(q) /\ f \in op[q].mem.text
      <3>1. PICK q \in Ops : HoldsMerged(q) /\ f \in op[q].mem.text
        BY <2>3
      <3>2. ~Stores(o) /\ op[q].mem # Absent
        BY <1>6, <3>1 DEF RemoveDuplicates, Stores, Add, AddMerged, HoldsMerged, TypeInv, Proper,
           Bearing
      <3>3. op'[q].mem = op[q].mem
        BY <3>1, <3>2, HeldStays
      <3> QED BY <3>1, <3>2, <3>3 DEF Says, OnItsWay
    <2> QED BY <2>2, <2>3 DEF StoredIsSafe, Safe
  <1>7. CASE Add(o) /\ ~Overwrites(op[o].mem)
    <2>1. Puts(o) /\ i \in Ids
      BY <1>7, AddPuts DEF Stores, Visible
    <2>2. i = op[o].mem.id => rec[i].text = op[o].mem.text
      BY <1>7 DEF Overwrites, Visible
    <2> QED BY <1>1, <2>1, <2>2 DEF Puts, Visible
  <1>12. CASE AddMerged(o)
    <2>1. op[o].pc = "add" /\ op[o].mode = "compact"
      BY <1>12 DEF AddMerged
    <2>2. i # op[o].mem.id /\ i \in Ids
      BY <2>1 DEF Fresh, Storing, Visible
    <2>3. Puts(o)
      BY <1>12, AddPuts DEF Stores
    <2> QED BY <1>1, <2>2, <2>3 DEF Puts, Visible
  <1>8. CASE Write(o) /\ op[o].mode # "text"
    <2>1. Puts(o) /\ i \in Ids /\ op[o].pc = "write"
      BY <1>8, WritePuts DEF Visible, Write
    <2>2. rec[op[o].mem.id].text = op[o].mem.text
      BY <1>8, <2>1 DEF AsRead, ReadBySlot
    <2> QED BY <1>1, <2>1, <2>2 DEF Puts, Visible
  <1>9. CASE TouchDuplicate(o) \/ TouchAccessed(o)
    <2>1. op[o].group \subseteq Ids
      BY DEF TypeInv, Slots
    <2>2. PICK j \in op[o].group, pinning \in BOOLEAN : rec' = HSet(j, pinning)
      BY <1>9 DEF TouchDuplicate, TouchAccessed
    <2> QED BY <1>1, <2>1, <2>2, HSetShrinks
  <1>10. CASE Create(o) \/ Compact(o) \/ Patch(o) \/ Marks(o) \/ Access(o) \/ Forget(o)
              \/ Fail(o) \/ Crash(o)
    BY <1>2, <1>10 DEF Create, Compact, Patch, Marks, MarkQueued, MarkListed, Access, Forget,
       Fail, Crash
  <1>11. CASE FindSameId(o) \/ FindSameHash(o) \/ SearchSimilar(o) \/ FindGroup(o) \/ SkipGroup(o)
              \/ ListAll(o) \/ MergeListed(o) \/ Ack(o)
    BY <1>2, <1>11 DEF FindSameId, FindSameHash, SearchSimilar, FindGroup, SkipGroup, ListAll,
       MergeListed, Ack
  <1> QED BY <1>3, <1>4, <1>5, <1>6, <1>7, <1>8, <1>9, <1>10, <1>11, <1>12
          DEF Acts, Start, Step, Released, Marks

\* A step keeps what an operation carries, or stores it.
LEMMA CarriedStays ==
    ASSUME TypeInv, Orderly, OneByOne, AllStaged, Apart, Fresh, AsRead, TouchedIsSafe,
           KnownIsSafe, NEW o \in Ops, Acts(o), NEW q \in Ops, NEW f, OnItsWay(q, f)
    PROVE  Says(f)' \/ Fail(o)
  <1>1. CASE op'[q].mem = op[q].mem
    BY <1>1 DEF Says, OnItsWay
  <1>2. CASE q # o
    BY <1>1, <1>2, OwnSlot DEF Acts
  <1>3. op[o].pc \notin Bearing => op[o].mem = Absent
    BY DEF AllStaged, Staged
  <1>4. CASE q = o /\ Start(o)
    BY <1>4, FreeStarts, IdleIsEmpty DEF OnItsWay
  <1>5. CASE q = o /\ FindSameId(o)
    <2>1. op'[o].mem.text = op[o].mem.text /\ op'[o].mem # Absent
      BY <1>5, SlotFindsId, AbsentAssumption
    <2> QED BY <1>5, <2>1 DEF Says, OnItsWay
  <1>6. CASE q = o /\ (Replace(o) \/ DropAnchor(o))
    BY <1>1, <1>6, SlotReplaces, SlotGoesOn DEF DropAnchor
  <1>7. CASE q = o /\ FindSameHash(o)
    BY <1>1, <1>7, SlotFindsHash
  <1>8. CASE q = o /\ SearchSimilar(o)
    <2>1. \/ op'[o].mem = op[o].mem
          \/ op'[o].mem # Absent /\ op[o].mem.text \subseteq op'[o].mem.text
      BY <1>8, SlotMerges DEF SearchSimilar, MergeListed, Orderly
    <2> QED BY <1>1, <1>8, <2>1 DEF Says, OnItsWay
  <1>9. CASE q = o /\ DropMerged(o)
    BY <1>1, <1>9, SlotDrops
  <1>10. CASE q = o /\ (Stores(o) \/ Write(o))
    <2>1. Puts(o)
      BY <1>10, AddPuts, WritePuts
    <2> QED BY <1>10, <2>1 DEF Says, InStore, OnItsWay, Puts
  <1>11. CASE q = o /\ TouchDuplicate(o)
    <2>1. op[o].pc = "touch" /\ Safe(f)
      BY <1>11 DEF TouchDuplicate, TouchedIsSafe, OnItsWay
    <2>2. CASE \E i \in Visible \ Marked : f \in rec[i].text
      <3>1. op[o].group \subseteq Ids
        BY DEF TypeInv, Slots
      <3>2. PICK j \in op[o].group, pinning \in BOOLEAN : rec' = HSet(j, pinning)
        BY <1>11 DEF TouchDuplicate
      <3> QED BY <2>2, <3>1, <3>2, HSetShrinks DEF Says, InStore
    <2>3. CASE \E p \in Ops : HoldsMerged(p) /\ f \in op[p].mem.text
      <3>1. PICK p \in Ops : HoldsMerged(p) /\ f \in op[p].mem.text
        BY <2>3
      <3>2. ~Stores(o) /\ op[p].mem # Absent
        BY <1>11, <3>1 DEF TouchDuplicate, Stores, Add, AddMerged, HoldsMerged, TypeInv, Proper,
           Bearing
      <3>3. op'[p].mem = op[p].mem
        BY <3>1, <3>2, HeldStays
      <3> QED BY <3>1, <3>2, <3>3 DEF Says, OnItsWay
    <2> QED BY <2>1, <2>2, <2>3 DEF Safe
  <1>12. CASE q = o /\ (FindGroup(o) \/ RemoveDuplicates(o) \/ SkipGroup(o) \/ ListAll(o)
                        \/ MergeListed(o) \/ TouchAccessed(o) \/ DeleteForgotten(o)
                        \/ Ack(o))
    <2>1. op[o].pc \notin Bearing
      BY <1>12 DEF FindGroup, RemoveDuplicates, SkipGroup, ListAll, MergeListed, TouchAccessed,
         DeleteForgotten, Ack, Bearing
    <2> QED BY <1>3, <1>12, <2>1 DEF OnItsWay
  <1>13. CASE q = o /\ Crash(o)
    <2>1. ~alone /\ rec' = rec /\ ~HoldsMerged(o)
      BY <1>13 DEF Crash, HoldsMerged, Holds, Orderly
    <2>2. op[o].mem # Absent /\ f \in op[o].mem.text
      BY <1>13 DEF OnItsWay
    <2>3. CASE op[o].src # Absent /\ f \in op[o].src.text
      <3>1. op'[o].mem = op[o].src
        BY <1>13, <2>3, SlotCrashes
      <3> QED BY <2>3, <3>1 DEF Says, OnItsWay
    <2>4. CASE \E i \in Visible : f \in rec[i].text
      BY <2>1, <2>4, SameStore DEF Says, InStore
    <2>5. CASE \E p \in Ops : HoldsMerged(p) /\ f \in op[p].mem.text
      <3>1. PICK p \in Ops : HoldsMerged(p) /\ f \in op[p].mem.text
        BY <2>5
      <3>2. p # o /\ op[p].mem # Absent
        BY <2>1, <3>1 DEF HoldsMerged, TypeInv, Proper, Bearing
      <3>3. op'[p] = op[p]
        BY <3>2, OwnSlot DEF Acts
      <3> QED BY <3>1, <3>2, <3>3 DEF Says, OnItsWay
    <2>6. Safe(f) \/ (op[o].src # Absent /\ f \in op[o].src.text)
      BY <2>1, <2>2 DEF KnownIsSafe
    <2> QED BY <2>3, <2>4, <2>5, <2>6 DEF Safe
  <1> QED BY <1>2, <1>4, <1>5, <1>6, <1>7, <1>8, <1>9, <1>10, <1>11, <1>12, <1>13
          DEF Acts, Step, Stores

\* What is owed after a step was owed before it, or is stated after it.
LEMMA OwedStays ==
    ASSUME TypeInv, DeletesFinish, NEW o \in Ops, Acts(o), NEW f \in owed'
    PROVE  \/ f \in Stated(rec', op') \/ Says(f)'
           \/ f \in owed /\ ~Released(o) /\ ~Fail(o)
  <1>1. CASE Delete(o) \/ Fail(o)
    BY <1>1 DEF Delete, Fail, Holds, Release
  <1>2. CASE DeleteForgotten(o)
    BY <1>2 DEF DeleteForgotten
  <1>3. CASE Replace(o) /\ Overwrites(op[o].mem)
    BY <1>3 DEF Replace, Release
  <1>4. CASE Add(o) /\ (op[o].mode = "none" \/ Overwrites(op[o].mem))
    BY <1>4 DEF Add, Release
  <1>5. CASE Write(o) /\ op[o].mode = "text"
    BY <1>5 DEF Write
  <1>6. CASE Create(o)
    <2>1. op'[o].mem # Absent /\ owed' = owed \cup op'[o].mem.text
      <3>1. PICK mode \in {"full", "summary", "none"}, mem \in Submissions :
              /\ Set(o, [Idle EXCEPT !.pc = IF mode = "none" THEN "add" ELSE "byId",
                                     !.mode = mode, !.mem = mem, !.src = mem])
              /\ owed' = owed \cup mem.text
        BY <1>6 DEF Create
      <3>2. op'[o] = [Idle EXCEPT !.pc = IF mode = "none" THEN "add" ELSE "byId",
                                  !.mode = mode, !.mem = mem, !.src = mem]
        BY <3>1 DEF Set, TypeInv
      <3>3. op'[o].mem = mem /\ mem \in Memories
        BY <3>2 DEF Idle, Submissions
      <3> QED BY <3>1, <3>3, AbsentAssumption
    <2>2. CASE f \in op'[o].mem.text
      BY <2>1, <2>2 DEF Says, OnItsWay
    <2>3. CASE f \in owed
      <3>1. op[o] = Idle /\ op'[o] # op[o]
        BY <1>6, <2>1, FreeStarts, IdleIsEmpty DEF Start
      <3>2. ~Delete(o)
        BY <3>1 DEF Delete
      <3>3. ~DeleteForgotten(o) /\ ~Replace(o) /\ ~Add(o) /\ ~Write(o)
        BY <3>1, IdleIsEmpty DEF DeleteForgotten, Replace, Add, Write
      <3>4. ~Released(o)
        BY <3>2, <3>3 DEF Released
      <3> QED BY <1>1, <2>3, <3>4
    <2> QED BY <2>1, <2>2, <2>3
  <1>7. CASE ~Released(o) /\ ~Fail(o) /\ ~Create(o)
    <2>1. ~Delete(o) /\ ~DeleteForgotten(o)
      BY <1>7 DEF Released
    <2>2. Add(o) => owed' = owed
      BY <1>7 DEF Released, Add
    <2>3. Write(o) => owed' = owed
      BY <1>7 DEF Released, Write
    <2>4. Replace(o) => owed' = owed
      BY <1>7 DEF Released, Replace
    <2>5. Start(o) => owed' = owed
      BY <1>7, <2>1 DEF Start, Compact, Patch, MarkQueued, MarkListed, Access, Forget,
         DeleteInvalid
    <2>6. Step(o) /\ ~Add(o) /\ ~Write(o) /\ ~Replace(o) => owed' = owed
      BY <1>7, <2>1 DEF Step, FindSameId, FindSameHash, TouchDuplicate, SearchSimilar, DropMerged,
         Ack, AddMerged, FindGroup, RemoveDuplicates, SkipGroup, ListAll, MergeListed, DropAnchor,
         TouchAccessed
    <2>7. Crash(o) => owed' = owed
      BY DEF Crash
    <2> QED BY <1>7, <2>2, <2>3, <2>4, <2>5, <2>6, <2>7 DEF Acts
  <1> QED BY <1>1, <1>2, <1>3, <1>4, <1>5, <1>6, <1>7 DEF Released

LEMMA NothingLostStep ==
    ASSUME TypeInv, Orderly, OneByOne, AllStaged, Apart, Fresh, AsRead, StoredIsSafe,
           TouchedIsSafe, KnownIsSafe, NothingLost, NEW o \in Ops, Acts(o)
    PROVE  NothingLost'
  <1> SUFFICES ASSUME NEW f \in owed' PROVE f \in Stated(rec', op')
    BY DEF NothingLost
  <1>1. CASE f \in owed /\ ~Released(o) /\ ~Fail(o)
    <2>1. InStore(f) \/ \E q \in Ops : OnItsWay(q, f)
      BY <1>1, StatedIs DEF NothingLost, Says
    <2>2. InStore(f) => Says(f)'
      BY <1>1, StoreStays DEF InStore
    <2>3. (\E q \in Ops : OnItsWay(q, f)) => Says(f)'
      BY <1>1, CarriedStays
    <2> QED BY <2>1, <2>2, <2>3, StatedIs
  <1> QED BY <1>1, OwedStays, StatedIs DEF Orderly

-----------------------------------------------------------------------------
SafetyInv == /\ TypeInv /\ OneByOne /\ AllStaged /\ OneSweep /\ Apart /\ Fresh /\ AsRead
             /\ Queue /\ StoredIsSafe /\ TouchedIsSafe /\ KnownIsSafe
             /\ NothingLost /\ VectorTracksText

LEMMA SafetyInitHolds == Init => SafetyInv
  <1> SUFFICES ASSUME Init PROVE SafetyInv
    OBVIOUS
  <1>1. TypeInv /\ (\A o \in Ops : op[o] = Idle) /\ Visible = {} /\ owed = {}
    BY TypeInitHolds DEF Init, Visible
  <1>5. Queue
    BY DEF Init, Queue
  <1>6. KnownIsSafe
    BY <1>1, IdleIsEmpty DEF KnownIsSafe
  <1>2. \A i \in Ids : rec[i] = Absent
    BY DEF Init
  <1>3. OneByOne /\ AllStaged /\ OneSweep /\ Fresh /\ AsRead /\ Apart
    <2>1. AllStaged /\ OneSweep /\ Fresh
      BY <1>1, IdleIsEmpty DEF AllStaged, OneSweep, Sweeping, Fresh, Storing
    <2>2. OneByOne /\ AsRead /\ Apart
      BY <1>1, IdleIsEmpty, AbsentAssumption DEF OneByOne, AsRead, ReadBySlot, Apart, Bears
    <2> QED BY <2>1, <2>2
  <1>4. StoredIsSafe /\ TouchedIsSafe /\ NothingLost /\ VectorTracksText
    BY <1>1, <1>2, IdleIsEmpty DEF StoredIsSafe, TouchedIsSafe, NothingLost, VectorTracksText
  <1> QED BY <1>1, <1>3, <1>4, <1>5, <1>6 DEF SafetyInv

LEMMA SafetyStep == Orderly /\ SafetyInv /\ [Next]_vars => SafetyInv'
  <1> SUFFICES ASSUME Orderly, SafetyInv, [Next]_vars PROVE SafetyInv'
    OBVIOUS
  <1>1. TypeInv'
    BY TypeStep DEF SafetyInv
  <1>2. CASE UNCHANGED vars
    <2>1. rec' = rec /\ op' = op /\ alone' = alone /\ owed' = owed /\ queued' = queued
      BY <1>2 DEF vars, alone
    <2>2. OneByOne' /\ AllStaged' /\ OneSweep' /\ Apart' /\ Fresh' /\ AsRead'
      BY <2>1 DEF SafetyInv, OneByOne, AllStaged, Staged, OneSweep, Apart, Bears, Names, Fresh,
         AsRead, ReadBySlot, Found, Visible
    <2>3. StoredIsSafe' /\ TouchedIsSafe' /\ KnownIsSafe'
      <3>1. \A f : Safe(f)' <=> Safe(f)
        BY <2>1 DEF Safe, Marked, HoldsMerged, Visible
      <3> QED BY <2>1, <3>1 DEF SafetyInv, StoredIsSafe, TouchedIsSafe, KnownIsSafe, HoldsMerged,
                 Visible
    <2>6. Queue'
      BY <2>1 DEF SafetyInv, Queue, Waits, Visible
    <2>4. NothingLost' /\ VectorTracksText'
      BY <2>1 DEF SafetyInv, NothingLost, VectorTracksText
    <2> QED BY <1>1, <2>2, <2>3, <2>4, <2>6 DEF SafetyInv
  <1>3. CASE \E o \in Ops : Acts(o) /\ UNCHANGED <<merging, together>>
    <2>1. PICK o \in Ops : Acts(o) /\ UNCHANGED alone
      BY <1>3 DEF alone
    <2>6. DeletesFinish
      BY DEF Orderly
    <2>2. OneByOne'
      BY <2>1, OneByOneStep DEF SafetyInv, Acts
    <2>3. AllStaged' /\ OneSweep' /\ Apart' /\ Fresh' /\ AsRead'
      BY <2>1, <2>6, StagedStep, SweepStep, ApartStep, FreshStep, AsReadStep DEF SafetyInv
    <2>4. StoredIsSafe' /\ TouchedIsSafe' /\ KnownIsSafe' /\ Queue'
      BY <2>1, <2>6, SafeStep, KnownStep, QueueStep DEF SafetyInv
    <2>5. NothingLost' /\ VectorTracksText'
      BY <2>1, NothingLostStep, VectorsStep DEF SafetyInv
    <2> QED BY <1>1, <2>2, <2>3, <2>4, <2>5 DEF SafetyInv
  <1> QED BY <1>2, <1>3 DEF Next, Acts

\* Deduplication, compaction, overwriting and crashes lose no fact that clients submitted, as
\* long as operations that overlap only create, compact, read and clean up, one compaction
\* at a time, no task that is done is delivered again, and what an operation deleted in order
\* to store it anew it does store.
THEOREM NothingIsLost == ASSUME Orderly PROVE Spec => []NothingLost
  <1>1. Init => SafetyInv
    BY SafetyInitHolds
  <1>2. SafetyInv /\ [Next]_vars => SafetyInv'
    BY SafetyStep
  <1>3. SafetyInv => NothingLost
    BY DEF SafetyInv
  <1> QED BY <1>1, <1>2, <1>3, PTL DEF Spec

\* Under the same assumptions the vector that searches use is the one of the text stored.
THEOREM VectorsTrackTexts == ASSUME Orderly PROVE Spec => []VectorTracksText
  <1>1. Init => SafetyInv
    BY SafetyInitHolds
  <1>2. SafetyInv /\ [Next]_vars => SafetyInv'
    BY SafetyStep
  <1>3. SafetyInv => VectorTracksText
    BY DEF SafetyInv
  <1> QED BY <1>1, <1>2, <1>3, PTL DEF Spec

-----------------------------------------------------------------------------
(***************************************************************************)
(* Pins are kept, when operations come one at a time.                      *)
(***************************************************************************)

\* What an operation has read of pins, which nothing changes beside it.
PinsBySlot(p) ==
    /\ p.pc = "replace" /\ p.mem.id \in Visible /\ rec[p.mem.id].pin => p.mem.pin
    /\ p.pc = "touch" => \A i \in p.group :
                           /\ i \in Visible /\ rec[i].text = p.mem.text
                           /\ p.mem.pin => rec[i].pin \/ p.mode = "pinning"
    /\ p.pc \in {"drop", "remove", "forget"} => \A i \in p.group \cap Visible : ~rec[i].pin
    /\ p.pc \in {"drop", "dropAnchor"} /\ p.anchor \in Visible => ~rec[p.anchor].pin
    /\ \A m \in p.snap : m.id \in Visible => rec[m.id].pin = m.pin
PinsRead == \A o \in Ops : PinsBySlot(op[o])

LEMMA WithoutSame ==
    ASSUME NEW ids, rec' = Without(ids), NEW i \in Visible' PROVE i \in Visible /\ rec'[i] = rec[i]
  BY DEF Visible, Without

LEMMA HSetPins ==
    ASSUME TypeInv, NEW i \in Visible, NEW pinning \in BOOLEAN, rec' = HSet(i, pinning)
    PROVE  /\ pinning => rec'[i].pin
           /\ \A j \in Visible : rec[j].pin => rec'[j].pin
  <1>1. rec[i] \in Records /\ DOMAIN rec = Ids /\ rec[i] # Absent
    BY VisibleIsWhole DEF TypeInv, Stored, Visible
  <1>2. rec' = [rec EXCEPT ![i] = [rec[i] EXCEPT !.pin = rec[i].pin \/ pinning]]
    BY <1>1 DEF HSet
  <1>3. rec'[i].pin = (rec[i].pin \/ pinning)
    BY <1>1, <1>2 DEF Records, Visible
  <1>4. \A j \in Visible \ {i} : rec'[j] = rec[j]
    BY <1>1, <1>2 DEF Visible
  <1> QED BY <1>3, <1>4

LEMMA PinsReadStep ==
    ASSUME TypeInv, DeletesFinish, alone, OneByOne, AllStaged, Fresh, PinsRead,
           NEW o \in Ops, Acts(o)
    PROVE  PinsRead'
  <1> SUFFICES PinsBySlot(op[o])'
    <2>1. \A q \in Ops \ {o} : op'[q] = Idle
      BY OthersIdle DEF Acts
    <2>2. \A q \in Ops \ {o} : PinsBySlot(op[q])'
      BY <2>1, IdleIsEmpty DEF PinsBySlot
    <2> QED BY <2>2 DEF PinsRead
  <1>1. PinsBySlot(op[o]) /\ Staged(op[o])
    BY DEF PinsRead, AllStaged
  <1>2. CASE op'[o] = Idle
    BY <1>2, IdleIsEmpty DEF PinsBySlot
  <1>3. CASE Start(o)
    <2>1. CASE op'[o] = op[o]
      BY <1>2, <1>3, <2>1, FreeStarts
    <2>2. CASE op'[o] # op[o]
      <3>1. /\ rec' = rec /\ op'[o].snap = {}
            /\ op'[o].pc \in {"add", "byId", "group", "write", "access", "forget"}
            /\ op'[o].pc = "forget" => op'[o].group \subseteq Unpinned
        BY <1>3, <2>2, SlotBegins
      <3> QED BY <3>1, SameStore DEF PinsBySlot, Unpinned
    <2> QED BY <2>1, <2>2
  <1>4. ASSUME \A i \in Visible' : i \in Visible /\ rec'[i] = rec[i],
               op'[o].snap \subseteq op[o].snap,
               op'[o].pc \in {"add", "byHash", "search", "group", "anchor", "ack"}
        PROVE  PinsBySlot(op[o])'
    BY <1>1, <1>4 DEF PinsBySlot
  <1>5. rec' = rec => \A i \in Visible' : i \in Visible /\ rec'[i] = rec[i]
    BY SameStore
  <1>6. CASE FindSameId(o)
    <2>1. CASE Found(op[o].mem)
      <3>1. /\ op'[o].pc = "replace" /\ op'[o].snap = op[o].snap /\ rec' = rec
            /\ op'[o].mem.id = op[o].mem.id
            /\ rec[op[o].mem.id].pin => op'[o].mem.pin
        BY <1>6, <2>1, SlotFindsId DEF Kept, Found
      <3> QED BY <1>1, <3>1, SameStore DEF PinsBySlot
    <2>2. CASE ~Found(op[o].mem)
      BY <1>4, <1>5, <1>6, <2>2, SlotFindsId DEF Kept, AfterId
    <2> QED BY <2>1, <2>2
  <1>7. CASE FindSameHash(o)
    <2>1. CASE op'[o].pc # "touch"
      BY <1>4, <1>5, <1>7, <2>1, SlotFindsHash
    <2>2. CASE op'[o].pc = "touch"
      <3>1. PICK i \in SameHash(op[o].mem.text, op[o].mem.ses) :
              /\ op'[o].group = {i} /\ rec' = rec /\ op'[o].mem = op[o].mem
              /\ op'[o].snap = op[o].snap
              /\ op[o].mem.pin => rec[i].pin \/ op'[o].mode = "pinning"
        BY <1>7, <2>2, SlotFindsHash
      <3> QED BY <1>1, <2>2, <3>1, SameStore DEF PinsBySlot, SameHash
    <2> QED BY <2>1, <2>2
  <1>8. CASE Replace(o) \/ DropAnchor(o)
    BY <1>4, <1>8, SlotReplaces, SlotGoesOn, WithoutSame DEF DropAnchor, AfterId, Kept
  <1>9. CASE SearchSimilar(o) \/ MergeListed(o)
    <2>1. CASE op'[o].pc # "drop"
      BY <1>2, <1>4, <1>5, <1>9, <2>1, SlotMerges DEF Kept
    <2>2. CASE op'[o].pc = "drop"
      <3>1. rec' = rec /\ op'[o].snap \subseteq op[o].snap /\ op'[o].group \subseteq Unpinned
        BY <1>9, <2>2, SlotMerges, IdleIsEmpty
      <3>2. \/ op'[o].anchor = Absent
            \/ \E m \in op[o].snap : op'[o].anchor = m.id /\ ~m.pin
        BY <1>1, <1>9, <2>2, SlotMerges, IdleIsEmpty DEF Staged, SearchSimilar
      <3>3. op'[o].anchor \in Visible => ~rec[op'[o].anchor].pin
        BY <1>1, <3>2, AbsentAssumption DEF PinsBySlot, Visible
      <3> QED BY <1>1, <2>2, <3>1, <3>3, SameStore DEF PinsBySlot, Unpinned
    <2> QED BY <2>1, <2>2
  <1>10. CASE DropMerged(o)
    <2>1. /\ op[o].pc = "drop" /\ op'[o].pc \in {"add", "dropAnchor"} /\ Kept(o)
          /\ rec' = Without(op[o].group)
      BY <1>10, SlotDrops
    <2> QED BY <1>1, <2>1, WithoutSame DEF PinsBySlot, Kept
  <1>11. CASE Stores(o)
    <2>1. /\ op[o].pc = "add" /\ op'[o].snap = op[o].snap /\ op'[o].pc \in {"ack", "anchor"}
          /\ op'[o].mode = op[o].mode
      BY <1>11, SlotAdds
    <2>2. \A m \in op[o].snap : m.id # op[o].mem.id
      BY <1>11, <2>1 DEF TypeInv, Proper, Fresh, Storing
    <2>3. \A i \in Visible' : i # op[o].mem.id => i \in Visible /\ rec'[i] = rec[i]
      BY <1>11, AddPuts DEF Puts, Visible
    <2> QED BY <1>1, <2>1, <2>2, <2>3 DEF PinsBySlot
  <1>12. CASE FindGroup(o)
    <2>1. \A docs \in SUBSET Visible : \A d \in Doomed(docs) : d \subseteq Unpinned
      BY DEF Doomed, Unpinned
    <2>2. /\ rec' = rec /\ op'[o].pc = "remove" /\ op'[o].snap = op[o].snap
          /\ op'[o].group \subseteq Unpinned
      BY <1>12, <2>1, GroupIsFound, SlotSweeps DEF Kept
    <2> QED BY <1>1, <2>2, SameStore DEF PinsBySlot, Unpinned
  <1>13. CASE SkipGroup(o) \/ RemoveDuplicates(o)
    <2>1. /\ op'[o].snap = op[o].snap /\ op'[o].pc = "group"
          /\ rec' = rec \/ rec' = Without(op[o].group)
      <3>1. op'[o].pc = "group"
        BY <1>13 DEF SkipGroup, RemoveDuplicates, TypeInv, Slots
      <3>2. rec' = rec \/ rec' = Without(op[o].group)
        BY <1>13 DEF SkipGroup, RemoveDuplicates
      <3> QED BY <1>13, <3>1, <3>2, SlotSweeps DEF Kept
    <2> QED BY <1>4, <1>5, <2>1, WithoutSame
  <1>14. CASE ListAll(o)
    <2>1. CASE op'[o] # Idle
      <3>1. rec' = rec /\ op'[o].pc = "anchor" /\ op'[o].snap = {Snapshot(i) : i \in Visible}
        BY <1>14, <2>1, SlotLists
      <3>2. \A m \in op'[o].snap : m.id \in Visible => rec[m.id].pin = m.pin
        BY <3>1 DEF Snapshot
      <3> QED BY <3>1, <3>2, SameStore DEF PinsBySlot
    <2> QED BY <1>2, <2>1
  <1>15. CASE TouchDuplicate(o) \/ TouchAccessed(o) \/ Write(o) \/ DeleteForgotten(o)
              \/ Ack(o) \/ Fail(o)
    BY <1>2, <1>15, SlotEnds
  <1>16. ~Crash(o)
    BY DEF Crash
  <1> QED BY <1>3, <1>6, <1>7, <1>8, <1>9, <1>10, <1>11, <1>12, <1>13, <1>14, <1>15, <1>16
          DEF Acts, Step, Stores

\* What is stated by records and operations that are pinned.
PinInStore(f) == \E i \in Visible : rec[i].pin /\ f \in rec[i].text
PinOnItsWay(o, f) == op[o].mem # Absent /\ op[o].mem.pin /\ f \in op[o].mem.text
PinSays(f) == PinInStore(f) \/ \E o \in Ops : PinOnItsWay(o, f)

LEMMA PinnedIs ==
    ASSUME NEW f
    PROVE  /\ f \in Pinned(rec, op) <=> PinSays(f)
           /\ f \in Pinned(rec', op') <=> PinSays(f)'
  <1>1. ASSUME NEW r, NEW p
        PROVE  f \in Pinned(r, p) <=>
                 \/ \E i \in Ids : r[i] # Absent /\ r[i].pin /\ f \in r[i].text
                 \/ \E o \in Ops : p[o].mem # Absent /\ p[o].mem.pin /\ f \in p[o].mem.text
    <2> DEFINE R == {[text |-> r[i].text, pin |-> r[i].pin] : i \in {j \in Ids : r[j] # Absent}}
               P == {[text |-> p[o].mem.text, pin |-> p[o].mem.pin] :
                       o \in {q \in Ops : p[q].mem # Absent}}
    <2>1. (\E c \in R : c.pin /\ f \in c.text) <=>
            \E i \in Ids : r[i] # Absent /\ r[i].pin /\ f \in r[i].text
      <3>1. ASSUME NEW c \in R, c.pin, f \in c.text
            PROVE  \E i \in Ids : r[i] # Absent /\ r[i].pin /\ f \in r[i].text
        <4>1. PICK i \in {j \in Ids : r[j] # Absent} : c = [text |-> r[i].text, pin |-> r[i].pin]
          OBVIOUS
        <4> QED BY <3>1, <4>1
      <3>2. ASSUME NEW i \in Ids, r[i] # Absent, r[i].pin, f \in r[i].text
            PROVE  \E c \in R : c.pin /\ f \in c.text
        <4>1. [text |-> r[i].text, pin |-> r[i].pin] \in R
          BY <3>2
        <4> HIDE DEF R
        <4> QED BY <3>2, <4>1
      <3> QED BY <3>1, <3>2
    <2>2. (\E c \in P : c.pin /\ f \in c.text) <=>
            \E o \in Ops : p[o].mem # Absent /\ p[o].mem.pin /\ f \in p[o].mem.text
      <3>1. ASSUME NEW c \in P, c.pin, f \in c.text
            PROVE  \E o \in Ops : p[o].mem # Absent /\ p[o].mem.pin /\ f \in p[o].mem.text
        <4>1. PICK o \in {q \in Ops : p[q].mem # Absent} :
                c = [text |-> p[o].mem.text, pin |-> p[o].mem.pin]
          OBVIOUS
        <4> QED BY <3>1, <4>1
      <3>2. ASSUME NEW o \in Ops, p[o].mem # Absent, p[o].mem.pin, f \in p[o].mem.text
            PROVE  \E c \in P : c.pin /\ f \in c.text
        <4>1. [text |-> p[o].mem.text, pin |-> p[o].mem.pin] \in P
          BY <3>2
        <4> HIDE DEF P
        <4> QED BY <3>2, <4>1
      <3> QED BY <3>1, <3>2
    <2>3. f \in Pinned(r, p) <=> (\E c \in R : c.pin /\ f \in c.text)
                                 \/ (\E c \in P : c.pin /\ f \in c.text)
      <3>1. Carried(r, p) = R \cup P
        BY DEF Carried
      <3> HIDE DEF R, P
      <3> QED BY <3>1 DEF Pinned
    <2> HIDE DEF R, P
    <2> QED BY <2>1, <2>2, <2>3
  <1> QED BY <1>1 DEF PinSays, PinInStore, PinOnItsWay, Visible

\* The steps by which clients take a pin back.
Unpins(o) ==
    LET mem == op[o].mem
    IN  \/ Delete(o)
        \/ Replace(o) /\ Overwrites(mem)
        \/ Add(o) /\ op[o].mode = "none"
        \/ Write(o) /\ op[o].mode # "mark" /\ ~(op[o].mode = "pin" /\ mem.pin)

LEMMA PinsStayInStore ==
    ASSUME TypeInv, "stray" \notin Kinds, AllStaged, Fresh, AsRead, PinsRead,
           NEW o \in Ops, Acts(o), ~Crash(o),
           NEW i \in Visible, rec[i].pin, NEW f \in rec[i].text
    PROVE  PinSays(f)' \/ Unpins(o)
  <1>1. CASE i \in Visible' /\ rec'[i].text = rec[i].text /\ rec'[i].pin
    BY <1>1 DEF PinSays, PinInStore
  <1>2. CASE rec' = rec
    BY <1>1, <1>2, SameStore
  <1>3. ASSUME NEW ids, rec' = Without(ids), i \notin ids PROVE PinSays(f)' \/ Unpins(o)
    <2>1. i \in Visible' /\ rec'[i] = rec[i]
      BY <1>3 DEF Visible, Without
    <2> QED BY <1>1, <2>1
  <1>4. CASE DeleteInvalid(o)
    <2>1. PICK j \in Ids \ Visible : rec' = Without({j})
      BY <1>4 DEF DeleteInvalid
    <2> QED BY <1>3, <2>1
  <1>5. CASE Replace(o) /\ ~Overwrites(op[o].mem)
    <2>1. /\ rec' = Without({op[o].mem.id}) /\ op'[o].mem = op[o].mem /\ op[o].mem # Absent
          /\ op[o].pc = "replace"
      BY <1>5, SlotReplaces DEF TypeInv, Proper, Bearing
    <2>2. i = op[o].mem.id => PinOnItsWay(o, f)'
      BY <1>5, <2>1 DEF PinOnItsWay, Visible, PinsRead, PinsBySlot, Overwrites
    <2> QED BY <1>3, <2>1, <2>2 DEF PinSays
  <1>6. CASE DropMerged(o) \/ RemoveDuplicates(o) \/ DeleteForgotten(o)
    <2>1. rec' = Without(op[o].group) /\ op[o].pc \in {"drop", "remove", "forget"}
      BY <1>6 DEF DropMerged, RemoveDuplicates, DeleteForgotten
    <2>2. i \notin op[o].group
      BY <2>1 DEF PinsRead, PinsBySlot
    <2> QED BY <1>3, <2>1, <2>2
  <1>7. CASE DropAnchor(o)
    <2>1. rec' = Without({op[o].anchor}) /\ op[o].pc = "dropAnchor"
      BY <1>7 DEF DropAnchor
    <2>2. i # op[o].anchor
      BY <2>1 DEF PinsRead, PinsBySlot
    <2> QED BY <1>3, <2>1, <2>2
  <1>8. CASE Stores(o) /\ (AddMerged(o) \/ op[o].mode # "none")
    <2>1. op[o].pc = "add" /\ op[o].mode # "none"
      BY <1>8 DEF Stores, Add, AddMerged
    <2>2. i # op[o].mem.id /\ i \in Ids
      BY <2>1 DEF Fresh, Storing, Visible
    <2>3. Puts(o)
      BY <1>8, AddPuts
    <2> QED BY <1>1, <2>2, <2>3 DEF Puts, Visible
  <1>9. CASE Write(o) /\ (op[o].mode = "mark" \/ (op[o].mode = "pin" /\ op[o].mem.pin))
    <2>1. Puts(o) /\ i \in Ids /\ op[o].pc = "write"
      BY <1>9, WritePuts DEF Visible, Write
    <2>2. CASE i # op[o].mem.id
      BY <1>1, <2>1, <2>2 DEF Puts, Visible
    <2>3. CASE i = op[o].mem.id
      <3>1. rec[i].text = op[o].mem.text /\ op[o].mem.pin
        BY <1>9, <2>1, <2>3 DEF AsRead, ReadBySlot
      <3> QED BY <1>1, <2>1, <2>3, <3>1 DEF Puts
    <2> QED BY <2>2, <2>3
  <1>10. CASE TouchDuplicate(o) \/ TouchAccessed(o)
    <2>1. op[o].group \subseteq Ids
      BY DEF TypeInv, Slots
    <2>2. PICK j \in op[o].group, pinning \in BOOLEAN : rec' = HSet(j, pinning)
      BY <1>10 DEF TouchDuplicate, TouchAccessed
    <2>3. i \in Visible' /\ rec'[i].text = rec[i].text
      BY <2>1, <2>2, HSetShrinks
    <2>4. rec'[i].pin
      <3>1. CASE j \in Visible
        BY <2>2, <3>1, HSetPins
      <3>2. CASE j \notin Visible
        BY <2>2, <3>2 DEF HSet, TypeInv, Stored, Visible
      <3> QED BY <3>1, <3>2
    <2> QED BY <1>1, <2>3, <2>4
  <1>11. CASE Create(o) \/ Compact(o) \/ Patch(o) \/ Marks(o) \/ Access(o) \/ Forget(o)
              \/ Fail(o) \/ Crash(o)
    BY <1>2, <1>11 DEF Create, Compact, Patch, Marks, MarkQueued, MarkListed, Access, Forget,
       Fail, Crash
  <1>12. CASE FindSameId(o) \/ FindSameHash(o) \/ SearchSimilar(o) \/ FindGroup(o) \/ SkipGroup(o)
              \/ ListAll(o) \/ MergeListed(o) \/ Ack(o)
    BY <1>2, <1>12 DEF FindSameId, FindSameHash, SearchSimilar, FindGroup, SkipGroup, ListAll,
       MergeListed, Ack
  <1> QED BY <1>4, <1>5, <1>6, <1>7, <1>8, <1>9, <1>10, <1>11, <1>12
          DEF Acts, Start, Step, Stores, Unpins, Marks

LEMMA PinsStayOnTheirWay ==
    ASSUME TypeInv, DeletesFinish, alone, OneByOne, AllStaged, PinsRead, NEW o \in Ops, Acts(o),
           NEW q \in Ops, NEW f, PinOnItsWay(q, f)
    PROVE  PinSays(f)' \/ Fail(o)
  <1>1. CASE op'[q].mem = op[q].mem
    BY <1>1 DEF PinSays, PinOnItsWay
  <1>2. CASE q # o
    BY <1>1, <1>2, OwnSlot DEF Acts
  <1>3. op[o].pc \notin Bearing => op[o].mem = Absent
    BY DEF AllStaged, Staged
  <1>4. CASE q = o /\ Start(o)
    BY <1>4, FreeStarts, IdleIsEmpty DEF PinOnItsWay
  <1>5. CASE q = o /\ FindSameId(o)
    <2>1. /\ op'[o].mem.text = op[o].mem.text /\ op'[o].mem # Absent
          /\ op[o].mem.pin => op'[o].mem.pin
      BY <1>5, SlotFindsId, AbsentAssumption
    <2> QED BY <1>5, <2>1 DEF PinSays, PinOnItsWay
  <1>6. CASE q = o /\ (Replace(o) \/ DropAnchor(o))
    BY <1>1, <1>6, SlotReplaces, SlotGoesOn DEF DropAnchor
  <1>7. CASE q = o /\ FindSameHash(o)
    BY <1>1, <1>7, SlotFindsHash
  <1>8. CASE q = o /\ SearchSimilar(o)
    <2>1. \/ op'[o].mem = op[o].mem
          \/ /\ op'[o].mem # Absent /\ op[o].mem.text \subseteq op'[o].mem.text
             /\ op[o].mem.pin => op'[o].mem.pin
      BY <1>8, SlotMerges DEF SearchSimilar, MergeListed
    <2> QED BY <1>1, <1>8, <2>1 DEF PinSays, PinOnItsWay
  <1>9. CASE q = o /\ DropMerged(o)
    BY <1>1, <1>9, SlotDrops
  <1>10. CASE q = o /\ (Stores(o) \/ Write(o))
    <2>1. Puts(o)
      BY <1>10, AddPuts, WritePuts
    <2> QED BY <1>10, <2>1 DEF PinSays, PinInStore, PinOnItsWay, Puts
  <1>11. CASE q = o /\ TouchDuplicate(o)
    <2>1. op[o].pc = "touch" /\ op[o].mem.pin
      BY <1>11 DEF TouchDuplicate, PinOnItsWay
    <2>2. PICK i \in op[o].group : rec' = HSet(i, op[o].mode = "pinning")
      BY <1>11 DEF TouchDuplicate
    <2>3. /\ i \in Visible /\ i \in Ids /\ rec[i].text = op[o].mem.text
          /\ rec[i].pin \/ op[o].mode = "pinning"
      BY <2>1 DEF PinsRead, PinsBySlot, Visible
    <2> DEFINE pinning == (op[o].mode = "pinning")
    <2>4. pinning \in BOOLEAN /\ rec' = HSet(i, pinning) /\ (rec[i].pin \/ pinning)
      BY <2>2, <2>3
    <2> HIDE DEF pinning
    <2>5. i \in Visible' /\ rec'[i].text = rec[i].text
      BY <2>3, <2>4, HSetShrinks
    <2>6. rec'[i].pin
      BY <2>3, <2>4, HSetPins
    <2> QED BY <1>11, <2>3, <2>5, <2>6 DEF PinSays, PinInStore, PinOnItsWay
  <1>12. CASE q = o /\ (FindGroup(o) \/ RemoveDuplicates(o) \/ SkipGroup(o) \/ ListAll(o)
                        \/ MergeListed(o) \/ TouchAccessed(o) \/ DeleteForgotten(o)
                        \/ Ack(o))
    <2>1. op[o].pc \notin Bearing
      BY <1>12 DEF FindGroup, RemoveDuplicates, SkipGroup, ListAll, MergeListed, TouchAccessed,
         DeleteForgotten, Ack, Bearing
    <2> QED BY <1>3, <1>12, <2>1 DEF PinOnItsWay
  <1>13. ~Crash(o)
    BY DEF Crash
  <1> QED BY <1>2, <1>4, <1>5, <1>6, <1>7, <1>8, <1>9, <1>10, <1>11, <1>12, <1>13
          DEF Acts, Step, Stores

LEMMA CreatePins ==
    ASSUME TypeInv, NEW o \in Ops, Create(o), NEW f \in curated'
    PROVE  f \in curated \/ PinSays(f)'
  <1>1. PICK mode \in {"full", "summary", "none"}, mem \in Submissions :
          /\ Set(o, [Idle EXCEPT !.pc = IF mode = "none" THEN "add" ELSE "byId",
                                 !.mode = mode, !.mem = mem, !.src = mem])
          /\ curated' = IF mem.pin THEN curated \cup mem.text ELSE curated
    BY DEF Create
  <1>2. op'[o] = [Idle EXCEPT !.pc = IF mode = "none" THEN "add" ELSE "byId",
                              !.mode = mode, !.mem = mem, !.src = mem]
    BY <1>1 DEF Set, TypeInv
  <1>3. op'[o].mem = mem /\ mem # Absent
    BY <1>2, AbsentAssumption DEF Idle, Submissions
  <1> QED BY <1>1, <1>3 DEF PinSays, PinOnItsWay

LEMMA CuratedStays ==
    ASSUME TypeInv, DeletesFinish, alone, NEW o \in Ops, Acts(o), NEW f \in curated'
    PROVE  \/ f \in Pinned(rec', op') \/ PinSays(f)'
           \/ f \in curated /\ ~Unpins(o) /\ ~Fail(o)
  <1>1. CASE Delete(o) \/ Fail(o) \/ (Add(o) /\ op[o].mode = "none")
    BY <1>1 DEF Delete, Fail, Holds, Add, Release
  <1>2. CASE op[o] = Idle /\ ~Delete(o)
    <2>1. ~Unpins(o) /\ ~Fail(o)
      BY <1>2, IdleIsEmpty DEF Unpins, Replace, Add, Write, Fail
    <2>2. CASE Create(o)
      BY <2>1, <2>2, CreatePins
    <2>3. CASE ~Create(o)
      <3>1. Start(o)
        BY <1>2, BusySteps DEF Acts
      <3>2. curated' = curated
        BY <1>2, <2>3, <3>1 DEF Start, Compact, Patch, MarkQueued, MarkListed, Access, Forget,
           DeleteInvalid
      <3> QED BY <2>1, <3>2
    <2> QED BY <2>2, <2>3
  <1>3. CASE Replace(o)
    <2>1. CASE Overwrites(op[o].mem)
      BY <1>3, <2>1 DEF Replace, Release
    <2>2. CASE ~Overwrites(op[o].mem)
      <3>1. curated' = curated /\ op[o].pc = "replace" /\ op[o] # Idle
        BY <1>3, <2>2, IdleIsEmpty DEF Replace
      <3>2. ~Delete(o) /\ ~Add(o) /\ ~Write(o)
        BY <3>1 DEF Delete, Free, Add, Write
      <3>3. ~Unpins(o)
        BY <2>2, <3>2 DEF Unpins
      <3> QED BY <1>1, <3>1, <3>3
    <2> QED BY <2>1, <2>2
  <1>4. CASE Write(o)
    <2>1. op[o].pc = "write" /\ op[o] # Idle
      BY <1>4, IdleIsEmpty DEF Write
    <2>2. ~Delete(o) /\ ~Add(o) /\ ~Replace(o)
      BY <2>1 DEF Delete, Free, Add, Replace
    <2>3. CASE op[o].mode = "mark"
      <3>1. curated' = curated /\ ~Unpins(o)
        BY <1>4, <2>2, <2>3 DEF Write, Unpins
      <3> QED BY <1>1, <3>1
    <2>4. CASE op[o].mode = "pin" /\ op[o].mem.pin
      <3>1. curated' = curated \cup op[o].mem.text /\ ~Unpins(o)
        BY <1>4, <2>2, <2>4 DEF Write, Unpins
      <3>2. f \in op[o].mem.text => PinSays(f)'
        BY <1>4, <2>4, WritePuts DEF Puts, PinSays, PinInStore
      <3> QED BY <1>1, <3>1, <3>2
    <2>5. CASE op[o].mode # "mark" /\ ~(op[o].mode = "pin" /\ op[o].mem.pin)
      BY <1>4, <2>5 DEF Write
    <2> QED BY <2>3, <2>4, <2>5
  <1>5. CASE Step(o) /\ op[o] # Idle /\ ~Replace(o) /\ ~Write(o) /\ ~(Add(o) /\ op[o].mode = "none")
    <2>1. curated' = curated
      BY <1>5 DEF Step, FindSameId, FindSameHash, TouchDuplicate, SearchSimilar, DropMerged, Add,
         Ack, AddMerged, FindGroup, RemoveDuplicates, SkipGroup, ListAll, MergeListed, DropAnchor,
         TouchAccessed,
         DeleteForgotten
    <2>2. ~Delete(o)
      BY <1>5 DEF Delete, Free
    <2>3. ~Unpins(o)
      BY <1>5, <2>2 DEF Unpins
    <2> QED BY <1>1, <2>1, <2>3
  <1>6. ~Crash(o)
    BY DEF Crash
  <1> QED BY <1>1, <1>2, <1>3, <1>4, <1>5, <1>6, BusySteps, FreeStarts DEF Acts

LEMMA PinsKeptStep ==
    ASSUME TypeInv, DeletesFinish, "stray" \notin Kinds, alone, OneByOne, AllStaged, Fresh, AsRead,
           PinsRead, PinsAreKept, NEW o \in Ops, Acts(o)
    PROVE  PinsAreKept'
  <1> SUFFICES ASSUME NEW f \in curated' PROVE f \in Pinned(rec', op')
    BY DEF PinsAreKept
  <1>1. CASE f \in curated /\ ~Unpins(o) /\ ~Fail(o)
    <2>1. PinInStore(f) \/ \E q \in Ops : PinOnItsWay(q, f)
      BY <1>1, PinnedIs DEF PinsAreKept, PinSays
    <2>4. ~Crash(o)
      BY DEF Crash
    <2>2. PinInStore(f) => PinSays(f)'
      BY <1>1, <2>4, PinsStayInStore DEF PinInStore
    <2>3. (\E q \in Ops : PinOnItsWay(q, f)) => PinSays(f)'
      BY <1>1, PinsStayOnTheirWay
    <2> QED BY <2>1, <2>2, <2>3, PinnedIs
  <1> QED BY <1>1, CuratedStays, PinnedIs

-----------------------------------------------------------------------------
AloneInv ==
    /\ TypeInv
    /\ alone => OneByOne /\ AllStaged /\ Fresh /\ AsRead /\ Queue /\ PinsRead /\ PinsAreKept

LEMMA AloneInitHolds == Init => AloneInv
  <1> SUFFICES ASSUME Init PROVE AloneInv
    OBVIOUS
  <1>1. TypeInv /\ (\A o \in Ops : op[o] = Idle) /\ curated = {}
    BY TypeInitHolds DEF Init
  <1>3. Queue
    BY DEF Init, Queue
  <1>2. AllStaged /\ Fresh /\ PinsRead /\ OneByOne /\ AsRead
    <2>1. AllStaged /\ Fresh /\ PinsRead
      BY <1>1, IdleIsEmpty DEF AllStaged, Fresh, Storing, PinsRead, PinsBySlot
    <2>2. OneByOne /\ AsRead
      BY <1>1, IdleIsEmpty DEF OneByOne, AsRead, ReadBySlot
    <2> QED BY <2>1, <2>2
  <1> QED BY <1>1, <1>2, <1>3 DEF AloneInv, PinsAreKept

LEMMA AloneStep ==
    ASSUME DeletesFinish, "stray" \notin Kinds PROVE AloneInv /\ [Next]_vars => AloneInv'
  <1> SUFFICES ASSUME AloneInv, [Next]_vars PROVE AloneInv'
    OBVIOUS
  <1>1. TypeInv'
    BY TypeStep DEF AloneInv
  <1>2. CASE UNCHANGED vars
    <2>1. /\ rec' = rec /\ op' = op /\ alone' = alone /\ curated' = curated
          /\ queued' = queued
      BY <1>2 DEF vars, alone
    <2>2. alone => OneByOne' /\ AllStaged' /\ Fresh' /\ AsRead'
      BY <2>1 DEF AloneInv, OneByOne, AllStaged, Staged, Fresh, AsRead, ReadBySlot, Found, Visible
    <2>3. alone => Queue' /\ PinsRead' /\ PinsAreKept'
      BY <2>1 DEF AloneInv, Queue, Waits, PinsRead, PinsBySlot, PinsAreKept, Visible
    <2> QED BY <1>1, <2>1, <2>2, <2>3 DEF AloneInv
  <1>3. CASE \E o \in Ops : Acts(o) /\ UNCHANGED <<merging, together>>
    <2>1. PICK o \in Ops : Acts(o) /\ UNCHANGED alone
      BY <1>3 DEF alone
    <2>2. CASE ~alone
      BY <1>1, <2>1, <2>2 DEF AloneInv
    <2>3. CASE alone
      <3>1. /\ TypeInv /\ OneByOne /\ AllStaged /\ Fresh /\ AsRead /\ Queue /\ PinsRead
            /\ PinsAreKept /\ Apart
        BY <2>3 DEF AloneInv, Apart
      <3>2. OneByOne'
        BY <2>1, <3>1, OneByOneStep DEF Acts
      <3>3. AllStaged' /\ Fresh' /\ AsRead' /\ Queue' /\ PinsRead'
        BY <2>1, <2>3, <3>1, StagedStep, FreshStep, AsReadStep, QueueStep, PinsReadStep
      <3>4. PinsAreKept'
        BY <2>1, <2>3, <3>1, PinsKeptStep
      <3> QED BY <1>1, <3>2, <3>3, <3>4 DEF AloneInv
    <2> QED BY <2>2, <2>3
  <1> QED BY <1>2, <1>3 DEF Next, Acts

\* What clients pinned stays pinned through overwrites, duplicates, merges, compaction and
\* forgetting when operations come one at a time, whatever their kinds, and even when
\* steps of them raise: only a client takes a pin back.  Two things are assumed: what an
\* operation deleted to store it anew it does store, and no id is posted again from a
\* session that does not see its record.
THEOREM CuratedIsPinned ==
    ASSUME DeletesFinish, "stray" \notin Kinds PROVE Spec => []CuratedStaysPinned
  <1>1. Init => AloneInv
    BY AloneInitHolds
  <1>2. AloneInv /\ [Next]_vars => AloneInv'
    BY AloneStep
  <1>3. AloneInv => CuratedStaysPinned
    BY DEF AloneInv, CuratedStaysPinned
  <1> QED BY <1>1, <1>2, <1>3, PTL DEF Spec
=============================================================================
