--------------------------- MODULE LongTermStore ----------------------------
(***************************************************************************)
(* The long-term memories of one owner (agent_memory_server/               *)
(* long_term_memory.py and memory_vector_db.py): indexing with             *)
(* deduplication by id, hash and meaning, compaction, edits, access        *)
(* updates, forgetting and deletion.  Every call to Redis or to the LLM is *)
(* a step of its own, so operations of several requests and workers        *)
(* interleave between a search and the writes that follow from it.         *)
(*                                                                         *)
(* A text is the set of facts it states, and a merge states the facts of   *)
(* what it merges or, when the LLM answers nothing, none.  Records with    *)
(* the same text and session have the same hash, and any memories may be   *)
(* near each other in meaning.                                             *)
(***************************************************************************)
EXTENDS Naturals, FiniteSets, Sequences

CONSTANTS
    Ids,         \* memory ids
    Facts,       \* what a client may say
    Sessions,    \* sessions that records name, NoSession among them
    NoSession,
    Ops,         \* operations that may be in flight at a time
    Kinds,       \* the kinds of operation that happen when they come one at a time
    Overlaps,    \* the sets of kinds that may happen while others are in flight
    OneCompaction, \* only the periodic compaction runs, never the endpoint's beside it
    Failures,    \* a step of an operation may raise
    DeletesFinish, \* what is deleted to be stored anew is: no step in between raises, dies
                   \* or gets an empty answer of the LLM
    MaxCrashes,  \* bound on crashes of the process that executes an operation
    Absent       \* no record, no id

\* An id may be posted again, from a session that sees the record ("overwrite") or from
\* another one ("stray"); "repeat" is the delivery of an indexing task that is done.
AllKinds == {"create", "overwrite", "stray", "compact", "patch", "mark", "access",
             "forget", "delete", "deleteInvalid", "repeat"}

ASSUME KindsAssumption == /\ Kinds \cup UNION Overlaps \subseteq AllKinds
                          /\ NoSession \in Sessions
                          /\ IsFiniteSet(Facts) /\ IsFiniteSet(Sessions) /\ MaxCrashes \in Nat

VARIABLES
    rec,     \* rec[i]: the hash stored under id i
    used,    \* ids given out
    op,      \* op[o]: the operation in slot o
    queued,  \* the records that queued strategy tasks were given
    crashes,
    merging, \* settings.compact_semantic_duplicates, fixed while the server runs
    together, \* the kinds that overlap in this behaviour; none: one at a time
    owed,    \* facts clients submitted and did not remove themselves (history)
    curated  \* facts clients pinned and did not unpin or remove (history)

vars == <<rec, used, op, queued, crashes, merging, together, owed, curated>>

SaidTexts == {{f} : f \in Facts}
Texts == (SUBSET Facts) \ {{}}

\* A stored hash: a whole record, or what an HSET on a deleted key leaves, which has
\* no text and no vector and which no search returns.
Records == [text : Texts, vec : Texts \cup {{}}, pin : BOOLEAN, ses : Sessions]
Fragments == [text : {{}}, vec : {{}}, pin : BOOLEAN, ses : Sessions]

\* The record an operation works on.
Memories == [id : Ids, text : SUBSET Facts, pin : BOOLEAN, ses : Sessions]
Submissions == {m \in Memories : m.text \in SaidTexts}

ASSUME AbsentAssumption == Absent \notin Ids \cup Records \cup Fragments \cup Memories

\* An operation: src is what an indexing task was submitted with, mem the record it has
\* made of it and will store, and gone that it has deleted records it will store anew.
Idle == [pc |-> "idle", mode |-> "none", mem |-> Absent, src |-> Absent, group |-> {},
         anchor |-> Absent, todo |-> <<>>, snap |-> {}, gone |-> FALSE]

Visible == {i \in Ids : rec[i] # Absent /\ rec[i].text # {}}
Unpinned == {i \in Visible : ~rec[i].pin}
SameHash(t, s) == {i \in Visible : rec[i].text = t /\ rec[i].ses = s}
Snapshot(i) == [id |-> i, text |-> rec[i].text, pin |-> rec[i].pin, ses |-> rec[i].ses]

Without(ids) == [i \in Ids |-> IF i \in ids THEN Absent ELSE rec[i]]

\* What is stored, or on its way to be stored.
Carried(r, p) == {[text |-> r[i].text, pin |-> r[i].pin] : i \in {j \in Ids : r[j] # Absent}}
                 \cup {[text |-> p[o].mem.text, pin |-> p[o].mem.pin] :
                         o \in {q \in Ops : p[q].mem # Absent}}
Stated(r, p) == UNION {c.text : c \in Carried(r, p)}
Pinned(r, p) == UNION {c.text : c \in {d \in Carried(r, p) : d.pin}}

\* A client took something back: what nothing states any more is owed no longer.
Release == /\ owed' = owed \cap Stated(rec', op')
           /\ curated' = curated \cap Pinned(rec', op')

Init == /\ rec = [i \in Ids |-> Absent]
        /\ used = {}
        /\ op = [o \in Ops |-> Idle]
        /\ crashes = 0
        /\ queued = {}
        /\ merging \in BOOLEAN /\ together \in Overlaps \cup {{}}
        /\ owed = {} /\ curated = {}

-----------------------------------------------------------------------------
(***************************************************************************)
(* Starting operations.                                                    *)
(***************************************************************************)
alone == together = {}

\* The kinds that happen in this behaviour.
Happening == IF alone THEN Kinds ELSE together

\* One at a time means that the strategy task an operation queued is over too.
Free(o, kind) ==
    /\ op[o] = Idle /\ kind \in Happening
    /\ alone => (\A p \in Ops : op[p] = Idle) /\ (kind = "mark" \/ queued = {})
Set(o, p) == op' = [op EXCEPT ![o] = p]
Goto(o, pc) == op' = [op EXCEPT ![o].pc = pc]

Finish(o) == op' = [op EXCEPT ![o] = Idle]

\* The record under the id is there, and the filters of deduplicate_by_id let it through.
Found(mem) == mem.id \in Visible /\ mem.ses \in {NoSession, rec[mem.id].ses}

Posting(mem) == IF mem.id \notin used THEN "create"
                ELSE IF mem.id \in Visible /\ ~Found(mem) THEN "stray" ELSE "overwrite"

\* create_long_term_memory and whatever else indexes new records.  Deduplication is
\* full, by id only for thread summaries, or off.
Create(o) ==
    /\ \E mode \in {"full", "summary", "none"}, mem \in Submissions :
         /\ Free(o, Posting(mem))
         /\ Set(o, [Idle EXCEPT !.pc = IF mode = "none" THEN "add" ELSE "byId",
                                !.mode = mode, !.mem = mem, !.src = mem])
         /\ used' = used \cup {mem.id}
         /\ owed' = owed \cup mem.text
         /\ curated' = IF mem.pin THEN curated \cup mem.text ELSE curated
    /\ UNCHANGED <<rec, queued, crashes>>

\* Every second element, from the first: the groups are an FT.AGGREGATE reply, a count
\* followed by one row per group, walked in steps of two.
EverySecond(rows) == [k \in 1 .. (Len(rows) + 1) \div 2 |-> rows[2 * k - 1]]

\* compact_long_term_memories: hashes that several records have, most copies first.
\* A failing FT.AGGREGATE is logged and leaves no group to process.
Compact(o) ==
    /\ Free(o, "compact")
    /\ OneCompaction => \A p \in Ops : op[p].mode # "compact"
    /\ LET copies(h) == Cardinality(SameHash(h[1], h[2]))
           groups == {h \in Texts \X Sessions : copies(h) > 1}
       IN  \E rows \in [1 .. Cardinality(groups) -> groups] :
             /\ \A j, k \in DOMAIN rows : j < k =>
                  rows[j] # rows[k] /\ copies(rows[j]) >= copies(rows[k])
             /\ \E todo \in {EverySecond(rows)} \cup (IF Failures THEN {<<>>} ELSE {}) :
                  Set(o, [Idle EXCEPT !.pc = "group", !.mode = "compact", !.todo = todo])
    /\ UNCHANGED <<rec, used, queued, crashes, owed, curated>>

\* An edit names the text, the pin, or both; a field it leaves out stays.
Edits == [text : SaidTexts, pin : BOOLEAN]

\* update_long_term_memory reads the record and changes what the edit names.
Patch(o) ==
    /\ Free(o, "patch")
    /\ \E i \in Visible : \E edit \in Edits :
         Set(o, [Idle EXCEPT !.pc = "write",
                             !.mode = IF edit.text = rec[i].text THEN "pin" ELSE "text",
                             !.mem = [Snapshot(i) EXCEPT !.text = edit.text, !.pin = edit.pin]])
    /\ UNCHANGED <<rec, used, queued, crashes, owed, curated>>

\* extract_memories_with_strategy, queued with the records to extract from as they were
\* indexed: it calls the LLM and writes them back to mark them extracted.
MarkQueued(o) ==
    /\ Free(o, "mark")
    /\ \E mem \in queued :
         /\ Set(o, [Idle EXCEPT !.pc = "write", !.mode = "mark", !.mem = mem])
         /\ queued' = queued \ {mem}
    /\ UNCHANGED <<rec, used, crashes, owed, curated>>

\* Queued with none, it reads the messages not yet extracted; which ones those are is
\* left open.
MarkListed(o) ==
    /\ Free(o, "mark")
    /\ \E i \in Visible :
         Set(o, [Idle EXCEPT !.pc = "write", !.mode = "mark", !.mem = Snapshot(i)])
    /\ UNCHANGED <<rec, used, queued, crashes, owed, curated>>

\* A search result is passed to update_last_accessed.
Access(o) ==
    /\ Free(o, "access")
    /\ \E i \in Visible : Set(o, [Idle EXCEPT !.pc = "access", !.group = {i}])
    /\ UNCHANGED <<rec, used, queued, crashes, owed, curated>>

\* forget_long_term_memories: the policy selects among the unpinned.
Forget(o) ==
    /\ Free(o, "forget")
    /\ \E old \in (SUBSET Unpinned) \ {{}} :
         Set(o, [Idle EXCEPT !.pc = "forget", !.group = old])
    /\ UNCHANGED <<rec, used, queued, crashes, owed, curated>>

\* delete_long_term_memories
Delete(o) ==
    /\ Free(o, "delete")
    /\ \E i \in used : rec' = Without({i})
    /\ UNCHANGED <<used, op, queued, crashes>>
    /\ Release

\* delete_invalid_memories, which runs when the server starts
DeleteInvalid(o) ==
    /\ Free(o, "deleteInvalid")
    /\ \E i \in Ids \ Visible : rec[i] # Absent /\ rec' = Without({i})
    /\ UNCHANGED <<used, op, queued, crashes, owed, curated>>

-----------------------------------------------------------------------------
(***************************************************************************)
(* index_long_term_memories.                                               *)
(***************************************************************************)

\* What comes after the check for the same id.
AfterId(o) == IF op[o].mode = "summary" THEN "add" ELSE "byHash"

\* Mutant: an incoming record replaces the stored pin.
FindSameIdForgetful(o) ==
    /\ op[o].pc = "byId"
    /\ IF Found(op[o].mem) THEN Goto(o, "replace") ELSE Goto(o, AfterId(o))
    /\ UNCHANGED <<rec, used, queued, crashes, owed, curated>>

\* deduplicate_by_id: a stored pin is kept (for _PRESERVED_ON_OVERWRITE)
FindSameId(o) ==
    /\ op[o].pc = "byId"
    /\ IF Found(op[o].mem)
       THEN op' = [op EXCEPT ![o].pc = "replace",
                             ![o].mem.pin = @ \/ rec[op[o].mem.id].pin]
       ELSE Goto(o, AfterId(o))
    /\ UNCHANGED <<rec, used, queued, crashes, owed, curated>>

\* The same text again takes nothing back.
Overwrites(mem) == rec[mem.id] # Absent /\ rec[mem.id].text # mem.text

\* and the stored record is deleted before the new one is added.
Replace(o) ==
    /\ op[o].pc = "replace"
    /\ LET mem == op[o].mem
       IN  /\ rec' = Without({mem.id})
           /\ op' = [op EXCEPT ![o].pc = AfterId(o), ![o].gone = TRUE]
           /\ IF Overwrites(mem) THEN Release ELSE UNCHANGED <<owed, curated>>
    /\ UNCHANGED <<used, queued, crashes>>

\* deduplicate_by_hash: one record with the same hash, if there is any.
FindSameHash(o) ==
    /\ op[o].pc = "byHash"
    /\ LET mem == op[o].mem
           same == SameHash(mem.text, mem.ses)
       IN  IF same = {}
           THEN Goto(o, IF merging /\ ~mem.pin THEN "search" ELSE "add")
           ELSE \E i \in same :
                  op' = [op EXCEPT ![o].pc = "touch", ![o].group = {i},
                                   ![o].mode = IF mem.pin /\ ~rec[i].pin
                                               THEN "pinning" ELSE "full"]
    /\ UNCHANGED <<rec, used, queued, crashes, owed, curated>>

Fragment(pin) == [text |-> {}, vec |-> {}, pin |-> pin, ses |-> NoSession]

\* HSET of last_accessed, and of the pin when it must be carried over: creates the
\* key when it is gone.
HSet(i, pinning) ==
    IF rec[i] = Absent THEN [rec EXCEPT ![i] = Fragment(pinning)]
    ELSE [rec EXCEPT ![i].pin = @ \/ pinning]

\* The existing record is updated and the new one is not stored.
TouchDuplicate(o) ==
    /\ op[o].pc = "touch"
    /\ \E i \in op[o].group : rec' = HSet(i, op[o].mode = "pinning")
    /\ Finish(o)
    /\ UNCHANGED <<used, queued, crashes, owed, curated>>

\* The LLM's merge of texts, which is empty when it answers nothing.
Merges(texts) == {UNION texts} \cup (IF DeletesFinish THEN {} ELSE {{}})

\* The first session that one of them names: the record's own, or one of the group's.
SessionOf(ses, others) == IF ses # NoSession \/ others \subseteq {NoSession} THEN {ses}
                          ELSE others \ {NoSession}

\* merge_memories_with_llm: a new record, pinned if one of them is.
Merged(mem, group, id) ==
    [id : {id},
     text : Merges({mem.text} \cup {rec[i].text : i \in group}),
     pin : {mem.pin \/ \E i \in group : rec[i].pin},
     ses : SessionOf(mem.ses, {rec[i].ses : i \in group})]

\* Mutant: the record itself is not left out.
NeighboursAndSelf(mem) == (SUBSET Unpinned) \ {{}}

\* The cohesive groups a search may find: unpinned, of any session, and not the record
\* itself.
Neighbours(mem) == (SUBSET (Unpinned \ {mem.id})) \ {{}}

\* deduplicate_by_semantic_search: nothing near enough, or a group that the LLM merges
\* with the new record under a new id.
SearchSimilar(o) ==
    /\ op[o].pc = "search"
    /\ \/ Goto(o, "add") /\ UNCHANGED used
       \/ \E group \in Neighbours(op[o].mem), id \in Ids \ used :
            /\ \E mem \in Merged(op[o].mem, group, id) :
                 op' = [op EXCEPT ![o].pc = "drop", ![o].group = group, ![o].mem = mem]
            /\ used' = used \cup {id}
    /\ UNCHANGED <<rec, queued, crashes, owed, curated>>

\* The records merged are deleted.
DropMerged(o) ==
    /\ op[o].pc = "drop"
    /\ rec' = Without(op[o].group)
    /\ op' = [op EXCEPT ![o].pc = IF op[o].anchor = Absent THEN "add" ELSE "dropAnchor",
                        ![o].group = {}, ![o].gone = TRUE]
    /\ UNCHANGED <<used, queued, crashes, owed, curated>>

\* add_memories: the key is written over, whatever it holds.  A client that asked for no
\* deduplication replaces what is stored under the id, its pin too.
Add(o) ==
    /\ op[o].pc = "add" /\ op[o].mode # "compact"
    /\ LET mem == op[o].mem
       IN  /\ rec' = [rec EXCEPT ![mem.id] = [text |-> mem.text, vec |-> mem.text,
                                              pin |-> mem.pin, ses |-> mem.ses]]
           /\ op' = [op EXCEPT ![o].pc = "ack", ![o].mem = Absent, ![o].gone = FALSE]
           /\ CASE op[o].mode = "none" -> Release
                [] op[o].mode # "none" /\ Overwrites(mem) ->
                     owed' = owed \cap Stated(rec', op') /\ UNCHANGED curated
                [] OTHER -> UNCHANGED <<owed, curated>>
           \* The strategy task is queued with the record, unless that is marked already.
           /\ \/ UNCHANGED queued
              \/ "mark" \in Happening /\ mem.id = op[o].src.id /\ queued' = queued \cup {mem}
    /\ UNCHANGED <<used, crashes>>

\* The indexing task is done.
Ack(o) ==
    /\ op[o].pc = "ack"
    /\ Finish(o)
    /\ UNCHANGED <<rec, used, queued, crashes, owed, curated>>

-----------------------------------------------------------------------------
(***************************************************************************)
(* compact_long_term_memories.                                             *)
(***************************************************************************)

\* Mutant: no copy is kept.
DoomedAll(docs) == {docs}

\* The duplicates that go: all but the pinned ones, or else all but the newest.
Doomed(docs) ==
    IF docs \subseteq Unpinned THEN {docs \ {newest} : newest \in docs}
    ELSE {docs \cap Unpinned}

\* FT.SEARCH for the records of the next group.
FindGroup(o) ==
    /\ op[o].pc = "group" /\ op[o].todo # <<>>
    /\ LET docs == SameHash(Head(op[o].todo)[1], Head(op[o].todo)[2])
       IN  \E doomed \in IF Cardinality(docs) > 1 THEN Doomed(docs) ELSE {{}} :
             op' = [op EXCEPT ![o].pc = "remove", ![o].group = doomed,
                              ![o].todo = Tail(@)]
    /\ UNCHANGED <<rec, used, queued, crashes, owed, curated>>

\* The pipeline of DELs.
RemoveDuplicates(o) ==
    /\ op[o].pc = "remove"
    /\ rec' = Without(op[o].group)
    /\ op' = [op EXCEPT ![o].pc = "group", ![o].group = {}]
    /\ UNCHANGED <<used, queued, crashes, owed, curated>>

\* An error with one group is logged, and the next one is processed.
SkipGroup(o) ==
    /\ Failures
    /\ \/ /\ op[o].pc = "group" /\ op[o].todo # <<>>
          /\ op' = [op EXCEPT ![o].todo = Tail(@)]
       \/ /\ op[o].pc = "remove"
          /\ op' = [op EXCEPT ![o].pc = "group", ![o].group = {}]
    /\ UNCHANGED <<rec, used, queued, crashes, owed, curated>>

\* The hash phase is over: all memories are listed for the semantic one.
ListAll(o) ==
    /\ op[o].pc = "group" /\ op[o].todo = <<>>
    /\ IF merging
       THEN op' = [op EXCEPT ![o].pc = "anchor", ![o].snap = {Snapshot(i) : i \in Visible}]
       ELSE Finish(o)
    /\ UNCHANGED <<rec, used, queued, crashes, owed, curated>>

\* deduplicate_by_semantic_search for a listed record, as it was listed.
MergeListed(o) ==
    /\ op[o].pc = "anchor"
    /\ IF op[o].snap = {} THEN Finish(o) /\ UNCHANGED used
       ELSE \E mem \in op[o].snap :
         \/ op' = [op EXCEPT ![o].snap = @ \ {mem}] /\ UNCHANGED used
         \/ /\ ~mem.pin
            /\ \E group \in Neighbours(mem), id \in Ids \ used :
                 /\ \E new \in Merged(mem, group, id) :
                      op' = [op EXCEPT ![o].pc = "drop", ![o].group = group, ![o].mem = new,
                                       ![o].anchor = mem.id, ![o].snap = @ \ {mem}]
                 /\ used' = used \cup {id}
    /\ UNCHANGED <<rec, queued, crashes, owed, curated>>

\* The listed record goes too.
DropAnchor(o) ==
    /\ op[o].pc = "dropAnchor"
    /\ rec' = Without({op[o].anchor})
    /\ Goto(o, "add")
    /\ UNCHANGED <<used, queued, crashes, owed, curated>>

\* The merged record is indexed without deduplication, which skips an empty text, and the
\* compaction goes on with its next record.
AddMerged(o) ==
    /\ op[o].pc = "add" /\ op[o].mode = "compact"
    /\ LET mem == op[o].mem
       IN  rec' = IF mem.text = {} THEN rec
                  ELSE [rec EXCEPT ![mem.id] = [text |-> mem.text, vec |-> mem.text,
                                                pin |-> mem.pin, ses |-> mem.ses]]
    /\ op' = [op EXCEPT ![o].pc = "anchor", ![o].mem = Absent, ![o].anchor = Absent,
                        ![o].gone = FALSE]
    /\ UNCHANGED <<used, queued, crashes, owed, curated>>

-----------------------------------------------------------------------------
(***************************************************************************)
(* Writes of the other operations.                                         *)
(***************************************************************************)

\* Mutant: no text is embedded again.
EmbedNever(mode, text, old) == IF old = Absent THEN {} ELSE old.vec

\* The vector a write leaves: a new one only for a new text.
Embed(mode, text, old) ==
    IF mode = "text" THEN text ELSE IF old = Absent THEN {} ELSE old.vec

\* update_memories writes every field of the record it was given.
Write(o) ==
    /\ op[o].pc = "write"
    /\ LET mem == op[o].mem
           new == [text |-> mem.text, vec |-> Embed(op[o].mode, mem.text, rec[mem.id]),
                   pin |-> mem.pin, ses |-> mem.ses]
       IN  /\ rec' = [rec EXCEPT ![mem.id] = new]
           /\ Finish(o)
           /\ IF op[o].mode = "text"
              THEN owed' = (owed \cup mem.text) \cap Stated(rec', op')
              ELSE UNCHANGED owed
           /\ CASE op[o].mode = "mark" -> UNCHANGED curated
                [] op[o].mode = "pin" /\ mem.pin -> curated' = curated \cup mem.text
                [] OTHER -> curated' = (IF mem.pin THEN curated \cup mem.text ELSE curated)
                                       \cap Pinned(rec', op')
    /\ UNCHANGED <<used, queued, crashes>>

\* update_last_accessed: HSET and HINCRBY.
TouchAccessed(o) ==
    /\ op[o].pc = "access"
    /\ \E i \in op[o].group : rec' = HSet(i, FALSE)
    /\ Finish(o)
    /\ UNCHANGED <<used, queued, crashes, owed, curated>>

\* The selected memories are deleted; what nothing else states is forgotten.
DeleteForgotten(o) ==
    /\ op[o].pc = "forget"
    /\ rec' = Without(op[o].group)
    /\ Finish(o)
    /\ owed' = owed \cap Stated(rec', op')
    /\ UNCHANGED <<used, queued, crashes, curated>>

\* What an operation may not be interrupted in, if deletes are taken to finish.
Holds(o) == DeletesFinish /\ op[o].gone

\* The LLM, the embedding or Redis raises: the operation ends there, and Docket does not
\* run it again.  What it was first to bring is not stored; what it deleted to store it
\* anew is lost, and still owed.
Fail(o) ==
    /\ Failures /\ ~Holds(o)
    /\ op[o] # Idle
    /\ op[o].pc # "remove" /\ (op[o].pc = "group" => op[o].todo = <<>>)
    /\ Finish(o)
    /\ UNCHANGED <<rec, used, queued, crashes>>
    /\ IF op[o].gone THEN UNCHANGED <<owed, curated>> ELSE Release

\* The process dies.  Docket delivers an indexing task again as it was submitted, its
\* record stored or not; the other operations start anew by themselves or are gone with
\* their request.
Crash(o) ==
    /\ crashes < MaxCrashes /\ ~alone /\ ~Holds(o)
    /\ op[o] # Idle /\ (op[o].pc = "ack" => "repeat" \in Happening)
    /\ crashes' = crashes + 1
    /\ LET mode == IF op[o].mode = "pinning" THEN "full" ELSE op[o].mode
       IN  Set(o, IF op[o].src = Absent THEN Idle
                  ELSE [Idle EXCEPT !.pc = IF mode = "none" THEN "add" ELSE "byId",
                                    !.mode = mode, !.mem = op[o].src, !.src = op[o].src])
    /\ UNCHANGED <<rec, used, queued, owed, curated>>

Start(o) == \/ Create(o) \/ Compact(o) \/ Patch(o) \/ MarkQueued(o) \/ MarkListed(o) \/ Access(o)
            \/ Forget(o) \/ Delete(o) \/ DeleteInvalid(o)

Step(o) == \/ FindSameId(o) \/ Replace(o) \/ FindSameHash(o) \/ TouchDuplicate(o)
           \/ SearchSimilar(o) \/ DropMerged(o) \/ Add(o) \/ Ack(o)
           \/ FindGroup(o) \/ RemoveDuplicates(o) \/ SkipGroup(o) \/ ListAll(o) \/ MergeListed(o)
           \/ DropAnchor(o) \/ AddMerged(o)
           \/ Write(o) \/ TouchAccessed(o) \/ DeleteForgotten(o)

Next == /\ \E o \in Ops : Start(o) \/ Step(o) \/ Fail(o) \/ Crash(o)
        /\ UNCHANGED <<merging, together>>

Spec == Init /\ [][Next]_vars

-----------------------------------------------------------------------------
(***************************************************************************)
(* Properties.                                                             *)
(***************************************************************************)
\* Records are whole or fragments, ids in use are taken, no record is to be merged with
\* itself, and what is queued or in an operation's hands is a record with an id given out.
TypeOK ==
    /\ rec \in [Ids -> Records \cup Fragments \cup {Absent}]
    /\ used \subseteq Ids /\ {i \in Ids : rec[i] # Absent} \subseteq used
    /\ \A o \in Ops :
         /\ op[o].pc = "idle" => op[o] = Idle
         /\ op[o].mem \in Memories \cup {Absent} /\ op[o].src \in Memories \cup {Absent}
         /\ op[o].group \subseteq used /\ op[o].snap \subseteq Memories
         /\ op[o].anchor \in (used \cup {Absent}) \ op[o].group
         /\ op[o].pc \in {"byId", "replace", "byHash", "search", "drop", "dropAnchor", "add",
                          "write"} => op[o].mem # Absent /\ op[o].mem.id \in used
    /\ queued \subseteq {m \in Memories : m.id \in used}
    /\ crashes \in 0 .. MaxCrashes
    /\ owed \subseteq Facts /\ curated \subseteq Facts

\* Deduplication and compaction lose nothing: what a client submitted is stated by some
\* record, or by an operation that will store it, until clients delete or edit it or it
\* is forgotten (docs/long-term-memory.md, Deduplication and Compaction).
NothingLost == owed \subseteq Stated(rec, op)

\* What a client pinned stays pinned: no duplicate, merge, overwrite or forgetting takes
\* the pin from it, not even a repeated delivery of the task that indexes it
\* (docs/long-term-memory.md: "A pin carried by an incoming duplicate transfers to the
\* copy that survives"; docs/api.md: "should not be auto-deleted or auto-merged").
PinsAreKept == curated \subseteq Pinned(rec, op)

\* One operation at a time, with the task it queues, and nothing delivered again, the same
\* holds of the code.
CuratedStaysPinned == alone => PinsAreKept

\* The vector searched is the vector of the text stored (docs/memory-lifecycle.md:
\* "Embeddings are regenerated when text changes").
VectorTracksText == \A i \in Ids : rec[i] # Absent => rec[i].vec = rec[i].text
=============================================================================
