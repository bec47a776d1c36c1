----------------------------- MODULE Migration ------------------------------
(***************************************************************************)
(* Migration of working memory from JSON strings to JSON documents         *)
(* (agent_memory_server/working_memory.py and cli.py).  A server that      *)
(* starts counts the string keys; get_working_memory looks at the type of  *)
(* a key until the migration is complete, converts a string it finds with  *)
(* a script that Redis runs atomically, and counts down.  When the count   *)
(* is used up the type is not looked at any more, and a string is then an  *)
(* error, which get_working_memory reports as a missing session.  The      *)
(* command migrate-working-memory converts all strings in batches, each    *)
(* read by one transaction and written by another.  Its scan also matches  *)
(* the two keys that the migration itself keeps, both strings, and makes   *)
(* them documents: nobody reads the status then, and nobody counts down.   *)
(***************************************************************************)
EXTENDS Integers, FiniteSets

CONSTANTS
    Keys,        \* working memory keys
    Readers,     \* calls of get_working_memory in flight
    Servers,     \* servers that start, each once
    MaxVersion,  \* bound on the writes of a session
    BatchSize,   \* --batch-size of the command
    Overlaps,    \* readers of one key, and startup checks, may overlap readers
    BulkOverlaps, \* clients may write sessions that the command holds, which may also end
    FirstScanFails, \* a startup check may fail before any has stored its result
    None         \* not counted, not read

\* MIGRATION_STATUS_KEY and MIGRATION_REMAINING_KEY
OwnKeys == {"status", "count"}

ASSUME ConstantsAssumption == /\ MaxVersion \in Nat \ {0} /\ BatchSize \in Nat \ {0}
                              /\ None \notin Keys \cup Int \cup OwnKeys
                              /\ Keys \cap OwnKeys = {}

VARIABLES
    type,       \* type[k]: "none", "string" or "json"
    version,    \* version[k]: the last write of the session that is stored
    complete,   \* MIGRATION_STATUS_KEY is "true"
    remaining,  \* MIGRATION_REMAINING_KEY
    started,    \* started[s]: "no", "counted" or "yes"
    counted,    \* counted[s]: string keys that the scan of s found
    pc,         \* pc[r]: the next step of reader r
    key,        \* key[r]: the key it was called for
    held,       \* held[r]: the version its GET returned
    bulk,       \* the command: its next step, the keys it has yet to read, the key it
                \* converts by itself, whether a key failed, the own keys of its batch
    batch,      \* batch[k]: the version it read of a key and has yet to write
    garbled     \* the own keys that are documents; remaining is then what the counter held

keyVars == <<type, version>>
statusVars == <<complete, remaining>>
serverVars == <<started, counted>>
readerVars == <<pc, key, held>>
bulkVars == <<bulk, batch>>
vars == <<keyVars, statusVars, serverVars, readerVars, bulkVars, garbled>>

StringKeys == {k \in Keys : type[k] = "string"}
NoBulk == [pc |-> "off", todo |-> {}, key |-> None, failed |-> FALSE, own |-> {}]

Init == /\ type \in [Keys -> {"none", "string", "json"}]
        /\ version = [k \in Keys |-> 1]
        /\ complete = FALSE /\ remaining = None
        /\ started = [s \in Servers |-> "no"]
        /\ counted = [s \in Servers |-> 0]
        /\ pc = [r \in Readers |-> "idle"]
        /\ key = [r \in Readers |-> None]
        /\ held = [r \in Readers |-> None]
        /\ bulk = NoBulk
        /\ batch = [k \in Keys |-> None]
        /\ garbled = {}

-----------------------------------------------------------------------------
(***************************************************************************)
(* check_and_set_migration_status, when server s starts.                   *)
(***************************************************************************)

\* Mutant: the count does not leave out the migration's own keys.
CountedWithOwn == Cardinality(StringKeys) + (IF remaining = None THEN 0 ELSE 1)

\* The string keys that match the pattern, without the migration's own.
FoundByScan == Cardinality(StringKeys)

\* The status says complete, or the string keys are counted.  A server does not start on a
\* status that it cannot read.
Scan(s) ==
    /\ started[s] = "no" /\ "status" \notin garbled
    /\ Overlaps \/ \A r \in Readers : pc[r] = "idle"
    /\ IF complete
       THEN started' = [started EXCEPT ![s] = "yes"] /\ UNCHANGED counted
       ELSE /\ started' = [started EXCEPT ![s] = "counted"]
            /\ counted' = [counted EXCEPT ![s] = FoundByScan]
    /\ UNCHANGED <<keyVars, statusVars, readerVars, bulkVars, garbled>>

\* The count is stored, or the migration is complete.
StoreCount(s) ==
    /\ started[s] = "counted"
    /\ Overlaps \/ \A r \in Readers : pc[r] = "idle"
    /\ started' = [started EXCEPT ![s] = "yes"]
    /\ counted' = [counted EXCEPT ![s] = 0]
    /\ IF counted[s] > 0
       THEN remaining' = counted[s] /\ garbled' = garbled \ {"count"} /\ UNCHANGED complete
       ELSE complete' = TRUE /\ remaining' = None /\ garbled' = {}
    /\ UNCHANGED <<keyVars, readerVars, bulkVars>>

\* An error in either is logged and the server starts without a count.
FailScan(s) ==
    /\ started[s] = "counted" \/ (started[s] = "no" /\ "status" \notin garbled)
    /\ FirstScanFails \/ complete \/ remaining # None
    /\ started' = [started EXCEPT ![s] = "yes"]
    /\ counted' = [counted EXCEPT ![s] = 0]
    /\ UNCHANGED <<keyVars, statusVars, readerVars, bulkVars, garbled>>

-----------------------------------------------------------------------------
(***************************************************************************)
(* get_working_memory.                                                     *)
(***************************************************************************)
Goto(r, step) == pc' = [pc EXCEPT ![r] = step]

Return(r) == /\ Goto(r, "idle")
             /\ key' = [key EXCEPT ![r] = None]
             /\ held' = [held EXCEPT ![r] = None]

\* is_migration_complete: if so, JSON.GET at once, which fails on a string and then
\* looks like a missing session.  A server that has started serves.
Call(r) ==
    /\ pc[r] = "idle" /\ ~complete
    /\ \E s \in Servers : started[s] = "yes"
    /\ Overlaps \/ \A s \in Servers : started[s] # "counted"
    /\ \E k \in Keys :
         /\ Overlaps \/ \A q \in Readers : key[q] # k
         /\ key' = [key EXCEPT ![r] = k]
    /\ Goto(r, "type")
    /\ UNCHANGED <<keyVars, statusVars, serverVars, held, bulkVars, garbled>>

\* TYPE: a document or nothing needs no migration.
LookAtType(r) ==
    /\ pc[r] = "type"
    /\ IF type[key[r]] = "string"
       THEN Goto(r, "get") /\ UNCHANGED <<key, held>>
       ELSE Return(r)
    /\ UNCHANGED <<keyVars, statusVars, serverVars, bulkVars, garbled>>

\* GET, which fails on a document and finds nothing when the key is gone.
GetString(r) ==
    /\ pc[r] = "get"
    /\ IF type[key[r]] = "string"
       THEN /\ Goto(r, "convert")
            /\ held' = [held EXCEPT ![r] = version[key[r]]]
            /\ UNCHANGED key
       ELSE Return(r)
    /\ UNCHANGED <<keyVars, statusVars, serverVars, bulkVars, garbled>>

\* Mutant: the script does not look at the type.
ConvertAnyway(r) ==
    /\ pc[r] = "convert"
    /\ type' = [type EXCEPT ![key[r]] = "json"]
    /\ version' = [version EXCEPT ![key[r]] = held[r]]
    /\ Goto(r, "count")
    /\ UNCHANGED <<statusVars, serverVars, key, held, bulkVars, garbled>>

\* _migrate_string_to_json: the script converts the key if it is a string still.
Convert(r) ==
    /\ pc[r] = "convert"
    /\ IF type[key[r]] = "string"
       THEN /\ type' = [type EXCEPT ![key[r]] = "json"]
            /\ version' = [version EXCEPT ![key[r]] = held[r]]
       ELSE UNCHANGED keyVars
    /\ Goto(r, "count")
    /\ UNCHANGED <<statusVars, serverVars, key, held, bulkVars, garbled>>

\* Mutant: complete with one key to go.
UsedUpEarly(n) == n <= 1

UsedUp(n) == n <= 0

\* _decrement_remaining_count: DECR counts from 0 when there is no counter.
CountDown(r) ==
    /\ pc[r] = "count" /\ "count" \notin garbled
    /\ LET n == (IF remaining = None THEN 0 ELSE remaining) - 1
       IN  /\ remaining' = n
           /\ IF UsedUp(n) THEN Goto(r, "complete") /\ UNCHANGED <<key, held>> ELSE Return(r)
    /\ UNCHANGED <<keyVars, complete, serverVars, bulkVars, garbled>>

\* Of a document it raises, which is logged, and the caller gets its session all the same.
SkipCount(r) ==
    /\ pc[r] = "count" /\ "count" \in garbled
    /\ Return(r)
    /\ UNCHANGED <<keyVars, statusVars, serverVars, bulkVars, garbled>>

\* SET of the status,
SetComplete(r) ==
    /\ pc[r] = "complete"
    /\ complete' = TRUE /\ garbled' = garbled \ {"status"}
    /\ Goto(r, "clear")
    /\ UNCHANGED <<keyVars, remaining, serverVars, key, held, bulkVars>>

\* and DEL of the count.
ClearRemaining(r) ==
    /\ pc[r] = "clear"
    /\ remaining' = None /\ garbled' = garbled \ {"count"}
    /\ Return(r)
    /\ UNCHANGED <<keyVars, complete, serverVars, bulkVars>>

\* A call to Redis fails or the server dies: the caller goes no further.
Abort(r) ==
    /\ pc[r] # "idle"
    /\ Return(r)
    /\ UNCHANGED <<keyVars, statusVars, serverVars, bulkVars, garbled>>

-----------------------------------------------------------------------------
(***************************************************************************)
(* migrate-working-memory.                                                 *)
(***************************************************************************)
\* Keys that have been read, and the step after a batch: the next one, or the end.
Batch == {k \in Keys : batch[k] # None}
AfterBatch(todo) == IF todo # {} THEN "read" ELSE "status"
BulkEnds == bulk' = NoBulk /\ batch' = [k \in Keys |-> None]

\* The migration's own keys are strings under the pattern of working memory, too.
OwnStrings == {o \in OwnKeys \ garbled : IF o = "status" THEN complete ELSE remaining # None}
IsDocument(k) == k \in garbled \/ (k \in Keys /\ type[k] = "json")

\* SCAN of the string keys (--dry-run stops here).  Without any, the migration is complete.
BulkScan ==
    /\ bulk.pc = "off"
    /\ LET found == StringKeys \cup OwnStrings
       IN  bulk' = [NoBulk EXCEPT !.pc = IF found = {} THEN "status" ELSE "read", !.todo = found]
    /\ UNCHANGED <<keyVars, statusVars, serverVars, readerVars, batch, garbled>>

\* GET and TTL of a batch in one transaction.  Keys that are gone are passed over; one that
\* is a document by now makes the transaction raise and the command end.
BulkRead ==
    /\ bulk.pc = "read"
    /\ \E ks \in SUBSET bulk.todo :
         /\ Cardinality(ks) = BatchSize \/ (ks = bulk.todo /\ Cardinality(ks) < BatchSize)
         /\ IF \E k \in ks : IsDocument(k)
            THEN BulkEnds
            ELSE /\ batch' = [k \in Keys |-> IF k \in ks \cap StringKeys THEN version[k] ELSE None]
                 /\ bulk' = [bulk EXCEPT !.pc = "write", !.todo = @ \ ks,
                                        !.own = ks \cap OwnStrings]
    /\ UNCHANGED <<keyVars, statusVars, serverVars, readerVars, garbled>>

\* DEL, JSON.SET and EXPIRE of the batch in one transaction, whatever the keys are by now.
BulkWrite ==
    /\ bulk.pc = "write"
    /\ type' = [k \in Keys |-> IF k \in Batch THEN "json" ELSE type[k]]
    /\ version' = [k \in Keys |-> IF k \in Batch THEN batch[k] ELSE version[k]]
    /\ batch' = [k \in Keys |-> None]
    /\ garbled' = garbled \cup bulk.own
    /\ bulk' = [bulk EXCEPT !.pc = AfterBatch(bulk.todo), !.own = {}]
    /\ UNCHANGED <<statusVars, serverVars, readerVars>>

\* It fails, and the keys are converted one by one,  (Assumed: not the transaction that has
\* an own key in it; a counter deleted here by itself would be counted down from nothing.)
BulkWriteFails ==
    /\ bulk.pc = "write" /\ Batch # {} /\ bulk.own = {}
    /\ bulk' = [bulk EXCEPT !.pc = "each"]
    /\ UNCHANGED <<keyVars, statusVars, serverVars, readerVars, batch, garbled>>

\* each deleted
BulkDelete(k) ==
    /\ bulk.pc = "each" /\ bulk.key = None /\ k \in Batch
    /\ type' = [type EXCEPT ![k] = "none"]
    /\ bulk' = [bulk EXCEPT !.key = k]
    /\ UNCHANGED <<version, statusVars, serverVars, readerVars, batch, garbled>>

NextOfBatch(k, failed) ==
    /\ batch' = [batch EXCEPT ![k] = None]
    /\ bulk' = [bulk EXCEPT !.pc = IF Batch = {k} THEN AfterBatch(bulk.todo) ELSE @,
                            !.key = None, !.failed = failed]

\* and set,
BulkSet(k) ==
    /\ bulk.key = k
    /\ type' = [type EXCEPT ![k] = "json"]
    /\ version' = [version EXCEPT ![k] = batch[k]]
    /\ NextOfBatch(k, bulk.failed)
    /\ UNCHANGED <<statusVars, serverVars, readerVars, garbled>>

\* unless one of these fails, which is counted.
BulkKeyFails(k) ==
    /\ bulk.pc = "each" /\ k \in Batch /\ bulk.key \in {k, None}
    /\ NextOfBatch(k, TRUE)
    /\ UNCHANGED <<keyVars, statusVars, serverVars, readerVars, garbled>>

\* set_migration_complete, if no key failed: SET of the status,
BulkSetComplete ==
    /\ bulk.pc = "status"
    /\ IF bulk.failed
       THEN BulkEnds /\ UNCHANGED complete
       ELSE bulk' = [bulk EXCEPT !.pc = "clear"] /\ complete' = TRUE /\ UNCHANGED batch
    /\ garbled' = IF bulk.failed THEN garbled ELSE garbled \ {"status"}
    /\ UNCHANGED <<keyVars, remaining, serverVars, readerVars>>

\* and DEL of the count.
BulkClear ==
    /\ bulk.pc = "clear"
    /\ remaining' = None /\ garbled' = garbled \ {"count"}
    /\ BulkEnds
    /\ UNCHANGED <<keyVars, complete, serverVars, readerVars>>

\* The command is stopped, or a call outside the writes raises.
BulkStops ==
    /\ bulk.pc # "off"
    /\ BulkEnds
    /\ UNCHANGED <<keyVars, statusVars, serverVars, readerVars, garbled>>

BulkStep == \/ BulkScan \/ BulkRead \/ BulkWrite \/ BulkWriteFails
            \/ \E k \in Keys : BulkDelete(k) \/ BulkSet(k) \/ BulkKeyFails(k)
            \/ BulkSetComplete \/ BulkClear \/ BulkStops

-----------------------------------------------------------------------------
\* set_working_memory: JSON.SET on a document or a free key; a string makes it fail.
Put(k) ==
    /\ type[k] # "string" /\ version[k] < MaxVersion
    /\ BulkOverlaps \/ batch[k] = None
    /\ type' = [type EXCEPT ![k] = "json"]
    /\ version' = [version EXCEPT ![k] = @ + 1]
    /\ UNCHANGED <<statusVars, serverVars, readerVars, bulkVars, garbled>>

\* delete_working_memory, or the TTL.
Remove(k) ==
    /\ type[k] # "none"
    /\ BulkOverlaps \/ batch[k] = None
    /\ type' = [type EXCEPT ![k] = "none"]
    /\ UNCHANGED <<version, statusVars, serverVars, readerVars, bulkVars, garbled>>

ReaderStep(r) == \/ LookAtType(r) \/ GetString(r) \/ Convert(r)
                 \/ CountDown(r) \/ SkipCount(r) \/ SetComplete(r) \/ ClearRemaining(r) \/ Abort(r)

Next == \/ \E s \in Servers : Scan(s) \/ StoreCount(s) \/ FailScan(s)
        \/ \E r \in Readers : Call(r) \/ ReaderStep(r)
        \/ \E k \in Keys : Put(k) \/ Remove(k)
        \/ BulkStep

Spec == Init /\ [][Next]_vars

-----------------------------------------------------------------------------
(***************************************************************************)
(* Properties.                                                             *)
(***************************************************************************)
\* Only calls in flight have a key, and the count is of the keys there are.
TypeOK ==
    /\ type \in [Keys -> {"none", "string", "json"}]
    /\ version \in [Keys -> 1 .. MaxVersion]
    /\ complete \in BOOLEAN
    /\ remaining \in (-Cardinality(Readers) .. Cardinality(Keys)) \cup {None}
    /\ started \in [Servers -> {"no", "counted", "yes"}]
    /\ counted \in [Servers -> 0 .. Cardinality(Keys)]
    /\ pc \in [Readers -> {"idle", "type", "get", "convert", "count", "complete",
                           "clear"}]
    /\ key \in [Readers -> Keys \cup {None}]
    /\ held \in [Readers -> 1 .. MaxVersion \cup {None}]
    /\ \A r \in Readers : pc[r] = "idle" <=> key[r] = None
    /\ bulk.pc \in {"off", "read", "write", "each", "status", "clear"}
    /\ bulk.key \in Batch \cup {None} /\ bulk.todo \subseteq Keys \cup OwnKeys
    /\ garbled \subseteq OwnKeys /\ bulk.own \subseteq OwnKeys
    /\ batch \in [Keys -> 1 .. MaxVersion \cup {None}] /\ bulk.todo \cap Batch = {}
    /\ bulk.pc = "off" => bulk = NoBulk /\ Batch = {}

\* Once the migration is complete, no session is left where the fast path cannot read
\* it (_decrement_remaining_count: "All working memory keys have been migrated").
CompleteMeansMigrated == complete => StringKeys = {}

\* Migrating a session never takes it back to an earlier state and never brings back one that
\* was deleted or has expired: a session that was gone is there again by a PUT only, or by
\* the command that took it away itself (_migrate_string_to_json; migrate_working_memory).
NothingUndone == \A k \in Keys :
                   /\ version'[k] >= version[k]
                   /\ type[k] = "none" /\ type'[k] # "none"
                        => version'[k] > version[k] \/ bulk.key = k
MigrationKeepsWrites == [][NothingUndone]_vars
=============================================================================
