-------------------------- MODULE MigrationProofs ---------------------------
(***************************************************************************)
(* Migration never takes a session back to an earlier state, for any       *)
(* number of keys, callers, starting servers and batch size, however they  *)
(* overlap, if no session changes or ends while the command holds it.  A   *)
(* caller converts what it read some time before; what it read is still    *)
(* the session as long as the key is a string, because nothing writes a    *)
(* string: a string key is only converted or removed, and a removed one    *)
(* comes back as a document.  The command writes what it read whatever the *)
(* key is by then, so its batch has to be what is stored all along.        *)
(* Completion, without overlaps: the counter is never below the number of  *)
(* strings nobody is about to count down, so at zero none is left.         *)
(***************************************************************************)
EXTENDS Migration, FiniteSetTheorems, TLAPS

BulkShapes == [pc : {"off", "read", "write", "each", "status", "clear"},
               todo : SUBSET (Keys \cup OwnKeys), key : Keys \cup {None}, failed : BOOLEAN,
               own : SUBSET OwnKeys]

\* The parts of the state the argument is about have their types.
Shapes ==
    /\ type \in [Keys -> {"none", "string", "json"}]
    /\ version \in [Keys -> Nat]
    /\ pc \in [Readers -> {"idle", "type", "get", "convert", "count", "complete",
                           "clear"}]
    /\ key \in [Readers -> Keys \cup {None}]
    /\ held \in [Readers -> Nat \cup {None}]
    /\ \A r \in Readers : pc[r] # "idle" => key[r] \in Keys
    /\ batch \in [Keys -> Nat \cup {None}]
    /\ bulk \in BulkShapes

\* What a caller is about to convert is what the string holds.
HeldIsStored ==
    \A r \in Readers : pc[r] = "convert" /\ type[key[r]] = "string"
                         => held[r] = version[key[r]]

\* What the command is about to write is what is stored, unless clients may write or remove
\* it meanwhile, and a key it converts by itself is of its batch.
BatchIsStored ==
    /\ BulkOverlaps \/ \A k \in Keys : batch[k] # None =>
                         batch[k] = version[k] /\ (type[k] = "none" => bulk.key = k)
    /\ \A k \in Keys : bulk.key = k => bulk.pc = "each" /\ batch[k] # None

IInv == Shapes /\ HeldIsStored /\ BatchIsStored

LEMMA InitHolds == Init => IInv
  BY ConstantsAssumption
     DEF ConstantsAssumption, Init, NoBulk, IInv, Shapes, BulkShapes, HeldIsStored, BatchIsStored

\* A reader that goes elsewhere than to the conversion, while no key changes.
LEMMA ReaderKeeps ==
    ASSUME IInv, NEW r \in Readers, UNCHANGED <<keyVars, bulkVars>>,
           NEW step \in {"type", "get", "count", "complete", "clear"},
           \/ /\ pc' = [pc EXCEPT ![r] = step]
              /\ held' = held
              /\ \E k \in Keys : key' = [key EXCEPT ![r] = k]
           \/ Return(r)
    PROVE  IInv'
  BY DEF IInv, Shapes, BulkShapes, HeldIsStored, BatchIsStored, keyVars, bulkVars, Return, Goto

\* The command reads what is stored, and what it writes is no string any more.
LEMMA BulkKeeps == ASSUME IInv, BulkStep PROVE IInv'
  <1> USE ConstantsAssumption DEF ConstantsAssumption, keyVars, readerVars, NoBulk, BulkEnds
  <1>1. CASE BulkScan
    <2>1. bulk'.key = None /\ bulk' \in BulkShapes
      BY <1>1 DEF BulkScan, StringKeys, OwnStrings, BulkShapes
    <2> QED BY <1>1, <2>1 DEF BulkScan, IInv, Shapes, BulkShapes, HeldIsStored, BatchIsStored
  <1>2. CASE BulkRead
    <2>1. \A k \in Keys : batch'[k] \in {version[k], None}
      BY <1>2 DEF BulkRead
    <2>2. batch' \in [Keys -> Nat \cup {None}]
      BY <1>2 DEF BulkRead, IInv, Shapes, BulkShapes
    <2>3. bulk.key = None /\ bulk \in BulkShapes
      BY <1>2 DEF BulkRead, IInv, Shapes, BulkShapes, BatchIsStored
    <2>4. CASE BulkEnds
      BY <1>2, <2>4 DEF BulkRead, IInv, Shapes, BulkShapes, HeldIsStored, BatchIsStored
    <2>5. ASSUME NEW ks \in SUBSET bulk.todo,
                 bulk' = [bulk EXCEPT !.pc = "write", !.todo = @ \ ks,
                                      !.own = ks \cap OwnStrings],
                 batch' = [k \in Keys |-> IF k \in ks \cap StringKeys THEN version[k] ELSE None]
          PROVE  IInv'
      <3>1. bulk'.key = None /\ bulk' \in BulkShapes
        BY <2>3, <2>5 DEF BulkShapes, OwnStrings
      <3>2. \A k \in Keys : batch'[k] # None => type[k] = "string"
        BY <2>5 DEF StringKeys
      <3>3. UNCHANGED <<type, version, pc, key, held>>
        BY <1>2 DEF BulkRead
      <3> QED BY <2>1, <2>2, <3>1, <3>2, <3>3 DEF IInv, Shapes, HeldIsStored, BatchIsStored
    <2> QED BY <1>2, <2>4, <2>5 DEF BulkRead
  <1>3. CASE BulkWrite
    <2>1. /\ version' \in [Keys -> Nat]
          /\ \A k \in Keys : version'[k] # version[k] => type'[k] = "json"
      BY <1>3 DEF BulkWrite, Batch, IInv, Shapes, BulkShapes
    <2>2. /\ type' \in [Keys -> {"none", "string", "json"}]
          /\ \A k \in Keys : type'[k] \in {type[k], "json"}
      BY <1>3 DEF BulkWrite, IInv, Shapes, BulkShapes
    <2>3. bulk'.key = None /\ bulk' \in BulkShapes
      BY <1>3 DEF BulkWrite, AfterBatch, IInv, Shapes, BulkShapes, BatchIsStored
    <2>4. batch' = [k \in Keys |-> None] /\ UNCHANGED <<pc, key, held>>
      BY <1>3 DEF BulkWrite
    <2> QED BY <2>1, <2>2, <2>3, <2>4 DEF IInv, Shapes, BulkShapes, HeldIsStored, BatchIsStored
  <1>4. CASE BulkWriteFails
    BY <1>4 DEF BulkWriteFails, IInv, Shapes, BulkShapes, HeldIsStored, BatchIsStored
  <1>5. ASSUME NEW k \in Keys, BulkDelete(k) PROVE IInv'
    BY <1>5 DEF BulkDelete, Batch, IInv, Shapes, BulkShapes, HeldIsStored, BatchIsStored
  <1>6. ASSUME NEW k \in Keys, NEW failed \in BOOLEAN, NextOfBatch(k, failed)
        PROVE  /\ bulk'.key = None /\ \A j \in Keys : batch'[j] \in {batch[j], None}
               /\ batch' \in [Keys -> Nat \cup {None}]
               /\ bulk' \in BulkShapes
    BY <1>6 DEF NextOfBatch, AfterBatch, IInv, Shapes, BulkShapes
  <1>7. ASSUME NEW k \in Keys, BulkSet(k) PROVE IInv'
    <2>1. /\ version' = [version EXCEPT ![k] = batch[k]] /\ version' \in [Keys -> Nat]
          /\ bulk.failed \in BOOLEAN
      BY <1>7 DEF BulkSet, IInv, Shapes, BulkShapes, BatchIsStored
    <2>2. UNCHANGED <<pc, key, held>> /\ type' = [type EXCEPT ![k] = "json"]
      BY <1>7 DEF BulkSet
    <2>3. /\ bulk'.key = None /\ bulk' \in BulkShapes /\ batch' \in [Keys -> Nat \cup {None}]
          /\ \A j \in Keys : batch'[j] \in {batch[j], None}
          /\ batch'[k] = None
      BY <1>6, <1>7, <2>1 DEF BulkSet, NextOfBatch, IInv, Shapes
    <2>4. Shapes'
      BY <2>1, <2>2, <2>3 DEF IInv, Shapes
    <2>5. HeldIsStored'
      BY <2>1, <2>2 DEF IInv, Shapes, HeldIsStored
    <2>6. BatchIsStored'
      <3>1. bulk.key = k
        BY <1>7 DEF BulkSet
      <3> QED BY <2>1, <2>2, <2>3, <3>1 DEF IInv, Shapes, BatchIsStored
    <2> QED BY <2>4, <2>5, <2>6 DEF IInv
  <1>8. ASSUME NEW k \in Keys, BulkKeyFails(k) PROVE IInv'
    <2>1. UNCHANGED <<type, version, pc, key, held>>
      BY <1>8 DEF BulkKeyFails
    <2>2. NextOfBatch(k, TRUE)
      BY <1>8 DEF BulkKeyFails
    <2>3. /\ bulk'.key = None /\ bulk' \in BulkShapes /\ batch' \in [Keys -> Nat \cup {None}]
          /\ \A j \in Keys : batch'[j] \in {batch[j], None}
      BY <1>6, <2>2
    <2>4. batch'[k] = None /\ bulk.key \in {k, None}
      BY <1>8, <2>2 DEF BulkKeyFails, NextOfBatch, IInv, Shapes
    <2>5. Shapes' /\ HeldIsStored'
      BY <2>1, <2>3 DEF IInv, Shapes, HeldIsStored
    <2>6. BatchIsStored'
      BY <2>1, <2>3, <2>4 DEF IInv, Shapes, BatchIsStored
    <2> QED BY <2>5, <2>6 DEF IInv
  <1>9. CASE BulkSetComplete \/ BulkClear \/ BulkStops
    <2>1. UNCHANGED <<type, version, pc, key, held>>
      BY <1>9 DEF BulkSetComplete, BulkClear, BulkStops
    <2>2. CASE UNCHANGED batch /\ bulk' = [bulk EXCEPT !.pc = "clear"] /\ bulk.pc = "status"
      BY <2>1, <2>2 DEF IInv, Shapes, BulkShapes, HeldIsStored, BatchIsStored
    <2>3. CASE BulkEnds
      BY <2>1, <2>3 DEF IInv, Shapes, BulkShapes, HeldIsStored, BatchIsStored
    <2> QED BY <1>9, <2>2, <2>3 DEF BulkSetComplete, BulkClear, BulkStops
  <1> QED BY <1>1, <1>2, <1>3, <1>4, <1>5, <1>7, <1>8, <1>9 DEF BulkStep

LEMMA NextKeeps == ASSUME IInv, [Next]_vars PROVE IInv'
  <1> USE DEF keyVars, statusVars, serverVars, readerVars, bulkVars
  <1>1. CASE UNCHANGED <<keyVars, readerVars, bulkVars>>
    BY <1>1 DEF IInv, Shapes, BulkShapes, HeldIsStored, BatchIsStored
  <1>2. ASSUME NEW r \in Readers, Call(r) PROVE IInv'
    <2>1. PICK k \in Keys : key' = [key EXCEPT ![r] = k]
      BY <1>2 DEF Call
    <2> QED BY <1>2, <2>1, ReaderKeeps DEF Call, Goto
  <1>3. ASSUME NEW r \in Readers, LookAtType(r) PROVE IInv'
    <2>1. key[r] \in Keys /\ key = [key EXCEPT ![r] = key[r]]
      BY <1>3 DEF LookAtType, IInv, Shapes, BulkShapes
    <2> QED BY <1>3, <2>1, ReaderKeeps DEF LookAtType, Goto
  <1>4. ASSUME NEW r \in Readers, GetString(r) PROVE IInv'
    <2>1. CASE type[key[r]] = "string"
      BY <1>4, <2>1 DEF GetString, Goto, IInv, Shapes, BulkShapes, HeldIsStored, BatchIsStored
    <2>2. CASE type[key[r]] # "string"
      BY <1>4, <2>2, ReaderKeeps DEF GetString
    <2> QED BY <2>1, <2>2
  <1>5. ASSUME NEW r \in Readers, Convert(r) PROVE IInv'
    BY <1>5 DEF Convert, Goto, IInv, Shapes, BulkShapes, HeldIsStored, BatchIsStored
  <1>6. ASSUME NEW r \in Readers, CountDown(r) PROVE IInv'
    <2>1. key[r] \in Keys /\ key = [key EXCEPT ![r] = key[r]]
      BY <1>6 DEF CountDown, IInv, Shapes, BulkShapes
    <2> QED BY <1>6, <2>1, ReaderKeeps DEF CountDown, Goto
  <1>7. ASSUME NEW r \in Readers, SetComplete(r) PROVE IInv'
    <2>1. key[r] \in Keys /\ key = [key EXCEPT ![r] = key[r]]
      BY <1>7 DEF SetComplete, IInv, Shapes, BulkShapes
    <2> QED BY <1>7, <2>1, ReaderKeeps DEF SetComplete, Goto
  <1>8. ASSUME NEW k \in Keys, Put(k) \/ Remove(k) PROVE IInv'
    BY <1>8 DEF Put, Remove, IInv, Shapes, BulkShapes, HeldIsStored, BatchIsStored
  <1>9. ASSUME NEW s \in Servers, Scan(s) \/ StoreCount(s) \/ FailScan(s) PROVE IInv'
    BY <1>1, <1>9 DEF Scan, StoreCount, FailScan
  <1>11. CASE BulkStep
    BY <1>11, BulkKeeps
  <1>10. ASSUME NEW r \in Readers, SkipCount(r) \/ ClearRemaining(r) \/ Abort(r) PROVE IInv'
    BY <1>10, ReaderKeeps DEF SkipCount, ClearRemaining, Abort
  <1> QED BY <1>1, <1>2, <1>3, <1>4, <1>5, <1>6, <1>7, <1>8, <1>9, <1>10, <1>11
          DEF Next, ReaderStep, vars

\* Only a PUT, a conversion and the command write a version: the first counts up, and the
\* others write what is there.  A key that is gone comes back by a PUT, or by the command
\* that deleted it.
LEMMA NothingIsUndone ==
    ASSUME IInv, [Next]_vars, BulkOverlaps => ~BulkStep
    PROVE  NothingUndone
  <1> SUFFICES ASSUME NEW k \in Keys
               PROVE  /\ version'[k] >= version[k]
                      /\ type[k] = "none" /\ type'[k] # "none"
                           => version'[k] > version[k] \/ bulk.key = k
    BY DEF NothingUndone
  <1>0. version[k] \in Nat
    BY DEF IInv, Shapes
  <1>1. ASSUME UNCHANGED version, type'[k] \in {type[k], "none"}
        PROVE  /\ version'[k] >= version[k]
               /\ ~(type[k] = "none" /\ type'[k] # "none")
    BY <1>0, <1>1
  <1>2. ASSUME NEW r \in Readers, Convert(r)
        PROVE  /\ version'[k] >= version[k]
               /\ ~(type[k] = "none" /\ type'[k] # "none")
    <2>2. CASE type[key[r]] = "string"
      <3>1. version' = [version EXCEPT ![key[r]] = held[r]] /\ held[r] = version[key[r]]
            /\ type' = [type EXCEPT ![key[r]] = "json"]
        BY <1>2, <2>2 DEF Convert, IInv, Shapes, HeldIsStored
      <3>2. version'[k] = version[k] /\ (type[k] = "none" => type'[k] = "none")
        BY <2>2, <3>1 DEF IInv, Shapes
      <3> QED BY <1>0, <3>2
    <2>3. CASE type[key[r]] # "string"
      BY <1>1, <1>2, <2>3 DEF Convert, keyVars
    <2> QED BY <2>2, <2>3
  <1>3. ASSUME NEW j \in Keys, Put(j)
        PROVE  /\ version'[k] >= version[k]
               /\ type[k] = "none" /\ type'[k] # "none" => version'[k] > version[k]
    BY <1>3 DEF Put, IInv, Shapes
  <1>4. CASE BulkStep
    <2>1. ~BulkOverlaps
      BY <1>4
    <2>3. CASE BulkWrite
      <3>1. bulk.key # k
        BY <2>3 DEF BulkWrite, IInv, BatchIsStored
      <3> QED BY <1>0, <2>1, <2>3, <3>1 DEF BulkWrite, Batch, IInv, BatchIsStored
    <2>4. ASSUME NEW j \in Keys, BulkSet(j)
          PROVE  /\ version'[k] >= version[k]
                 /\ type[k] = "none" /\ type'[k] # "none" => bulk.key = k
      <3>1. /\ batch[j] = version[j] /\ version' = [version EXCEPT ![j] = batch[j]]
            /\ type' = [type EXCEPT ![j] = "json"] /\ bulk.key = j
        BY <2>1, <2>4 DEF BulkSet, IInv, BatchIsStored
      <3> QED BY <1>0, <3>1 DEF IInv, Shapes
    <2>5. ASSUME NEW j \in Keys, BulkDelete(j)
          PROVE  UNCHANGED version /\ type'[k] \in {type[k], "none"}
      BY <2>5 DEF BulkDelete, IInv, Shapes
    <2>6. ASSUME ~BulkWrite, \A j \in Keys : ~BulkSet(j) /\ ~BulkDelete(j)
          PROVE  UNCHANGED keyVars
      BY <1>4, <2>6 DEF BulkStep, BulkScan, BulkRead, BulkWriteFails, BulkKeyFails,
                        BulkSetComplete, BulkClear, BulkStops
    <2> QED BY <1>1, <2>3, <2>4, <2>5, <2>6 DEF keyVars
  <1>5. ASSUME NEW j \in Keys, Remove(j)
        PROVE  UNCHANGED version /\ type'[k] \in {type[k], "none"}
    BY <1>5 DEF Remove, IInv, Shapes
  <1>6. ASSUME ~BulkStep, \A r \in Readers : ~Convert(r), \A j \in Keys : ~Put(j) /\ ~Remove(j)
        PROVE  UNCHANGED version /\ type'[k] \in {type[k], "none"}
    BY <1>6 DEF Next, ReaderStep, vars, keyVars, statusVars, serverVars, readerVars, Scan,
                StoreCount, FailScan, Call, LookAtType, GetString, CountDown, SkipCount,
                SetComplete, ClearRemaining, Abort
  <1> QED BY <1>1, <1>2, <1>3, <1>4, <1>5, <1>6

\* The invariant of the migration, with the command or without.
LEMMA Invariant == Spec => []IInv
  <1>1. IInv /\ [Next]_vars => IInv'
    BY NextKeeps
  <1> QED BY InitHolds, <1>1, PTL DEF Spec

\* As long as no session that the command holds is written, removed or expires, no
\* interleaving of callers, conversions, batches, PUTs, deletions and server starts writes an
\* earlier session over a later one or brings back one that is gone (_migrate_string_to_json;
\* migrate_working_memory).
THEOREM KeepsWrites == ASSUME ~BulkOverlaps PROVE Spec => MigrationKeepsWrites
  <1>1. IInv /\ [Next]_vars => [NothingUndone]_vars
    BY NothingIsUndone
  <1> QED BY <1>1, Invariant, PTL DEF Spec, MigrationKeepsWrites

\* However clients write and delete, a conversion by get_working_memory never writes an
\* earlier session over a later one and never brings back a deleted one: only the command can
\* (_migrate_string_to_json: the script looks at the type again before it writes).
THEOREM LazyMigrationKeepsWrites == Spec => [][BulkStep \/ NothingUndone]_vars
  <1>1. IInv /\ [Next]_vars => [BulkStep \/ NothingUndone]_vars
    BY NothingIsUndone
  <1> QED BY <1>1, Invariant, PTL DEF Spec

-----------------------------------------------------------------------------
(***************************************************************************)
(* When the migration says it is complete, it is, if callers of one key,   *)
(* and the startup checks and callers, do not overlap.  The count is at    *)
(* least the number of keys that have yet to be counted down, and the      *)
(* command keeps what it has yet to convert in its hands.                  *)
(***************************************************************************)
\* Keys that are strings, or whose caller has yet to count down.
Counting == {r \in Readers : pc[r] \in {"convert", "count"}}
Uncounted == StringKeys \cup {key[r] : r \in Counting}

\* Callers have different keys, and a startup check has none beside it.
Apart == /\ \A r \in Readers : pc[r] = "idle" <=> key[r] = None
         /\ \A q, r \in Readers : key[q] = key[r] /\ key[r] # None => q = r
         /\ \A s \in Servers : started[s] = "counted" => \A r \in Readers : pc[r] = "idle"

\* Each step of a caller or a server says what is true, until the migration is complete.
CountCovers ==
    complete \/ /\ remaining # None => remaining \in Int /\ remaining >= Cardinality(Uncounted)
                /\ \A s \in Servers : started[s] = "counted"
                     => counted[s] \in Nat /\ counted[s] >= Cardinality(Uncounted)
                /\ remaining = None => /\ \A s \in Servers : started[s] # "yes"
                                       /\ \A r \in Readers : pc[r] = "idle"

CallersTellTheTruth ==
    \A r \in Readers : /\ pc[r] = "count" => type[key[r]] # "string"
                       /\ pc[r] = "complete" => StringKeys = {}
                       /\ pc[r] = "clear" => complete

\* What the command has found is in its hands, unless it failed.
CommandCovers ==
    /\ bulk.pc # "off" /\ ~bulk.failed => StringKeys \subseteq bulk.todo \cup Batch
    /\ bulk.pc \in {"status", "clear"} => bulk.todo = {} /\ Batch = {}
    /\ bulk.pc \in {"off", "read"} => Batch = {}
    /\ bulk.pc = "clear" => complete

Counted == /\ remaining \in Int \cup {None} /\ complete \in BOOLEAN
           /\ counted \in [Servers -> Int]
           /\ started \in [Servers -> {"no", "counted", "yes"}]
           /\ CompleteMeansMigrated
           /\ Apart /\ CountCovers /\ CallersTellTheTruth /\ CommandCovers

LEMMA CountedInit == Init => Counted
  <1> SUFFICES ASSUME Init PROVE Counted
    OBVIOUS
  <1> USE ConstantsAssumption DEF ConstantsAssumption, Init
  <1>1. CompleteMeansMigrated /\ CallersTellTheTruth /\ Apart
    BY DEF CompleteMeansMigrated, CallersTellTheTruth, Apart
  <1>2. CountCovers
    BY DEF CountCovers
  <1>3. CommandCovers
    BY DEF CommandCovers, NoBulk, Batch
  <1>4. remaining \in Int \cup {None} /\ complete \in BOOLEAN
    OBVIOUS
  <1>5. counted \in [Servers -> Int] /\ started \in [Servers -> {"no", "counted", "yes"}]
    OBVIOUS
  <1> QED BY <1>1, <1>2, <1>3, <1>4, <1>5 DEF Counted

\* As keys stop being strings, and callers of keys counted so far end, less is to be counted.
LEMMA FewerToCount ==
    ASSUME IsFiniteSet(Keys), IInv, Uncounted' \subseteq Uncounted
    PROVE  Cardinality(Uncounted') <= Cardinality(Uncounted) /\ Cardinality(Uncounted) \in Nat
           /\ Cardinality(Uncounted') \in Nat
  <1>1. Uncounted \subseteq Keys
    BY DEF IInv, Shapes, Uncounted, Counting, StringKeys
  <1>2. IsFiniteSet(Uncounted)
    BY <1>1, FS_Subset
  <1>3. IsFiniteSet(Uncounted') /\ Cardinality(Uncounted') <= Cardinality(Uncounted)
    BY <1>2, FS_Subset
  <1> QED BY <1>2, <1>3, FS_CardinalityType

\* A step of clients or the command that leaves the count alone.
LEMMA KeysKeepTheCount ==
    ASSUME IsFiniteSet(Keys), IInv, Counted, UNCHANGED <<statusVars, serverVars, readerVars>>,
           \A k \in Keys : type'[k] = "string" => type[k] = "string", CommandCovers'
    PROVE  Counted'
  <1> USE DEF statusVars, serverVars, readerVars, Counted
  <1>1. StringKeys' \subseteq StringKeys /\ Counting' = Counting
    BY DEF StringKeys, Counting
  <1>2. CompleteMeansMigrated' /\ Apart'
    BY <1>1 DEF CompleteMeansMigrated, Apart
  <1>3. CallersTellTheTruth'
    BY <1>1 DEF CallersTellTheTruth, IInv, Shapes
  <1>4. Uncounted' \subseteq Uncounted
    BY <1>1 DEF Uncounted
  <1>5. CountCovers'
    <2> USE <1>4, FewerToCount
    <2>1. CASE complete
      BY <2>1 DEF CountCovers
    <2>2. CASE ~complete
      BY <2>2 DEF CountCovers
    <2> QED BY <2>1, <2>2
  <1> QED BY <1>2, <1>3, <1>5

\* A step of caller r that leaves the keys and the count alone.
LEMMA CallerKeepsTheCount ==
    ASSUME IsFiniteSet(Keys), IInv, Counted,
           UNCHANGED <<keyVars, statusVars, serverVars, bulkVars>>,
           NEW r \in Readers, pc[r] # "idle",
           \/ \E step \in {"get", "convert"} :
                /\ pc' = [pc EXCEPT ![r] = step] /\ key' = key
                /\ step = "convert" => type[key[r]] = "string"
           \/ Return(r)
    PROVE  Counted'
  <1> USE DEF keyVars, statusVars, serverVars, bulkVars, Counted, Return, Goto
  <1>1. StringKeys' = StringKeys /\ Batch' = Batch
    BY DEF StringKeys, Batch
  <1>2. CompleteMeansMigrated' /\ CommandCovers'
    BY <1>1 DEF CompleteMeansMigrated, CommandCovers
  <1>3. Apart' /\ CallersTellTheTruth'
    BY <1>1 DEF Apart, CallersTellTheTruth, IInv, Shapes
  <1>4. Uncounted' \subseteq Uncounted
    BY <1>1 DEF Uncounted, Counting, StringKeys, IInv, Shapes
  <1>5. CountCovers'
    <2> USE <1>4, FewerToCount
    <2>1. CASE complete
      BY <2>1 DEF CountCovers
    <2>2. CASE ~complete
      BY <2>2 DEF CountCovers, IInv, Shapes
    <2> QED BY <2>1, <2>2
  <1> QED BY <1>2, <1>3, <1>5

\* The command leaves no string behind that it has found, and makes none.
LEMMA CommandStep ==
    ASSUME IInv, CommandCovers, BulkStep
    PROVE  /\ CommandCovers'
           /\ \A k \in Keys : type'[k] = "string" => type[k] = "string"
  <1>0. BulkEnds => bulk'.pc = "off" /\ Batch' = {}
    BY DEF BulkEnds, NoBulk, Batch
  <1> DEFINE NoNewStrings == \A k \in Keys : type'[k] = "string" => type[k] = "string"
  <1> USE ConstantsAssumption DEF ConstantsAssumption, IInv, Shapes, BulkShapes, StringKeys, Batch
  <1>1. CASE BulkScan
    <2>1. /\ bulk'.pc \in {"read", "status"} /\ StringKeys \subseteq bulk'.todo
          /\ bulk'.pc = "status" => bulk'.todo = {}
      BY <1>1 DEF BulkScan, NoBulk
    <2> QED BY <1>1, <2>1 DEF CommandCovers, BulkScan, keyVars
  <1>2. CASE BulkRead
    <2>1. NoNewStrings
      BY <1>2 DEF BulkRead, keyVars
    <2>2. CASE BulkEnds
      BY <1>0, <2>1, <2>2 DEF CommandCovers
    <2>3. ASSUME NEW ks \in SUBSET bulk.todo,
                 bulk' = [bulk EXCEPT !.pc = "write", !.todo = @ \ ks,
                                      !.own = ks \cap OwnStrings],
                 batch' = [k \in Keys |-> IF k \in ks \cap StringKeys THEN version[k] ELSE None]
          PROVE  CommandCovers'
      <3>1. Batch' = ks \cap StringKeys
        BY <2>3
      <3>2. /\ bulk'.pc = "write" /\ bulk'.todo = bulk.todo \ ks /\ bulk'.failed = bulk.failed
            /\ StringKeys' = StringKeys /\ Batch = {} /\ bulk.pc # "off"
        BY <1>2, <2>3 DEF BulkRead, keyVars, CommandCovers
      <3> QED BY <3>1, <3>2 DEF CommandCovers
    <2> QED BY <1>2, <2>1, <2>2, <2>3 DEF BulkRead
  <1>3. CASE BulkWrite
    <2>1. /\ bulk'.pc \in {"read", "status"} /\ bulk'.todo = bulk.todo /\ bulk'.failed = bulk.failed
          /\ bulk'.pc = "status" => bulk.todo = {}
          /\ Batch' = {} /\ StringKeys' = StringKeys \ Batch /\ bulk.pc # "off"
      BY <1>3 DEF BulkWrite, AfterBatch
    <2> QED BY <1>3, <2>1 DEF BulkWrite, CommandCovers
  <1>4. CASE BulkWriteFails
    BY <1>4 DEF BulkWriteFails, keyVars, statusVars, CommandCovers
  <1>5. ASSUME NEW k \in Keys, BulkDelete(k) PROVE NoNewStrings /\ CommandCovers'
    BY <1>5 DEF BulkDelete, statusVars, CommandCovers
  <1>6. ASSUME NEW k \in Keys, NEW failed \in BOOLEAN, NextOfBatch(k, failed), bulk.pc = "each"
        PROVE  /\ bulk'.pc \in {"each", "read", "status"} /\ bulk'.todo = bulk.todo
               /\ bulk'.failed = failed /\ Batch' = Batch \ {k}
               /\ bulk'.pc \in {"read", "status"} => Batch' = {}
               /\ bulk'.pc = "status" => bulk.todo = {}
    BY <1>6 DEF NextOfBatch, AfterBatch
  <1>7. ASSUME NEW k \in Keys, BulkSet(k) PROVE NoNewStrings /\ CommandCovers'
    <2>1. bulk.pc = "each" /\ NextOfBatch(k, bulk.failed) /\ bulk.failed \in BOOLEAN
      BY <1>7 DEF BulkSet, BatchIsStored
    <2>2. StringKeys' = StringKeys \ {k} /\ NoNewStrings
      BY <1>7 DEF BulkSet
    <2> QED BY <2>1, <2>2, <1>6 DEF CommandCovers
  <1>8. ASSUME NEW k \in Keys, BulkKeyFails(k) PROVE NoNewStrings /\ CommandCovers'
    <2>1. bulk.pc = "each" /\ NextOfBatch(k, TRUE) /\ UNCHANGED keyVars
      BY <1>8 DEF BulkKeyFails
    <2> QED BY <2>1, <1>6 DEF CommandCovers, keyVars
  <1>9. CASE BulkSetComplete \/ BulkClear \/ BulkStops
    <2>1. UNCHANGED keyVars
      BY <1>9 DEF BulkSetComplete, BulkClear, BulkStops
    <2>2. CASE BulkEnds
      BY <1>0, <2>1, <2>2 DEF CommandCovers, keyVars
    <2>3. CASE BulkSetComplete /\ ~bulk.failed
      BY <2>1, <2>3 DEF CommandCovers, BulkSetComplete, keyVars
    <2> QED BY <1>9, <2>1, <2>2, <2>3 DEF BulkSetComplete, BulkClear, BulkStops, keyVars
  <1> QED BY <1>1, <1>2, <1>3, <1>4, <1>5, <1>7, <1>8, <1>9 DEF BulkStep

LEMMA UncountedIsFinite ==
    ASSUME IsFiniteSet(Keys), IInv
    PROVE  /\ IsFiniteSet(Uncounted) /\ Cardinality(Uncounted) \in Nat
           /\ Cardinality(Uncounted) = 0 <=> Uncounted = {}
           /\ \A k \in Uncounted : Cardinality(Uncounted \ {k}) = Cardinality(Uncounted) - 1
  <1>1. Uncounted \subseteq Keys
    BY DEF IInv, Shapes, Uncounted, Counting, StringKeys
  <1>2. IsFiniteSet(Uncounted)
    BY <1>1, FS_Subset
  <1>3. \A k \in Uncounted : Cardinality(Uncounted \ {k}) = Cardinality(Uncounted) - 1
    BY <1>2, FS_RemoveElement
  <1> QED BY <1>2, <1>3, FS_CardinalityType, FS_EmptySet

\* A startup check counts while no caller is on its way.
LEMMA ServerStep ==
    ASSUME ~Overlaps, ~FirstScanFails, IsFiniteSet(Keys), IInv, Counted, NEW s \in Servers,
           Scan(s) \/ StoreCount(s) \/ FailScan(s)
    PROVE  Counted'
  <1> USE UncountedIsFinite, ConstantsAssumption DEF ConstantsAssumption, Counted, IInv, Shapes
  <1>1. UNCHANGED <<keyVars, readerVars, bulkVars>>
    BY DEF Scan, StoreCount, FailScan
  <1>2. StringKeys' = StringKeys /\ Uncounted' = Uncounted /\ Batch' = Batch
    BY <1>1 DEF keyVars, readerVars, bulkVars, StringKeys, Uncounted, Counting, Batch
  <1>3. complete => complete'
    BY DEF Scan, StoreCount, FailScan, statusVars
  <1>4. CommandCovers' /\ CallersTellTheTruth'
    BY <1>1, <1>2, <1>3 DEF CommandCovers, CallersTellTheTruth, keyVars, readerVars, bulkVars
  <1>5. CASE Scan(s)
    <2>1. \A r \in Readers : pc[r] = "idle"
      BY <1>5 DEF Scan
    <2>2. Uncounted = StringKeys
      BY <2>1 DEF Uncounted, Counting
    <2>3. Apart'
      BY <1>1, <1>5, <2>1 DEF Scan, Apart, readerVars
    <2>4. CountCovers'
      BY <1>1, <1>2, <1>5, <2>2 DEF Scan, FoundByScan, CountCovers, statusVars, readerVars
    <2>5. CompleteMeansMigrated'
      BY <1>2, <1>5 DEF Scan, CompleteMeansMigrated, statusVars
    <2>6. counted' \in [Servers -> Int] /\ UNCHANGED <<remaining, complete>>
      BY <1>2, <1>5, <2>2 DEF Scan, FoundByScan, statusVars
    <2>7. started' \in [Servers -> {"no", "counted", "yes"}]
      BY <1>5 DEF Scan
    <2> QED BY <1>4, <2>3, <2>4, <2>5, <2>6, <2>7
  <1>6. CASE StoreCount(s)
    <2>1. /\ started[s] = "counted" /\ started' = [started EXCEPT ![s] = "yes"]
          /\ counted' = [counted EXCEPT ![s] = 0]
      BY <1>6 DEF StoreCount
    <2>2. complete \/ counted[s] >= Cardinality(Uncounted)
      BY <2>1 DEF CountCovers
    <2>3. Apart'
      BY <1>1, <2>1 DEF Apart, readerVars
    <2>4. CASE counted[s] > 0
      <3>1. remaining' = counted[s] /\ complete' = complete
        BY <1>6, <2>4 DEF StoreCount
      <3>2. CountCovers'
        BY <1>1, <1>2, <2>1, <2>2, <3>1 DEF CountCovers, readerVars
      <3> QED BY <1>2, <1>4, <2>1, <2>3, <3>1, <3>2 DEF CompleteMeansMigrated
    <2>5. CASE ~(counted[s] > 0)
      <3>1. complete' = TRUE /\ remaining' = None
        BY <1>6, <2>5 DEF StoreCount
      <3>2. StringKeys = {}
        BY <2>2, <2>5 DEF Uncounted, CompleteMeansMigrated
      <3>3. CountCovers' /\ CompleteMeansMigrated'
        BY <1>2, <3>1, <3>2 DEF CountCovers, CompleteMeansMigrated
      <3> QED BY <1>4, <2>1, <2>3, <3>1, <3>3
    <2> QED BY <2>4, <2>5
  <1>7. CASE FailScan(s)
    <2>1. /\ started' = [started EXCEPT ![s] = "yes"] /\ counted' = [counted EXCEPT ![s] = 0]
          /\ UNCHANGED <<remaining, complete>> /\ (complete \/ remaining # None)
      BY <1>7 DEF FailScan, statusVars
    <2>2. Apart'
      BY <1>1, <2>1 DEF Apart, readerVars
    <2>3. CountCovers'
      BY <1>1, <1>2, <2>1 DEF CountCovers, readerVars
    <2> QED BY <1>2, <1>4, <2>1, <2>2, <2>3 DEF CompleteMeansMigrated
  <1> QED BY <1>5, <1>6, <1>7

\* A caller counts its key down once, after the key has stopped being a string.
LEMMA CallerStep ==
    ASSUME ~Overlaps, IsFiniteSet(Keys), IInv, Counted, NEW r \in Readers, Call(r) \/ ReaderStep(r)
    PROVE  Counted'
  <1> USE UncountedIsFinite, ConstantsAssumption DEF ConstantsAssumption, Counted, IInv, Shapes
  <1>1. CASE Call(r)
    <2>1. PICK k \in Keys : /\ key' = [key EXCEPT ![r] = k] /\ pc' = [pc EXCEPT ![r] = "type"]
                            /\ \A q \in Readers : key[q] # k
      BY <1>1 DEF Call, Goto
    <2>2. /\ UNCHANGED <<keyVars, statusVars, serverVars, bulkVars>> /\ pc[r] = "idle" /\ ~complete
          /\ \E s \in Servers : started[s] = "yes"
          /\ \A s \in Servers : started[s] # "counted"
      BY <1>1 DEF Call
    <2>3. Counting' = Counting /\ \A q \in Counting : key'[q] = key[q]
      BY <2>1, <2>2 DEF Counting
    <2>4. /\ StringKeys' = StringKeys /\ Batch' = Batch
      BY <2>2 DEF keyVars, bulkVars, StringKeys, Batch
    <2>5. Uncounted' = Uncounted
      BY <2>3, <2>4 DEF Uncounted
    <2>6. Apart'
      BY <2>1, <2>2 DEF Apart, serverVars
    <2>7. CountCovers'
      BY <2>1, <2>2, <2>5 DEF CountCovers, statusVars, serverVars
    <2>8. CallersTellTheTruth' /\ CommandCovers' /\ CompleteMeansMigrated'
      BY <2>1, <2>2, <2>4
         DEF CallersTellTheTruth, CommandCovers, CompleteMeansMigrated, keyVars, statusVars,
             bulkVars
    <2> QED BY <2>2, <2>6, <2>7, <2>8 DEF statusVars, serverVars
  <1>2. CASE LookAtType(r) \/ GetString(r) \/ SkipCount(r) \/ Abort(r)
    BY <1>2, CallerKeepsTheCount DEF LookAtType, GetString, SkipCount, Abort, Goto
  <1>3. CASE Convert(r)
    <2>1. /\ pc[r] = "convert" /\ pc' = [pc EXCEPT ![r] = "count"]
          /\ UNCHANGED <<statusVars, serverVars, key, held, bulkVars>>
          /\ type'[key[r]] # "string"
          /\ \A k \in Keys : type'[k] = "string" => type[k] = "string"
      BY <1>3 DEF Convert, Goto, keyVars
    <2>2. StringKeys' \subseteq StringKeys /\ Counting' = Counting /\ Batch' = Batch
      BY <2>1 DEF StringKeys, Counting, Batch, bulkVars
    <2>3. Uncounted' \subseteq Uncounted
      BY <2>1, <2>2 DEF Uncounted
    <2>4. Apart' /\ CallersTellTheTruth'
      BY <2>1, <2>2 DEF Apart, CallersTellTheTruth, statusVars, serverVars
    <2>5. CommandCovers' /\ CompleteMeansMigrated'
      BY <2>1, <2>2 DEF CommandCovers, CompleteMeansMigrated, statusVars, bulkVars
    <2>6. CountCovers'
      BY <2>1, <2>3, FewerToCount DEF CountCovers, statusVars, serverVars
    <2> QED BY <2>1, <2>4, <2>5, <2>6 DEF statusVars, serverVars
  <1>4. CASE CountDown(r)
    <2> DEFINE n == (IF remaining = None THEN 0 ELSE remaining) - 1
    <2>1. /\ pc[r] = "count" /\ UNCHANGED <<keyVars, complete, serverVars, bulkVars>>
          /\ remaining' = n /\ n \in Int
          /\ \/ n <= 0 /\ pc' = [pc EXCEPT ![r] = "complete"] /\ key' = key
             \/ /\ n > 0 /\ pc' = [pc EXCEPT ![r] = "idle"]
                /\ key' = [key EXCEPT ![r] = None]
      BY <1>4 DEF CountDown, UsedUp, Return, Goto
    <2>2. /\ StringKeys' = StringKeys /\ Batch' = Batch /\ Counting' = Counting \ {r}
          /\ r \in Counting /\ key[r] \notin StringKeys
          /\ \A q \in Counting \ {r} : key'[q] = key[q] /\ key[q] # key[r]
      BY <2>1 DEF keyVars, bulkVars, StringKeys, Batch, Counting, Apart, CallersTellTheTruth
    <2>3. Uncounted' = Uncounted \ {key[r]} /\ key[r] \in Uncounted
      BY <2>2 DEF Uncounted
    <2>4. Cardinality(Uncounted') = Cardinality(Uncounted) - 1
      BY <2>3
    <2>5. complete \/ n >= Cardinality(Uncounted')
      BY <2>1, <2>4 DEF CountCovers
    <2>6. n <= 0 => StringKeys = {}
      <3>1. CASE complete
        BY <3>1 DEF CompleteMeansMigrated
      <3>2. CASE ~complete /\ n <= 0
        <4>1. IsFiniteSet(Uncounted') /\ Cardinality(Uncounted') \in Nat
          BY <2>3, FS_RemoveElement, FS_CardinalityType
        <4>2. Cardinality(Uncounted') = 0
          BY <2>1, <2>5, <3>2, <4>1
        <4> QED BY <2>2, <4>1, <4>2, FS_EmptySet DEF Uncounted
      <3> QED BY <3>1, <3>2
    <2>7. Apart'
      BY <2>1 DEF Apart, serverVars
    <2>8. CallersTellTheTruth' /\ CommandCovers' /\ CompleteMeansMigrated'
      BY <2>1, <2>2, <2>6
         DEF CallersTellTheTruth, CommandCovers, CompleteMeansMigrated, keyVars, bulkVars
    <2>9. \A s \in Servers : started[s] # "counted"
      BY <2>1 DEF Apart
    <2>10. CountCovers'
      BY <2>1, <2>5, <2>9 DEF CountCovers, serverVars
    <2> QED BY <2>1, <2>7, <2>8, <2>10 DEF serverVars
  <1>5. CASE SetComplete(r) \/ ClearRemaining(r)
    <2>1. /\ UNCHANGED <<keyVars, serverVars, bulkVars>> /\ complete' = TRUE /\ StringKeys = {}
          /\ remaining' \in Int \cup {None}
          /\ \/ pc' = [pc EXCEPT ![r] = "clear"] /\ key' = key /\ pc[r] = "complete"
             \/ pc' = [pc EXCEPT ![r] = "idle"] /\ key' = [key EXCEPT ![r] = None]
      BY <1>5
         DEF SetComplete, ClearRemaining, Return, Goto, CallersTellTheTruth, CompleteMeansMigrated
    <2>2. StringKeys' = {} /\ Batch' = Batch
      BY <2>1 DEF keyVars, bulkVars, StringKeys, Batch
    <2>3. Apart'
      BY <2>1 DEF Apart, serverVars
    <2>4. CallersTellTheTruth' /\ CommandCovers'
      BY <2>1, <2>2 DEF CallersTellTheTruth, CommandCovers, keyVars, bulkVars
    <2> QED BY <2>1, <2>2, <2>3, <2>4 DEF CountCovers, CompleteMeansMigrated, serverVars
  <1> QED BY <1>1, <1>2, <1>3, <1>4, <1>5 DEF ReaderStep

LEMMA CountedStep ==
    ASSUME ~Overlaps, ~FirstScanFails, IsFiniteSet(Keys), IInv, Counted, [Next]_vars
    PROVE  Counted'
  <1>1. CASE UNCHANGED vars
    <2>1. /\ UNCHANGED <<statusVars, serverVars, readerVars>> /\ type' = type
          /\ UNCHANGED bulkVars
      BY <1>1 DEF vars, keyVars
    <2>2. CommandCovers'
      BY <1>1 DEF vars, keyVars, statusVars, bulkVars, Counted, CommandCovers, StringKeys, Batch
    <2> QED BY <2>1, <2>2, KeysKeepTheCount
  <1>2. ASSUME NEW k \in Keys, Put(k) \/ Remove(k) PROVE Counted'
    <2>1. /\ UNCHANGED <<statusVars, serverVars, readerVars, bulkVars>>
          /\ \A j \in Keys : type'[j] = "string" => type[j] = "string"
      BY <1>2 DEF Put, Remove, IInv, Shapes
    <2>2. CommandCovers'
      BY <2>1 DEF statusVars, bulkVars, Counted, CommandCovers, StringKeys, Batch
    <2> QED BY <2>1, <2>2, KeysKeepTheCount
  <1>3. CASE BulkStep
    <2>1. CommandCovers' /\ \A k \in Keys : type'[k] = "string" => type[k] = "string"
      BY <1>3, CommandStep DEF Counted
    <2>2. UNCHANGED <<serverVars, readerVars>>
      BY <1>3 DEF BulkStep, BulkScan, BulkRead, BulkWrite, BulkWriteFails, BulkDelete, BulkSet,
                  BulkKeyFails, BulkSetComplete, BulkClear, BulkStops
    <2>3. CASE UNCHANGED statusVars
      BY <2>1, <2>2, <2>3, KeysKeepTheCount
    <2>4. CASE ~UNCHANGED statusVars
      <3>1. BulkSetComplete \/ BulkClear
        BY <1>3, <2>4
           DEF BulkStep, BulkScan, BulkRead, BulkWrite, BulkWriteFails, BulkDelete, BulkSet,
               BulkKeyFails, BulkStops
      <3>2. /\ complete' = TRUE /\ StringKeys = {} /\ UNCHANGED keyVars
            /\ remaining' \in Int \cup {None}
        BY <2>4, <3>1
           DEF BulkSetComplete, BulkClear, Counted, CommandCovers, CompleteMeansMigrated, statusVars
      <3>3. StringKeys' = {}
        BY <3>2 DEF keyVars, StringKeys
      <3>4. Apart' /\ CallersTellTheTruth'
        BY <2>2, <3>2, <3>3
           DEF Counted, Apart, CallersTellTheTruth, serverVars, readerVars, keyVars
      <3> QED BY <2>1, <2>2, <3>2, <3>3, <3>4
              DEF Counted, CountCovers, CompleteMeansMigrated, serverVars
    <2> QED BY <2>3, <2>4
  <1> QED BY <1>1, <1>2, <1>3, ServerStep, CallerStep DEF Next

\* When callers of one key, and startup checks and callers, do not overlap, and the first
\* check does not fail, complete means that no session is left where the fast path cannot
\* read it, whatever the command does meanwhile (_decrement_remaining_count: "All working
\* memory keys have been migrated").
THEOREM MigrationCompletes ==
    ASSUME ~Overlaps, ~FirstScanFails, IsFiniteSet(Keys)
    PROVE  Spec => []CompleteMeansMigrated
  <1>1. IInv /\ Counted /\ [Next]_vars => Counted'
    BY CountedStep
  <1>2. Counted => CompleteMeansMigrated
    BY DEF Counted
  <1> QED BY Invariant, CountedInit, <1>1, <1>2, PTL DEF Spec

-----------------------------------------------------------------------------
(***************************************************************************)
(* The bounds of versions, of the command's batch and of the count.        *)
(***************************************************************************)
VersionsBounded ==
    /\ version \in [Keys -> 1 .. MaxVersion]
    /\ held \in [Readers -> 1 .. MaxVersion \cup {None}]
    /\ batch \in [Keys -> 1 .. MaxVersion \cup {None}]

\* The command holds a batch only while it writes it, and the key it converts by itself is
\* of the batch.
CommandTidy ==
    /\ bulk.todo \cap Batch = {} /\ bulk.key \in Batch \cup {None}
    /\ bulk.pc \notin {"write", "each"} => Batch = {}
    /\ bulk.pc = "off" => bulk = NoBulk

\* Callers that have yet to count down.
Before == {r \in Readers : pc[r] \in {"type", "get", "convert", "count"}}

\* Past zero, each of the callers that were on their way when the migration was complete
\* counts down once more.
CountBounded ==
    /\ counted \in [Servers -> 0 .. Cardinality(Keys)]
    /\ remaining # None => /\ remaining <= Cardinality(Keys)
                           /\ remaining + Cardinality(Readers) >= Cardinality(Before)

LEMMA VersionsKept == ASSUME IInv, VersionsBounded, [Next]_vars PROVE VersionsBounded'
  <1> USE ConstantsAssumption
          DEF ConstantsAssumption, VersionsBounded, keyVars, readerVars, bulkVars
  <1>1. CASE UNCHANGED <<keyVars, readerVars, bulkVars>>
    BY <1>1
  <1>2. ASSUME NEW r \in Readers, Call(r) \/ ReaderStep(r) PROVE VersionsBounded'
    <2>1. UNCHANGED batch
      BY <1>2 DEF Call, ReaderStep, LookAtType, GetString, Convert, CountDown, SkipCount,
                  SetComplete, ClearRemaining, Abort
    <2>2. \A n \in 1 .. MaxVersion \cup {None} :
            [held EXCEPT ![r] = n] \in [Readers -> 1 .. MaxVersion \cup {None}]
      OBVIOUS
    <2>3. CASE GetString(r) /\ type[key[r]] = "string"
      <3>1. key[r] \in Keys
        BY <2>3 DEF GetString, IInv, Shapes
      <3> QED BY <2>1, <2>2, <2>3, <3>1 DEF GetString
    <2>4. CASE Convert(r)
      <3>1. type[key[r]] = "string" => key[r] \in Keys /\ held[r] = version[key[r]]
        BY <2>4 DEF Convert, IInv, Shapes, HeldIsStored
      <3> QED BY <2>1, <2>4, <3>1 DEF Convert
    <2>5. CASE ~Convert(r) /\ ~(GetString(r) /\ type[key[r]] = "string")
      <3>1. UNCHANGED version /\ (held' = held \/ held' = [held EXCEPT ![r] = None])
        BY <1>2, <2>5 DEF Call, ReaderStep, LookAtType, GetString, CountDown, SkipCount,
                          SetComplete, ClearRemaining, Abort, Return
      <3> QED BY <2>1, <2>2, <3>1
    <2> QED BY <2>3, <2>4, <2>5
  <1>3. ASSUME NEW k \in Keys, Put(k) \/ Remove(k) PROVE VersionsBounded'
    BY <1>3 DEF Put, Remove
  <1>4. CASE BulkStep
    <2>1. UNCHANGED held
      BY <1>4 DEF BulkStep, BulkScan, BulkRead, BulkWrite, BulkWriteFails, BulkDelete, BulkSet,
                  BulkKeyFails, BulkSetComplete, BulkClear, BulkStops
    <2>2. BulkEnds => batch' \in [Keys -> 1 .. MaxVersion \cup {None}]
      BY DEF BulkEnds
    <2>3. ASSUME NEW k \in Keys, BulkSet(k) PROVE VersionsBounded'
      <3>1. batch[k] \in 1 .. MaxVersion
        BY <2>3 DEF BulkSet, IInv, BatchIsStored
      <3>2. version' = [version EXCEPT ![k] = batch[k]] /\ batch' = [batch EXCEPT ![k] = None]
        BY <2>3 DEF BulkSet, NextOfBatch
      <3> QED BY <2>1, <3>1, <3>2
    <2>4. ASSUME NEW k \in Keys, BulkDelete(k) \/ BulkKeyFails(k) PROVE VersionsBounded'
      BY <2>1, <2>4 DEF BulkDelete, BulkKeyFails, NextOfBatch
    <2>5. CASE BulkWrite
      BY <2>1, <2>5 DEF BulkWrite, Batch
    <2>6. CASE BulkRead
      BY <2>1, <2>2, <2>6 DEF BulkRead
    <2>7. CASE BulkScan \/ BulkWriteFails \/ BulkSetComplete \/ BulkClear \/ BulkStops
      BY <2>1, <2>2, <2>7 DEF BulkScan, BulkWriteFails, BulkSetComplete, BulkClear, BulkStops
    <2> QED BY <1>4, <2>3, <2>4, <2>5, <2>6, <2>7 DEF BulkStep
  <1>5. ASSUME NEW s \in Servers, Scan(s) \/ StoreCount(s) \/ FailScan(s)
        PROVE  UNCHANGED <<keyVars, readerVars, bulkVars>>
    BY <1>5 DEF Scan, StoreCount, FailScan
  <1> QED BY <1>1, <1>2, <1>3, <1>4, <1>5 DEF Next, vars

LEMMA CommandStaysTidy == ASSUME IInv, CommandTidy, [Next]_vars PROVE CommandTidy'
  <1> USE ConstantsAssumption DEF ConstantsAssumption, Batch
  <1>0. bulk \in BulkShapes
    BY DEF IInv, Shapes
  <1>1. CASE UNCHANGED bulkVars
    BY <1>1 DEF CommandTidy, bulkVars
  <1>2. CASE BulkEnds
    BY <1>2 DEF BulkEnds, NoBulk, CommandTidy
  <1>3. CASE BulkScan
    BY <1>3 DEF BulkScan, NoBulk, CommandTidy
  <1>4. CASE BulkRead
    <2>1. ASSUME NEW ks \in SUBSET bulk.todo,
                 batch' = [k \in Keys |-> IF k \in ks \cap StringKeys THEN version[k] ELSE None],
                 bulk' = [bulk EXCEPT !.pc = "write", !.todo = @ \ ks,
                                      !.own = ks \cap OwnStrings]
          PROVE  CommandTidy'
      <3>1. Batch' \subseteq ks
        BY <2>1
      <3>2. bulk'.pc = "write" /\ bulk'.todo = bulk.todo \ ks /\ bulk'.key = None
        BY <1>0, <1>4, <2>1 DEF BulkRead, BulkShapes, CommandTidy
      <3> QED BY <3>1, <3>2 DEF CommandTidy
    <2> QED BY <1>2, <1>4, <2>1 DEF BulkRead
  <1>5. CASE BulkWrite
    <2>1. bulk.key = None
      BY <1>0, <1>5 DEF BulkWrite, IInv, BatchIsStored, BulkShapes
    <2>2. Batch' = {} /\ bulk'.pc \in {"read", "status"} /\ bulk'.key = None
      BY <1>0, <1>5, <2>1 DEF BulkWrite, AfterBatch, BulkShapes
    <2> QED BY <2>2 DEF CommandTidy
  <1>6. CASE BulkWriteFails
    BY <1>0, <1>6 DEF BulkWriteFails, CommandTidy, BulkShapes
  <1>7. ASSUME NEW k \in Keys, BulkDelete(k) PROVE CommandTidy'
    BY <1>0, <1>7 DEF BulkDelete, CommandTidy, BulkShapes
  <1>8. ASSUME NEW k \in Keys, NEW failed \in BOOLEAN, NextOfBatch(k, failed), bulk.pc = "each"
        PROVE  CommandTidy'
    <2>1. /\ Batch' = Batch \ {k} /\ bulk'.todo = bulk.todo /\ bulk'.key = None
          /\ bulk'.pc \in {"each", "read", "status"} /\ (bulk'.pc # "each" => Batch = {k})
      BY <1>0, <1>8 DEF NextOfBatch, AfterBatch, BulkShapes, IInv, Shapes
    <2> QED BY <2>1 DEF CommandTidy
  <1>9. ASSUME NEW k \in Keys, BulkSet(k) \/ BulkKeyFails(k) PROVE CommandTidy'
    <2>1. bulk.pc = "each" /\ \E failed \in BOOLEAN : NextOfBatch(k, failed)
      BY <1>0, <1>9 DEF BulkSet, BulkKeyFails, IInv, BatchIsStored, BulkShapes
    <2> QED BY <1>8, <2>1
  <1>10. CASE BulkSetComplete
    BY <1>0, <1>2, <1>10 DEF BulkSetComplete, CommandTidy, BulkShapes
  <1>11. BulkStep \/ UNCHANGED bulkVars
    BY DEF Next, Scan, StoreCount, FailScan, Call, ReaderStep, LookAtType, GetString, Convert,
           CountDown, SkipCount, SetComplete, ClearRemaining, Abort, Put, Remove, vars
  <1> QED BY <1>1, <1>2, <1>3, <1>4, <1>5, <1>6, <1>7, <1>9, <1>10, <1>11
          DEF BulkStep, BulkClear, BulkStops

GarbledAreOwn == garbled \subseteq OwnKeys

LEMMA GarbledStayOwn == ASSUME IInv, GarbledAreOwn, [Next]_vars PROVE GarbledAreOwn'
  <1>1. CASE BulkWrite
    BY <1>1 DEF BulkWrite, GarbledAreOwn, IInv, Shapes, BulkShapes
  <1>2. CASE ~BulkWrite
    BY <1>2 DEF Next, vars, GarbledAreOwn, Scan, StoreCount, FailScan, Call, ReaderStep, LookAtType,
                GetString, Convert, CountDown, SkipCount, SetComplete, ClearRemaining, Abort, Put,
                Remove, BulkStep, BulkScan, BulkRead, BulkWriteFails, BulkDelete, BulkSet,
                BulkKeyFails, BulkSetComplete, BulkClear, BulkStops
  <1> QED BY <1>1, <1>2

\* Sizes: the string keys are some of the keys, the callers on their way some of the readers.
LEMMA SizesAreBounded ==
    ASSUME IsFiniteSet(Keys), IsFiniteSet(Readers)
    PROVE  /\ Cardinality(Keys) \in Nat /\ Cardinality(StringKeys) \in 0 .. Cardinality(Keys)
           /\ Cardinality(Readers) \in Nat /\ IsFiniteSet(Before)
           /\ Cardinality(Before) \in 0 .. Cardinality(Readers)
  <1>1. StringKeys \subseteq Keys /\ Before \subseteq Readers
    BY DEF StringKeys, Before
  <1>2. /\ IsFiniteSet(StringKeys) /\ Cardinality(StringKeys) <= Cardinality(Keys)
        /\ IsFiniteSet(Before) /\ Cardinality(Before) <= Cardinality(Readers)
    BY <1>1, FS_Subset
  <1> QED BY <1>2, FS_CardinalityType

\* A step after which the migration is not complete, or just is: the count is not below zero.
LEMMA CountNotNegative ==
    ASSUME IsFiniteSet(Keys), IsFiniteSet(Readers), IInv', Counted', remaining' # None, ~complete'
    PROVE  remaining' + Cardinality(Readers) >= Cardinality(Before')
  <1>1. Cardinality(Before') \in 0 .. Cardinality(Readers) /\ Cardinality(Readers) \in Nat
    <2>1. Before' \subseteq Readers
      BY DEF Before
    <2> QED BY <2>1, FS_Subset, FS_CardinalityType
  <1>2. Uncounted' \subseteq Keys
    BY DEF IInv, Shapes, Uncounted, Counting, StringKeys
  <1>3. Cardinality(Uncounted') \in Nat
    BY <1>2, FS_Subset, FS_CardinalityType
  <1>4. remaining' \in Int /\ remaining' >= Cardinality(Uncounted')
    BY DEF Counted, CountCovers
  <1> QED BY <1>1, <1>3, <1>4

LEMMA CountStaysBounded ==
    ASSUME ~Overlaps, ~FirstScanFails, IsFiniteSet(Keys), IsFiniteSet(Readers),
           IInv, Counted, CountBounded, [Next]_vars, IInv', Counted'
    PROVE  CountBounded'
  <1> USE SizesAreBounded, ConstantsAssumption DEF ConstantsAssumption
  <1> DEFINE Low == remaining + Cardinality(Readers) >= Cardinality(Before)
  <1>1. /\ remaining \in Int \cup {None} /\ pc \in [Readers -> {"idle", "type", "get", "convert",
                                                             "count", "complete", "clear"}]
        /\ IsFiniteSet(Before') /\ Cardinality(Before') \in 0 .. Cardinality(Readers)
    <2>1. Before' \subseteq Readers
      BY DEF Before
    <2> QED BY <2>1, FS_Subset, FS_CardinalityType DEF Counted, IInv, Shapes
  <1>2. ASSUME Before' \subseteq Before, UNCHANGED counted, remaining' \in {remaining, None}
        PROVE  CountBounded'
    <2>1. Cardinality(Before') <= Cardinality(Before)
      BY <1>2, FS_Subset
    <2> QED BY <1>1, <1>2, <2>1 DEF CountBounded
  <1>3. CASE UNCHANGED <<serverVars, statusVars, readerVars>>
    BY <1>2, <1>3 DEF serverVars, statusVars, readerVars, Before
  <1>4. ASSUME NEW s \in Servers, Scan(s) \/ StoreCount(s) \/ FailScan(s) PROVE CountBounded'
    <2>1. Before' = Before
      BY <1>4 DEF Scan, StoreCount, FailScan, readerVars, Before
    <2>2. CASE StoreCount(s) /\ counted[s] > 0
      BY <1>1, <2>1, <2>2 DEF StoreCount, CountBounded
    <2>3. CASE ~(StoreCount(s) /\ counted[s] > 0)
      <3>1. remaining' \in {remaining, None}
        BY <1>4, <2>3 DEF Scan, StoreCount, FailScan, statusVars
      <3>2. counted' \in [Servers -> 0 .. Cardinality(Keys)]
        BY <1>4 DEF Scan, FoundByScan, StoreCount, FailScan, CountBounded
      <3> QED BY <2>1, <3>1, <3>2 DEF CountBounded
    <2> QED BY <2>2, <2>3
  <1>5. ASSUME NEW r \in Readers, Call(r) PROVE CountBounded'
    <2>1. ~complete' /\ UNCHANGED <<remaining, counted>>
      BY <1>5 DEF Call, statusVars, serverVars
    <2> QED BY <2>1, CountNotNegative DEF CountBounded
  <1>6. ASSUME NEW r \in Readers, CountDown(r) PROVE CountBounded'
    <2>1. /\ r \in Before /\ Before' = Before \ {r} /\ UNCHANGED <<counted, complete>>
          /\ remaining' = (IF remaining = None THEN 0 ELSE remaining) - 1
      BY <1>1, <1>6 DEF CountDown, Goto, Return, Before, serverVars
    <2>2. Cardinality(Before') = Cardinality(Before) - 1
      BY <2>1, FS_RemoveElement
    <2>3. remaining' \in Int /\ remaining' # None
      BY <1>1, <2>1
    <2> QED BY <1>1, <2>1, <2>2, <2>3 DEF CountBounded
  <1>7. ASSUME NEW r \in Readers, ReaderStep(r), ~CountDown(r) PROVE CountBounded'
    <2>1. Before' \subseteq Before
      BY <1>1, <1>7 DEF ReaderStep, LookAtType, GetString, Convert, SkipCount, SetComplete,
                        ClearRemaining, Abort, Goto, Return, Before
    <2>2. UNCHANGED counted /\ remaining' \in {remaining, None}
      BY <1>7 DEF ReaderStep, LookAtType, GetString, Convert, SkipCount, SetComplete,
                  ClearRemaining, Abort, serverVars, statusVars
    <2> QED BY <1>2, <2>1, <2>2
  <1>8. CASE BulkStep
    <2>1. UNCHANGED <<counted, pc>> /\ remaining' \in {remaining, None}
      BY <1>8 DEF BulkStep, BulkScan, BulkRead, BulkWrite, BulkWriteFails, BulkDelete, BulkSet,
                  BulkKeyFails, BulkSetComplete, BulkClear, BulkStops, serverVars, readerVars,
                  statusVars
    <2> QED BY <1>2, <2>1 DEF Before
  <1>9. ASSUME NEW k \in Keys, Put(k) \/ Remove(k) PROVE CountBounded'
    BY <1>3, <1>9 DEF Put, Remove
  <1> QED BY <1>3, <1>4, <1>5, <1>6, <1>7, <1>8, <1>9 DEF Next, vars

\* A key, a version and a batch are of the calls and the command that hold them, and the count
\* stays between the number of keys and, once for each caller that was under way when the
\* migration was complete, below zero (under the assumptions of MigrationCompletes).
THEOREM MigrationTypes ==
    ASSUME ~Overlaps, ~FirstScanFails, IsFiniteSet(Keys), IsFiniteSet(Readers)
    PROVE  Spec => []TypeOK
  <1> USE ConstantsAssumption DEF ConstantsAssumption
  <1>1. Init => VersionsBounded /\ CommandTidy /\ CountBounded
    <2> SUFFICES ASSUME Init PROVE VersionsBounded /\ CommandTidy /\ CountBounded
      OBVIOUS
    <2>1. VersionsBounded
      BY DEF Init, VersionsBounded
    <2>2. CommandTidy
      BY DEF Init, CommandTidy, NoBulk, Batch
    <2>3. CountBounded
      BY SizesAreBounded DEF Init, CountBounded
    <2> QED BY <2>1, <2>2, <2>3
  <1>2. IInv /\ VersionsBounded /\ [Next]_vars => VersionsBounded'
    BY VersionsKept
  <1>3. IInv /\ CommandTidy /\ [Next]_vars => CommandTidy'
    BY CommandStaysTidy
  <1>4. IInv /\ Counted /\ [Next]_vars => Counted'
    BY CountedStep
  <1>5. IInv /\ Counted /\ CountBounded /\ IInv' /\ Counted' /\ [Next]_vars => CountBounded'
    BY CountStaysBounded
  <1>7. Init => GarbledAreOwn
    BY DEF Init, GarbledAreOwn
  <1>8. IInv /\ GarbledAreOwn /\ [Next]_vars => GarbledAreOwn'
    BY GarbledStayOwn
  <1>6. IInv /\ Counted /\ VersionsBounded /\ CommandTidy /\ CountBounded /\ GarbledAreOwn => TypeOK
    <2> SUFFICES ASSUME IInv, Counted, VersionsBounded, CommandTidy, CountBounded, GarbledAreOwn
                 PROVE  TypeOK
      OBVIOUS
    <2>1. remaining \in (-Cardinality(Readers) .. Cardinality(Keys)) \cup {None}
      BY SizesAreBounded DEF Counted, CountBounded
    <2>2. \A r \in Readers : pc[r] = "idle" <=> key[r] = None
      BY DEF Counted, Apart
    <2>3. /\ bulk.pc \in {"off", "read", "write", "each", "status", "clear"}
          /\ bulk.key \in Batch \cup {None} /\ bulk.todo \subseteq Keys \cup OwnKeys
          /\ garbled \subseteq OwnKeys /\ bulk.own \subseteq OwnKeys
          /\ bulk.todo \cap Batch = {} /\ (bulk.pc = "off" => bulk = NoBulk /\ Batch = {})
      BY DEF CommandTidy, GarbledAreOwn, IInv, Shapes, BulkShapes
    <2>4. complete \in BOOLEAN /\ started \in [Servers -> {"no", "counted", "yes"}]
      BY DEF Counted
    <2> QED BY <2>1, <2>2, <2>3, <2>4 DEF IInv, Shapes, VersionsBounded, CountBounded, TypeOK
  <1> QED BY Invariant, CountedInit, <1>1, <1>2, <1>3, <1>4, <1>5, <1>6, <1>7, <1>8, PTL DEF Spec
=============================================================================
