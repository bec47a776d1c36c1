------------------------------ MODULE JwtKeys -------------------------------
(***************************************************************************)
(* Verification of JWTs (agent_memory_server/auth.py, JWKSCache and        *)
(* verify_jwt).  The issuer publishes and withdraws signing keys; the      *)
(* server keeps the last key set it fetched.  Threads share the cache: the *)
(* first look at it takes no lock, and a thread compares with the time it  *)
(* read before it waited for the lock.                                     *)
(***************************************************************************)
EXTENDS Naturals

CONSTANTS
    SigningKeys,   \* signing keys (key ids)
    Threads,
    CacheDuration, \* JWKSCache's cache_duration, in ticks
    Horizon,       \* bound on the clock
    NoKey

ASSUME JwtAssumption == /\ CacheDuration \in Nat /\ Horizon \in Nat
                        /\ NoKey \notin SigningKeys \cup Threads

VARIABLES
    clock,
    from,       \* from[k]: when key k was published, 0 for not yet
    until,      \* until[k]: when key k was withdrawn, 0 for not yet
    cache,      \* the keys in the cached key set
    cacheTime,  \* _cache_time, 0 for None
    lock,       \* the thread that holds the lock, or NoKey
    thread      \* thread[t]: the verification thread t is in

jwtVars == <<clock, from, until, cache, cacheTime, lock, thread>>

\* key: the token's key; time: the current_time the thread read; fetched: the keys of
\* the answer it has got.
Resting == [pc |-> "idle", key |-> NoKey, time |-> 0, fetched |-> {}]

Published == {k \in SigningKeys : from[k] # 0 /\ until[k] = 0}

JwtInit == /\ clock = 1
           /\ from = [k \in SigningKeys |-> 0] /\ until = [k \in SigningKeys |-> 0]
           /\ cache = {} /\ cacheTime = 0
           /\ lock = NoKey
           /\ thread = [t \in Threads |-> Resting]

\* The issuer.
Publish(k) == /\ from[k] = 0
              /\ from' = [from EXCEPT ![k] = clock]
              /\ UNCHANGED <<clock, until, cache, cacheTime, lock, thread>>

Withdraw(k) == /\ k \in Published
               /\ until' = [until EXCEPT ![k] = clock]
               /\ UNCHANGED <<clock, from, cache, cacheTime, lock, thread>>

JwtTick == /\ clock < Horizon
           /\ clock' = clock + 1
           /\ UNCHANGED <<from, until, cache, cacheTime, lock, thread>>

ThreadAt(t, pc) == thread[t].pc = pc
MoveTo(t, pc) == thread' = [thread EXCEPT ![t].pc = pc]

\* get_jwks: the time is read, and the cache looked at without the lock.
GetBearer(t) ==
    /\ ThreadAt(t, "idle")
    /\ \E k \in SigningKeys :
         thread' = [thread EXCEPT ![t] = [pc |-> "look", key |-> k, time |-> clock, fetched |-> {}]]
    /\ UNCHANGED <<clock, from, until, cache, cacheTime, lock>>

\* Mutant: a fetched key set is kept for good.
FreshForever(time) == cacheTime # 0

\* An answer is never the empty object, so there is a cache when there is a time.
Fresh(time) == cacheTime # 0 /\ time <= cacheTime + CacheDuration

LookAtCache(t) == /\ ThreadAt(t, "look")
                  /\ MoveTo(t, IF Fresh(thread[t].time) THEN "use" ELSE "wait")
                  /\ UNCHANGED <<clock, from, until, cache, cacheTime, lock>>

\* The lock is taken, and the cache looked at again.
Acquire(t) == /\ ThreadAt(t, "wait") /\ lock = NoKey
              /\ IF Fresh(thread[t].time)
                 THEN MoveTo(t, "use") /\ UNCHANGED lock
                 ELSE MoveTo(t, "fetch") /\ lock' = t
              /\ UNCHANGED <<clock, from, until, cache, cacheTime>>

\* The issuer answers with the keys it publishes, or the request fails: 503 or 500.
FetchKeys(t) == /\ ThreadAt(t, "fetch")
                /\ thread' = [thread EXCEPT ![t].pc = "store", ![t].fetched = Published]
                /\ UNCHANGED <<clock, from, until, cache, cacheTime, lock>>

FetchFails(t) == /\ ThreadAt(t, "fetch")
                 /\ thread' = [thread EXCEPT ![t] = Resting]
                 /\ lock' = NoKey
                 /\ UNCHANGED <<clock, from, until, cache, cacheTime>>

\* The cache is replaced, seen by threads that do not hold the lock,
StoreKeys(t) == /\ ThreadAt(t, "store")
                /\ cache' = thread[t].fetched
                /\ thread' = [thread EXCEPT ![t].pc = "stamp", ![t].fetched = {}]
                /\ UNCHANGED <<clock, from, until, cacheTime, lock>>

Stamp(t, time) == /\ ThreadAt(t, "stamp")
                  /\ cacheTime' = time
                  /\ lock' = NoKey
                  /\ MoveTo(t, "use")
                  /\ UNCHANGED <<clock, from, until, cache>>

\* Mutant: the cache counts as new from when the answer is stored.
StampLate(t) == Stamp(t, clock)

\* and counts as new from when the thread read the time.
StampCache(t) == Stamp(t, thread[t].time)

\* get_public_key and jwt.decode: a cached key of the token's kid accepts it, if the
\* claims are as they must be; otherwise 401.
CheckKey(t) == /\ ThreadAt(t, "use")
               /\ MoveTo(t, IF thread[t].key \in cache THEN "accepted" ELSE "unknown")
               /\ UNCHANGED <<clock, from, until, cache, cacheTime, lock>>

Reply(t) == /\ thread[t].pc \in {"accepted", "unknown"}
            /\ thread' = [thread EXCEPT ![t] = Resting]
            /\ UNCHANGED <<clock, from, until, cache, cacheTime, lock>>

JwtNext == \/ \E k \in SigningKeys : Publish(k) \/ Withdraw(k)
           \/ JwtTick
           \/ \E t \in Threads : \/ GetBearer(t) \/ LookAtCache(t) \/ Acquire(t) \/ FetchKeys(t)
                                 \/ FetchFails(t) \/ StoreKeys(t) \/ StampCache(t)
                                 \/ CheckKey(t) \/ Reply(t)

JwtSpec == JwtInit /\ [][JwtNext]_jwtVars

-----------------------------------------------------------------------------
(***************************************************************************)
(* Properties.                                                             *)
(***************************************************************************)
JwtTypeOK ==
    /\ clock \in Nat \ {0} /\ cacheTime \in 0 .. clock /\ cache \subseteq SigningKeys
    /\ from \in [SigningKeys -> 0 .. clock] /\ until \in [SigningKeys -> 0 .. clock]
    /\ lock \in Threads \cup {NoKey}
    /\ thread \in [Threads -> [pc : {"idle", "look", "wait", "fetch", "store", "stamp", "use",
                                     "accepted", "unknown"},
                               key : SigningKeys \cup {NoKey}, time : 0 .. clock,
                               fetched : SUBSET SigningKeys]]

\* No token is accepted on a key that had been withdrawn for longer than the cache
\* duration when the request came, whichever threads fetched or waited meanwhile
\* (auth.py 43-50).
WithdrawnKeysExpire ==
    \A t \in Threads : ThreadAt(t, "accepted") =>
        LET k == thread[t].key
        IN  from[k] # 0 /\ (until[k] = 0 \/ thread[t].time <= until[k] + CacheDuration)

\* A key is known to the server once it has been published for longer than the cache
\* duration: an unknown key is newer, or was withdrawn.
PublishedKeysWork ==
    \A t \in Threads : ThreadAt(t, "unknown") =>
        LET k == thread[t].key
        IN  from[k] = 0 \/ until[k] # 0 \/ thread[t].time <= from[k] + CacheDuration
=============================================================================
