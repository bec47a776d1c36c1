----------------------------- MODULE TokenAuth ------------------------------
(***************************************************************************)
(* Tokens of the authentication mode "token" (agent_memory_server/auth.py, *)
(* and the token commands of cli.py).  A token is stored in Redis under a  *)
(* salted hash of its own, with its expiry in the record and as the TTL of *)
(* the key; a list of hashes serves the commands.  Each command and each   *)
(* request is several Redis commands, and a command may die between them.  *)
(* The Redis client is made without decode_responses, so the members of    *)
(* the list arrive as bytes, and a key made from bytes is not the key that *)
(* was written.                                                            *)
(***************************************************************************)
EXTENDS Naturals, FiniteSets

CONSTANTS
    Tokens,     \* what a request may present
    Hashes,     \* hashes given out: one per added token, the same token twice included
    Lifetimes,  \* lifetimes in ticks, 0 for a token that never expires
    Admins,     \* command lines in use
    Requests,   \* requests being authenticated
    MaxTime,    \* bound on the clock
    NoHash

ASSUME TokenAssumption == /\ Lifetimes \subseteq Nat /\ MaxTime \in Nat \ {0}
                          /\ NoHash \notin Hashes \cup Tokens

VARIABLES
    now,      \* the clock
    made,     \* made[h]: the record written under h, ever
    stored,   \* the hashes whose record is in Redis
    ttl,      \* ttl[h]: when Redis drops the record, 0 for never
    listed,   \* the list of hashes
    admin,    \* admin[a]: the command that runs in command line a
    auth,     \* auth[r]: an authentication in progress
    cut       \* hashes whose "token add" died (history)

tokenVars == <<now, made, stored, ttl, listed, admin, auth, cut>>

\* expires: the tick after which the token is no longer valid, 0 for never
TokenInfo == [token : Tokens, expires : Nat]
Unmade == [token |-> NoHash, expires |-> 0]

NoCommand == [pc |-> "idle", hash |-> NoHash, life |-> 0, todo |-> {}]
Adding(h, life) == [pc |-> IF life = 0 THEN "sadd" ELSE "expire", hash |-> h, life |-> life,
                    todo |-> {}]
Listing(hs) == [pc |-> "list", hash |-> NoHash, life |-> 0, todo |-> hs]
Removing(h) == [pc |-> "del", hash |-> h, life |-> 0, todo |-> {}]
NoRequest == [pc |-> "idle", token |-> NoHash, keys |-> {}, met |-> {}, steady |-> {}]

Expired(h) == made[h].expires # 0 /\ now > made[h].expires
ValidHashes == {h \in stored : ~Expired(h)}
OfToken(t) == {h \in Hashes : made[h].token = t}

TokenInit == /\ now = 1
             /\ made = [h \in Hashes |-> Unmade]
             /\ stored = {} /\ listed = {} /\ cut = {}
             /\ ttl = [h \in Hashes |-> 0]
             /\ admin = [a \in Admins |-> NoCommand]
             /\ auth = [r \in Requests |-> NoRequest]

\* What requests in progress witness: records that appear, and records that go (history).
Appears(h) ==
    auth' = [r \in Requests |->
                  IF auth[r].pc = "idle" THEN auth[r]
                  ELSE [auth[r] EXCEPT !.met = @ \cup {h}]]
Goes(hs) == auth' = [r \in Requests |-> [auth[r] EXCEPT !.steady = @ \ hs]]

-----------------------------------------------------------------------------
(***************************************************************************)
(* memory token add, list, show and remove.                                *)
(***************************************************************************)
AdminStep(a, pc) == admin' = [admin EXCEPT ![a].pc = pc]
AdminDone(a) == admin' = [admin EXCEPT ![a] = NoCommand]

\* add: SET.  A token given by the user may have been added before.
AddToken(a) ==
    /\ admin[a] = NoCommand
    /\ \E h \in Hashes, t \in Tokens, life \in Lifetimes :
         /\ made[h] = Unmade
         /\ made' = [made EXCEPT ![h] =
                       [token |-> t, expires |-> IF life = 0 THEN 0 ELSE now + life]]
         /\ stored' = stored \cup {h}
         /\ admin' = [admin EXCEPT ![a] = Adding(h, life)]
         /\ Appears(h)
    /\ UNCHANGED <<now, ttl, listed, cut>>

\* add: EXPIRE, of a key that is still there; time may have passed since.
SetExpiry(a) ==
    /\ admin[a].pc = "expire"
    /\ ttl' = IF admin[a].hash \in stored
              THEN [ttl EXCEPT ![admin[a].hash] = now + admin[a].life] ELSE ttl
    /\ AdminStep(a, "sadd")
    /\ UNCHANGED <<now, made, stored, listed, auth, cut>>

\* add: SADD.
EnterInList(a) ==
    /\ admin[a].pc = "sadd"
    /\ listed' = listed \cup {admin[a].hash}
    /\ AdminDone(a)
    /\ UNCHANGED <<now, made, stored, ttl, auth, cut>>

\* list: SMEMBERS, whose answer is bytes.
ListTokens(a) ==
    /\ admin[a] = NoCommand /\ listed # {}
    /\ admin' = [admin EXCEPT ![a] = Listing(listed)]
    /\ UNCHANGED <<now, made, stored, ttl, listed, auth, cut>>

\* GET under the key made from a hash, which a command has as text from its caller or as
\* bytes from the list: "auth_token:b'...'" is never written.
Found(h, form) == form = "text" /\ h \in stored

\* list: GET, and SREM of a hash under whose key nothing is found.
ShowListed(a) ==
    /\ admin[a].pc = "list"
    /\ \E h \in admin[a].todo :
         /\ listed' = IF Found(h, "bytes") THEN listed ELSE listed \ {h}
         /\ admin' = [admin EXCEPT ![a] = IF admin[a].todo = {h} THEN NoCommand
                                          ELSE Listing(admin[a].todo \ {h})]
    /\ UNCHANGED <<now, made, stored, ttl, auth, cut>>

\* remove, and show: a hash given in full; its record is read, and remove asks for
\* confirmation.  Its first characters never find it: they are compared with the members of
\* the list, and bytes.startswith(str) raises.
FindToken(a) ==
    /\ admin[a] = NoCommand
    /\ \E h \in Hashes :
         /\ Found(h, "text")
         /\ admin' = [admin EXCEPT ![a] = Removing(h)]
    /\ UNCHANGED <<now, made, stored, ttl, listed, auth, cut>>

\* remove: DEL.
RemoveRecord(a) ==
    /\ admin[a].pc = "del"
    /\ stored' = stored \ {admin[a].hash}
    /\ Goes({admin[a].hash})
    /\ AdminStep(a, "srem")
    /\ UNCHANGED <<now, made, ttl, listed, cut>>

\* remove: SREM.
RemoveFromList(a) ==
    /\ admin[a].pc = "srem"
    /\ listed' = listed \ {admin[a].hash}
    /\ AdminDone(a)
    /\ UNCHANGED <<now, made, stored, ttl, auth, cut>>

\* The command dies, the user does not confirm, or show only looks.
Interrupt(a) ==
    /\ admin[a] # NoCommand
    /\ cut' = IF admin[a].pc \in {"expire", "sadd"} THEN cut \cup {admin[a].hash} ELSE cut
    /\ AdminDone(a)
    /\ UNCHANGED <<now, made, stored, ttl, listed, auth>>

-----------------------------------------------------------------------------
(***************************************************************************)
(* verify_token.                                                           *)
(***************************************************************************)
Decide(r, pc) == auth' = [auth EXCEPT ![r].pc = pc, ![r].keys = {}]

\* SCAN for all records.
ScanTokens(r) ==
    /\ auth[r].pc = "idle"
    /\ \E t \in Tokens :
         auth' = [auth EXCEPT ![r] = [pc |-> "match", token |-> t, keys |-> stored,
                                         met |-> ValidHashes, steady |-> ValidHashes]]
    /\ UNCHANGED <<now, made, stored, ttl, listed, admin, cut>>

\* Mutant: the TTL of the key alone is trusted.
VerdictByTtl(h) == "accepted"

Verdict(h) == IF Expired(h) THEN "expired" ELSE "accepted"

\* Mutant: with nothing stored under a key, the search ends.
MatchTokenStops(r) ==
    /\ auth[r].pc = "match" /\ auth[r].keys # {}
    /\ \E h \in auth[r].keys :
         IF h \in stored /\ made[h].token = auth[r].token
         THEN Decide(r, Verdict(h))
         ELSE IF h \notin stored THEN Decide(r, "refused")
         ELSE auth' = [auth EXCEPT ![r].keys = @ \ {h}]
    /\ UNCHANGED <<now, made, stored, ttl, listed, admin, cut>>

\* GET of one record after the other; the first whose hash matches decides.
MatchToken(r) ==
    /\ auth[r].pc = "match" /\ auth[r].keys # {}
    /\ \E h \in auth[r].keys :
         IF h \in stored /\ made[h].token = auth[r].token
         THEN Decide(r, Verdict(h))
         ELSE auth' = [auth EXCEPT ![r].keys = @ \ {h}]
    /\ UNCHANGED <<now, made, stored, ttl, listed, admin, cut>>

NoMatch(r) ==
    /\ auth[r].pc = "match" /\ auth[r].keys = {}
    /\ Decide(r, "refused")
    /\ UNCHANGED <<now, made, stored, ttl, listed, admin, cut>>

Respond(r) ==
    /\ auth[r].pc \in {"accepted", "expired", "refused"}
    /\ auth' = [auth EXCEPT ![r] = NoRequest]
    /\ UNCHANGED <<now, made, stored, ttl, listed, admin, cut>>

\* Time passes; Redis drops what has reached its TTL.
TokenTick ==
    /\ now < MaxTime
    /\ now' = now + 1
    /\ LET gone == {h \in stored : ttl[h] # 0 /\ ttl[h] <= now'}
           late == {h \in Hashes : made[h].expires # 0 /\ now' > made[h].expires}
       IN  stored' = stored \ gone /\ Goes(gone \cup late)
    /\ UNCHANGED <<made, ttl, listed, admin, cut>>

TokenNext ==
    \/ \E a \in Admins : \/ AddToken(a) \/ SetExpiry(a) \/ EnterInList(a)
                         \/ ListTokens(a) \/ ShowListed(a)
                         \/ FindToken(a) \/ RemoveRecord(a) \/ RemoveFromList(a)
                         \/ Interrupt(a)
    \/ \E r \in Requests : ScanTokens(r) \/ MatchToken(r) \/ NoMatch(r) \/ Respond(r)
    \/ TokenTick

TokenSpec == TokenInit /\ [][TokenNext]_tokenVars

-----------------------------------------------------------------------------
(***************************************************************************)
(* Properties.                                                             *)
(***************************************************************************)
TokenTypeOK ==
    /\ now \in 1 .. MaxTime
    /\ made \in [Hashes -> TokenInfo \cup {Unmade}]
    /\ ttl \in [Hashes -> Nat]
    /\ stored \subseteq {h \in Hashes : made[h] # Unmade} /\ listed \subseteq Hashes
    /\ cut \subseteq Hashes
    /\ \A a \in Admins : admin[a].pc = "idle" => admin[a] = NoCommand

\* A request is accepted only for a token of which a valid record was stored at some
\* moment of its verification: a token removed or expired before is refused, whatever a
\* command that died has left behind (auth.py 303-313).
OnlyValidTokensAccepted ==
    \A r \in Requests :
        auth[r].pc = "accepted" => auth[r].met \cap OfToken(auth[r].token) # {}

\* A token with a valid record that stays is not refused, however records come and go
\* meanwhile, unless an expired record of the same token is met first.
ValidTokensWork ==
    \A r \in Requests :
        (auth[r].pc \in {"expired", "refused"}
           /\ auth[r].steady \cap OfToken(auth[r].token) # {})
        => \E h \in OfToken(auth[r].token) : Expired(h) /\ auth[r].pc = "expired"

\* A token that authenticates is in the list that "token list" and the first characters of
\* "token show" and "token remove" go by, unless its "token add" is at work or died: a hash
\* leaves the list when its "Token expired or deleted" (cli.py 1044-1047).  The code breaks
\* this: "token list" takes every hash for expired.
StoredIsListed ==
    \A h \in stored \ (listed \cup cut) :
        \E a \in Admins : admin[a].pc \in {"expire", "sadd"} /\ admin[a].hash = h
=============================================================================
