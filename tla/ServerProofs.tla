---------------------------- MODULE ServerProofs ----------------------------
(***************************************************************************)
(* The parts of the server that MCServer puts side by side, and their      *)
(* composition.  Authentication, for any number of tokens, keys, threads,  *)
(* commands and requests.  Tokens: a hash is given out once, so a record   *)
(* that is gone never comes back, and what a request still has to compare  *)
(* was valid when it began or is expired for good.  JWT keys: the cache's  *)
(* time only grows, because a thread replaces the cache only after it      *)
(* found, with the lock, that its own time is past the cache's; and a      *)
(* cached key set is never older than the time the cache is stamped with.  *)
(*                                                                         *)
(* Sessions keep apart and answers are covered, for any sets of names and  *)
(* any number of callers.  As long as no namespace is also a user's name,  *)
(* a key has one identity; so whatever is stored under a key that was      *)
(* resolved some time ago is the session that was found then, or the same  *)
(* session stored again.                                                   *)
(*                                                                         *)
(* Forgetting takes the stale before the fresh, for any policies, any      *)
(* clock and any number of memories: being past a threshold is monotone in *)
(* staleness, and the budget keeps the freshest of the rest.               *)
(***************************************************************************)
EXTENDS MCServer, MigrationProofs

-----------------------------------------------------------------------------
(***************************************************************************)
(* Tokens.                                                                 *)
(***************************************************************************)
Commands == [pc : {"idle", "expire", "sadd", "list", "del", "srem"},
             hash : Hashes \cup {NoHash}, life : Nat, todo : SUBSET Hashes]
RequestStates == [pc : {"idle", "match", "accepted", "expired", "refused"},
                  token : Tokens \cup {NoHash}, keys : SUBSET Hashes,
                  met : SUBSET Hashes, steady : SUBSET Hashes]

\* Only records that have been written are stored, compared or removed.
TokenShapes ==
    /\ now \in Nat /\ now # 0
    /\ made \in [Hashes -> [token : Tokens \cup {NoHash}, expires : Nat]]
    /\ stored \subseteq Hashes /\ listed \subseteq Hashes
    /\ admin \in [Admins -> Commands] /\ auth \in [Requests -> RequestStates]
    /\ \A h \in stored : made[h] # Unmade
    /\ \A r \in Requests : /\ \A h \in auth[r].keys \cup auth[r].steady : made[h] # Unmade
                           /\ auth[r].pc # "idle" => auth[r].token \in Tokens

\* The commands: a hash on its way out of the list has no record, and never has one again.
RemovedIsGone ==
    \A a \in Admins :
        /\ admin[a].pc \in {"expire", "sadd", "del", "srem"} =>
             admin[a].hash \in Hashes /\ made[admin[a].hash] # Unmade
        /\ admin[a].pc = "srem" => admin[a].hash \notin stored

RecordInv == TokenShapes /\ RemovedIsGone

\* A request: what it has yet to compare and is not expired was valid when it began, and
\* the valid records of its token that stay are still to be compared.
ComparedWasMet ==
    \A r \in Requests :
       auth[r].pc = "match" => \A h \in auth[r].keys : Expired(h) \/ h \in auth[r].met

SteadyIsCompared ==
    \A r \in Requests :
        /\ auth[r].steady \subseteq stored
        /\ auth[r].pc = "match" => auth[r].steady \cap OfToken(auth[r].token) \subseteq auth[r].keys

RequestInv == TokenShapes /\ ComparedWasMet /\ SteadyIsCompared
              /\ OnlyValidTokensAccepted /\ ValidTokensWork

LEMMA TokenInitHolds == TokenInit => RecordInv /\ RequestInv
  BY DEF TokenInit, RecordInv, RequestInv, TokenShapes, RemovedIsGone, ComparedWasMet,
         SteadyIsCompared, OnlyValidTokensAccepted, ValidTokensWork, NoCommand, NoRequest, Unmade,
         Commands, RequestStates

\* What the appearance and the end of records do to requests in progress.
LEMMA AppearsMeans ==
    ASSUME TokenShapes, NEW h \in Hashes, Appears(h)
    PROVE  /\ auth' \in [Requests -> RequestStates]
           /\ \A r \in Requests :
                /\ auth'[r].pc = auth[r].pc /\ auth'[r].token = auth[r].token
                /\ auth'[r].keys = auth[r].keys /\ auth'[r].steady = auth[r].steady
                /\ auth[r].met \subseteq auth'[r].met
  BY DEF TokenShapes, Appears, RequestStates

LEMMA GoesMeans ==
    ASSUME TokenShapes, NEW hs \in SUBSET Hashes, Goes(hs)
    PROVE  /\ auth' \in [Requests -> RequestStates]
           /\ \A r \in Requests :
                /\ auth'[r].pc = auth[r].pc /\ auth'[r].token = auth[r].token
                /\ auth'[r].keys = auth[r].keys /\ auth'[r].met = auth[r].met
                /\ auth'[r].steady = auth[r].steady \ hs
  BY DEF TokenShapes, Goes, RequestStates

\* The shapes hold after every step.
LEMMA ShapesHold == ASSUME TokenShapes, RemovedIsGone, [TokenNext]_tokenVars PROVE TokenShapes'
  <1> USE TokenAssumption DEF TokenAssumption, TokenShapes
  <1>1. ASSUME NEW a \in Admins, AddToken(a) PROVE TokenShapes'
    <2>1. PICK h \in Hashes, t \in Tokens, life \in Lifetimes :
            /\ made[h] = Unmade
            /\ made' = [made EXCEPT ![h] = [token |-> t, expires |-> IF life = 0 THEN 0
                                                                     ELSE now + life]]
            /\ stored' = stored \cup {h}
            /\ admin' = [admin EXCEPT ![a] = Adding(h, life)]
            /\ Appears(h)
      BY <1>1 DEF AddToken
    <2>2. Adding(h, life) \in Commands
      BY <2>1 DEF Adding, Commands
    <2>3. admin' \in [Admins -> Commands]
      BY <2>1, <2>2
    <2>4. /\ auth' \in [Requests -> RequestStates]
          /\ \A r \in Requests : /\ auth'[r].pc = auth[r].pc /\ auth'[r].token = auth[r].token
                                 /\ auth'[r].keys = auth[r].keys
                                 /\ auth'[r].steady = auth[r].steady
      BY <2>1, AppearsMeans
    <2>5. made'[h] # Unmade /\ \A g \in Hashes : made[g] # Unmade => made'[g] # Unmade
      BY <2>1 DEF Unmade
    <2> QED BY <1>1, <2>1, <2>3, <2>4, <2>5 DEF AddToken, RequestStates
  <1>2. ASSUME NEW a \in Admins, SetExpiry(a) PROVE TokenShapes'
    BY <1>2 DEF SetExpiry, AdminStep, Commands
  <1>3. ASSUME NEW a \in Admins, EnterInList(a) \/ RemoveFromList(a) \/ Interrupt(a)
        PROVE  TokenShapes'
    <2>1. admin' = [admin EXCEPT ![a] = NoCommand] /\ UNCHANGED <<now, made, stored, auth>>
      BY <1>3 DEF EnterInList, RemoveFromList, Interrupt, AdminDone
    <2>2. admin' \in [Admins -> Commands]
      BY <2>1 DEF NoCommand, Commands
    <2>3. listed' \subseteq Hashes
      BY <1>3 DEF EnterInList, RemoveFromList, Interrupt, RemovedIsGone
    <2> QED BY <2>1, <2>2, <2>3
  <1>4. ASSUME NEW a \in Admins, ListTokens(a) \/ ShowListed(a) \/ FindToken(a)
        PROVE  TokenShapes'
    <2>1. CASE ListTokens(a)
      BY <2>1 DEF ListTokens, Listing, NoCommand, Commands
    <2>2. CASE ShowListed(a)
      BY <2>2 DEF ShowListed, Listing, NoCommand, Commands
    <2>3. CASE FindToken(a)
      BY <2>3 DEF FindToken, Removing, NoCommand, Commands
    <2> QED BY <1>4, <2>1, <2>2, <2>3
  <1>5. ASSUME NEW a \in Admins, RemoveRecord(a) PROVE TokenShapes'
    <2>1. {admin[a].hash} \in SUBSET Hashes
      BY <1>5 DEF RemoveRecord, RemovedIsGone
    <2>2. /\ auth' \in [Requests -> RequestStates]
          /\ \A r \in Requests : /\ auth'[r].pc = auth[r].pc /\ auth'[r].token = auth[r].token
                                 /\ auth'[r].keys = auth[r].keys
                                 /\ auth'[r].steady \subseteq auth[r].steady
      BY <1>5, <2>1, GoesMeans DEF RemoveRecord
    <2>3. admin' \in [Admins -> Commands]
      BY <1>5 DEF RemoveRecord, AdminStep, Commands
    <2> QED BY <1>5, <2>1, <2>2, <2>3 DEF RemoveRecord, RequestStates
  <1>6. ASSUME NEW r \in Requests, ScanTokens(r) PROVE TokenShapes'
    BY <1>6 DEF ScanTokens, ValidHashes, RequestStates
  <1>7. ASSUME NEW r \in Requests, MatchToken(r) PROVE TokenShapes'
    <2>1. auth' \in [Requests -> RequestStates]
      BY <1>7 DEF MatchToken, Decide, Verdict, RequestStates
    <2>2. \A q \in Requests : /\ auth'[q].keys \subseteq auth[q].keys
                              /\ auth'[q].steady = auth[q].steady
                              /\ auth'[q].token = auth[q].token
                              /\ auth'[q].pc # "idle" => auth[q].pc # "idle"
      BY <1>7 DEF MatchToken, Decide, RequestStates
    <2>3. UNCHANGED <<now, made, stored, listed, admin>>
      BY <1>7 DEF MatchToken
    <2>4. ASSUME NEW q \in Requests
          PROVE  /\ \A h \in auth'[q].keys \cup auth'[q].steady : made[h] # Unmade
                 /\ auth'[q].pc # "idle" => auth'[q].token \in Tokens
      BY <2>2
    <2> QED BY <2>1, <2>3, <2>4
  <1>8. ASSUME NEW r \in Requests, NoMatch(r) \/ Respond(r) PROVE TokenShapes'
    BY <1>8 DEF NoMatch, Respond, Decide, NoRequest, RequestStates
  <1>9. ASSUME TokenTick PROVE TokenShapes'
    <2>1. PICK hs \in SUBSET Hashes : Goes(hs)
      BY <1>9 DEF TokenTick
    <2>2. /\ auth' \in [Requests -> RequestStates]
          /\ \A r \in Requests : /\ auth'[r].pc = auth[r].pc /\ auth'[r].token = auth[r].token
                                 /\ auth'[r].keys = auth[r].keys
                                 /\ auth'[r].steady \subseteq auth[r].steady
      BY <2>1, GoesMeans
    <2> QED BY <1>9, <2>2 DEF TokenTick, RequestStates
  <1>10. ASSUME UNCHANGED tokenVars PROVE TokenShapes'
    BY <1>10 DEF tokenVars
  <1> QED BY <1>1, <1>2, <1>3, <1>4, <1>5, <1>6, <1>7, <1>8, <1>9, <1>10 DEF TokenNext

\* A hash that a command deletes or takes off the list has no record from then on, because
\* records are only written under hashes never used before.
LEMMA RemovedStaysGone == ASSUME TokenShapes, RemovedIsGone, [TokenNext]_tokenVars
                          PROVE  RemovedIsGone'
  <1> USE DEF TokenShapes, RemovedIsGone
  <1>1. ASSUME NEW a \in Admins, AddToken(a) PROVE RemovedIsGone'
    <2>1. PICK h \in Hashes, t \in Tokens, life \in Lifetimes :
            /\ made[h] = Unmade
            /\ made' = [made EXCEPT ![h] = [token |-> t, expires |-> IF life = 0 THEN 0
                                                                     ELSE now + life]]
            /\ stored' = stored \cup {h}
            /\ admin' = [admin EXCEPT ![a] = Adding(h, life)]
      BY <1>1 DEF AddToken
    <2>2. made'[h] # Unmade /\ \A g \in Hashes : made[g] # Unmade => made'[g] # Unmade
      BY <2>1, TokenAssumption DEF TokenAssumption, Unmade
    <2>3. /\ admin'[a].hash = h /\ admin'[a].pc # "srem"
          /\ \A b \in Admins \ {a} : admin'[b] = admin[b]
      BY <2>1 DEF Adding, Commands
    <2> QED BY <2>1, <2>2, <2>3
  <1>2. ASSUME NEW a \in Admins, SetExpiry(a) PROVE RemovedIsGone'
    BY <1>2 DEF SetExpiry, AdminStep, Commands
  <1>3. ASSUME NEW a \in Admins, EnterInList(a) \/ RemoveFromList(a) \/ Interrupt(a)
        PROVE  RemovedIsGone'
    BY <1>3 DEF EnterInList, RemoveFromList, Interrupt, AdminDone, NoCommand, Commands
  <1>4. ASSUME NEW a \in Admins, ListTokens(a) \/ ShowListed(a) PROVE RemovedIsGone'
    BY <1>4 DEF ListTokens, ShowListed, Listing, NoCommand, Commands
  <1>5. ASSUME NEW a \in Admins, FindToken(a) PROVE RemovedIsGone'
    BY <1>5 DEF FindToken, Found, Removing, NoCommand, Commands
  <1>6. ASSUME NEW a \in Admins, RemoveRecord(a) PROVE RemovedIsGone'
    BY <1>6 DEF RemoveRecord, AdminStep, Commands
  <1>7. ASSUME NEW r \in Requests, ScanTokens(r) \/ MatchToken(r) \/ NoMatch(r) \/ Respond(r)
        PROVE  RemovedIsGone'
    BY <1>7 DEF ScanTokens, MatchToken, NoMatch, Respond
  <1>8. ASSUME TokenTick PROVE RemovedIsGone'
    BY <1>8 DEF TokenTick
  <1>9. ASSUME UNCHANGED tokenVars PROVE RemovedIsGone'
    BY <1>9 DEF tokenVars
  <1> QED BY <1>1, <1>2, <1>3, <1>4, <1>5, <1>6, <1>7, <1>8, <1>9 DEF TokenNext

\* A record is written once, and what has expired stays expired.
LEMMA RecordsAreFinal ==
    ASSUME TokenShapes, [TokenNext]_tokenVars, NEW h \in Hashes, made[h] # Unmade
    PROVE  made'[h] = made[h] /\ (Expired(h) => Expired(h)')
  <1>1. made' = made \/ \E a \in Admins : AddToken(a)
    BY DEF TokenNext, SetExpiry, EnterInList, ListTokens, ShowListed, FindToken, RemoveRecord,
           RemoveFromList, Interrupt, ScanTokens, MatchToken, NoMatch, Respond, TokenTick, tokenVars
  <1>2. now' = now \/ now' = now + 1
    BY DEF TokenNext, AddToken, SetExpiry, EnterInList, ListTokens, ShowListed, FindToken,
           RemoveRecord, RemoveFromList, Interrupt, ScanTokens, MatchToken, NoMatch, Respond,
           TokenTick, tokenVars
  <1>3. made'[h] = made[h]
    BY <1>1 DEF AddToken, TokenShapes
  <1> QED BY <1>2, <1>3 DEF Expired, TokenShapes

\* A step that leaves requests as they are, but for what they witness: records that appear
\* are met, and what goes or expires is not steady any more.
Witnessed ==
    /\ auth' \in [Requests -> RequestStates]
    /\ \A r \in Requests :
         /\ auth'[r].pc = auth[r].pc /\ auth'[r].token = auth[r].token
         /\ auth'[r].keys = auth[r].keys
         /\ auth[r].met \subseteq auth'[r].met
         /\ auth'[r].steady \subseteq auth[r].steady \cap stored'

LEMMA WitnessedKeeps ==
    ASSUME RequestInv, TokenShapes', [TokenNext]_tokenVars, Witnessed PROVE RequestInv'
  <1>1. \A h \in Hashes : made[h] # Unmade => made'[h] = made[h] /\ (Expired(h) => Expired(h)')
    BY RecordsAreFinal DEF RequestInv
  <1>2. \A r \in Requests : \A h \in auth[r].keys \cup auth[r].steady \cup OfToken(auth[r].token) :
          h \in Hashes
    BY DEF RequestInv, TokenShapes, RequestStates, OfToken
  <1>3. \A r \in Requests : auth'[r].steady \cap OfToken(auth[r].token)'
                            \subseteq auth[r].steady \cap OfToken(auth[r].token)
    BY <1>1, <1>2 DEF Witnessed, RequestInv, TokenShapes, OfToken
  <1>4. ComparedWasMet' /\ SteadyIsCompared'
    BY <1>1, <1>2, <1>3 DEF Witnessed, RequestInv, TokenShapes, ComparedWasMet, SteadyIsCompared
  <1>5. \A r \in Requests : \A h \in OfToken(auth[r].token) :
          auth[r].pc # "idle" => made[h] # Unmade
    BY TokenAssumption DEF TokenAssumption, RequestInv, TokenShapes, OfToken, Unmade
  <1>6. \A r \in Requests : auth[r].pc # "idle" =>
          OfToken(auth[r].token) \subseteq OfToken(auth[r].token)'
    BY <1>1, <1>5 DEF Witnessed, OfToken
  <1>7. OnlyValidTokensAccepted'
    BY <1>6 DEF Witnessed, RequestInv, OnlyValidTokensAccepted
  <1>8. ValidTokensWork'
    <2> SUFFICES ASSUME NEW r \in Requests, auth'[r].pc \in {"expired", "refused"},
                        auth'[r].steady \cap OfToken(auth[r].token)' # {}
                 PROVE  \E h \in OfToken(auth[r].token)' : Expired(h)' /\ auth'[r].pc = "expired"
      BY DEF ValidTokensWork
    <2>1. PICK h \in OfToken(auth[r].token) : Expired(h) /\ auth[r].pc = "expired"
      BY <1>3 DEF Witnessed, RequestInv, ValidTokensWork
    <2>2. h \in Hashes /\ made[h] # Unmade
      BY <2>1, <1>5 DEF OfToken
    <2> QED BY <1>1, <1>6, <2>1, <2>2 DEF Witnessed
  <1> QED BY <1>4, <1>7, <1>8 DEF RequestInv

\* What the other steps do to requests in progress.
LEMMA OthersWitness ==
    ASSUME RequestInv, RemovedIsGone,
           \/ TokenTick \/ UNCHANGED tokenVars
           \/ \E a \in Admins : \/ AddToken(a) \/ SetExpiry(a) \/ EnterInList(a)
                               \/ ListTokens(a) \/ ShowListed(a)
                               \/ FindToken(a) \/ RemoveRecord(a) \/ RemoveFromList(a)
                               \/ Interrupt(a)
    PROVE  Witnessed
  <1> USE DEF RequestInv, SteadyIsCompared
  <1>1. CASE TokenTick
    <2>1. PICK hs \in SUBSET Hashes : Goes(hs) /\ stored \ stored' \subseteq hs
      BY <1>1 DEF TokenTick, TokenShapes
    <2> QED BY <2>1, GoesMeans DEF Witnessed
  <1>2. CASE \E a \in Admins : AddToken(a)
    <2>1. PICK h \in Hashes : Appears(h) /\ stored' = stored \cup {h}
      BY <1>2 DEF AddToken
    <2> QED BY <2>1, AppearsMeans DEF Witnessed
  <1>3. CASE \E a \in Admins : RemoveRecord(a)
    <2>1. PICK h \in Hashes : Goes({h}) /\ stored' = stored \ {h}
      BY <1>3 DEF RemoveRecord, RemovedIsGone
    <2> QED BY <2>1, GoesMeans DEF Witnessed
  <1>4. CASE UNCHANGED <<auth, stored>>
    BY <1>4 DEF Witnessed, TokenShapes
  <1> QED BY <1>1, <1>2, <1>3, <1>4
          DEF SetExpiry, EnterInList, ListTokens, ShowListed, FindToken, RemoveFromList, Interrupt,
              tokenVars

\* A step of one request, which changes nothing else.
LEMMA RequestStepKeeps ==
    ASSUME RequestInv, TokenShapes', [TokenNext]_tokenVars, NEW r \in Requests,
           ScanTokens(r) \/ MatchToken(r) \/ NoMatch(r) \/ Respond(r)
    PROVE  RequestInv'
  <1>1. /\ UNCHANGED <<now, made, stored>>
        /\ \A q \in Requests \ {r} : auth'[q] = auth[q]
    BY DEF ScanTokens, MatchToken, NoMatch, Respond, Decide, RequestInv, TokenShapes
  <1>2. \A h \in Hashes : Expired(h)' = Expired(h)
    BY <1>1 DEF Expired
  <1>3. \A t : OfToken(t)' = OfToken(t)
    BY <1>1 DEF OfToken
  <1>4. SUFFICES
          /\ auth'[r].pc = "match" => \A h \in auth'[r].keys : Expired(h) \/ h \in auth'[r].met
          /\ auth'[r].steady \subseteq stored
          /\ auth'[r].pc = "match" =>
                auth'[r].steady \cap OfToken(auth'[r].token) \subseteq auth'[r].keys
          /\ auth'[r].pc = "accepted" => auth'[r].met \cap OfToken(auth'[r].token) # {}
          /\ (auth'[r].pc \in {"expired", "refused"}
                /\ auth'[r].steady \cap OfToken(auth'[r].token) # {})
             => \E h \in OfToken(auth'[r].token) : Expired(h) /\ auth'[r].pc = "expired"
    <2>1. ComparedWasMet'
      BY <1>1, <1>2, <1>4, <1>3 DEF RequestInv, TokenShapes, RequestStates, ComparedWasMet
    <2>2. SteadyIsCompared'
      BY <1>1, <1>3, <1>4 DEF RequestInv, SteadyIsCompared
    <2>3. OnlyValidTokensAccepted'
      BY <1>1, <1>3, <1>4 DEF RequestInv, OnlyValidTokensAccepted
    <2>4. ValidTokensWork'
      BY <1>1, <1>2, <1>3, <1>4 DEF RequestInv, ValidTokensWork, OfToken
    <2> QED BY <2>1, <2>2, <2>3, <2>4 DEF RequestInv
  <1> USE DEF RequestInv, TokenShapes, RequestStates
  <1>5. CASE ScanTokens(r)
    <2>1. PICK t \in Tokens :
            auth'[r] = [pc |-> "match", token |-> t, keys |-> stored, met |-> ValidHashes,
                        steady |-> ValidHashes]
      BY <1>5 DEF ScanTokens
    <2> QED BY <2>1 DEF ValidHashes
  <1>6. CASE MatchToken(r)
    <2>1. PICK h \in auth[r].keys :
            IF h \in stored /\ made[h].token = auth[r].token
            THEN auth' = [auth EXCEPT ![r].pc = Verdict(h), ![r].keys = {}]
            ELSE auth' = [auth EXCEPT ![r].keys = @ \ {h}]
      BY <1>6 DEF MatchToken, Decide
    <2>2. auth[r].pc = "match" /\ h \in Hashes
      BY <1>6, <2>1 DEF MatchToken
    <2>3. Expired(h) \/ h \in auth[r].met
      BY <2>1, <2>2 DEF ComparedWasMet
    <2>4. /\ auth[r].steady \subseteq stored
          /\ auth[r].steady \cap OfToken(auth[r].token) \subseteq auth[r].keys
      BY <2>2 DEF SteadyIsCompared
    <2>5. CASE h \in stored /\ made[h].token = auth[r].token
      <3>1. h \in OfToken(auth[r].token)
        BY <2>2, <2>5 DEF OfToken
      <3>2. auth'[r] = [auth[r] EXCEPT !.pc = Verdict(h), !.keys = {}]
        BY <2>1, <2>5
      <3> QED BY <2>3, <2>4, <3>1, <3>2 DEF Verdict
    <2>6. CASE ~(h \in stored /\ made[h].token = auth[r].token)
      <3>1. auth'[r] = [auth[r] EXCEPT !.keys = @ \ {h}]
        BY <2>1, <2>6
      <3>2. h \notin auth[r].steady \cap OfToken(auth[r].token)
        BY <2>4, <2>6 DEF OfToken
      <3> QED BY <2>2, <2>4, <3>1, <3>2 DEF ComparedWasMet
    <2> QED BY <2>5, <2>6
  <1>7. CASE NoMatch(r)
    <2>1. auth[r].pc = "match" /\ auth[r].keys = {}
          /\ auth'[r] = [auth[r] EXCEPT !.pc = "refused", !.keys = {}]
      BY <1>7 DEF NoMatch, Decide
    <2> QED BY <2>1 DEF SteadyIsCompared
  <1>8. CASE Respond(r)
    <2>1. auth'[r] = NoRequest
      BY <1>8 DEF Respond
    <2> QED BY <2>1 DEF NoRequest
  <1> QED BY <1>5, <1>6, <1>7, <1>8

\* No step of a command, of Redis or of another request makes a request accept a token that
\* has no valid record, or refuse one that has.
LEMMA RequestInvHolds == RecordInv /\ RequestInv /\ [TokenNext]_tokenVars => RequestInv'
  <1> SUFFICES ASSUME RecordInv, RequestInv, [TokenNext]_tokenVars PROVE RequestInv'
    OBVIOUS
  <1>1. TokenShapes'
    BY ShapesHold DEF RecordInv
  <1>2. CASE \E r \in Requests : ScanTokens(r) \/ MatchToken(r) \/ NoMatch(r) \/ Respond(r)
    BY <1>1, <1>2, RequestStepKeeps
  <1>3. CASE ~\E r \in Requests : ScanTokens(r) \/ MatchToken(r) \/ NoMatch(r) \/ Respond(r)
    <2>1. Witnessed
      BY <1>3, OthersWitness DEF RecordInv, TokenNext
    <2> QED BY <1>1, <2>1, WitnessedKeeps
  <1> QED BY <1>2, <1>3

LEMMA TokensInvariant == TokenSpec => [](RecordInv /\ RequestInv)
  <1>1. RecordInv /\ [TokenNext]_tokenVars => RecordInv'
    BY ShapesHold, RemovedStaysGone DEF RecordInv
  <1>2. RecordInv /\ RequestInv /\ [TokenNext]_tokenVars => RequestInv'
    BY RequestInvHolds
  <1> QED BY <1>1, <1>2, TokenInitHolds, PTL DEF TokenSpec

\* A request is accepted only for a token that had a valid record while it was verified.
THEOREM TokensDecide == TokenSpec => []OnlyValidTokensAccepted
  <1>1. RequestInv => OnlyValidTokensAccepted
    BY DEF RequestInv
  <1> QED BY <1>1, TokensInvariant, PTL

\* One whose valid record stays is not refused, however records come and go meanwhile, but
\* for an expired record of the same token.
THEOREM ValidTokensPass == TokenSpec => []ValidTokensWork
  <1>1. RequestInv => ValidTokensWork
    BY DEF RequestInv
  <1> QED BY <1>1, TokensInvariant, PTL

\* Records, deadlines and the list, which no proof above depends on.
TokenBounds ==
    /\ now \in 1 .. MaxTime
    /\ made \in [Hashes -> TokenInfo \cup {Unmade}]
    /\ ttl \in [Hashes -> Nat] /\ cut \subseteq Hashes
    /\ \A a \in Admins : admin[a].pc = "idle" => admin[a] = NoCommand

\* A command's step that leaves the records and the clock alone.
LEMMA CommandKeepsBounds ==
    ASSUME RecordInv, TokenBounds, NEW a \in Admins, NEW c \in Commands,
           admin' = [admin EXCEPT ![a] = c], c.pc = "idle" => c = NoCommand,
           UNCHANGED <<now, made>>, ttl' \in [Hashes -> Nat], cut' \subseteq Hashes
    PROVE  TokenBounds'
  BY DEF TokenBounds, RecordInv, TokenShapes

LEMMA TokenBoundsKept == ASSUME RecordInv, TokenBounds, [TokenNext]_tokenVars PROVE TokenBounds'
  <1> USE TokenAssumption DEF TokenAssumption
  <1>1. ASSUME NEW a \in Admins, AddToken(a) PROVE TokenBounds'
    <2>1. PICK h \in Hashes, t \in Tokens, life \in Lifetimes :
            /\ made' = [made EXCEPT ![h] =
                         [token |-> t, expires |-> IF life = 0 THEN 0 ELSE now + life]]
            /\ admin' = [admin EXCEPT ![a] = Adding(h, life)]
      BY <1>1 DEF AddToken
    <2>2. [token |-> t, expires |-> IF life = 0 THEN 0 ELSE now + life] \in TokenInfo
      BY DEF TokenInfo, TokenBounds
    <2>3. UNCHANGED <<now, ttl, cut>> /\ Adding(h, life).pc # "idle"
      BY <1>1 DEF AddToken, Adding
    <2>4. made' \in [Hashes -> TokenInfo \cup {Unmade}]
      BY <2>1, <2>2 DEF TokenBounds
    <2>5. admin \in [Admins -> Commands]
      BY DEF RecordInv, TokenShapes
    <2>6. \A b \in Admins : admin'[b] = IF b = a THEN Adding(h, life) ELSE admin[b]
      BY <2>1, <2>5
    <2> QED BY <2>3, <2>4, <2>6 DEF TokenBounds
  <1>2. ASSUME NEW a \in Admins,
               SetExpiry(a) \/ EnterInList(a) \/ ListTokens(a) \/ ShowListed(a) \/ FindToken(a)
                 \/ RemoveRecord(a) \/ RemoveFromList(a) \/ Interrupt(a)
        PROVE  TokenBounds'
    <2> DEFINE step(p) == [admin[a] EXCEPT !.pc = p]
    <2>1. admin[a] \in Commands /\ UNCHANGED <<now, made>>
      BY <1>2 DEF RecordInv, TokenShapes, SetExpiry, EnterInList, ListTokens, ShowListed, FindToken,
                  RemoveRecord, RemoveFromList, Interrupt
    <2>2. admin[a].pc \in {"expire", "sadd"} => admin[a].hash \in Hashes
      BY DEF RecordInv, RemovedIsGone
    <2>3. ttl' \in [Hashes -> Nat] /\ cut' \subseteq Hashes
      <3>1. ttl' = ttl \/ SetExpiry(a)
        BY <1>2 DEF EnterInList, ListTokens, ShowListed, FindToken, RemoveRecord, RemoveFromList,
                    Interrupt
      <3>2. SetExpiry(a) => ttl' \in [Hashes -> Nat]
        <4>1. now + admin[a].life \in Nat
          BY <2>1 DEF Commands, TokenBounds
        <4>2. SetExpiry(a) =>
                 ttl' = ttl \/ ttl' = [ttl EXCEPT ![admin[a].hash] = now + admin[a].life]
          BY DEF SetExpiry
        <4> HIDE DEF TokenAssumption
        <4> QED BY <4>1, <4>2 DEF TokenBounds
      <3>3. cut' = cut \/ Interrupt(a)
        BY <1>2 DEF EnterInList, ListTokens, ShowListed, FindToken, RemoveRecord, RemoveFromList,
                    SetExpiry
      <3>4. Interrupt(a) => cut' \subseteq Hashes
        BY <2>2 DEF Interrupt, TokenBounds
      <3> QED BY <3>1, <3>2, <3>3, <3>4 DEF TokenBounds
    <2>4. \E c \in Commands : admin' = [admin EXCEPT ![a] = c] /\ (c.pc = "idle" => c = NoCommand)
      <3>1. CASE SetExpiry(a)
        <4>1. admin' = [admin EXCEPT ![a] = step("sadd")] /\ step("sadd") \in Commands
              /\ step("sadd").pc # "idle"
          BY <3>1, <2>1 DEF SetExpiry, AdminStep, Commands, RecordInv, TokenShapes
        <4> QED BY <4>1
      <3>2. CASE RemoveRecord(a)
        <4>1. admin' = [admin EXCEPT ![a] = step("srem")] /\ step("srem") \in Commands
              /\ step("srem").pc # "idle"
          BY <3>2, <2>1 DEF RemoveRecord, AdminStep, Commands, RecordInv, TokenShapes
        <4> QED BY <4>1
      <3>3. CASE EnterInList(a) \/ RemoveFromList(a) \/ Interrupt(a)
        <4>1. admin' = [admin EXCEPT ![a] = NoCommand]
          BY <3>3 DEF EnterInList, RemoveFromList, Interrupt, AdminDone
        <4> QED BY <4>1 DEF NoCommand, Commands
      <3>4. CASE ListTokens(a)
        <4>1. admin' = [admin EXCEPT ![a] = Listing(listed)] /\ listed \in SUBSET Hashes
          BY <3>4 DEF ListTokens, RecordInv, TokenShapes
        <4>2. Listing(listed) \in Commands /\ Listing(listed).pc # "idle"
          BY <4>1 DEF Listing, Commands
        <4> QED BY <4>1, <4>2
      <3>5. CASE ShowListed(a)
        BY <3>5, <2>1 DEF ShowListed, Listing, NoCommand, Commands
      <3>6. CASE FindToken(a)
        BY <3>6 DEF FindToken, Removing, Commands, RecordInv, TokenShapes
      <3> QED BY <1>2, <3>1, <3>2, <3>3, <3>4, <3>5, <3>6
    <2> QED BY <2>1, <2>3, <2>4, CommandKeepsBounds
  <1>3. ASSUME NEW r \in Requests, ScanTokens(r) \/ MatchToken(r) \/ NoMatch(r) \/ Respond(r)
        PROVE  TokenBounds'
    BY <1>3 DEF ScanTokens, MatchToken, NoMatch, Respond, TokenBounds
  <1>4. CASE TokenTick
    BY <1>4 DEF TokenTick, TokenBounds
  <1>5. CASE UNCHANGED tokenVars
    BY <1>5 DEF tokenVars, TokenBounds
  <1> QED BY <1>1, <1>2, <1>3, <1>4, <1>5 DEF TokenNext

\* Records are stored and listed under hashes that were given out, and a command line at
\* rest keeps nothing.
THEOREM TokenTypes == TokenSpec => []TokenTypeOK
  <1>1. TokenInit => TokenBounds
    BY TokenAssumption DEF TokenAssumption, TokenInit, TokenBounds, NoCommand
  <1>2. RecordInv /\ TokenBounds /\ [TokenNext]_tokenVars => TokenBounds'
    BY TokenBoundsKept
  <1>3. RecordInv /\ TokenBounds => TokenTypeOK
    BY DEF RecordInv, TokenShapes, TokenBounds, TokenTypeOK
  <1> QED BY <1>1, <1>2, <1>3, TokensInvariant, PTL DEF TokenSpec

-----------------------------------------------------------------------------
(***************************************************************************)
(* JWT keys.                                                               *)
(***************************************************************************)
ThreadStates == [pc : {"idle", "look", "wait", "fetch", "store", "stamp", "use", "accepted",
                       "unknown"},
                 key : SigningKeys \cup {NoKey}, time : Nat, fetched : SUBSET SigningKeys]

JwtShapes ==
    /\ clock \in Nat /\ clock # 0 /\ cacheTime \in 0 .. clock /\ cache \subseteq SigningKeys
    /\ from \in [SigningKeys -> Nat] /\ until \in [SigningKeys -> Nat]
    /\ \A k \in SigningKeys : until[k] <= clock
    /\ thread \in [Threads -> ThreadStates]
    /\ \A t \in Threads : thread[t].time <= clock
                         /\ (thread[t].pc # "idle" =>
                                thread[t].key \in SigningKeys /\ thread[t].time # 0)

\* One thread at a time is between taking the lock and giving it back, and it came with a
\* time past the cache's.
LockInv ==
    \A t \in Threads : thread[t].pc \in {"fetch", "store", "stamp"} =>
        lock = t /\ cacheTime <= thread[t].time

\* A key set read at or after a time: its keys were not withdrawn before that time, and a
\* published key that it lacks is not older.
ReadSince(keys, time) ==
    /\ \A k \in keys : from[k] # 0 /\ (until[k] = 0 \/ time <= until[k])
    /\ \A k \in SigningKeys \ keys : from[k] = 0 \/ until[k] # 0 \/ time <= from[k]

\* The cache is as new as its time says, and newer while it is not stamped.
CacheInv ==
    /\ cacheTime # 0 => ReadSince(cache, cacheTime)
    /\ \A t \in Threads :
         /\ thread[t].pc = "store" => ReadSince(thread[t].fetched, thread[t].time)
         /\ thread[t].pc = "stamp" => ReadSince(cache, thread[t].time)
         /\ thread[t].pc = "use" => cacheTime # 0 /\ thread[t].time <= cacheTime + CacheDuration

JwtInv == JwtShapes /\ LockInv /\ CacheInv /\ WithdrawnKeysExpire /\ PublishedKeysWork

LEMMA JwtInitHolds == JwtInit => JwtInv
  BY DEF JwtInit, JwtInv, JwtShapes, LockInv, CacheInv, ReadSince, WithdrawnKeysExpire,
         PublishedKeysWork, ThreadAt, Resting, ThreadStates

\* The issuer and the clock.
LEMMA IssuerKeeps ==
    ASSUME JwtInv, NEW k \in SigningKeys, Publish(k) \/ Withdraw(k) PROVE JwtInv'
  <1> USE JwtAssumption DEF JwtAssumption, JwtInv, JwtShapes, ThreadStates
  <1>1. /\ UNCHANGED <<clock, cache, cacheTime, lock, thread>>
        /\ \A g \in SigningKeys \ {k} : from'[g] = from[g] /\ until'[g] = until[g]
        /\ \/ from[k] = 0 /\ from'[k] = clock /\ until'[k] = until[k]
           \/ from[k] # 0 /\ from'[k] = from[k] /\ until[k] = 0 /\ until'[k] = clock
    BY DEF Publish, Withdraw, Published
  <1>2. JwtShapes'
    BY <1>1 DEF Publish, Withdraw
  <1>3. \A keys \in SUBSET SigningKeys : \A time \in Nat :
          time <= clock /\ ReadSince(keys, time) => ReadSince(keys, time)'
    BY <1>1 DEF ReadSince
  <1>4. LockInv'
    BY <1>1 DEF LockInv
  <1>5. CacheInv'
    BY <1>1, <1>3 DEF CacheInv
  <1>6. WithdrawnKeysExpire' /\ PublishedKeysWork'
    BY <1>1 DEF WithdrawnKeysExpire, PublishedKeysWork, ThreadAt
  <1> QED BY <1>2, <1>4, <1>5, <1>6

\* A step of thread t that leaves the issuer, the clock and the cache alone.
LEMMA LookingKeeps ==
    ASSUME JwtInv, NEW t \in Threads,
           GetBearer(t) \/ LookAtCache(t) \/ Acquire(t) \/ FetchKeys(t) \/ FetchFails(t)
             \/ CheckKey(t) \/ Reply(t)
    PROVE  JwtInv'
  <1> USE JwtAssumption DEF JwtAssumption, JwtInv, JwtShapes, ThreadStates, ThreadAt, MoveTo
  <1>1. CASE GetBearer(t)
    <2>1. PICK k \in SigningKeys : thread' = [thread EXCEPT ![t] =
             [pc |-> "look", key |-> k, time |-> clock, fetched |-> {}]]
      BY <1>1 DEF GetBearer
    <2>2. UNCHANGED <<clock, from, until, cache, cacheTime, lock>>
      BY <1>1 DEF GetBearer
    <2>3. thread'[t] \in ThreadStates /\ \A q \in Threads \ {t} : thread'[q] = thread[q]
      BY <2>1
    <2>4. JwtShapes'
      BY <2>1, <2>2, <2>3
    <2> QED BY <2>1, <2>2, <2>4 DEF LockInv, CacheInv, ReadSince, WithdrawnKeysExpire,
            PublishedKeysWork
  <1>2. CASE LookAtCache(t)
    BY <1>2 DEF LookAtCache, Fresh, LockInv, CacheInv, ReadSince, WithdrawnKeysExpire,
            PublishedKeysWork
  <1>3. CASE Acquire(t)
    <2>1. JwtShapes'
      BY <1>3 DEF Acquire
    <2>2. LockInv'
      <3>1. CASE Fresh(thread[t].time)
        BY <1>3, <3>1 DEF Acquire, LockInv
      <3>2. CASE ~Fresh(thread[t].time)
        <4>1. cacheTime <= thread[t].time
          BY <3>2 DEF Fresh
        <4>2. lock = NoKey /\ lock' = t /\ UNCHANGED <<clock, cacheTime>>
              /\ thread'[t].time = thread[t].time
              /\ \A q \in Threads \ {t} : thread'[q] = thread[q]
          BY <1>3, <3>2 DEF Acquire
        <4>3. \A q \in Threads : thread[q].pc \notin {"fetch", "store", "stamp"}
          BY <4>2 DEF LockInv
        <4> QED BY <4>1, <4>2, <4>3 DEF LockInv
      <3> QED BY <3>1, <3>2
    <2>3. CacheInv'
      BY <1>3 DEF Acquire, Fresh, CacheInv, ReadSince
    <2>4. WithdrawnKeysExpire' /\ PublishedKeysWork'
      BY <1>3 DEF Acquire, WithdrawnKeysExpire, PublishedKeysWork
    <2> QED BY <2>1, <2>2, <2>3, <2>4
  <1>4. CASE FetchKeys(t)
    BY <1>4 DEF FetchKeys, Published, LockInv, CacheInv, ReadSince, WithdrawnKeysExpire,
            PublishedKeysWork
  <1>5. CASE FetchFails(t)
    BY <1>5 DEF FetchFails, Resting, LockInv, CacheInv, ReadSince, WithdrawnKeysExpire,
            PublishedKeysWork
  <1>6. CASE CheckKey(t)
    BY <1>6 DEF CheckKey, LockInv, CacheInv, ReadSince, WithdrawnKeysExpire,
            PublishedKeysWork
  <1>7. CASE Reply(t)
    BY <1>7 DEF Reply, Resting, LockInv, CacheInv, ReadSince, WithdrawnKeysExpire,
            PublishedKeysWork
  <1> QED BY <1>1, <1>2, <1>3, <1>4, <1>5, <1>6, <1>7

\* A thread puts its answer in the cache, and stamps it with its time.
LEMMA StoringKeeps ==
  ASSUME JwtInv, NEW t \in Threads, StoreKeys(t) \/ StampCache(t) PROVE JwtInv'
  <1> USE JwtAssumption DEF JwtAssumption, JwtInv, JwtShapes, ThreadStates, ThreadAt, MoveTo
  <1>1. CASE StoreKeys(t)
    <2>1. thread[t].pc = "store" /\ UNCHANGED <<clock, from, until, cacheTime, lock>>
          /\ cache' = thread[t].fetched /\ thread' \in [Threads -> ThreadStates]
          /\ thread'[t].pc = "stamp" /\ thread'[t].time = thread[t].time
          /\ thread'[t].key = thread[t].key
          /\ \A q \in Threads \ {t} : thread'[q] = thread[q]
      BY <1>1 DEF StoreKeys
    <2>2. JwtShapes' /\ LockInv'
      BY <2>1 DEF LockInv
    <2>3. ReadSince(cache, thread[t].time)'
      BY <2>1 DEF CacheInv, ReadSince
    <2>4. \A q \in Threads \ {t} : thread[q].pc \notin {"store", "stamp"}
      BY <2>1 DEF LockInv
    <2>5. cacheTime' # 0 => ReadSince(cache, cacheTime)'
      BY <2>1, <2>3 DEF LockInv, ReadSince
    <2>6. CacheInv'
      BY <2>1, <2>3, <2>4, <2>5 DEF CacheInv
    <2>7. WithdrawnKeysExpire' /\ PublishedKeysWork'
      BY <2>1 DEF WithdrawnKeysExpire, PublishedKeysWork
    <2> QED BY <2>2, <2>6, <2>7
  <1>2. CASE StampCache(t)
    BY <1>2 DEF StampCache, Stamp, LockInv, CacheInv, ReadSince, WithdrawnKeysExpire,
            PublishedKeysWork
  <1> QED BY <1>1, <1>2

LEMMA ClockKeeps == ASSUME JwtInv, JwtTick \/ UNCHANGED jwtVars PROVE JwtInv'
  BY DEF JwtTick, jwtVars, JwtInv, JwtShapes, LockInv, CacheInv, ReadSince, WithdrawnKeysExpire,
         PublishedKeysWork, ThreadAt, ThreadStates

LEMMA JwtInvHolds == JwtInv /\ [JwtNext]_jwtVars => JwtInv'
  BY IssuerKeeps, LookingKeeps, StoringKeeps, ClockKeeps DEF JwtNext

LEMMA JwtInvariant == JwtSpec => []JwtInv
  BY JwtInitHolds, JwtInvHolds, PTL DEF JwtSpec

\* No token is accepted on a key withdrawn for longer than the cache duration when the
\* request came.
THEOREM KeysFollowTheIssuer == JwtSpec => []WithdrawnKeysExpire
  <1>1. JwtInv => WithdrawnKeysExpire
    BY DEF JwtInv
  <1> QED BY <1>1, JwtInvariant, PTL

\* A key is known once it has been published for longer than the cache duration.
THEOREM KeysBecomeKnown == JwtSpec => []PublishedKeysWork
  <1>1. JwtInv => PublishedKeysWork
    BY DEF JwtInv
  <1> QED BY <1>1, JwtInvariant, PTL

\* Nobody else than a thread holds the lock, and no key is older than the clock.
JwtBounds == /\ lock \in Threads \cup {NoKey}
             /\ from \in [SigningKeys -> 0 .. clock] /\ until \in [SigningKeys -> 0 .. clock]

\* Keys are published and withdrawn, and threads work, in the past.
THEOREM JwtTypes == JwtSpec => []JwtTypeOK
  <1>1. JwtInit => JwtBounds
    BY DEF JwtInit, JwtBounds
  <1>2. ASSUME JwtInv, JwtBounds, [JwtNext]_jwtVars PROVE JwtBounds'
    <2>1. CASE \E k \in SigningKeys : Publish(k) \/ Withdraw(k)
      BY <1>2, <2>1 DEF JwtInv, JwtShapes, JwtBounds, Publish, Withdraw
    <2>2. CASE JwtTick
      <3>1. clock \in Nat /\ clock' = clock + 1 /\ UNCHANGED <<from, until, lock>>
        BY <1>2, <2>2 DEF JwtTick, JwtInv, JwtShapes
      <3>2. \A n \in 0 .. clock : n \in 0 .. clock'
        BY <3>1
      <3> QED BY <1>2, <3>1, <3>2 DEF JwtBounds
    <2>3. ASSUME NEW t \in Threads,
                 GetBearer(t) \/ LookAtCache(t) \/ Acquire(t) \/ FetchKeys(t) \/ FetchFails(t)
                   \/ StoreKeys(t) \/ StampCache(t) \/ CheckKey(t) \/ Reply(t)
          PROVE  JwtBounds'
      <3>1. UNCHANGED <<clock, from, until>> /\ lock' \in {lock, t, NoKey}
        BY <2>3 DEF GetBearer, LookAtCache, Acquire, FetchKeys, FetchFails, StoreKeys, StampCache,
                    Stamp, CheckKey, Reply
      <3> QED BY <1>2, <3>1 DEF JwtBounds
    <2>4. CASE UNCHANGED jwtVars
      BY <1>2, <2>4 DEF jwtVars, JwtBounds
    <2> QED BY <1>2, <2>1, <2>2, <2>3, <2>4 DEF JwtNext
  <1>3. ASSUME JwtInv, JwtBounds PROVE JwtTypeOK
    <2>1. thread \in [Threads -> [pc : {"idle", "look", "wait", "fetch", "store", "stamp", "use",
                                       "accepted", "unknown"},
                                 key : SigningKeys \cup {NoKey}, time : 0 .. clock,
                                 fetched : SUBSET SigningKeys]]
      BY <1>3 DEF JwtInv, JwtShapes, ThreadStates
    <2> QED BY <1>3, <2>1 DEF JwtInv, JwtShapes, JwtBounds, JwtTypeOK
  <1> QED BY <1>1, <1>2, <1>3, JwtInvariant, PTL DEF JwtSpec

-----------------------------------------------------------------------------
(***************************************************************************)
(* Sessions.                                                               *)
(***************************************************************************)

\* Every stored session is under its key.
StoredUnderKey == \A s \in sessions : s.id \in Identity /\ s.key = Key(s.id)

\* The key a request works on is the key of an identity that the request covers.
KeyIsCovered ==
    \A c \in Callers :
        /\ ask[c].pc # "idle" => ask[c].asked \in Identity
        /\ ask[c].pc \notin {"idle", "done"} =>
             \E id \in Identity : ask[c].key = Key(id) /\ Covers(ask[c].asked, id)

AskShapes == ask \in [Callers -> [pc : {"idle", "get", "delete", "list", "resolve", "fetch",
                                         "missing", "remove", "done"},
                                  op : {"get", "delete", "list"},
                                  asked : Identity \cup {Nobody},
                                  key : AllKeys \cup {<<>>},
                                  shown : SUBSET Identity]]

DirectoryInv == /\ AskShapes /\ StoredUnderKey /\ KeyIsCovered /\ AnswersAreCovered
                /\ archive \subseteq Identity

\* A key has one identity.
LEMMA KeyIsInjective ==
    ASSUME NEW id \in Identity, NEW other \in Identity, Key(id) = Key(other)
    PROVE  id = other
  BY DirectoryAssumption DEF DirectoryAssumption, Identity, Key

LEMMA DirectoryInitHolds == DirectoryInit => DirectoryInv
  BY DEF DirectoryInit, DirectoryInv, AskShapes, StoredUnderKey, KeyIsCovered, AnswersAreCovered,
         NoAsk

\* The session under a key that a request works on is one that the request covers.
LEMMA HeldIsCovered ==
    ASSUME DirectoryInv, NEW c \in Callers, ask[c].pc \notin {"idle", "done"}
    PROVE  \A s \in HeldUnder(ask[c].key) : s.id \in Identity /\ Covers(ask[c].asked, s.id)
  <1> SUFFICES ASSUME NEW s \in HeldUnder(ask[c].key)
               PROVE  s.id \in Identity /\ Covers(ask[c].asked, s.id)
    OBVIOUS
  <1>1. PICK id \in Identity : ask[c].key = Key(id) /\ Covers(ask[c].asked, id)
    BY DEF DirectoryInv, KeyIsCovered
  <1>2. s.id \in Identity /\ s.key = Key(s.id) /\ s.key = ask[c].key
    BY DEF HeldUnder, DirectoryInv, StoredUnderKey
  <1> QED BY <1>1, <1>2, KeyIsInjective

\* A caller's step that gives an answer, or goes on with a key of an identity it covers.
LEMMA CallerKeeps ==
    ASSUME DirectoryInv, NEW c \in Callers, UNCHANGED archive, sessions' \subseteq sessions,
           \A d \in Callers \ {c} : ask'[d] = ask[d],
           AskShapes', ask'[c].asked \in Identity \/ ask'[c].pc = "idle",
           ask'[c].pc \notin {"idle", "done"} =>
             \E id \in Identity : ask'[c].key = Key(id) /\ Covers(ask'[c].asked, id),
           \A id \in ask'[c].shown : Covers(ask'[c].asked, id)
    PROVE  DirectoryInv'
  <1>1. StoredUnderKey'
    BY DEF DirectoryInv, StoredUnderKey
  <1>2. KeyIsCovered'
    BY DEF DirectoryInv, KeyIsCovered
  <1>3. AnswersAreCovered'
    BY DEF DirectoryInv, AnswersAreCovered
  <1> QED BY <1>1, <1>2, <1>3 DEF DirectoryInv

LEMMA AskKeeps == ASSUME DirectoryInv, NEW c \in Callers, Ask(c) PROVE DirectoryInv'
  <1>1. PICK op \in {"get", "delete", "list"}, asked \in Identity :
          ask' = [ask EXCEPT ![c] = [pc |-> op, op |-> op, asked |-> asked, key |-> Key(asked),
                                     shown |-> {}]]
    BY DEF Ask, NoAsk
  <1>2. Key(asked) \in AllKeys /\ Covers(asked, asked)
    BY DEF AllKeys, Covers
  <1>3. AskShapes'
    BY <1>1, <1>2 DEF DirectoryInv, AskShapes
  <1> QED BY <1>1, <1>2, <1>3, CallerKeeps DEF Ask, DirectoryInv, AskShapes

\* An answer with sessions that the request covers.
LEMMA AnswerKeeps ==
    ASSUME DirectoryInv, NEW c \in Callers, ask[c].pc # "idle",
           UNCHANGED archive, sessions' \subseteq sessions,
           NEW ids \in SUBSET Identity, \A id \in ids : Covers(ask[c].asked, id), Answers(c, ids)
    PROVE  DirectoryInv'
  <1>1. /\ ask'[c].pc = "done" /\ ask'[c].asked = ask[c].asked /\ ask'[c].shown = ids
        /\ \A d \in Callers \ {c} : ask'[d] = ask[d]
    BY DEF Answers, DirectoryInv, AskShapes
  <1>2. AskShapes'
    BY DEF Answers, DirectoryInv, AskShapes
  <1> QED BY <1>1, <1>2, CallerKeeps DEF DirectoryInv, KeyIsCovered

\* The request goes on, with the key it has or one that was found for it.
LEMMA GoingOnKeeps ==
    ASSUME DirectoryInv, NEW c \in Callers, ask[c].pc \notin {"idle", "done"},
           UNCHANGED <<archive, sessions>>,
           NEW step \in {"resolve", "missing", "fetch", "remove"}, NEW id \in Identity,
           Covers(ask[c].asked, id), NEW under, under = Key(id),
           ask' = [ask EXCEPT ![c].pc = step, ![c].key = under]
    PROVE  DirectoryInv'
  <1>1. /\ ask'[c].pc = step /\ ask'[c].asked = ask[c].asked /\ ask'[c].shown = ask[c].shown
        /\ ask'[c].key = Key(id) /\ \A d \in Callers \ {c} : ask'[d] = ask[d]
    BY DEF DirectoryInv, AskShapes
  <1>2. AskShapes'
    <2>1. under \in AllKeys
      BY DEF AllKeys
    <2>2. ask'[c] = [pc |-> step, op |-> ask[c].op, asked |-> ask[c].asked, key |-> under,
                     shown |-> ask[c].shown]
      BY DEF DirectoryInv, AskShapes
    <2>3. DOMAIN ask' = Callers /\ ask' = [d \in Callers |-> ask'[d]]
      BY DEF DirectoryInv, AskShapes
    <2> QED BY <1>1, <2>1, <2>2, <2>3 DEF DirectoryInv, AskShapes
  <1> QED BY <1>1, <1>2, CallerKeeps DEF DirectoryInv, KeyIsCovered, AnswersAreCovered

\* The same when the key stays.
LEMMA StayingKeeps ==
    ASSUME DirectoryInv, NEW c \in Callers, ask[c].pc \notin {"idle", "done"},
           UNCHANGED <<archive, sessions>>,
           NEW step \in {"resolve", "missing", "fetch", "remove"},
           ask' = [ask EXCEPT ![c].pc = step]
    PROVE  DirectoryInv'
  <1>1. PICK id \in Identity : ask[c].key = Key(id) /\ Covers(ask[c].asked, id)
    BY DEF DirectoryInv, KeyIsCovered
  <1>2. /\ ask'[c].pc = step /\ ask'[c].asked = ask[c].asked /\ ask'[c].shown = ask[c].shown
        /\ ask'[c].key = ask[c].key /\ \A d \in Callers \ {c} : ask'[d] = ask[d]
    BY DEF DirectoryInv, AskShapes
  <1>3. AskShapes'
    BY DEF DirectoryInv, AskShapes
  <1> QED BY <1>1, <1>2, <1>3, CallerKeeps DEF DirectoryInv, KeyIsCovered, AnswersAreCovered

LEMMA LookKeeps ==
    ASSUME DirectoryInv, NEW c \in Callers, ListSessions(c) \/ LookUnderKey(c)
    PROVE  DirectoryInv'
  <1>1. CASE ListSessions(c)
    <2>1. PICK page \in SUBSET {s.id : s \in {x \in sessions : Covers(ask[c].asked, x.id)}} :
            Answers(c, IF indexed THEN page ELSE {})
      BY <1>1 DEF ListSessions
    <2>2. /\ (IF indexed THEN page ELSE {}) \in SUBSET Identity
          /\ \A id \in (IF indexed THEN page ELSE {}) : Covers(ask[c].asked, id)
      BY DEF DirectoryInv, StoredUnderKey
    <2> QED BY <1>1, <2>1, <2>2, AnswerKeeps DEF ListSessions
  <1>2. CASE LookUnderKey(c)
    <2> DEFINE here == HeldUnder(ask[c].key)
    <2>1. {s.id : s \in here} \in SUBSET Identity
          /\ \A id \in {s.id : s \in here} : Covers(ask[c].asked, id)
      BY <1>2, HeldIsCovered DEF LookUnderKey
    <2>2. CASE here = {} \/ ask[c].op # "get"
      BY <1>2, <2>2, StayingKeeps DEF LookUnderKey
    <2>3. CASE here # {} /\ ask[c].op = "get"
      BY <1>2, <2>1, <2>3, AnswerKeeps DEF LookUnderKey
    <2> QED BY <2>2, <2>3
  <1> QED BY <1>1, <1>2

\* What the index finds is covered, and so is its key.
LEMMA ResolveKeeps == ASSUME DirectoryInv, NEW c \in Callers, ResolveKey(c) PROVE DirectoryInv'
  <1> DEFINE found == {s.key : s \in Candidates(ask[c].asked)}
             chosen == CHOOSE k \in found : TRUE
  <1>1. ASSUME found # {}
        PROVE  \E id \in Identity : chosen = Key(id) /\ Covers(ask[c].asked, id)
    <2>1. chosen \in found
      BY <1>1
    <2> QED BY <2>1 DEF Candidates, DirectoryInv, StoredUnderKey
  <1>2. ask[c].pc = "resolve" /\ UNCHANGED <<archive, sessions>>
    BY DEF ResolveKey
  <1>3. CASE ask[c].op = "delete"
    <2>1. ask' = [ask EXCEPT ![c].pc = "remove",
                             ![c].key = IF found = {} THEN ask[c].key ELSE chosen]
      BY <1>3 DEF ResolveKey
    <2>2. CASE found = {}
      <3>1. PICK id \in Identity : ask[c].key = Key(id) /\ Covers(ask[c].asked, id)
        BY <1>2 DEF DirectoryInv, KeyIsCovered
      <3> QED BY <1>2, <2>1, <2>2, <3>1, GoingOnKeeps
    <2>3. CASE found # {}
      BY <1>1, <1>2, <2>1, <2>3, GoingOnKeeps
    <2> QED BY <2>2, <2>3
  <1>4. CASE ask[c].op # "delete" /\ found \ {ask[c].key} = {}
    BY <1>2, <1>4, StayingKeeps DEF ResolveKey
  <1>5. CASE ask[c].op # "delete" /\ found \ {ask[c].key} # {}
    <2>1. ask' = [ask EXCEPT ![c].pc = "fetch", ![c].key = chosen] /\ found # {}
      BY <1>5 DEF ResolveKey
    <2> QED BY <1>1, <1>2, <2>1, GoingOnKeeps
  <1> QED BY <1>3, <1>4, <1>5

LEMMA FetchKeeps ==
    ASSUME DirectoryInv, NEW c \in Callers, FetchResolved(c) \/ Reconstruct(c) \/ RemoveKey(c)
    PROVE  DirectoryInv'
  <1> DEFINE there == {s.id : s \in HeldUnder(ask[c].key)}
  <1>1. there \in SUBSET Identity /\ \A id \in there : Covers(ask[c].asked, id)
    BY HeldIsCovered DEF FetchResolved, Reconstruct, RemoveKey
  <1>2. CASE FetchResolved(c)
    <2>1. CASE HeldUnder(ask[c].key) = {}
      BY <1>2, <2>1, StayingKeeps DEF FetchResolved
    <2>2. CASE HeldUnder(ask[c].key) # {}
      BY <1>1, <1>2, <2>2, AnswerKeeps DEF FetchResolved
    <2> QED BY <2>1, <2>2
  <1>3. CASE Reconstruct(c)
    <2> DEFINE ids == IF reconstructs THEN {id \in archive : Covers(ask[c].asked, id)} ELSE {}
    <2>1. ids \in SUBSET Identity /\ \A id \in ids : Covers(ask[c].asked, id)
      BY DEF DirectoryInv
    <2> QED BY <1>3, <2>1, AnswerKeeps DEF Reconstruct
  <1>4. CASE RemoveKey(c)
    BY <1>1, <1>4, AnswerKeeps DEF RemoveKey
  <1> QED BY <1>2, <1>3, <1>4

LEMMA EndAskKeeps == ASSUME DirectoryInv, NEW c \in Callers, EndAsk(c) PROVE DirectoryInv'
  <1>1. ask'[c] = NoAsk /\ \A d \in Callers \ {c} : ask'[d] = ask[d]
    BY DEF EndAsk, DirectoryInv, AskShapes
  <1>2. AskShapes'
    BY DEF EndAsk, DirectoryInv, AskShapes, NoAsk
  <1> QED BY <1>1, <1>2, CallerKeeps DEF EndAsk, NoAsk

\* The sessions change; requests do not.
LEMMA StoreKeeps ==
    ASSUME DirectoryInv,
           PutSession \/ ExpireSession \/ DropIndex \/ EnsureIndex \/ UNCHANGED directoryVars
    PROVE  DirectoryInv'
  <1>1. UNCHANGED ask /\ archive' \subseteq Identity /\ StoredUnderKey'
    BY DEF PutSession, ExpireSession, DropIndex, EnsureIndex, directoryVars, DirectoryInv,
           StoredUnderKey
  <1> QED BY <1>1 DEF DirectoryInv, AskShapes, KeyIsCovered, AnswersAreCovered

LEMMA DirectoryInvariant == DirectorySpec => []DirectoryInv
  <1>1. DirectoryInv /\ [DirectoryNext]_directoryVars => DirectoryInv'
    BY AskKeeps, LookKeeps, ResolveKeeps, FetchKeeps, EndAskKeeps, StoreKeeps
       DEF DirectoryNext, AskStep
  <1> QED BY <1>1, DirectoryInitHolds, PTL DEF DirectorySpec

\* What a request shows or deletes is of the namespace and the user it names.
THEOREM AnswersAreTheirs == DirectorySpec => []AnswersAreCovered
  <1>1. DirectoryInv => AnswersAreCovered
    BY DEF DirectoryInv
  <1> QED BY <1>1, DirectoryInvariant, PTL

\* No PUT replaces a session of another namespace or user.
THEOREM SessionsStayApart == DirectorySpec => SessionsKeepApart
  <1>1. DirectoryInv /\ [DirectoryNext]_directoryVars
          => [\A s \in sessions, t \in sessions' : s.key = t.key => s.id = t.id]_directoryVars
    <2> SUFFICES ASSUME DirectoryInv, [DirectoryNext]_directoryVars,
                        NEW s \in sessions, NEW t \in sessions',
                        s.key = t.key
                 PROVE  s.id = t.id
      OBVIOUS
    <2>1. DirectoryInv'
      BY AskKeeps, LookKeeps, ResolveKeeps, FetchKeeps, EndAskKeeps, StoreKeeps
         DEF DirectoryNext, AskStep
    <2>2. /\ s.id \in Identity /\ s.key = Key(s.id)
          /\ t.id \in Identity /\ t.key = Key(t.id)
      BY <2>1 DEF DirectoryInv, StoredUnderKey
    <2> QED BY <2>2, KeyIsInjective
  <1> QED BY <1>1, DirectoryInvariant, PTL DEF DirectorySpec, SessionsKeepApart

\* The set of sessions, and callers at rest, which no proof above depends on.
DirectoryBounds ==
    /\ sessions \subseteq [key : AllKeys, id : Identity]
    /\ indexed \in BOOLEAN /\ reconstructs \in BOOLEAN /\ stores \in 0 .. MaxStores
    /\ \A c \in Callers : ask[c].pc = "idle" => ask[c] = NoAsk

LEMMA DirectoryBoundsKept ==
    ASSUME DirectoryInv, DirectoryBounds, [DirectoryNext]_directoryVars PROVE DirectoryBounds'
  <1>1. CASE PutSession
    <2>1. PICK id \in Identity :
            sessions' = {s \in sessions : s.key # Key(id)} \cup {[key |-> Key(id), id |-> id]}
      BY <1>1 DEF PutSession
    <2>2. [key |-> Key(id), id |-> id] \in [key : AllKeys, id : Identity]
      BY DEF AllKeys
    <2>3. stores' \in 0 .. MaxStores
      BY <1>1, DirectoryAssumption DEF PutSession, DirectoryBounds, DirectoryAssumption
    <2> QED BY <1>1, <2>1, <2>2, <2>3 DEF PutSession, DirectoryBounds
  <1>2. CASE ExpireSession \/ DropIndex \/ EnsureIndex \/ UNCHANGED directoryVars
    BY <1>2 DEF ExpireSession, DropIndex, EnsureIndex, directoryVars, DirectoryBounds
  <1>3. ASSUME NEW c \in Callers, AskStep(c) PROVE DirectoryBounds'
    <2> USE <1>3 DEF Answers
    <2>1. sessions' \subseteq sessions /\ UNCHANGED <<indexed, reconstructs, stores>>
      BY DEF AskStep, Ask, ListSessions, LookUnderKey, ResolveKey, FetchResolved, Reconstruct,
             RemoveKey, EndAsk
    <2>2. \A d \in Callers \ {c} : ask'[d] = ask[d]
      BY DEF DirectoryInv, AskShapes, AskStep, Ask, ListSessions, LookUnderKey, ResolveKey,
             FetchResolved, Reconstruct, RemoveKey, EndAsk
    <2>3. ask'[c].pc = "idle" => ask'[c] = NoAsk
      <3>1. ask'[c].pc # "idle" \/ EndAsk(c)
        BY DEF DirectoryInv, AskShapes, AskStep, Ask, ListSessions, LookUnderKey, ResolveKey,
               FetchResolved, Reconstruct, RemoveKey
      <3> QED BY <3>1 DEF EndAsk, DirectoryInv, AskShapes
    <2> QED BY <2>1, <2>2, <2>3 DEF DirectoryBounds
  <1> QED BY <1>1, <1>2, <1>3 DEF DirectoryNext

\* Every session has a key and an identity that go together, and a caller at rest keeps
\* nothing of its last request.
THEOREM DirectoryTypes == DirectorySpec => []DirectoryTypeOK
  <1>1. DirectoryInit => DirectoryBounds
    BY DirectoryAssumption DEF DirectoryAssumption, DirectoryInit, DirectoryBounds
  <1>2. DirectoryInv /\ DirectoryBounds /\ [DirectoryNext]_directoryVars => DirectoryBounds'
    BY DirectoryBoundsKept
  <1>3. DirectoryInv /\ DirectoryBounds => DirectoryTypeOK
    BY DEF DirectoryInv, DirectoryBounds, DirectoryTypeOK
  <1> QED BY <1>1, <1>2, <1>3, DirectoryInvariant, PTL DEF DirectorySpec

-----------------------------------------------------------------------------
(***************************************************************************)
(* Forgetting.                                                             *)
(***************************************************************************)
\* Memories have dates, and a pass that is not running has chosen nothing.
DatedInv == /\ day \in Nat /\ policy \in Policies
            /\ \A m \in Present : memory[m].created \in Nat /\ memory[m].used \in Nat
            /\ memory \in [Records -> [created : Nat, used : Nat, exempt : BOOLEAN] \cup {Unset}]
            /\ pass.pc = "idle" => pass = NoPass

LEMMA ForgettingInitHolds == ForgettingInit => DatedInv
  BY DEF ForgettingInit, DatedInv, Present, NoPass

\* A memory staler than one past the thresholds is past them too.
LEMMA PastIsMonotone ==
    ASSUME DatedInv, NEW d \in Present, NEW k \in Present,
           Past(memory[d]), Staler(memory[k], memory[d])
    PROVE  Past(memory[k])
  <1> DEFINE limit == policy.maxAge * HardAge
  <1>1. /\ memory[d].created \in Nat /\ memory[d].used \in Nat
        /\ memory[k].created \in Nat /\ memory[k].used \in Nat /\ day \in Nat
        /\ memory[k].created <= memory[d].created /\ memory[k].used <= memory[d].used
    BY DEF DatedInv, Staler
  <1>2. policy.maxAge \in Nat \cup {Unset} /\ policy.maxIdle \in Nat \cup {Unset}
    BY ForgettingAssumption DEF ForgettingAssumption, DatedInv
  <1>3. policy.maxAge # Unset => limit \in Nat
    BY <1>2, ForgettingAssumption DEF ForgettingAssumption
  <1>4. \A threshold \in Nat \cup {Unset} :
          /\ Exceeds(day - memory[d].created, threshold)
                => Exceeds(day - memory[k].created, threshold)
          /\ Exceeds(day - memory[d].used, threshold) => Exceeds(day - memory[k].used, threshold)
    BY <1>1 DEF Exceeds
  <1>5. policy.maxAge # Unset /\ day - memory[d].created > limit => day - memory[k].created > limit
    BY <1>1, <1>3
  <1> QED BY <1>2, <1>4, <1>5 DEF Past

\* Whatever choice the policy makes, nothing kept is staler than what is chosen.
LEMMA SelectionsAreMonotone ==
    ASSUME DatedInv, NEW eligible \in SUBSET Present, NEW doomed \in Selections(eligible),
           NEW d \in doomed, NEW k \in eligible \ doomed
    PROVE  ~Staler(memory[k], memory[d])
  <1> DEFINE past == {m \in eligible : Past(memory[m])}
             rest == eligible \ past
  <1>1. CASE doomed = past
    BY <1>1, PastIsMonotone
  <1>2. CASE \E keep \in FreshestOf(rest, policy.budget) : doomed = eligible \ keep
    <2>1. PICK keep \in FreshestOf(rest, policy.budget) : doomed = eligible \ keep
      BY <1>2
    <2>2. k \in keep /\ k \in rest /\ d \in eligible \ keep
      BY <2>1 DEF FreshestOf
    <2>3. CASE d \in past
      BY <2>2, <2>3, PastIsMonotone
    <2>4. CASE d \in rest
      BY <2>1, <2>2, <2>4 DEF FreshestOf
    <2> QED BY <2>2, <2>3, <2>4
  <1>3. doomed \in {past} \/ doomed \in {eligible \ keep : keep \in FreshestOf(rest, policy.budget)}
    BY DEF Selections
  <1> QED BY <1>1, <1>2, <1>3

LEMMA ForgettingInvariant == ForgettingSpec => []DatedInv
  <1> USE ForgettingAssumption DEF ForgettingAssumption, DatedInv, Present
  <1>1. ASSUME DatedInv, NEW m \in Records, Remember(m) \/ UseMemory(m) \/ PinMemory(m)
        PROVE  DatedInv'
    <2> DEFINE Dated == [created : Nat, used : Nat, exempt : BOOLEAN]
    <2>1. PICK r \in Dated : memory' = [memory EXCEPT ![m] = r]
      <3>1. CASE Remember(m)
        BY <1>1, <3>1 DEF Remember
      <3>2. CASE UseMemory(m)
        BY <1>1, <3>2 DEF UseMemory
      <3>3. CASE PinMemory(m)
        BY <1>1, <3>3 DEF PinMemory
      <3> QED BY <1>1, <3>1, <3>2, <3>3
    <2>2. UNCHANGED <<day, policy, pass>>
      BY <1>1 DEF Remember, UseMemory, PinMemory
    <2>3. \A k \in Records : memory'[k] = IF k = m THEN r ELSE memory[k]
      BY <1>1, <2>1
    <2>4. memory' \in [Records -> Dated \cup {Unset}]
      BY <1>1, <2>1
    <2> QED BY <1>1, <2>2, <2>3, <2>4
  <1>2. ASSUME DatedInv, NextDay \/ StartPass \/ EndPass PROVE DatedInv'
    BY <1>2 DEF NextDay, StartPass, EndPass, NoPass
  <1>3. ASSUME DatedInv, UNCHANGED forgettingVars PROVE DatedInv'
    BY <1>3 DEF forgettingVars
  <1>4. DatedInv /\ [ForgettingNext]_forgettingVars => DatedInv'
    BY <1>1, <1>2, <1>3 DEF ForgettingNext
  <1> QED BY <1>4, ForgettingInitHolds, PTL DEF ForgettingSpec

\* No pass chooses a memory and spares a staler one that it might have chosen.
THEOREM PassesAreMonotone == ForgettingSpec => ForgettingIsMonotone
  <1>1. DatedInv /\ [ForgettingNext]_forgettingVars =>
          [pass.pc = "idle" =>
             \A d \in pass'.doomed, k \in pass'.eligible \ pass'.doomed :
                 ~Staler(memory[k], memory[d])]_forgettingVars
    <2> SUFFICES ASSUME DatedInv, ForgettingNext, pass.pc = "idle",
                        NEW d \in pass'.doomed, NEW k \in pass'.eligible \ pass'.doomed
                 PROVE  ~Staler(memory[k], memory[d])
      OBVIOUS
    <2>1. CASE StartPass
      <3>1. PICK doomed \in Selections(Eligible) :
              pass' = [pc |-> "delete", eligible |-> Eligible, doomed |-> doomed]
        BY <2>1 DEF StartPass
      <3>2. Eligible \in SUBSET Present
        BY DEF Eligible, Under
      <3> QED BY <3>1, <3>2, SelectionsAreMonotone
    <2>2. CASE pass' = NoPass
      BY <2>2 DEF NoPass
    <2>3. StartPass \/ pass' = pass \/ EndPass
      BY DEF ForgettingNext, NextDay, Remember, UseMemory, PinMemory
    <2> QED BY <2>1, <2>2, <2>3 DEF EndPass, DatedInv
  <1> QED BY <1>1, ForgettingInvariant, PTL DEF ForgettingSpec, ForgettingIsMonotone

LEMMA ForgettingTypesKept ==
    ASSUME ForgettingTypeOK, [ForgettingNext]_forgettingVars PROVE ForgettingTypeOK'
  <1> USE ForgettingAssumption DEF ForgettingAssumption, ForgettingTypeOK
  <1>1. ASSUME NEW m \in Records, NEW r \in Kept, memory' = [memory EXCEPT ![m] = r],
               r.created <= r.used, r.used <= day, UNCHANGED <<day, policy, pass>>
        PROVE  ForgettingTypeOK'
    <2>1. \A k \in Records : memory'[k] = IF k = m THEN r ELSE memory[k]
      BY <1>1
    <2>2. memory' \in [Records -> Kept \cup {Unset}]
      BY <1>1
    <2>3. \A k \in Present' : memory'[k].created <= memory'[k].used /\ memory'[k].used <= day'
      BY <1>1, <2>1 DEF Present
    <2> QED BY <1>1, <2>2, <2>3
  <1>2. ASSUME NEW m \in Records, Remember(m) PROVE ForgettingTypeOK'
    <2>1. PICK exempt \in BOOLEAN :
            memory' = [memory EXCEPT ![m] = [created |-> day, used |-> day, exempt |-> exempt]]
      BY <1>2 DEF Remember
    <2> DEFINE r == [created |-> day, used |-> day, exempt |-> exempt]
    <2>2. r \in Kept /\ r.created <= r.used /\ r.used <= day
      BY DEF Kept
    <2>3. memory' = [memory EXCEPT ![m] = r] /\ UNCHANGED <<day, policy, pass>>
      BY <1>2, <2>1 DEF Remember
    <2> HIDE DEF r
    <2> QED BY <1>1, <2>2, <2>3
  <1>3. ASSUME NEW m \in Records, UseMemory(m) PROVE ForgettingTypeOK'
    <2> DEFINE r == [memory[m] EXCEPT !.used = day]
    <2>1. memory[m] \in Kept /\ memory[m].created <= memory[m].used /\ memory[m].used <= day
      BY <1>3 DEF UseMemory, Present
    <2>2. r \in Kept /\ r.created <= r.used /\ r.used <= day
      BY <2>1 DEF Kept
    <2>3. memory' = [memory EXCEPT ![m] = r] /\ UNCHANGED <<day, policy, pass>>
      BY <1>3 DEF UseMemory
    <2> QED BY <1>1, <2>2, <2>3
  <1>4. ASSUME NEW m \in Records, PinMemory(m) PROVE ForgettingTypeOK'
    <2> DEFINE r == [memory[m] EXCEPT !.exempt = ~@]
    <2>1. memory[m] \in Kept /\ memory[m].created <= memory[m].used /\ memory[m].used <= day
      BY <1>4 DEF PinMemory, Present
    <2>2. r \in Kept /\ r.created <= r.used /\ r.used <= day
      BY <2>1 DEF Kept
    <2>3. memory' = [memory EXCEPT ![m] = r] /\ UNCHANGED <<day, policy, pass>>
      BY <1>4 DEF PinMemory
    <2> QED BY <1>1, <2>2, <2>3
  <1>5. CASE NextDay
    <2>1. \A m \in Present : memory[m] \in Kept
      BY DEF Present
    <2>2. /\ day \in Nat /\ day' = day + 1 /\ day' \in 0 .. MaxDay
          /\ UNCHANGED <<policy, memory, pass>>
      BY <1>5 DEF NextDay
    <2>3. \A m \in Present' : memory'[m].created <= memory'[m].used /\ memory'[m].used <= day'
      BY <2>1, <2>2 DEF Present, Kept
    <2> QED BY <2>2, <2>3
  <1>6. CASE StartPass
    <2>1. PICK doomed \in Selections(Eligible) :
            pass' = [pc |-> "delete", eligible |-> Eligible, doomed |-> doomed]
      BY <1>6 DEF StartPass
    <2>2. doomed \subseteq Eligible /\ Eligible \subseteq Records
      BY <2>1 DEF Selections, Eligible, Under, Present
    <2> QED BY <1>6, <2>1, <2>2 DEF StartPass, Present
  <1>7. CASE EndPass
    <2>1. memory' \in [Records -> Kept \cup {Unset}]
          /\ \A m \in Records : memory'[m] \in {memory[m], Unset}
      BY <1>7 DEF EndPass
    <2>2. \A m \in Present' : memory'[m] = memory[m] /\ m \in Present
      BY <2>1 DEF Present
    <2> QED BY <1>7, <2>1, <2>2 DEF EndPass, NoPass
  <1>8. CASE UNCHANGED forgettingVars
    BY <1>8 DEF forgettingVars, Present
  <1> QED BY <1>2, <1>3, <1>4, <1>5, <1>6, <1>7, <1>8 DEF ForgettingNext

\* A memory is created before it is used and used before now, and a pass deletes only what
\* it looked at.
THEOREM ForgettingTypes == ForgettingSpec => []ForgettingTypeOK
  <1>1. ForgettingInit => ForgettingTypeOK
    BY ForgettingAssumption
       DEF ForgettingAssumption, ForgettingInit, ForgettingTypeOK, Present, NoPass
  <1>2. ForgettingTypeOK /\ [ForgettingNext]_forgettingVars => ForgettingTypeOK'
    BY ForgettingTypesKept
  <1> QED BY <1>1, <1>2, PTL DEF ForgettingSpec

-----------------------------------------------------------------------------
(***************************************************************************)
(* The composition.                                                        *)
(***************************************************************************)
\* Side by side, each part does what it does alone, or nothing: whatever is proved of a part
\* holds of the composition that is model-checked.
THEOREM PartsKeepToThemselves ==
    ServerSpec => TokenSpec /\ JwtSpec /\ DirectorySpec /\ ForgettingSpec /\ Spec
  <1>1. ServerInit => TokenInit /\ JwtInit /\ DirectoryInit /\ ForgettingInit /\ Init
    BY DEF ServerInit
  <1>2. [ServerNext]_serverPartVars =>
          /\ [TokenNext]_tokenVars /\ [JwtNext]_jwtVars /\ [DirectoryNext]_directoryVars
          /\ [ForgettingNext]_forgettingVars /\ [Next]_vars
    BY DEF ServerNext, serverPartVars
  <1> QED BY <1>1, <1>2, PTL
          DEF ServerSpec, TokenSpec, JwtSpec, DirectorySpec, ForgettingSpec, Spec

\* Every part keeps to its types (that of the migration under the assumptions of the run).
THEOREM ServerTypes ==
    ASSUME ~Overlaps, ~FirstScanFails, IsFiniteSet(Keys), IsFiniteSet(Readers)
    PROVE  ServerSpec => []ServerTypeOK
  <1>1. Spec => []TypeOK
    BY MigrationTypes
  <1>2. TokenTypeOK /\ JwtTypeOK /\ DirectoryTypeOK /\ ForgettingTypeOK /\ TypeOK
          => ServerTypeOK
    BY DEF ServerTypeOK
  <1> QED BY <1>1, <1>2, PartsKeepToThemselves, TokenTypes, JwtTypes, DirectoryTypes,
             ForgettingTypes, PTL
=============================================================================
