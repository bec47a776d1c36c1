-------------------------- MODULE SessionDirectory --------------------------
(***************************************************************************)
(* How sessions are found (agent_memory_server/working_memory.py,          *)
(* working_memory_index.py and utils/keys.py).  A session is stored under  *)
(* a key made of its namespace, user and session id, those that it has.    *)
(* A request that names fewer of them than the session has is resolved     *)
(* through the search index, in a step of its own; with the setting        *)
(* index_all_messages_in_long_term_memory, a session that is not found is  *)
(* put together from long-term memory.                                     *)
(*                                                                         *)
(* Names hold no colons: a key is the sequence of its parts.               *)
(***************************************************************************)
EXTENDS Naturals, Sequences, FiniteSets

CONSTANTS
    SpaceNames,   \* namespaces
    UserNames,
    SessionNames, \* session ids
    Callers,
    MaxStores,    \* bound on PUTs
    Nobody        \* no namespace, no user

ASSUME DirectoryAssumption == /\ SpaceNames \cap UserNames = {}
                              /\ Nobody \notin SpaceNames \cup UserNames
                              /\ MaxStores \in Nat

VARIABLES
    sessions,     \* the stored sessions: a set of key and identity
    indexed,      \* the search index exists
    reconstructs, \* index_all_messages_in_long_term_memory
    archive,      \* sessions whose messages are in long-term memory
    stores,       \* PUTs so far
    ask           \* ask[c]: the request of caller c

directoryVars == <<sessions, indexed, reconstructs, archive, stores, ask>>

Identity == [space : SpaceNames \cup {Nobody}, user : UserNames \cup {Nobody},
             name : SessionNames]

\* Mutant: the user is not part of the key.
KeyWithoutUser(id) == IF id.space = Nobody THEN <<id.name>> ELSE <<id.space, id.name>>

\* Keys.working_memory_key
Key(id) ==
    CASE id.space = Nobody /\ id.user = Nobody -> <<id.name>>
      [] id.space # Nobody /\ id.user = Nobody -> <<id.space, id.name>>
      [] id.space = Nobody /\ id.user # Nobody -> <<id.user, id.name>>
      [] OTHER -> <<id.space, id.user, id.name>>

AllKeys == {Key(id) : id \in Identity}
HeldUnder(key) == {s \in sessions : s.key = key}

\* The filters of list_sessions and of _resolve_working_memory_key_via_index.
Covers(asked, id) == /\ asked.name = id.name
                     /\ asked.space \in {id.space, Nobody}
                     /\ asked.user \in {id.user, Nobody}

\* shown: the sessions whose messages the answer has, or which were deleted.
NoAsk == [pc |-> "idle", op |-> "get", asked |-> Nobody, key |-> <<>>, shown |-> {}]

DirectoryInit == /\ sessions = {} /\ archive = {} /\ stores = 0
                 /\ indexed = TRUE
                 /\ reconstructs \in BOOLEAN
                 /\ ask = [c \in Callers |-> NoAsk]

Answers(c, ids) == ask' = [ask EXCEPT ![c].pc = "done", ![c].shown = ids]

\* set_working_memory, whoever was stored under the key; its messages may be promoted.
PutSession ==
    /\ stores < MaxStores
    /\ stores' = stores + 1
    /\ \E id \in Identity :
         /\ sessions' = {s \in sessions : s.key # Key(id)} \cup {[key |-> Key(id), id |-> id]}
         /\ archive' \in {archive, archive \cup {id}}
    /\ UNCHANGED <<indexed, reconstructs, ask>>

\* The TTL of a session.
ExpireSession == /\ \E s \in sessions : sessions' = sessions \ {s}
                 /\ UNCHANGED <<indexed, reconstructs, archive, stores, ask>>

\* rebuild_working_memory_index drops the index, ensure_working_memory_index creates it.
DropIndex == /\ indexed /\ indexed' = FALSE
             /\ UNCHANGED <<sessions, reconstructs, archive, stores, ask>>
EnsureIndex == /\ ~indexed /\ indexed' = TRUE
               /\ UNCHANGED <<sessions, reconstructs, archive, stores, ask>>

\* A request arrives: GET, DELETE, the command "memory delete session", or a listing.
Ask(c) ==
    /\ ask[c].pc = "idle"
    /\ \E op \in {"get", "delete", "list"}, asked \in Identity :
         ask' = [ask EXCEPT ![c] = [pc |-> op, op |-> op, asked |-> asked,
                                    key |-> Key(asked), shown |-> {}]]
    /\ UNCHANGED <<sessions, indexed, reconstructs, archive, stores>>

\* list_sessions, for one session name: a page of what the filters match, nothing without
\* an index.
ListSessions(c) ==
    /\ ask[c].pc = "list"
    /\ \E page \in SUBSET {s.id : s \in {x \in sessions : Covers(ask[c].asked, x.id)}} :
         Answers(c, IF indexed THEN page ELSE {})
    /\ UNCHANGED <<sessions, indexed, reconstructs, archive, stores>>

\* get_working_memory and delete_working_memory look under the key itself.
LookUnderKey(c) ==
    /\ ask[c].pc \in {"get", "delete"}
    /\ LET here == HeldUnder(ask[c].key)
       IN  IF here = {} THEN ask' = [ask EXCEPT ![c].pc = "resolve"]
           ELSE IF ask[c].op = "get" THEN Answers(c, {s.id : s \in here})
           ELSE ask' = [ask EXCEPT ![c].pc = "remove"]
    /\ UNCHANGED <<sessions, indexed, reconstructs, archive, stores>>

\* Mutant: only the session id is looked up.
CandidatesByName(asked) ==
    LET found == {s \in sessions : s.id.name = asked.name}
    IN  IF indexed /\ Cardinality(found) = 1 THEN found ELSE {}

\* _resolve_working_memory_key_via_index: the one session that matches.
Candidates(asked) ==
    LET found == {s \in sessions : Covers(asked, s.id)}
    IN  IF indexed /\ Cardinality(found) = 1 THEN found ELSE {}

\* The key is resolved; without a result DELETE keeps to its key, and GET is at its end.
ResolveKey(c) ==
    /\ ask[c].pc = "resolve"
    /\ LET found == {s.key : s \in Candidates(ask[c].asked)}
       IN  IF ask[c].op = "delete"
           THEN ask' = [ask EXCEPT ![c].pc = "remove",
                                    ![c].key = IF found = {} THEN @ ELSE CHOOSE k \in found : TRUE]
           ELSE IF found \ {ask[c].key} = {}
           THEN ask' = [ask EXCEPT ![c].pc = "missing"]
           ELSE ask' = [ask EXCEPT ![c].pc = "fetch",
                                    ![c].key = CHOOSE k \in found : TRUE]
    /\ UNCHANGED <<sessions, indexed, reconstructs, archive, stores>>

FetchResolved(c) ==
    /\ ask[c].pc = "fetch"
    /\ LET here == HeldUnder(ask[c].key)
       IN  IF here = {} THEN ask' = [ask EXCEPT ![c].pc = "missing"]
           ELSE Answers(c, {s.id : s \in here})
    /\ UNCHANGED <<sessions, indexed, reconstructs, archive, stores>>

\* _reconstruct_working_memory_from_long_term: the messages of all sessions that match.
Reconstruct(c) ==
    /\ ask[c].pc = "missing"
    /\ Answers(c, IF reconstructs THEN {id \in archive : Covers(ask[c].asked, id)} ELSE {})
    /\ UNCHANGED <<sessions, indexed, reconstructs, archive, stores>>

RemoveKey(c) ==
    /\ ask[c].pc = "remove"
    /\ sessions' = sessions \ HeldUnder(ask[c].key)
    /\ Answers(c, {s.id : s \in HeldUnder(ask[c].key)})
    /\ UNCHANGED <<indexed, reconstructs, archive, stores>>

\* The answer is sent, or the request fails where it is.
EndAsk(c) == /\ ask[c].pc # "idle"
             /\ ask' = [ask EXCEPT ![c] = NoAsk]
             /\ UNCHANGED <<sessions, indexed, reconstructs, archive, stores>>

AskStep(c) == Ask(c) \/ ListSessions(c) \/ LookUnderKey(c) \/ ResolveKey(c) \/ FetchResolved(c)
              \/ Reconstruct(c) \/ RemoveKey(c) \/ EndAsk(c)

DirectoryNext == PutSession \/ ExpireSession \/ DropIndex \/ EnsureIndex
                 \/ \E c \in Callers : AskStep(c)

DirectorySpec == DirectoryInit /\ [][DirectoryNext]_directoryVars

-----------------------------------------------------------------------------
(***************************************************************************)
(* Properties.                                                             *)
(***************************************************************************)
DirectoryTypeOK ==
    /\ sessions \subseteq [key : AllKeys, id : Identity] /\ archive \subseteq Identity
    /\ indexed \in BOOLEAN /\ reconstructs \in BOOLEAN /\ stores \in 0 .. MaxStores
    /\ \A c \in Callers : ask[c].pc = "idle" => ask[c] = NoAsk

\* No PUT ever replaces a session of another namespace or user, whatever was stored and
\* deleted before (keys.py 83-101).
SessionsKeepApart ==
    [][\A s \in sessions, t \in sessions' : s.key = t.key => s.id = t.id]_directoryVars

\* What a request shows or deletes is of the namespace and user it names, though the
\* session it resolved may have gone and others come before it acts on the key.
AnswersAreCovered ==
    \A c \in Callers : \A id \in ask[c].shown : Covers(ask[c].asked, id)
=============================================================================
