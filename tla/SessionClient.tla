--------------------------- MODULE SessionClient ----------------------------
(***************************************************************************)
(* Clients of one session (agent_memory_client/client.py, and the MCP tool *)
(* set_working_memory).  A client method reads the session with GET,       *)
(* computes a whole new one and PUTs it; there is no compare-and-set, GET  *)
(* may leave out old messages and PUT may summarize them.  A client gives  *)
(* up a PUT after its timeout, while the server goes on with it.           *)
(*                                                                         *)
(* Messages are never sent twice by the clients' own choice.  Data entries *)
(* are paths <<key, field>>, so that merging by key and merging deeply     *)
(* differ.                                                                 *)
(***************************************************************************)
EXTENDS TokenBudget, FiniteSets

CONSTANTS
    Clients,
    Memories,    \* long-term memory records a client adds
    Paths,       \* data entries, pairs of a key and a field
    Windows,     \* context windows clients may be configured with, None among them
    Kinds,       \* the methods that are called, of AllKinds
    ReadsFail,   \* a GET may fail unnoticed: set_working_memory_data goes on, and the server
                 \* answers 404 for any error
    MaxCalls,    \* bound on calls of methods
    MaxLate,     \* bound on PUTs the server works on after their client gave up
    Absent       \* no session, nothing in flight

AllKinds == {"open", "append", "addMemory", "replaceMemories", "mergeData", "deepMerge",
             "replaceData", "setData", "rewrite"}

ASSUME ClientAssumption ==
    /\ Messages \subseteq Nat /\ Kinds \subseteq AllKinds
    /\ None \in Windows /\ Windows \subseteq Nat \cup {None}
    /\ ReadsFail \in BOOLEAN /\ MaxCalls \in Nat /\ MaxLate \in Nat /\ None \notin Clients

VARIABLES
    window,   \* default_context_window_max of the clients
    session,  \* the stored session
    calls,    \* calls made so far
    call,     \* call[c]: the method client c is in
    puts,     \* PUTs the server has received and not applied
    said,     \* messages clients added, in the order they were stored (history)
    raced     \* some PUT replaced a session its client had not read (history)

clientVars == <<window, session, calls, call, puts, said, raced>>

Session == [messages : Seq(Messages), context : SUBSET Messages, memories : SUBSET Memories,
            data : SUBSET Paths, strategy : {"default", "custom"}]

ASSUME AbsenceAssumption == Absent \notin Session \cup Messages

Empty == [messages |-> <<>>, context |-> {}, memories |-> {}, data |-> {},
          strategy |-> "default"]

\* What a method was called with: what it adds, or <<>>, {} and "default".
NoArgument == [message |-> Absent, memories |-> {}, data |-> {}, strategy |-> "default"]
Idle == [pc |-> "idle", kind |-> "open", arg |-> NoArgument]

ClientInit == /\ window \in Windows
              /\ session = Absent
              /\ calls = 0
              /\ call = [c \in Clients |-> Idle]
              /\ puts = {}
              /\ said = <<>>
              /\ raced = FALSE

Unsaid == {m \in Messages : /\ \A k \in DOMAIN said : said[k] # m
                            /\ \A c \in Clients : call[c].arg.message # m
                            /\ \A p \in puts : \A k \in DOMAIN p.memory.messages :
                                 p.memory.messages[k] # m}

\* Messages are numbered as they are said.
NextMessages == {m \in Unsaid : \A n \in Unsaid : m <= n}

-----------------------------------------------------------------------------
(***************************************************************************)
(* The methods.                                                            *)
(***************************************************************************)

\* What each method may be called with.
Arguments(kind) ==
    CASE kind = "open" -> {[NoArgument EXCEPT !.strategy = s] : s \in {"default", "custom"}}
      [] kind = "append" -> {[NoArgument EXCEPT !.message = m] : m \in NextMessages}
      [] kind \in {"addMemory", "replaceMemories"} ->
           {[NoArgument EXCEPT !.memories = {x}] : x \in Memories}
      [] kind \in {"mergeData", "deepMerge", "replaceData", "setData"} ->
           {[NoArgument EXCEPT !.data = {p}] : p \in Paths}
      [] kind = "rewrite" -> {[NoArgument EXCEPT !.memories = {x}] : x \in Memories}

\* update_working_memory_data with its merge strategies; _deep_merge_dicts.
MergedData(kind, old, new) ==
    CASE kind = "mergeData" ->
           {p \in old : \A q \in new : q[1] # p[1]} \cup new
      [] kind = "deepMerge" -> old \cup new
      [] OTHER -> new

\* Mutant: appending starts from a new session, as the other methods do, without context.
NewSessionWithoutContext(kind, arg, base) ==
    [Empty EXCEPT !.messages = IF kind = "append" THEN Append(base.messages, arg.message)
                               ELSE base.messages]

\* The session a method sends, made from the one it read.  Appending copies all of it;
\* the others build a new one with the default strategy.
NewSession(kind, arg, base) ==
    CASE kind = "append" -> [base EXCEPT !.messages = Append(@, arg.message)]
      [] kind = "addMemory" ->
           [base EXCEPT !.memories = @ \cup arg.memories, !.strategy = "default"]
      [] kind = "replaceMemories" ->
           [base EXCEPT !.memories = arg.memories, !.strategy = "default"]
      [] kind \in {"mergeData", "deepMerge", "replaceData", "setData"} ->
           [base EXCEPT !.data = MergedData(kind, @, arg.data), !.strategy = "default"]

\* A PUT on its way: whose it is (None when its client has given up), what it adds,
\* and whether somebody has written to the session since it was read.
Put(c, what, memory, message, stale) ==
    [by |-> c, what |-> what, memory |-> memory, adds |-> message, stale |-> stale]

\* A write to the session makes what others have read stale.
Outdated(ps) == {[p EXCEPT !.stale = TRUE] : p \in ps}

\* set_working_memory (MCP) and put_working_memory send what they are given.
Given(arg) == [Empty EXCEPT !.memories = arg.memories]

\* A method is called; all but these read first.
Call(c) ==
    /\ call[c] = Idle /\ calls < MaxCalls
    /\ calls' = calls + 1
    /\ \E kind \in Kinds : \E arg \in Arguments(kind) :
         /\ call' = [call EXCEPT ![c] = [pc |-> IF kind = "rewrite" THEN "put" ELSE "get",
                                        kind |-> kind, arg |-> arg]]
         /\ puts' = IF kind = "rewrite"
                    THEN puts \cup {Put(c, "rewrite", Given(arg), Absent, FALSE)} ELSE puts
    /\ UNCHANGED <<window, session, said, raced>>

\* The method's own PUT, after it has read base.
Send(c, base, stale) ==
    LET kind == call[c].kind  arg == call[c].arg
    IN  /\ call' = [call EXCEPT ![c].pc = "put"]
        /\ puts' = puts \cup {Put(c, "update", NewSession(kind, arg, base), arg.message, stale)}

\* GET finds the session.  get_or_create_working_memory returns it; the other methods
\* go on and PUT what they make of it.
GetFound(c) ==
    /\ call[c].pc = "get" /\ session # Absent
    /\ IF call[c].kind = "open"
       THEN call' = [call EXCEPT ![c] = Idle] /\ UNCHANGED puts
       ELSE Send(c, [session EXCEPT !.messages = Truncated(@, window)], FALSE)
    /\ UNCHANGED <<window, session, calls, said, raced>>

\* GET answers 404, as it does for a session it failed to read (working_memory.py 596-598):
\* get_or_create_working_memory PUTs an empty session.
GetMissing(c) ==
    /\ call[c].pc = "get" /\ (session = Absent \/ ReadsFail)
    /\ call' = [call EXCEPT ![c].pc = "create"]
    /\ puts' = puts \cup {Put(c, "create", [Empty EXCEPT !.strategy = call[c].arg.strategy],
                              Absent, FALSE)}
    /\ UNCHANGED <<window, session, calls, said, raced>>

\* GET fails otherwise.  set_working_memory_data goes on as if there was no session;
\* the other methods raise.
GetFails(c) ==
    /\ call[c].pc = "get"
    /\ IF call[c].kind = "setData"
       THEN ReadsFail /\ Send(c, Empty, FALSE)
       ELSE call' = [call EXCEPT ![c] = Idle] /\ UNCHANGED puts
    /\ UNCHANGED <<window, session, calls, said, raced>>

-----------------------------------------------------------------------------
(***************************************************************************)
(* The server.                                                             *)
(***************************************************************************)
\* put_working_memory_core: the messages are cut down to the token budget, and what
\* there was is replaced.
Applied(memory) ==
    [memory EXCEPT !.messages = Stored(@, window),
                   !.context = @ \cup Summarized(memory.messages, window)]

\* What clients have said, and in which order, as far as no one overwrote another's words.
Recorded(p) == /\ said' = IF p.adds = Absent THEN said ELSE Append(said, p.adds)
               /\ raced' = (raced \/ p.stale)

\* A PUT is applied and, unless its client has given up, answered: then the method ends,
\* or goes on with the session it created.
ApplyPut(p) ==
    /\ session' = Applied(p.memory)
    /\ IF p.what = "rewrite" THEN said' = <<>> /\ raced' = FALSE ELSE Recorded(p)
    /\ LET c == p.by
           others == Outdated(puts \ {p})
       IN  IF c = None
           THEN puts' = others /\ UNCHANGED call
           ELSE IF p.what = "create" /\ call[c].kind # "open"
           THEN /\ call' = [call EXCEPT ![c].pc = "put"]
                /\ puts' = others \cup {Put(c, "update",
                                            NewSession(call[c].kind, call[c].arg,
                                                       Applied(p.memory)),
                                            call[c].arg.message, FALSE)}
           ELSE call' = [call EXCEPT ![c] = Idle] /\ puts' = others
    /\ UNCHANGED <<window, calls>>

\* What the method does about a PUT that failed: it raises; set_working_memory_data goes
\* on without the session that it could not create.
AfterFailure(p, rest) ==
    IF p.what = "create" /\ call[p.by].kind = "setData"
    THEN /\ call' = [call EXCEPT ![p.by].pc = "put"]
         /\ puts' = rest \cup {Put(p.by, "update", NewSession("setData", call[p.by].arg, Empty),
                                 Absent, p.stale)}
    ELSE call' = [call EXCEPT ![p.by] = Idle] /\ puts' = rest

\* The client gives up; the server may still apply the PUT.
GiveUp(p) ==
    /\ p.by # None /\ Cardinality({q \in puts : q.by = None}) < MaxLate
    /\ AfterFailure(p, (puts \ {p}) \cup {[p EXCEPT !.by = None]})
    /\ UNCHANGED <<window, session, calls, said, raced>>

\* Mutant: an error answer is taken for a success that is still to come.
RefusePutSilently(p) ==
    /\ puts' = puts \ {p}
    /\ UNCHANGED <<window, session, calls, call, said, raced>>

\* The server refuses the PUT (400), fails, or dies before it stores the session.
RefusePut(p) ==
    /\ IF p.by = None THEN puts' = puts \ {p} /\ UNCHANGED call ELSE AfterFailure(p, puts \ {p})
    /\ UNCHANGED <<window, session, calls, said, raced>>

\* delete_working_memory, or the session's TTL.
DeleteSession ==
    /\ session # Absent
    /\ session' = Absent
    /\ puts' = Outdated(puts)
    /\ said' = <<>> /\ raced' = FALSE
    /\ UNCHANGED <<window, calls, call>>

ClientNext == \/ \E c \in Clients : Call(c) \/ GetFound(c) \/ GetMissing(c) \/ GetFails(c)
              \/ \E p \in puts : ApplyPut(p) \/ GiveUp(p) \/ RefusePut(p)
              \/ DeleteSession

ClientSpec == ClientInit /\ [][ClientNext]_clientVars

-----------------------------------------------------------------------------
(***************************************************************************)
(* Properties.                                                             *)
(***************************************************************************)
\* A waiting client has exactly one PUT on its way, and an idle one none.
ClientTypeOK ==
    /\ window \in Windows /\ calls \in 0 .. MaxCalls
    /\ session = Absent \/ session \in Session
    /\ \A c \in Clients :
         /\ call[c].pc = "idle" => call[c] = Idle
         /\ Cardinality({p \in puts : p.by = c}) =
              IF call[c].pc \in {"create", "put"} THEN 1 ELSE 0
    /\ \A p \in puts : p.memory \in Session /\ p.by \in Clients \cup {None}
    /\ Elements(said) \subseteq Messages /\ raced \in BOOLEAN

\* get_or_create_working_memory creates what does not exist: its empty session is on its way
\* only while there is no session, or one that came after it looked (client.py 345-351).
CreatesOnlyMissing ==
    \A p \in puts : (p.what = "create" /\ ~p.stale) => session = Absent

\* As long as no PUT replaced a session that its client had not read, and clients read
\* whole sessions, the session is the conversation: its messages are the newest ones in
\* order, and its context summarizes all others (client.py, append_messages and the other
\* methods "preserve existing" messages).
Suffix(ms, all) == Len(ms) <= Len(all) /\ ms = Newest(all, Len(ms))
SessionIsConversation ==
    (session # Absent /\ ~raced) =>
        /\ Suffix(session.messages, said)
        /\ window = None =>
             session.context = Elements(Oldest(said, Len(said) - Len(session.messages)))

\* A message is still in the session after the PUT that adds it, however small the
\* client's window and whatever it overwrites (api.py 366-369).
NewestIsKept ==
    [][Len(said') > Len(said) =>
         /\ session'.messages # <<>>
         /\ session'.messages[Len(session'.messages)] = said'[Len(said')]]_clientVars
=============================================================================
