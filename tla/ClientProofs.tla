---------------------------- MODULE ClientProofs ----------------------------
(***************************************************************************)
(* What clients and the MCP server promise their callers, for any          *)
(* connections, conversations, clients, token counts and numbers of calls. *)
(*                                                                         *)
(* Tool calls of MCP work in the scope of their own connection: when       *)
(* connections do not overlap, the one that is open is the one the server  *)
(* remembers, and a configured value fills in at most once, so the places  *)
(* it is filled in do not disagree.                                        *)
(*                                                                         *)
(* The results of a model's tool calls are true: what reaches the server   *)
(* has good arguments, and what fails there says so.                       *)
(*                                                                         *)
(* A session tells the conversation (Tells) as long as each PUT is made of *)
(* what its client has read: the messages are the last ones, the summary   *)
(* covers the others.  The summary does cover them because no session ever *)
(* holds more, but for its last message, than one summary takes (Light).   *)
(***************************************************************************)
EXTENDS MCClients, SearchProofs

Calls == [tool : Tools \cup {"none"}, given : Who, used : Who]

\* When connections do not overlap, the open one is the one the server remembers.
RemembersTheOpen ==
    /\ default \in Who
    /\ conn \in [Connections -> [open : BOOLEAN, url : MaybeNamespace, call : Calls]]
    /\ current \in Connections \cup {NoNamespace}
    /\ single => \A c \in Connections : conn[c].open <=> current = c

ScopeInv == RemembersTheOpen /\ ScopeOfTheConnection

LEMMA ScopeInitHolds == McpInit => ScopeInv
  BY McpAssumption DEF McpAssumption, McpInit, ScopeInv, RemembersTheOpen, ScopeOfTheConnection,
     ClosedConn, NoCall, Anyone, Who, MaybeNamespace, Calls, Tools, Personal, Injecting

\* What a tool works with is what was given, or else the namespace that was put in and the
\* configured user.
LEMMA UsedIsNamedOr ==
    ASSUME RemembersTheOpen, NEW c \in Connections, conn[c].open,
           NEW tool \in Tools, NEW given \in Who, NEW who \in Who,
           who = [given EXCEPT !.namespace = Injected(tool, given.namespace)]
    PROVE  /\ single /\ tool \in Injecting
                => NamedOr(given.namespace, GivenOrElse(conn[c].url, default.namespace),
                           Used(tool, who).namespace)
           /\ tool \in Personal => NamedOr(given.user, default.user, Used(tool, who).user)
           /\ Used(tool, who) \in Who
  <1>1. /\ default \in Who /\ conn[c].url \in MaybeNamespace /\ (single => current = c)
        /\ current \in Connections \cup {NoNamespace}
    BY DEF RemembersTheOpen
  <1>2. /\ who.namespace = Injected(tool, given.namespace) /\ who.user = given.user
        /\ who = [namespace |-> who.namespace, user |-> who.user]
    BY DEF Who
  <1>3. CASE tool \in {"search_long_term_memory", "create_long_term_memories"}
    <2>1. Used(tool, who) = [namespace |-> GivenOrElse(who.namespace, default.namespace),
                             user |-> GivenOrElse(who.user, default.user)]
      BY <1>3 DEF Used, SearchTool, CreateTool
    <2> QED BY <1>1, <1>2, <1>3, <2>1, McpAssumption
            DEF McpAssumption, NamedOr, GivenOrElse, Injected, Injecting, Personal, Who,
                MaybeNamespace
  <1>4. CASE tool \in {"memory_prompt", "set_working_memory"}
    <2>1. Used(tool, who) = [namespace |-> who.namespace,
                             user |-> GivenOrElse(who.user, default.user)]
      BY <1>2, <1>4 DEF Used, PromptTool, SetTool
    <2> QED BY <1>1, <1>2, <1>4, <2>1, McpAssumption
            DEF McpAssumption, NamedOr, GivenOrElse, Injected, Injecting, Personal, Who,
                MaybeNamespace
  <1>5. CASE tool \in {"get_working_memory", "compact_long_term_memories"}
    BY <1>5 DEF Used, PlainTool, Injecting, Personal
  <1> QED BY <1>3, <1>4, <1>5 DEF Tools, Personal, Injecting

LEMMA CallKeeps == ASSUME ScopeInv, NEW c \in Connections, CallTool(c) PROVE ScopeInv'
  <1>1. PICK tool \in Tools, given \in Who :
          conn' = [conn EXCEPT ![c].call =
                     [tool |-> tool, given |-> given,
                      used |-> Used(tool, [given EXCEPT !.namespace = Injected(tool, @)])]]
    BY DEF CallTool
  <1> DEFINE who == [given EXCEPT !.namespace = Injected(tool, given.namespace)]
  <1>2. conn[c].open /\ UNCHANGED <<single, default, current>>
    BY DEF CallTool
  <1>3. who \in Who
    BY <1>2 DEF ScopeInv, RemembersTheOpen, Injected, GivenOrElse, Who, MaybeNamespace
  <1>4. /\ single /\ tool \in Injecting
             => NamedOr(given.namespace, GivenOrElse(conn[c].url, default.namespace),
                        Used(tool, who).namespace)
        /\ tool \in Personal => NamedOr(given.user, default.user, Used(tool, who).user)
        /\ Used(tool, who) \in Who
    BY <1>2, <1>3, UsedIsNamedOr DEF ScopeInv
  <1>5. conn' = [conn EXCEPT ![c].call = [tool |-> tool, given |-> given, used |-> Used(tool, who)]]
    BY <1>1
  <1> HIDE DEF who
  <1>6. /\ conn'[c].open = conn[c].open /\ conn'[c].url = conn[c].url
        /\ conn'[c].call = [tool |-> tool, given |-> given, used |-> Used(tool, who)]
        /\ \A d \in Connections \ {c} : conn'[d] = conn[d]
    BY <1>5 DEF ScopeInv, RemembersTheOpen
  <1>7. RemembersTheOpen'
    BY <1>2, <1>4, <1>5, <1>6 DEF ScopeInv, RemembersTheOpen, Calls
  <1>8. ScopeOfTheConnection'
    BY <1>2, <1>4, <1>6 DEF ScopeInv, ScopeOfTheConnection
  <1> QED BY <1>7, <1>8 DEF ScopeInv

LEMMA ConnectKeeps == ASSUME ScopeInv, NEW c \in Connections, Connect(c) PROVE ScopeInv'
  <1>1. PICK url \in MaybeNamespace :
          conn' = [conn EXCEPT ![c] = [open |-> TRUE, url |-> url, call |-> NoCall]]
    BY DEF Connect, ClosedConn
  <1>2. /\ current' = c /\ UNCHANGED <<single, default>> /\ ~conn[c].open
        /\ single => \A d \in Connections : ~conn[d].open
    BY DEF Connect
  <1>3. /\ NoCall \in Calls /\ NoCall.tool \notin Personal
    BY DEF NoCall, Calls, Anyone, Who, MaybeNamespace, Tools, Personal, Injecting
  <1>4. RemembersTheOpen'
    BY <1>1, <1>2, <1>3 DEF ScopeInv, RemembersTheOpen
  <1>5. ScopeOfTheConnection'
    BY <1>1, <1>2, <1>3 DEF ScopeInv, RemembersTheOpen, ScopeOfTheConnection, Personal
  <1> QED BY <1>4, <1>5 DEF ScopeInv

LEMMA DisconnectKeeps == ASSUME ScopeInv, NEW c \in Connections, Disconnect(c) PROVE ScopeInv'
  <1>1. conn' = [conn EXCEPT ![c] = ClosedConn] /\ current' = NoNamespace /\ conn[c].open
        /\ UNCHANGED <<single, default>>
    BY DEF Disconnect
  <1>2. ClosedConn.call = NoCall /\ ~ClosedConn.open /\ ClosedConn.url \in MaybeNamespace
        /\ ClosedConn \in [open : BOOLEAN, url : MaybeNamespace, call : Calls]
        /\ NoCall.tool \notin Personal
    BY DEF ClosedConn, NoCall, Calls, Anyone, Who, MaybeNamespace, Tools, Personal, Injecting
  <1>3. RemembersTheOpen'
    BY <1>1, <1>2, McpAssumption DEF McpAssumption, ScopeInv, RemembersTheOpen
  <1>4. ScopeOfTheConnection'
    BY <1>1, <1>2 DEF ScopeInv, RemembersTheOpen, ScopeOfTheConnection, Personal
  <1> QED BY <1>3, <1>4 DEF ScopeInv

LEMMA ScopeInvariant == McpSpec => []ScopeInv
  <1>1. ScopeInv /\ UNCHANGED mcpVars => ScopeInv'
    BY DEF ScopeInv, mcpVars, RemembersTheOpen, ScopeOfTheConnection
  <1>2. ScopeInv /\ [McpNext]_mcpVars => ScopeInv'
    BY <1>1, CallKeeps, ConnectKeeps, DisconnectKeeps DEF McpNext
  <1> QED BY <1>2, ScopeInitHolds, PTL DEF McpSpec

\* A call that names no namespace works in the namespace of the URL its own client is
\* connected to, or else in the configured one, as long as connections do not overlap; one
\* that names no user works for the configured user.
THEOREM ToolsKeepTheirScope == McpSpec => []ScopeOfTheConnection
  <1>1. ScopeInv => ScopeOfTheConnection
    BY DEF ScopeInv
  <1> QED BY <1>1, ScopeInvariant, PTL

\* What is remembered is open, however connections overlap, and calls are counted.
OpenOrForgotten == /\ current # NoNamespace => conn[current].open
                   /\ single \in BOOLEAN /\ toolCalls \in 0 .. MaxToolCalls

\* The request that is remembered is that of an open connection, and tools work for somebody.
THEOREM McpTypes == McpSpec => []McpTypeOK
  <1> USE McpAssumption DEF McpAssumption
  <1>1. McpInit => OpenOrForgotten
    BY DEF McpInit, OpenOrForgotten
  <1>2. ASSUME ScopeInv, OpenOrForgotten, NEW c \in Connections, Connect(c) PROVE OpenOrForgotten'
    <2>1. conn'[c].open /\ current' = c
      BY <1>2 DEF Connect, ClosedConn, ScopeInv, RemembersTheOpen
    <2> QED BY <1>2, <2>1 DEF Connect, OpenOrForgotten
  <1>3. ASSUME OpenOrForgotten, NEW c \in Connections, Disconnect(c) PROVE OpenOrForgotten'
    BY <1>3 DEF Disconnect, OpenOrForgotten
  <1>4. ASSUME ScopeInv, OpenOrForgotten, NEW c \in Connections, CallTool(c)
        PROVE  OpenOrForgotten'
    <2>1. \A d \in Connections : conn'[d].open = conn[d].open
      BY <1>4 DEF CallTool, ScopeInv, RemembersTheOpen
    <2>2. current' = current /\ (current # NoNamespace => current \in Connections)
      BY <1>4 DEF CallTool, ScopeInv, RemembersTheOpen
    <2> QED BY <1>4, <2>1, <2>2 DEF CallTool, OpenOrForgotten
  <1>5. ScopeInv /\ OpenOrForgotten /\ [McpNext]_mcpVars => OpenOrForgotten'
    BY <1>2, <1>3, <1>4 DEF McpNext, mcpVars, OpenOrForgotten
  <1>6. ScopeInv /\ OpenOrForgotten => McpTypeOK
    BY DEF ScopeInv, RemembersTheOpen, OpenOrForgotten, McpTypeOK, Calls
  <1> QED BY <1>1, <1>5, <1>6, ScopeInvariant, PTL DEF McpSpec

-----------------------------------------------------------------------------
(***************************************************************************)
(* A model's tool calls.                                                   *)
(***************************************************************************)
Outcomes == [success : BOOLEAN, failed : BOOLEAN, reason : {"none", "local", "server", "lost"},
             found : SUBSET [space : AnySpace, user : AnyUser]]

\* One call at a time is under way, the last of the reply.
CallsInTurn ==
    /\ reply \in Seq(ToolCall) /\ results \in Seq(Outcomes)
    /\ doing \in {"idle", "parse", "open", "send"}
    /\ Len(reply) = Len(results) + (IF doing = "idle" THEN 0 ELSE 1)
    /\ made \subseteq 1 .. Len(results)
    /\ chat \in [space : AnySpace, user : AnyUser, default : AnySpace]
    /\ queued \subseteq [space : AnySpace, user : AnyUser]
    /\ longTerm \subseteq [space : AnySpace, user : AnyUser]

\* What reaches the server to change something has good arguments.
SentIsGood == doing \in {"open", "send"} =>
                 /\ Current.tool \in NeedsArguments => Current.arguments = "good"
                 /\ doing = "open" => Current.tool = "add"

ToolInv == CallsInTurn /\ SentIsGood /\ ResultsAreTrue

LEMMA ToolInitHolds == ToolInit => ToolInv
  BY DEF ToolInit, ToolInv, CallsInTurn, SentIsGood, ResultsAreTrue

\* The call under way is the one after those that have results.
LEMMA CurrentIsCall ==
    ASSUME ToolInv, doing # "idle"
    PROVE  /\ Current = reply[Len(reply)] /\ Current \in ToolCall
           /\ Len(reply) = Len(results) + 1 /\ Len(results) \in Nat
  BY DEF ToolInv, CallsInTurn, Current

\* A result is added that is true of the call: the step for every way to end it.
LEMMA ResolveKeeps ==
    ASSUME ToolInv, doing # "idle", NEW r \in Outcomes, Resolve(r),
           made' = made \/ (Current.tool \in Changing /\ made' = made \cup {Len(results) + 1}),
           Current.tool \in Changing /\ ~r.failed => made' # made,
           made' # made => /\ Current.arguments = "good" /\ Current.tool \in Changing
                           /\ ~r.failed \/ r.reason = "lost",
           queued' \subseteq [space : AnySpace, user : AnyUser],
           UNCHANGED <<chat, reply, longTerm>>
    PROVE  ToolInv'
  <1> DEFINE k == Len(results) + 1
  <1>1. /\ results' = Append(results, r) /\ doing' = "idle"
        /\ reply[k] = Current /\ Len(reply) = k /\ Len(results) \in Nat
    BY CurrentIsCall DEF Resolve, Current
  <1>2. /\ results' \in Seq(Outcomes) /\ Len(results') = k /\ results'[k] = r
        /\ \A j \in 1 .. Len(results) : results'[j] = results[j]
        /\ DOMAIN results' = 1 .. k /\ DOMAIN results = 1 .. Len(results)
    BY <1>1 DEF ToolInv, CallsInTurn
  <1>3. CallsInTurn'
    <2>1. made' \subseteq 1 .. k
      <3>1. made \subseteq 1 .. k /\ k \in 1 .. k
        BY <1>1 DEF ToolInv, CallsInTurn
      <3>2. made' = made \/ made' = made \cup {k}
        OBVIOUS
      <3> QED BY <3>1, <3>2
    <2>2. reply \in Seq(ToolCall) /\ UNCHANGED <<chat, reply, longTerm>>
      BY DEF ToolInv, CallsInTurn
    <2> QED BY <1>1, <1>2, <2>1, <2>2 DEF ToolInv, CallsInTurn
  <1>4. SentIsGood'
    BY <1>1 DEF SentIsGood
  <1>5. k \notin made /\ (k \in made' <=> made' # made)
    BY <1>1 DEF ToolInv, CallsInTurn
  <1>6. ResultsAreTrue'
    <2> SUFFICES ASSUME NEW j \in 1 .. k
                 PROVE  /\ reply[j].tool \in Changing /\ ~results'[j].failed => j \in made'
                        /\ j \in made' => /\ reply[j].arguments = "good"
                                          /\ ~results'[j].failed \/ results'[j].reason = "lost"
      BY <1>2 DEF ResultsAreTrue
    <2>1. CASE j = k
      BY <2>1, <1>1, <1>2, <1>5
    <2>2. CASE j \in 1 .. Len(results)
      BY <2>2, <1>1, <1>2 DEF ToolInv, ResultsAreTrue
    <2> QED BY <2>1, <2>2, <1>1
  <1> QED BY <1>3, <1>4, <1>6 DEF ToolInv

LEMMA TakeCallKeeps == ASSUME ToolInv, TakeCall PROVE ToolInv'
  <1>1. PICK next \in ToolCall : reply' = Append(reply, next)
    BY DEF TakeCall
  <1>2. /\ UNCHANGED <<chat, results, made, queued, longTerm>> /\ doing' = "parse"
        /\ Len(reply) = Len(results) /\ Len(results) \in Nat
    BY DEF TakeCall, ToolInv, CallsInTurn
  <1>3. /\ reply' \in Seq(ToolCall) /\ Len(reply') = Len(results) + 1
        /\ \A j \in 1 .. Len(results) : reply'[j] = reply[j]
    BY <1>1, <1>2 DEF ToolInv, CallsInTurn
  <1>4. CallsInTurn' /\ SentIsGood'
    BY <1>2, <1>3 DEF ToolInv, CallsInTurn, SentIsGood
  <1>5. ResultsAreTrue'
    <2>1. DOMAIN results = 1 .. Len(results)
      BY DEF ToolInv, CallsInTurn
    <2> QED BY <1>2, <1>3, <2>1 DEF ToolInv, ResultsAreTrue
  <1> QED BY <1>4, <1>5 DEF ToolInv

\* The call stays under way, at another step.
LEMMA GoesOnKeeps ==
    ASSUME ToolInv, doing # "idle", doing' \in {"open", "send"},
           UNCHANGED <<chat, reply, results, made, queued, longTerm>>,
           Current.tool \in NeedsArguments => Current.arguments = "good",
           doing' = "open" => Current.tool = "add"
    PROVE  ToolInv'
  BY DEF ToolInv, CallsInTurn, SentIsGood, ResultsAreTrue, Current

LEMMA RouteKeeps == ASSUME ToolInv, Route PROVE ToolInv'
  <1>1. doing = "parse" /\ UNCHANGED <<chat, reply, made, queued, longTerm>>
    BY DEF Route
  <1>2. Current \in ToolCall
    BY <1>1, CurrentIsCall
  <1>3. CASE Resolve(Failure("local"))
    BY <1>1, <1>3, ResolveKeeps DEF Failure, Outcomes, ToolInv, CallsInTurn
  <1>4. CASE Current.tool = "clock" /\ Resolve(Success({}))
    BY <1>1, <1>4, ResolveKeeps DEF Success, Outcomes, Changing, ToolInv, CallsInTurn
  <1>5. CASE /\ UNCHANGED results /\ doing' = IF Current.tool = "add" THEN "open" ELSE "send"
             /\ Parsed(Current) # "malformed"
             /\ Current.tool \in NeedsArguments => Parsed(Current) # "none"
    <2>1. Current.tool \in NeedsArguments => Current.arguments = "good"
      BY <1>2, <1>5 DEF Parsed, ToolCall
    <2> QED BY <1>1, <1>5, <2>1, GoesOnKeeps
  <1> QED BY <1>3, <1>4, <1>5 DEF Route

\* The request reaches the server: what it changes is there, whatever the client hears.
LEMMA ServedKeeps ==
    ASSUME ToolInv, doing = "send", Changes, NEW r \in Outcomes, Resolve(r),
           ~r.failed \/ r.reason = "lost", UNCHANGED <<chat, reply, longTerm>>
    PROVE  ToolInv'
  <1>1. Current \in ToolCall /\ Len(results) \in Nat
    BY CurrentIsCall
  <1>2. Current.tool \in Changing => Current.arguments = "good"
    BY DEF ToolInv, SentIsGood, Changing, NeedsArguments
  <1>3. Len(results) + 1 \notin made
    BY <1>1 DEF ToolInv, CallsInTurn
  <1>4. Added \in [space : AnySpace, user : AnyUser]
        /\ (Current.tool = "create" => Created(Current) \in [space : AnySpace, user : AnyUser])
    BY <1>1 DEF Added, Created, Effective, ToolCall, ToolInv, CallsInTurn, AnySpace, AnyUser
  <1>5. queued' \subseteq [space : AnySpace, user : AnyUser]
    BY <1>4 DEF Changes, ToolInv, CallsInTurn
  <1>6. made' = IF Current.tool \in Changing THEN made \cup {Len(results) + 1} ELSE made
    BY DEF Changes
  <1> QED BY <1>2, <1>3, <1>5, <1>6, ResolveKeeps

LEMMA AnsweredKeeps == ASSUME ToolInv, Serve \/ LoseAnswer \/ Refuse PROVE ToolInv'
  <1>1. CASE Serve
    <2>1. PICK found : /\ Resolve(Success(found))
                       /\ found = IF Current.tool = "search" THEN SearchFinds(Current) ELSE {}
      BY <1>1 DEF Serve
    <2>2. found \subseteq longTerm
      BY <2>1 DEF SearchFinds
    <2>3. Success(found) \in Outcomes /\ ~Success(found).failed
      BY <2>2 DEF Success, Outcomes, ToolInv, CallsInTurn
    <2> QED BY <1>1, <2>1, <2>3, ServedKeeps DEF Serve
  <1>2. CASE LoseAnswer
    BY <1>2, ServedKeeps DEF LoseAnswer, Failed, Failure, ToolFailure, Outcomes
  <1>3. CASE Refuse
    <2>1. Failed("server") \in Outcomes /\ Failed("server").failed
      BY DEF Failed, Failure, ToolFailure, Outcomes
    <2> QED BY <1>3, <2>1, ResolveKeeps DEF Refuse, ToolInv, CallsInTurn
  <1> QED BY <1>1, <1>2, <1>3

LEMMA ToolStepKeeps == ToolInv /\ [ToolNext]_toolVars => ToolInv'
  <1>1. ASSUME ToolInv, OpenSession \/ IndexQueued \/ UNCHANGED toolVars PROVE ToolInv'
    <2>1. CASE OpenSession
      BY <1>1, <2>1, GoesOnKeeps DEF OpenSession, ToolInv, SentIsGood
    <2>2. CASE IndexQueued
      BY <1>1, <2>2 DEF IndexQueued, ToolInv, CallsInTurn, SentIsGood, ResultsAreTrue, Current
    <2>3. CASE UNCHANGED toolVars
      BY <1>1, <2>3 DEF toolVars, ToolInv, CallsInTurn, SentIsGood, ResultsAreTrue, Current
    <2> QED BY <1>1, <2>1, <2>2, <2>3
  <1> QED BY <1>1, TakeCallKeeps, RouteKeeps, AnsweredKeeps DEF ToolNext

LEMMA ToolInvariant == ToolSpec => []ToolInv
  BY ToolStepKeeps, ToolInitHolds, PTL DEF ToolSpec

\* A change that is reported as made was made; a call that was wrong changed nothing; only
\* a lost answer leaves it open.
THEOREM ToolResultsAreTrue == ToolSpec => []ResultsAreTrue
  <1>1. ToolInv => ResultsAreTrue
    BY DEF ToolInv
  <1> QED BY <1>1, ToolInvariant, PTL

\* Calls are resolved one at a time, in their order.
THEOREM ToolTypes == ToolSpec => []ToolTypeOK
  <1>1. ASSUME ToolInv PROVE ToolTypeOK
    <2>1. Len(results) \in Nat /\ Len(reply) = Len(results) + (IF doing = "idle" THEN 0 ELSE 1)
      BY <1>1 DEF ToolInv, CallsInTurn
    <2>2. Len(results) <= Len(reply) /\ (doing = "idle" <=> Len(results) = Len(reply))
      BY <2>1
    <2> QED BY <1>1, <2>2 DEF ToolInv, CallsInTurn, ToolTypeOK
  <1> QED BY <1>1, ToolInvariant, PTL

\* What the conversation stores is in its namespace, whichever tool stored it.
StoredInItsSpace == \A m \in queued \cup longTerm : m.space = Effective

LEMMA StoredStaysInSpace ==
    ASSUME StoredInItsSpace, [ToolNext]_toolVars PROVE StoredInItsSpace'
  <1>1. chat' = chat
    BY DEF ToolNext, TakeCall, Route, OpenSession, Serve, Refuse, LoseAnswer, IndexQueued, toolVars
  <1>2. Effective' = Effective
    BY <1>1 DEF Effective
  <1>3. CASE Serve \/ LoseAnswer
    <2>1. Changes /\ longTerm' = longTerm
      BY <1>3 DEF Serve, LoseAnswer
    <2>2. queued' \subseteq queued \cup {Added, Created(Current)}
      BY <2>1 DEF Changes
    <2>3. Added.space = Effective /\ Created(Current).space = Effective
      BY DEF Added, Created
    <2> QED BY <1>2, <2>1, <2>2, <2>3 DEF StoredInItsSpace
  <1>4. CASE IndexQueued
    BY <1>2, <1>4 DEF IndexQueued, StoredInItsSpace
  <1>5. CASE TakeCall \/ Route \/ OpenSession \/ Refuse \/ UNCHANGED toolVars
    BY <1>2, <1>5 DEF TakeCall, Route, OpenSession, Refuse, toolVars, StoredInItsSpace
  <1> QED BY <1>3, <1>4, <1>5 DEF ToolNext

\* A search that succeeds finds everything the conversation stored for the user it names, if
\* the conversation is in the client's namespace.
LEMMA SearchFindsAll ==
    ASSUME ToolInv, StoredInItsSpace, InClientSpace, [ToolNext]_toolVars,
           NEW k \in DOMAIN results' \ DOMAIN results,
           reply[k].tool = "search", ~results'[k].failed
    PROVE  {m \in longTerm : reply[k].user \in {m.user, Unnamed}} \subseteq results'[k].found
  <1>1. PICK r : Resolve(r) /\ doing # "idle"
    BY DEF ToolNext, TakeCall, Route, OpenSession, Serve, Refuse, LoseAnswer, IndexQueued, toolVars
  <1>2. results \in Seq(Outcomes)
    BY DEF ToolInv, CallsInTurn
  <1>3. k = Len(results) + 1 /\ results'[k] = r
    BY <1>1, <1>2 DEF Resolve
  <1>4. reply[k] = Current /\ Current.tool = "search" /\ ~r.failed
    BY <1>3 DEF Current
  <1>5. \A s : Resolve(s) => results'[k] = s
    BY <1>2, <1>3 DEF Resolve
  <1>6. Serve
    <2>1. ~\E why : Resolve(Failure(why)) \/ Resolve(Failed(why))
      <3>1. \A why : Failure(why).failed /\ Failed(why).failed
        BY DEF Failure, Failed, ToolFailure
      <3> QED BY <1>3, <1>4, <1>5, <3>1
    <2>2. ~TakeCall /\ ~OpenSession /\ ~IndexQueued /\ ~UNCHANGED toolVars
      <3>1. results' # results
        BY <1>2, <1>3
      <3> QED BY <3>1 DEF TakeCall, OpenSession, IndexQueued, toolVars
    <2>3. ~Route
      <3>1. results' # results
        BY <1>2, <1>3
      <3> QED BY <1>4, <2>1, <3>1 DEF Route
    <2> QED BY <2>1, <2>2, <2>3 DEF ToolNext, Refuse, LoseAnswer
  <1>7. results'[k].found = SearchFinds(Current)
    BY <1>4, <1>5, <1>6 DEF Serve, Success
  <1>8. \A m \in longTerm : chat.default \in {m.space, Unnamed}
    BY DEF StoredInItsSpace, InClientSpace, Effective
  <1> QED BY <1>4, <1>7, <1>8 DEF SearchFinds

\* A conversation in the client's namespace finds by a search what it has stored itself, once
\* it is indexed.
THEOREM ConversationsFindTheirs == ToolSpec => ConversationFindsItsMemories
  <1>1. ToolInit => StoredInItsSpace
    BY DEF ToolInit, StoredInItsSpace
  <1>2. StoredInItsSpace /\ [ToolNext]_toolVars => StoredInItsSpace'
    BY StoredStaysInSpace
  <1>3. ToolInv /\ StoredInItsSpace /\ [ToolNext]_toolVars =>
          [\A k \in DOMAIN results' \ DOMAIN results :
             (InClientSpace /\ reply[k].tool = "search" /\ ~results'[k].failed)
               => {m \in longTerm : reply[k].user \in {m.user, Unnamed}} \subseteq results'[k].found
          ]_toolVars
    BY SearchFindsAll
  <1> QED BY <1>1, <1>2, <1>3, ToolInvariant, PTL DEF ToolSpec, ConversationFindsItsMemories

-----------------------------------------------------------------------------
(***************************************************************************)
(* The session.  A PUT carries the whole session: what it adds, after what *)
(* its client has read.  As long as nothing came in between, that is the   *)
(* end of the conversation; a budget large enough for what is summarized   *)
(* leaves no message out of both the session and its context.              *)
(***************************************************************************)
PutTypes == [by : Clients \cup {None}, what : {"create", "update", "rewrite"}, memory : Session,
             adds : Messages \cup {Absent}, stale : BOOLEAN]

ArgumentTypes == [message : Messages \cup {Absent}, memories : SUBSET Memories,
                  data : SUBSET Paths, strategy : {"default", "custom"}]

CallTypes == [pc : {"idle", "get", "create", "put"}, kind : AllKinds, arg : ArgumentTypes]

\* What the session's variables are made of.
SessionShape ==
    /\ window \in Windows /\ calls \in 0 .. MaxCalls
    /\ session \in Session \cup {Absent} /\ said \in Seq(Messages) /\ raced \in BOOLEAN
    /\ call \in [Clients -> CallTypes] /\ puts \subseteq PutTypes

\* What a PUT adds is its last message; sessions that are created are empty.
Made(p) ==
    /\ p.adds # Absent => /\ p.memory.messages # <<>>
                          /\ p.memory.messages[Len(p.memory.messages)] = p.adds
    /\ p.what # "update" => p.memory.messages = <<>> /\ p.memory.context = {} /\ p.adds = Absent

\* A method that adds a message is "append"; "rewrite" does not read.
InCall(x) == /\ x.pc = "idle" => x = Idle
             /\ x.pc \in {"get", "create"} => x.kind # "rewrite"
             /\ x.arg.message # Absent <=> x.kind = "append"

Waiting(what) == IF what = "create" THEN "create" ELSE "put"

\* A client waits for the one PUT it has sent.
ClientsWait ==
    /\ \A c \in Clients : /\ InCall(call[c])
                          /\ call[c].pc \in {"create", "put"} => \E p \in puts : p.by = c
    /\ \A p \in puts : Made(p) /\ (p.by # None => call[p.by].pc = Waiting(p.what))
    /\ \A p, q \in puts : p.by = q.by /\ p.by # None => p = q

SessionInv == SessionShape /\ ClientsWait

\* ms are the last of all, and ctx is what comes before them if clients read whole sessions.
Ends(ms, all) == /\ Len(ms) <= Len(all)
                 /\ \A k \in 1 .. Len(ms) : ms[k] = all[Len(all) - Len(ms) + k]
Tells(w, memory, all) ==
    /\ Ends(memory.messages, all)
    /\ w = None => memory.context = {all[k] : k \in 1 .. Len(all) - Len(memory.messages)}

AfterPut(p, all) == IF p.adds = Absent THEN all ELSE Append(all, p.adds)

\* A session, and a PUT whose client has read it, tell the conversation.
PutTells(p) ==
    /\ p.what = "create" /\ ~p.stale => session = Absent
    /\ p.what # "rewrite" /\ ~p.stale /\ ~raced => Tells(window, p.memory, AfterPut(p, said))
ConversationIsTold ==
    /\ session = Absent => said = <<>> /\ ~raced
    /\ session # Absent /\ ~raced => Tells(window, session, said)
    /\ \A p \in puts : PutTells(p)

\* What one summary can take.
Light(ms) == Total(ms, SummaryCost) <= SummaryBudget
AlmostLight(ms) == ms # <<>> => Light(Oldest(ms, Len(ms) - 1))

SessionsAreLight ==
    window = None => /\ session # Absent => Light(session.messages)
                     /\ \A p \in puts : AlmostLight(p.memory.messages)

-----------------------------------------------------------------------------
(***************************************************************************)
(* Token counts.                                                           *)
(***************************************************************************)
Summing(f, ms, cost) ==
    /\ f \in [0 .. Len(ms) -> Nat] /\ f[0] = 0 /\ Total(ms, cost) = f[Len(ms)]
    /\ \A n \in 1 .. Len(ms) : f[n] = f[n - 1] + cost[ms[n]]

\* Total is the last of the partial sums.
LEMMA TotalRuns ==
    ASSUME NEW ms \in Seq(Messages), NEW cost \in [Messages -> Nat]
    PROVE  \E f : Summing(f, ms, cost)
  <1> DEFINE N == Len(ms)
             body(f) == [n \in 0 .. N |-> IF n = 0 THEN 0 ELSE f[n - 1] + cost[ms[n]]]
             c == CHOOSE f : f = body(f)
             step == [n \in 1 .. N |-> [x \in Nat |-> x + cost[ms[n]]]]
  <1>1. Total(ms, cost) = c[N]
    BY DEF Total
  <1>2. N \in Nat /\ 0 \in Nat
    OBVIOUS
  <1>3. step \in [1 .. N -> [Nat -> Nat]]
    <2>1. \A n \in 1 .. N : cost[ms[n]] \in Nat
      OBVIOUS
    <2> QED BY <2>1
  <1>4. PICK f : Iterates(f, Nat, N, 0, step)
    <2> HIDE DEF step, N
    <2> QED BY <1>2, <1>3, Recursion
  <1>5. f = body(f)
    <2>1. f \in [0 .. N -> Nat] /\ f[0] = 0 /\ \A n \in 1 .. N : f[n] = step[n][f[n - 1]]
      <3> HIDE DEF step, N
      <3> QED BY <1>4 DEF Iterates
    <2>2. ASSUME NEW n \in 0 .. N PROVE f[n] = body(f)[n]
      <3>1. CASE n = 0
        BY <2>1, <3>1
      <3>2. CASE n # 0
        <4>1. n \in 1 .. N /\ n - 1 \in 0 .. N
          BY <3>2
        <4>2. f[n - 1] \in Nat /\ f[n] = step[n][f[n - 1]]
          BY <2>1, <4>1
        <4> QED BY <3>2, <4>1, <4>2
      <3> QED BY <3>1, <3>2
    <2> QED BY <2>1, <2>2
  <1>6. c = body(c)
    <2> HIDE DEF body
    <2> QED BY <1>5
  <1> HIDE DEF c
  <1>7. /\ c = [n \in 0 .. N |-> c[n]] /\ c[0] = 0
        /\ \A n \in 1 .. N : c[n] = c[n - 1] + cost[ms[n]]
    <2>1. DOMAIN c = 0 .. N /\ \A n \in 0 .. N : c[n] = body(c)[n]
      BY <1>6
    <2>2. c = [n \in 0 .. N |-> c[n]]
      BY <1>6
    <2>3. ASSUME NEW n \in 0 .. N
          PROVE  c[n] = IF n = 0 THEN 0 ELSE c[n - 1] + cost[ms[n]]
      BY <2>1
    <2>4. 0 \in 0 .. N /\ 1 .. N \subseteq 0 .. N /\ 0 \notin 1 .. N
      BY <1>2
    <2> QED BY <2>2, <2>3, <2>4
  <1>8. 0 .. N \subseteq {n \in 0 .. N : c[n] \in Nat}
    <2> DEFINE U == {n \in 0 .. N : c[n] \in Nat}
    <2>1. 0 \in U
      BY <1>7
    <2>2. ASSUME NEW n \in 0 .. N - 1, n \in U PROVE n + 1 \in U
      <3>1. n + 1 \in 1 .. N /\ (n + 1) - 1 = n /\ c[n] \in Nat /\ ms[n + 1] \in Messages
        BY <2>2
      <3>2. c[n + 1] = c[n] + cost[ms[n + 1]] /\ cost[ms[n + 1]] \in Nat
        BY <1>7, <3>1
      <3> QED BY <3>1, <3>2
    <2> HIDE DEF U
    <2>3. 0 .. N \subseteq U
      BY <1>2, <2>1, <2>2, BoundedInduction
    <2> QED BY <2>3 DEF U
  <1>9. c \in [0 .. N -> Nat]
    BY <1>7, <1>8
  <1>10. Summing(c, ms, cost)
    BY <1>1, <1>7, <1>9 DEF Summing
  <1> QED BY <1>10

Begins(part, ms) == Len(part) <= Len(ms) /\ \A k \in 1 .. Len(part) : part[k] = ms[k]

\* What two sequences share they count alike.
LEMMA SumsAgree ==
    ASSUME NEW ms \in Seq(Messages), NEW part \in Seq(Messages), NEW cost \in [Messages -> Nat],
           NEW f, NEW g, Summing(f, ms, cost), Summing(g, part, cost), Begins(part, ms)
    PROVE  \A n \in 0 .. Len(part) : g[n] = f[n]
  <1> DEFINE U == {n \in 0 .. Len(part) : g[n] = f[n]}
  <1>1. 0 \in U
    BY DEF Summing
  <1>2. ASSUME NEW n \in 0 .. Len(part) - 1, n \in U PROVE n + 1 \in U
    <2>1. n + 1 \in 1 .. Len(part) /\ n + 1 \in 1 .. Len(ms) /\ (n + 1) - 1 = n
      BY DEF Begins
    <2>2. g[n + 1] = g[n] + cost[part[n + 1]] /\ f[n + 1] = f[n] + cost[ms[n + 1]]
      BY <2>1 DEF Summing
    <2>3. part[n + 1] = ms[n + 1]
      BY <2>1 DEF Begins
    <2> QED BY <1>2, <2>1, <2>2, <2>3
  <1> HIDE DEF U
  <1>3. Len(part) \in Nat
    OBVIOUS
  <1>4. 0 .. Len(part) \subseteq U
    BY <1>1, <1>2, <1>3, BoundedInduction
  <1> QED BY <1>4 DEF U

LEMMA OldestIs ==
    ASSUME NEW S, NEW ms \in Seq(S), NEW n \in 0 .. Len(ms)
    PROVE  /\ Oldest(ms, n) \in Seq(S) /\ Len(Oldest(ms, n)) = n
           /\ \A k \in 1 .. n : Oldest(ms, n)[k] = ms[k]
  <1>1. /\ SubSeq(ms, 1, n) \in Seq(S)
        /\ Len(SubSeq(ms, 1, n)) = n
        /\ \A k \in 1 .. n : SubSeq(ms, 1, n)[k] = ms[k]
    <2>1. 1 \in Int /\ n \in Int /\ \A k \in 1 .. n : ms[k] \in S
      OBVIOUS
    <2>2. /\ SubSeq(ms, 1, n) \in Seq(S)
          /\ Len(SubSeq(ms, 1, n)) = IF 1 <= n THEN n - 1 + 1 ELSE 0
          /\ \A k \in 1 .. n - 1 + 1 : SubSeq(ms, 1, n)[k] = ms[1 + k - 1]
      BY <2>1, SubSeqProperties
    <2>3. n \in Nat /\ n - 1 + 1 = n /\ \A k \in 1 .. n : 1 + k - 1 = k
      BY <2>1
    <2> QED BY <2>2, <2>3
  <1> QED BY <1>1 DEF Oldest

LEMMA NewestIs ==
    ASSUME NEW S, NEW ms \in Seq(S), NEW n \in 0 .. Len(ms)
    PROVE  /\ Newest(ms, n) \in Seq(S) /\ Len(Newest(ms, n)) = n
           /\ \A k \in 1 .. n : Newest(ms, n)[k] = ms[Len(ms) - n + k]
  <1> DEFINE m == Len(ms) - n + 1
  <1>1. m \in 1 .. Len(ms) + 1 /\ Len(ms) \in Nat /\ m + n - 1 = Len(ms)
    OBVIOUS
  <1>2. /\ SubSeq(ms, m, Len(ms)) \in Seq(S)
        /\ Len(SubSeq(ms, m, Len(ms))) = IF m <= Len(ms) THEN Len(ms) - m + 1 ELSE 0
        /\ \A k \in 1 .. Len(ms) - m + 1 : SubSeq(ms, m, Len(ms))[k] = ms[m + k - 1]
    <2>1. \A k \in m .. Len(ms) : ms[k] \in S
      OBVIOUS
    <2> HIDE DEF m
    <2> QED BY <1>1, <2>1, SubSeqProperties
  <1>3. Newest(ms, n) = SubSeq(ms, m, Len(ms))
    BY DEF Newest
  <1>4. \A k \in 1 .. n : k \in 1 .. Len(ms) - m + 1 /\ m + k - 1 = Len(ms) - n + k
    OBVIOUS
  <1>5. Len(ms) - m + 1 = n
    OBVIOUS
  <1> HIDE DEF m
  <1> QED BY <1>1, <1>2, <1>3, <1>4, <1>5

LEMMA TotalIsNat ==
    ASSUME NEW ms \in Seq(Messages), NEW cost \in [Messages -> Nat]
    PROVE  Total(ms, cost) \in Nat
  <1>1. PICK f : Summing(f, ms, cost)
    BY TotalRuns
  <1> QED BY <1>1 DEF Summing

\* The first messages count no more than all of them.
LEMMA FirstCountLess ==
    ASSUME NEW ms \in Seq(Messages), NEW part \in Seq(Messages), NEW cost \in [Messages -> Nat],
           Begins(part, ms)
    PROVE  Total(part, cost) <= Total(ms, cost)
  <1>1. PICK f : Summing(f, ms, cost)
    BY TotalRuns
  <1>2. PICK g : Summing(g, part, cost)
    BY TotalRuns
  <1>3. \A n \in 0 .. Len(part) : g[n] = f[n]
    BY <1>1, <1>2, SumsAgree
  <1> DEFINE U == {n \in 0 .. Len(ms) : Len(part) <= n => f[Len(part)] <= f[n]}
  <1>4. Len(ms) \in Nat /\ Len(part) \in Nat /\ Len(part) \in 0 .. Len(ms)
    BY DEF Begins
  <1>5. f \in [0 .. Len(ms) -> Nat]
    BY <1>1 DEF Summing
  <1>6. 0 \in U
    <2>1. 0 \in 0 .. Len(ms)
      BY <1>4
    <2>2. Len(part) <= 0 => Len(part) = 0
      BY <1>4
    <2> QED BY <1>5, <2>1, <2>2
  <1>7. ASSUME NEW n \in 0 .. Len(ms) - 1, n \in U PROVE n + 1 \in U
    <2>1. n + 1 \in 1 .. Len(ms) /\ n \in 0 .. Len(ms) /\ (n + 1) - 1 = n
      BY <1>4
    <2>2. f[n + 1] = f[n] + cost[ms[n + 1]] /\ cost[ms[n + 1]] \in Nat
      BY <1>1, <2>1 DEF Summing
    <2>3. CASE Len(part) <= n
      <3>1. f[Len(part)] <= f[n]
        BY <1>7, <2>3
      <3>2. f[Len(part)] \in Nat /\ f[n] \in Nat
        BY <1>4, <1>5, <2>1
      <3> QED BY <2>1, <2>2, <3>1, <3>2
    <2>4. CASE Len(part) = n + 1
      <3>1. n + 1 \in 0 .. Len(ms)
        BY <1>4, <2>1
      <3>2. f[n + 1] \in Nat
        BY <1>5, <3>1
      <3>3. f[Len(part)] <= f[n + 1]
        BY <2>4, <3>2
      <3> QED BY <3>1, <3>3
    <2> QED BY <1>4, <2>1, <2>3, <2>4
  <1> HIDE DEF U
  <1>8. 0 .. Len(ms) \subseteq U
    BY <1>4, <1>6, <1>7, BoundedInduction
  <1>9. f[Len(part)] <= f[Len(ms)]
    BY <1>4, <1>8 DEF U
  <1>10. Total(part, cost) = f[Len(part)] /\ Total(ms, cost) = f[Len(ms)]
    BY <1>1, <1>2, <1>3, <1>4 DEF Summing
  <1> QED BY <1>9, <1>10

\* What costs less for each message costs less for all of them.
LEMMA CheaperCountsLess ==
    ASSUME NEW ms \in Seq(Messages), NEW cost \in [Messages -> Nat], NEW dear \in [Messages -> Nat],
           \A m \in Messages : cost[m] <= dear[m]
    PROVE  Total(ms, cost) <= Total(ms, dear)
  <1>1. PICK f : Summing(f, ms, cost)
    BY TotalRuns
  <1>2. PICK g : Summing(g, ms, dear)
    BY TotalRuns
  <1> DEFINE U == {n \in 0 .. Len(ms) : f[n] <= g[n]}
  <1>3. Len(ms) \in Nat
    OBVIOUS
  <1>4. 0 \in U
    BY <1>1, <1>2 DEF Summing
  <1>5. ASSUME NEW n \in 0 .. Len(ms) - 1, n \in U PROVE n + 1 \in U
    <2>1. n + 1 \in 1 .. Len(ms) /\ n \in 0 .. Len(ms) /\ (n + 1) - 1 = n
      BY <1>3
    <2>2. ms[n + 1] \in Messages
      BY <2>1
    <2>3. /\ f[n] \in Nat /\ g[n] \in Nat
          /\ f[n + 1] = f[n] + cost[ms[n + 1]] /\ g[n + 1] = g[n] + dear[ms[n + 1]]
      BY <1>1, <1>2, <2>1 DEF Summing
    <2>4. /\ cost[ms[n + 1]] \in Nat /\ dear[ms[n + 1]] \in Nat
          /\ cost[ms[n + 1]] <= dear[ms[n + 1]]
      BY <2>2
    <2>5. f[n] <= g[n]
      BY <1>5
    <2> QED BY <2>1, <2>3, <2>4, <2>5
  <1> HIDE DEF U
  <1>6. 0 .. Len(ms) \subseteq U
    BY <1>3, <1>4, <1>5, BoundedInduction
  <1>7. f[Len(ms)] <= g[Len(ms)]
    BY <1>3, <1>6 DEF U
  <1> QED BY <1>1, <1>2, <1>7 DEF Summing

LEMMA FewCount ==
    ASSUME NEW ms \in Seq(Messages), NEW cost \in [Messages -> Nat]
    PROVE  /\ Len(ms) = 0 => Total(ms, cost) = 0
           /\ Len(ms) = 1 => Total(ms, cost) = cost[ms[1]] /\ ms[1] \in Messages
  <1>1. PICK f : Summing(f, ms, cost)
    BY TotalRuns
  <1>2. Total(ms, cost) = f[Len(ms)] /\ f[0] = 0
    BY <1>1 DEF Summing
  <1>3. ASSUME Len(ms) = 1 PROVE Total(ms, cost) = cost[ms[1]] /\ ms[1] \in Messages
    <2>1. 1 \in 1 .. Len(ms)
      BY <1>3
    <2>2. f[1] = f[1 - 1] + cost[ms[1]]
      BY <1>1, <2>1 DEF Summing
    <2>3. ms[1] \in Messages
      BY <2>1
    <2>4. cost[ms[1]] \in Nat /\ 1 - 1 = 0
      BY <2>3
    <2>5. f[1] = cost[ms[1]]
      BY <1>2, <2>2, <2>4
    <2> QED BY <1>2, <1>3, <2>3, <2>5
  <1> QED BY <1>2, <1>3

LEMMA LargestIs ==
    ASSUME NEW N \in Nat, NEW S, S \subseteq 0 .. N, S # {}
    PROVE  Largest(S) \in S /\ \A n \in S : n <= Largest(S)
  <1>1. \E n \in S : \A m \in S : m <= n
    BY GreatestOf
  <1> QED BY <1>1 DEF Largest

-----------------------------------------------------------------------------
(***************************************************************************)
(* What is left of a session's messages.                                   *)
(***************************************************************************)
LEMMA FittingIs ==
    ASSUME NEW ms \in Seq(Messages), ms # <<>>, NEW limit
    PROVE  /\ FittingCount(ms, limit) \in 1 .. Len(ms)
           /\ \/ FittingCount(ms, limit) = 1
              \/ Tokens(Newest(ms, FittingCount(ms, limit))) <= limit
  <1> DEFINE S == {1} \cup {n \in 1 .. Len(ms) : Tokens(Newest(ms, n)) <= limit}
  <1>1. Len(ms) \in Nat /\ Len(ms) >= 1
    OBVIOUS
  <1>2. S \subseteq 1 .. Len(ms) /\ S # {} /\ S \subseteq 0 .. Len(ms)
    BY <1>1
  <1>3. Largest(S) \in S
    <2> HIDE DEF S
    <2> QED BY <1>1, <1>2, LargestIs
  <1>4. FittingCount(ms, limit) = Largest(S)
    BY DEF FittingCount
  <1> QED BY <1>2, <1>3, <1>4

LEMMA NewestEnds ==
    ASSUME NEW ms \in Seq(Messages), NEW n \in 0 .. Len(ms)
    PROVE  Newest(ms, n) \in Seq(Messages) /\ Len(Newest(ms, n)) = n /\ Ends(Newest(ms, n), ms)
  <1>1. /\ Newest(ms, n) \in Seq(Messages) /\ Len(Newest(ms, n)) = n
        /\ \A k \in 1 .. n : Newest(ms, n)[k] = ms[Len(ms) - n + k]
    BY NewestIs
  <1> QED BY <1>1 DEF Ends

LEMMA EndsItself == ASSUME NEW ms \in Seq(Messages) PROVE Ends(ms, ms)
  BY DEF Ends

LEMMA EndsInTurn ==
    ASSUME NEW a \in Seq(Messages), NEW b \in Seq(Messages), NEW c \in Seq(Messages),
           Ends(a, b), Ends(b, c)
    PROVE  Ends(a, c)
  <1>1. /\ Len(a) \in Nat /\ Len(b) \in Nat /\ Len(c) \in Nat
        /\ Len(a) <= Len(b) /\ Len(b) <= Len(c)
    BY DEF Ends
  <1>2. ASSUME NEW k \in 1 .. Len(a) PROVE a[k] = c[Len(c) - Len(a) + k]
    <2>1. /\ Len(b) - Len(a) + k \in 1 .. Len(b)
          /\ Len(c) - Len(b) + (Len(b) - Len(a) + k) = Len(c) - Len(a) + k
      BY <1>1
    <2>2. a[k] = b[Len(b) - Len(a) + k]
      BY <1>2 DEF Ends
    <2>3. b[Len(b) - Len(a) + k] = c[Len(c) - Len(b) + (Len(b) - Len(a) + k)]
      BY <2>1 DEF Ends
    <2> QED BY <2>1, <2>2, <2>3
  <1> QED BY <1>1, <1>2 DEF Ends

\* GET leaves the last messages, and PUT too: one at least.
LEMMA TruncatedIs ==
    ASSUME NEW ms \in Seq(Messages), NEW w
    PROVE  Truncated(ms, w) \in Seq(Messages) /\ Ends(Truncated(ms, w), ms)
  <1>1. CASE Truncated(ms, w) = ms
    BY <1>1, EndsItself
  <1>2. CASE Truncated(ms, w) # ms
    <2>1. Truncated(ms, w) = Newest(ms, FittingCount(ms, w)) /\ ms # <<>>
      BY <1>2 DEF Truncated
    <2>2. FittingCount(ms, w) \in 0 .. Len(ms)
      BY <2>1, FittingIs
    <2> QED BY <2>1, <2>2, NewestEnds
  <1> QED BY <1>1, <1>2

LEMMA StoredIs ==
    ASSUME NEW ms \in Seq(Messages), NEW w
    PROVE  /\ Stored(ms, w) \in Seq(Messages) /\ Ends(Stored(ms, w), ms)
           /\ ms # <<>> => Stored(ms, w) # <<>>
           /\ Summarized(ms, w) \subseteq Messages
           /\ ms = <<>> => Stored(ms, w) = <<>> /\ Summarized(ms, w) = {}
  <1>1. CASE ~NeedsSummary(ms, w)
    BY <1>1, EndsItself DEF Stored, Summarized
  <1>2. CASE NeedsSummary(ms, w)
    <2> DEFINE n == KeptCount(ms, w)
               old == Older(ms, w)
               S == {j \in 0 .. Len(old) : Total(Oldest(old, j), SummaryCost) <= SummaryBudget}
    <2>1. ms # <<>> /\ SummarizedCount(ms, w) > 0
      BY <1>2 DEF NeedsSummary
    <2>2. n \in 1 .. Len(ms) /\ Len(ms) \in Nat
      BY <2>1, FittingIs DEF KeptCount
    <2>3. Stored(ms, w) = Newest(ms, n)
      BY <1>2 DEF Stored
    <2>4. old \in Seq(Messages) /\ Len(old) = Len(ms) - n
      <3>1. Len(ms) - n \in 0 .. Len(ms)
        BY <2>2
      <3> HIDE DEF n
      <3>2. old = Oldest(ms, Len(ms) - n)
        BY DEF Older, n
      <3> HIDE DEF old
      <3> QED BY <3>1, <3>2, OldestIs
    <2>5. Summarized(ms, w) = Elements(Oldest(old, SummarizedCount(ms, w)))
      BY <1>2 DEF Summarized
    <2>6. Stored(ms, w) \in Seq(Messages) /\ Ends(Stored(ms, w), ms) /\ Len(Stored(ms, w)) = n
      <3> HIDE DEF n
      <3> QED BY <2>2, <2>3, NewestEnds
    <2>7. Elements(Oldest(old, SummarizedCount(ms, w))) \subseteq Messages
      <3>1. SummarizedCount(ms, w) = Largest(S)
        BY DEF SummarizedCount
      <3>2. \A j \in S : Oldest(old, j) \in Seq(Messages)
        <4> HIDE DEF old
        <4> QED BY <2>4, OldestIs
      <3>3. S # {}
        <4>1. Oldest(old, 0) \in Seq(Messages) /\ Len(Oldest(old, 0)) = 0 /\ 0 \in 0 .. Len(old)
          <5> HIDE DEF old
          <5> QED BY <2>4, OldestIs
        <4>2. SummaryCost \in [Messages -> Nat] /\ SummaryBudget \in Nat
          BY BudgetAssumption DEF BudgetAssumption, SummaryCost
        <4>3. Total(Oldest(old, 0), SummaryCost) = 0
          <5> HIDE DEF old
          <5> QED BY <4>1, <4>2, FewCount
        <4> HIDE DEF old
        <4> QED BY <4>1, <4>2, <4>3
      <3>4. Largest(S) \in S
        <4>1. Len(old) \in Nat /\ S \subseteq 0 .. Len(old)
          BY <2>4
        <4> HIDE DEF S
        <4> QED BY <3>3, <4>1, LargestIs
      <3> HIDE DEF old, S
      <3> QED BY <3>1, <3>2, <3>4 DEF Elements
    <2> HIDE DEF n, old, S
    <2> QED BY <2>1, <2>2, <2>5, <2>6, <2>7
  <1> QED BY <1>1, <1>2

\* A summary has room for what a session without a model's window is summarized at, and for
\* a message that was cut to fit.
RoomForSummaries == (DefaultLimit * 7) \div 10 <= SummaryBudget /\ CutSize <= SummaryBudget

LEMMA CostsAre ==
    ASSUME RoomForSummaries
    PROVE  /\ SummaryCost \in [Messages -> Nat] /\ Size \in [Messages -> Nat]
           /\ \A m \in Messages : SummaryCost[m] <= Size[m] /\ SummaryCost[m] <= SummaryBudget
  <1>1. SummaryBudget \in Nat /\ CutSize \in Nat /\ Size \in [Messages -> Nat]
    BY BudgetAssumption DEF BudgetAssumption
  <1>2. ASSUME NEW m \in Messages
        PROVE  SummaryCost[m] \in Nat /\ SummaryCost[m] <= Size[m]
                 /\ SummaryCost[m] <= SummaryBudget
    <2>1. Size[m] \in Nat
      BY <1>1
    <2>2. SummaryCost[m] = IF Size[m] > SummaryBudget THEN CutSize ELSE Size[m]
      BY DEF SummaryCost
    <2> QED BY <1>1, <2>1, <2>2 DEF RoomForSummaries
  <1>3. SummaryCost \in [Messages -> Nat]
    BY <1>2 DEF SummaryCost
  <1> QED BY <1>1, <1>2, <1>3

LEMMA LightBegins ==
    ASSUME RoomForSummaries, NEW ms \in Seq(Messages), NEW part \in Seq(Messages),
           Begins(part, ms), Light(ms)
    PROVE  Light(part)
  <1>1. Total(part, SummaryCost) <= Total(ms, SummaryCost)
    BY CostsAre, FirstCountLess
  <1>2. Total(part, SummaryCost) \in Nat /\ Total(ms, SummaryCost) \in Nat
    BY CostsAre, TotalIsNat
  <1> QED BY <1>1, <1>2, BudgetAssumption DEF Light, BudgetAssumption

LEMMA FittingIsLight ==
    ASSUME RoomForSummaries, NEW ms \in Seq(Messages), NEW limit \in Nat,
           Tokens(ms) <= limit, limit <= (DefaultLimit * 7) \div 10
    PROVE  Light(ms)
  <1>1. Total(ms, SummaryCost) <= Total(ms, Size)
    BY CostsAre, CheaperCountsLess
  <1>2. Total(ms, SummaryCost) \in Nat /\ Total(ms, Size) \in Nat
    BY CostsAre, TotalIsNat
  <1>3. SummaryBudget \in Nat /\ DefaultLimit \in Nat
    BY BudgetAssumption DEF BudgetAssumption
  <1>4. (DefaultLimit * 7) \div 10 \in Nat
    BY <1>3
  <1> QED BY <1>1, <1>2, <1>3, <1>4 DEF Light, Tokens, RoomForSummaries

LEMMA OneIsLight ==
    ASSUME RoomForSummaries, NEW ms \in Seq(Messages), Len(ms) <= 1
    PROVE  Light(ms)
  <1>1. Len(ms) = 0 \/ Len(ms) = 1
    <2>1. Len(ms) \in Nat
      OBVIOUS
    <2>2. \A n \in Nat : n <= 1 => n = 0 \/ n = 1
      OBVIOUS
    <2> QED BY <2>1, <2>2
  <1>2. SummaryBudget \in Nat
    BY BudgetAssumption DEF BudgetAssumption
  <1>3. CASE Len(ms) = 0
    <2>1. Total(ms, SummaryCost) = 0
      BY <1>3, CostsAre, FewCount
    <2> QED BY <1>2, <2>1 DEF Light
  <1>4. CASE Len(ms) = 1
    <2>1. Total(ms, SummaryCost) = SummaryCost[ms[1]] /\ ms[1] \in Messages
      BY <1>4, CostsAre, FewCount
    <2> QED BY <2>1, CostsAre DEF Light
  <1> QED BY <1>1, <1>3, <1>4

\* The first members of a session that is light, or light but for its last message, are light.
LEMMA LightIsAlmost ==
    ASSUME RoomForSummaries, NEW ms \in Seq(Messages), Light(ms)
    PROVE  AlmostLight(ms)
  <1>1. SUFFICES ASSUME ms # <<>> PROVE Light(Oldest(ms, Len(ms) - 1))
    BY DEF AlmostLight
  <1>2. Len(ms) - 1 \in 0 .. Len(ms) /\ Len(ms) \in Nat
    BY <1>1
  <1>3. /\ Oldest(ms, Len(ms) - 1) \in Seq(Messages)
        /\ Len(Oldest(ms, Len(ms) - 1)) = Len(ms) - 1
        /\ \A k \in 1 .. Len(ms) - 1 : Oldest(ms, Len(ms) - 1)[k] = ms[k]
    BY <1>2, OldestIs
  <1>4. Begins(Oldest(ms, Len(ms) - 1), ms)
    BY <1>2, <1>3 DEF Begins
  <1> QED BY <1>3, <1>4, LightBegins

LEMMA AppendIsAlmost ==
    ASSUME RoomForSummaries, NEW ms \in Seq(Messages), Light(ms), NEW m \in Messages
    PROVE  AlmostLight(Append(ms, m))
  <1> DEFINE more == Append(ms, m)
             part == Oldest(more, Len(more) - 1)
  <1>1. /\ more \in Seq(Messages) /\ Len(more) = Len(ms) + 1 /\ Len(ms) \in Nat
        /\ \A k \in 1 .. Len(ms) : more[k] = ms[k]
    OBVIOUS
  <1> HIDE DEF more
  <1>2. Len(more) - 1 \in 0 .. Len(more) /\ Len(more) - 1 = Len(ms)
    BY <1>1
  <1>3. /\ part \in Seq(Messages) /\ Len(part) = Len(more) - 1
        /\ \A k \in 1 .. Len(more) - 1 : part[k] = more[k]
    BY <1>1, <1>2, OldestIs
  <1> HIDE DEF part
  <1>4. Begins(part, ms)
    BY <1>1, <1>2, <1>3 DEF Begins
  <1>5. Light(part)
    BY <1>3, <1>4, LightBegins
  <1> QED BY <1>5 DEF AlmostLight, part, more

\* With such a budget all messages that are not kept are summarized, and what is kept is light.
LEMMA AllIsSummarized ==
    ASSUME RoomForSummaries, NEW ms \in Seq(Messages), AlmostLight(ms)
    PROVE  /\ Light(Stored(ms, None))
           /\ Summarized(ms, None) = {ms[k] : k \in 1 .. Len(ms) - Len(Stored(ms, None))}
  <1> DEFINE limit == (EffectiveLimit(None) * 4) \div 10
  <1>1. /\ DefaultLimit \in Nat /\ EffectiveLimit(None) = DefaultLimit /\ Len(ms) \in Nat
        /\ limit \in Nat /\ limit <= (DefaultLimit * 7) \div 10
             /\ (DefaultLimit * 7) \div 10 \in Nat
    <2>1. DefaultLimit \in Nat /\ EffectiveLimit(None) = DefaultLimit
      BY BudgetAssumption DEF BudgetAssumption, EffectiveLimit
    <2>2. \A d \in Nat : (d * 4) \div 10 \in Nat /\ (d * 7) \div 10 \in Nat
                         /\ (d * 4) \div 10 <= (d * 7) \div 10
      OBVIOUS
    <2> QED BY <2>1, <2>2
  <1>2. CASE ms = <<>>
    <2>1. Stored(ms, None) = ms /\ Summarized(ms, None) = {} /\ Len(ms) = 0
      BY <1>2 DEF Stored, Summarized, NeedsSummary
    <2>2. Light(ms)
      <3>1. Len(ms) <= 1
        BY <2>1
      <3> QED BY <3>1, OneIsLight
    <2>3. 1 .. Len(ms) - Len(Stored(ms, None)) = {}
      BY <2>1
    <2> QED BY <2>1, <2>2, <2>3
  <1>3. CASE ms # <<>>
    <2> DEFINE n == KeptCount(ms, None)
               kept == Newest(ms, n)
               old == Older(ms, None)
               short == Oldest(ms, Len(ms) - 1)
               S == {j \in 0 .. Len(old) : Total(Oldest(old, j), SummaryCost) <= SummaryBudget}
    <2>1. n \in 1 .. Len(ms) /\ (n = 1 \/ Tokens(kept) <= limit)
      BY <1>3, FittingIs DEF KeptCount
    <2>2. kept \in Seq(Messages) /\ Len(kept) = n /\ Ends(kept, ms)
      <3> HIDE DEF n
      <3> QED BY <1>1, <2>1, NewestEnds
    <2>3. Light(kept)
      <3> HIDE DEF kept, n, limit
      <3>1. CASE n = 1
        <4>1. Len(kept) <= 1
          BY <2>2, <3>1
        <4> QED BY <2>2, <4>1, OneIsLight
      <3>2. CASE Tokens(kept) <= limit
        BY <1>1, <2>2, <3>2, FittingIsLight
      <3> QED BY <2>1, <3>1, <3>2
    <2>4. /\ old \in Seq(Messages) /\ Len(old) = Len(ms) - n
          /\ \A k \in 1 .. Len(old) : old[k] = ms[k]
      <3> HIDE DEF n
      <3>1. Len(ms) - n \in 0 .. Len(ms) /\ old = Oldest(ms, Len(ms) - n)
        BY <1>1, <2>1 DEF Older, n
      <3> HIDE DEF old
      <3> QED BY <3>1, OldestIs
    <2>5. /\ short \in Seq(Messages) /\ Len(short) = Len(ms) - 1 /\ Light(short)
          /\ \A k \in 1 .. Len(ms) - 1 : short[k] = ms[k]
      <3>1. Len(ms) - 1 \in 0 .. Len(ms)
        BY <1>1, <1>3
      <3> QED BY <1>3, <3>1, OldestIs DEF AlmostLight
    <2> HIDE DEF n, kept, old, short
    <2>6. Begins(old, short) /\ Len(old) \in Nat
      BY <1>1, <2>1, <2>4, <2>5 DEF Begins
    <2>7. Light(old)
      BY <2>4, <2>5, <2>6, LightBegins
    <2> DEFINE whole == Oldest(old, Len(old))
    <2>8. /\ whole \in Seq(Messages) /\ Len(whole) = Len(old)
          /\ \A k \in 1 .. Len(old) : whole[k] = old[k]
      <3>1. Len(old) \in 0 .. Len(old)
        BY <2>6
      <3> QED BY <2>4, <3>1, OldestIs
    <2>9. SummarizedCount(ms, None) = Len(old)
      <3>1. SummarizedCount(ms, None) = Largest(S)
        BY DEF SummarizedCount, old
      <3>2. Light(whole)
        <4> HIDE DEF whole
        <4>1. Begins(whole, old)
          BY <2>6, <2>8 DEF Begins
        <4> QED BY <2>4, <2>7, <2>8, <4>1, LightBegins
      <3>3. Len(old) \in S
        BY <2>6, <3>2 DEF Light
      <3>4. S \subseteq 0 .. Len(old) /\ S # {}
        BY <3>3
      <3> HIDE DEF S
      <3>5. Largest(S) \in S /\ \A j \in S : j <= Largest(S)
        BY <2>6, <3>4, LargestIs
      <3>6. Largest(S) \in 0 .. Len(old) /\ Len(old) <= Largest(S)
        BY <3>3, <3>4, <3>5
      <3> QED BY <2>6, <3>1, <3>6
    <2>10. CASE NeedsSummary(ms, None)
      <3>1. Stored(ms, None) = kept /\ Summarized(ms, None) = Elements(whole)
        BY <2>9, <2>10 DEF Stored, Summarized, kept, n, old
      <3> HIDE DEF whole
      <3>2. Elements(whole) = {ms[k] : k \in 1 .. Len(old)}
        <4>1. DOMAIN whole = 1 .. Len(old)
          BY <2>8
        <4>2. \A k \in 1 .. Len(old) : whole[k] = ms[k]
          BY <2>4, <2>8
        <4> QED BY <4>1, <4>2 DEF Elements
      <3>3. Len(ms) - Len(kept) = Len(old)
        BY <2>2, <2>4
      <3> QED BY <2>3, <3>1, <3>2, <3>3
    <2>11. CASE ~NeedsSummary(ms, None)
      <3>1. Stored(ms, None) = ms /\ Summarized(ms, None) = {} /\ 1 .. Len(ms) - Len(ms) = {}
        BY <1>1, <2>11 DEF Stored, Summarized
      <3>2. \/ ~(Tokens(ms) > (DefaultLimit * 7) \div 10)
            \/ ~(Len(old) > 0)
        BY <1>1, <1>3, <2>9, <2>11 DEF NeedsSummary
      <3>3. CASE ~(Tokens(ms) > (DefaultLimit * 7) \div 10)
        <4>1. Tokens(ms) \in Nat
          BY CostsAre, TotalIsNat DEF Tokens
        <4>2. Tokens(ms) <= (DefaultLimit * 7) \div 10
          BY <1>1, <3>3, <4>1
        <4>3. Light(ms)
          BY <1>1, <4>2, FittingIsLight
        <4> QED BY <3>1, <4>3
      <3>4. CASE ~(Len(old) > 0)
        <4>1. n = Len(ms)
          BY <1>1, <2>1, <2>4, <2>6, <3>4
        <4>2. Begins(ms, kept)
          BY <1>1, <2>2, <4>1 DEF Begins, Ends
        <4>3. Light(ms)
          BY <2>2, <2>3, <4>2, LightBegins
        <4> QED BY <3>1, <4>3
      <3> QED BY <3>2, <3>3, <3>4
    <2> QED BY <2>10, <2>11
  <1> QED BY <1>2, <1>3

-----------------------------------------------------------------------------
(***************************************************************************)
(* What PUTs carry and what becomes of it.                                 *)
(***************************************************************************)
LEMMA AppliedIs ==
    ASSUME NEW memory \in Session
    PROVE  /\ Applied(memory) \in Session
           /\ Applied(memory).messages = Stored(memory.messages, window)
           /\ Applied(memory).context = memory.context \cup Summarized(memory.messages, window)
  <1>1. memory.messages \in Seq(Messages) /\ memory.context \subseteq Messages
    BY DEF Session
  <1>2. /\ Stored(memory.messages, window) \in Seq(Messages)
        /\ Summarized(memory.messages, window) \subseteq Messages
    BY <1>1, StoredIs
  <1> QED BY <1>1, <1>2 DEF Applied, Session

\* A session that tells the conversation still does when it is stored.
LEMMA TellsApplied ==
    ASSUME RoomForSummaries, NEW memory \in Session, NEW all \in Seq(Messages),
           Tells(window, memory, all), window = None => AlmostLight(memory.messages)
    PROVE  /\ Tells(window, Applied(memory), all)
           /\ window = None => Light(Applied(memory).messages)
  <1> DEFINE ms == memory.messages
             left == Stored(ms, window)
  <1>1. ms \in Seq(Messages) /\ Ends(ms, all)
    BY DEF Session, Tells
  <1>2. left \in Seq(Messages) /\ Ends(left, ms)
    BY <1>1, StoredIs
  <1>3. Applied(memory).messages = left
        /\ Applied(memory).context = memory.context \cup Summarized(ms, window)
    BY AppliedIs
  <1>4. Ends(left, all)
    <2> HIDE DEF left, ms
    <2> QED BY <1>1, <1>2, EndsInTurn
  <1>5. ASSUME window = None
        PROVE  /\ Light(left)
               /\ memory.context \cup Summarized(ms, window)
                    = {all[k] : k \in 1 .. Len(all) - Len(left)}
    <2>1. memory.context = {all[k] : k \in 1 .. Len(all) - Len(ms)} /\ AlmostLight(ms)
      BY <1>5 DEF Tells
    <2> HIDE DEF ms
    <2>2. Light(left) /\ Summarized(ms, window) = {ms[k] : k \in 1 .. Len(ms) - Len(left)}
      BY <1>1, <1>5, <2>1, AllIsSummarized
    <2> HIDE DEF left
    <2>3. /\ Len(ms) \in Nat /\ Len(all) \in Nat /\ Len(left) \in Nat
          /\ Len(ms) <= Len(all) /\ Len(left) <= Len(ms)
      BY <1>1, <1>2 DEF Ends
    <2>4. ASSUME NEW k \in 1 .. Len(ms) - Len(left)
          PROVE  /\ ms[k] = all[Len(all) - Len(ms) + k]
                 /\ Len(all) - Len(ms) + k \in 1 .. Len(all) - Len(left)
      <3>1. k \in 1 .. Len(ms) /\ Len(all) - Len(ms) + k \in 1 .. Len(all) - Len(left)
        BY <2>3
      <3> QED BY <1>1, <3>1 DEF Ends
    <2>5. ASSUME NEW k \in 1 .. Len(all) - Len(left)
          PROVE  \/ k \in 1 .. Len(all) - Len(ms)
                 \/ \E j \in 1 .. Len(ms) - Len(left) : all[k] = ms[j]
      <3>1. CASE k <= Len(all) - Len(ms)
        BY <2>3, <3>1
      <3>2. CASE k > Len(all) - Len(ms)
        <4> DEFINE j == k - (Len(all) - Len(ms))
        <4>1. j \in 1 .. Len(ms) - Len(left) /\ Len(all) - Len(ms) + j = k
          BY <2>3, <3>2
        <4> HIDE DEF j
        <4> QED BY <2>4, <4>1
      <3> QED BY <2>3, <3>1, <3>2
    <2>6. 1 .. Len(all) - Len(ms) \subseteq 1 .. Len(all) - Len(left)
      BY <2>3
    <2> DEFINE ctx == memory.context \cup Summarized(ms, window)
               told == {all[k] : k \in 1 .. Len(all) - Len(left)}
    <2>7. ctx \subseteq told
      <3>1. memory.context \subseteq told
        BY <2>1, <2>6
      <3>2. Summarized(ms, window) \subseteq told
        BY <2>2, <2>4
      <3> QED BY <3>1, <3>2
    <2>8. told \subseteq ctx
      <3>1. SUFFICES ASSUME NEW k \in 1 .. Len(all) - Len(left) PROVE all[k] \in ctx
        OBVIOUS
      <3>2. CASE k \in 1 .. Len(all) - Len(ms)
        BY <2>1, <3>2
      <3>3. CASE \E j \in 1 .. Len(ms) - Len(left) : all[k] = ms[j]
        BY <2>2, <3>3
      <3> QED BY <2>5, <3>2, <3>3
    <2> QED BY <2>2, <2>7, <2>8
  <1> HIDE DEF left, ms
  <1> QED BY <1>3, <1>4, <1>5 DEF Tells

LEMMA EmptyTells ==
    ASSUME NEW memory \in Session, memory.messages = <<>>, memory.context = {}
    PROVE  \A w : Tells(w, memory, <<>>)
  BY DEF Tells, Ends

\* A client that adds a message to such a session tells the conversation with it.
LEMMA TellsAppended ==
    ASSUME NEW w, NEW memory \in Session, NEW all \in Seq(Messages), Tells(w, memory, all),
           NEW m \in Messages
    PROVE  Tells(w, [memory EXCEPT !.messages = Append(@, m)], Append(all, m))
  <1> DEFINE ms == memory.messages
             more == Append(ms, m)
             full == Append(all, m)
             next == [memory EXCEPT !.messages = Append(@, m)]
  <1>1. /\ ms \in Seq(Messages) /\ next.messages = more /\ next.context = memory.context
        /\ Len(ms) <= Len(all) /\ Len(ms) \in Nat /\ Len(all) \in Nat
        /\ \A k \in 1 .. Len(ms) : ms[k] = all[Len(all) - Len(ms) + k]
    BY DEF Session, Tells, Ends
  <1>2. w = None => memory.context = {all[k] : k \in 1 .. Len(all) - Len(ms)}
    BY DEF Tells
  <1> HIDE DEF ms, next
  <1>3. /\ Len(more) = Len(ms) + 1 /\ more[Len(ms) + 1] = m
        /\ \A k \in 1 .. Len(ms) : more[k] = ms[k]
        /\ Len(full) = Len(all) + 1 /\ full[Len(all) + 1] = m
        /\ \A k \in 1 .. Len(all) : full[k] = all[k]
    BY <1>1
  <1> HIDE DEF more, full
  <1>4. ASSUME NEW k \in 1 .. Len(more) PROVE more[k] = full[Len(full) - Len(more) + k]
    <2>1. Len(full) - Len(more) = Len(all) - Len(ms)
      BY <1>1, <1>3
    <2>2. CASE k = Len(ms) + 1
      <3>1. Len(all) - Len(ms) + k = Len(all) + 1
        BY <1>1, <2>2
      <3> QED BY <1>3, <2>1, <2>2, <3>1
    <2>3. CASE k # Len(ms) + 1
      <3>1. k \in 1 .. Len(ms) /\ Len(all) - Len(ms) + k \in 1 .. Len(all)
        BY <1>1, <1>3, <2>3
      <3> QED BY <1>1, <1>3, <2>1, <3>1
    <2> QED BY <2>2, <2>3
  <1>5. w = None => next.context = {full[k] : k \in 1 .. Len(full) - Len(more)}
    <2>1. Len(full) - Len(more) = Len(all) - Len(ms)
      BY <1>1, <1>3
    <2>2. 1 .. Len(all) - Len(ms) \subseteq 1 .. Len(all)
      BY <1>1
    <2>3. \A k \in 1 .. Len(all) - Len(ms) : full[k] = all[k]
      BY <1>3, <2>2
    <2>4. {full[k] : k \in 1 .. Len(all) - Len(ms)} = {all[k] : k \in 1 .. Len(all) - Len(ms)}
      BY <2>3
    <2> QED BY <1>1, <1>2, <2>1, <2>4
  <1>6. Len(more) <= Len(full)
    BY <1>1, <1>3
  <1>7. Tells(w, next, full)
    BY <1>1, <1>4, <1>5, <1>6 DEF Tells, Ends
  <1> QED BY <1>7 DEF next, full

\* What a client has read of a session tells the conversation, if it has read all of it.
LEMMA ReadIs ==
    ASSUME session \in Session
    PROVE  LET base == [session EXCEPT !.messages = Truncated(@, window)]
           IN  /\ base \in Session
               /\ \A all \in Seq(Messages) : Tells(window, session, all) => Tells(window, base, all)
               /\ window = None => base.messages = session.messages
  <1> DEFINE ms == session.messages
             base == [session EXCEPT !.messages = Truncated(@, window)]
  <1>1. ms \in Seq(Messages)
    BY DEF Session
  <1>2. Truncated(ms, window) \in Seq(Messages) /\ Ends(Truncated(ms, window), ms)
    <2> HIDE DEF ms
    <2> QED BY <1>1, TruncatedIs
  <1>3. base \in Session /\ base.messages = Truncated(ms, window) /\ base.context = session.context
    BY <1>2 DEF Session
  <1>4. window = None => Truncated(ms, window) = ms
    BY DEF Truncated
  <1> HIDE DEF ms, base
  <1>5. ASSUME NEW all \in Seq(Messages), Tells(window, session, all)
        PROVE  Tells(window, base, all)
    <2>1. Ends(ms, all)
      BY <1>5 DEF Tells, ms
    <2>2. Ends(Truncated(ms, window), all)
      BY <1>1, <1>2, <2>1, EndsInTurn
    <2> QED BY <1>3, <1>4, <1>5, <2>2 DEF Tells, ms
  <1> QED BY <1>3, <1>4, <1>5 DEF base, ms

\* The methods that read: what they make of a session adds at most their message.
Reading == AllKinds \ {"open", "rewrite"}

LEMMA MergedIs ==
    ASSUME NEW kind, NEW old \in SUBSET Paths, NEW new \in SUBSET Paths
    PROVE  MergedData(kind, old, new) \subseteq Paths
  <1>1. {p \in old : \A q \in new : q[1] # p[1]} \subseteq Paths
    OBVIOUS
  <1> DEFINE kept == {p \in old : \A q \in new : q[1] # p[1]}
  <1> HIDE DEF kept
  <1>2. MergedData(kind, old, new) = CASE kind = "mergeData" -> kept \cup new
                                       [] kind = "deepMerge" -> old \cup new
                                       [] OTHER -> new
    BY DEF MergedData, kept
  <1>3. kept \subseteq Paths
    BY <1>1 DEF kept
  <1> QED BY <1>2, <1>3

LEMMA NewSessionIs ==
    ASSUME NEW kind \in Reading, NEW arg \in ArgumentTypes, NEW base \in Session,
           arg.message # Absent <=> kind = "append"
    PROVE  /\ NewSession(kind, arg, base) \in Session
           /\ NewSession(kind, arg, base).context = base.context
           /\ arg.message = Absent => NewSession(kind, arg, base).messages = base.messages
           /\ arg.message # Absent
                => /\ arg.message \in Messages
                   /\ NewSession(kind, arg, base)
                        = [base EXCEPT !.messages = Append(@, arg.message)]
                   /\ NewSession(kind, arg, base).messages = Append(base.messages, arg.message)
  <1>1. /\ base.messages \in Seq(Messages) /\ base.memories \subseteq Memories
        /\ base.data \subseteq Paths /\ arg.memories \subseteq Memories /\ arg.data \subseteq Paths
        /\ arg.message \in Messages \cup {Absent}
    BY DEF Session, ArgumentTypes
  <1>2. CASE kind = "append"
    <2>1. NewSession(kind, arg, base) = [base EXCEPT !.messages = Append(@, arg.message)]
      BY <1>2 DEF NewSession
    <2>2. arg.message \in Messages /\ Append(base.messages, arg.message) \in Seq(Messages)
      BY <1>1, <1>2
    <2> QED BY <1>2, <2>1, <2>2 DEF Session
  <1>3. CASE kind \in {"addMemory", "replaceMemories"}
    <2>1. \/ NewSession(kind, arg, base) = [base EXCEPT !.memories = @ \cup arg.memories,
                                                        !.strategy = "default"]
          \/ NewSession(kind, arg, base) = [base EXCEPT !.memories = arg.memories,
                                                        !.strategy = "default"]
      BY <1>3 DEF NewSession
    <2> QED BY <1>1, <1>3, <2>1 DEF Session
  <1>4. CASE kind \in {"mergeData", "deepMerge", "replaceData", "setData"}
    <2>1. NewSession(kind, arg, base) =
            [base EXCEPT !.data = MergedData(kind, @, arg.data), !.strategy = "default"]
      BY <1>4 DEF NewSession
    <2>2. MergedData(kind, base.data, arg.data) \subseteq Paths
      BY <1>1, MergedIs
    <2> QED BY <1>4, <2>1, <2>2 DEF Session
  <1> QED BY <1>2, <1>3, <1>4 DEF Reading, AllKinds

\* The PUT of a method is made of what it read and what it adds.
LEMMA UpdateIs ==
    ASSUME NEW kind \in Reading, NEW arg \in ArgumentTypes, NEW base \in Session,
           arg.message # Absent <=> kind = "append", NEW c \in Clients, NEW p,
           \E stale \in BOOLEAN :
             p = Put(c, "update", NewSession(kind, arg, base), arg.message, stale)
    PROVE  /\ p \in PutTypes /\ Made(p)
           /\ p.by = c /\ p.what = "update" /\ p.adds = arg.message
           /\ p.memory = NewSession(kind, arg, base)
  <1> DEFINE next == NewSession(kind, arg, base)
  <1>1. /\ next \in Session
        /\ arg.message # Absent => next.messages = Append(base.messages, arg.message)
    BY NewSessionIs
  <1> HIDE DEF next
  <1>2. PICK stale \in BOOLEAN :
          p = [by |-> c, what |-> "update", memory |-> next, adds |-> arg.message, stale |-> stale]
    BY DEF Put, next
  <1>3. arg.message \in Messages \cup {Absent}
    BY DEF ArgumentTypes
  <1>4. p \in PutTypes
    BY <1>1, <1>2, <1>3 DEF PutTypes
  <1>5. ASSUME arg.message # Absent
        PROVE  next.messages # <<>> /\ next.messages[Len(next.messages)] = arg.message
    <2>1. base.messages \in Seq(Messages) /\ next.messages = Append(base.messages, arg.message)
      BY <1>1, <1>5 DEF Session
    <2> QED BY <2>1
  <1> QED BY <1>2, <1>4, <1>5 DEF Made, next

\* It tells the conversation that its client read, and is light but for what is added.
LEMMA UpdateTells ==
    ASSUME NEW kind \in Reading, NEW arg \in ArgumentTypes, NEW base \in Session,
           arg.message # Absent <=> kind = "append", NEW p,
           p.memory = NewSession(kind, arg, base), p.adds = arg.message
    PROVE  /\ \A w, all : all \in Seq(Messages) /\ Tells(w, base, all)
                            => Tells(w, p.memory, AfterPut(p, all))
           /\ RoomForSummaries /\ Light(base.messages) => AlmostLight(p.memory.messages)
  <1> DEFINE next == NewSession(kind, arg, base)
  <1>1. /\ next.context = base.context
        /\ arg.message = Absent => next.messages = base.messages
        /\ arg.message # Absent
             => /\ arg.message \in Messages
                /\ next = [base EXCEPT !.messages = Append(@, arg.message)]
                /\ next.messages = Append(base.messages, arg.message)
    BY NewSessionIs
  <1>2. p.memory = next /\ base.messages \in Seq(Messages)
    BY DEF Session
  <1> HIDE DEF next
  <1>3. CASE arg.message = Absent
    BY <1>1, <1>2, <1>3, LightIsAlmost DEF Tells, AfterPut
  <1>4. CASE arg.message # Absent
    <2>1. ASSUME NEW w, NEW all \in Seq(Messages), Tells(w, base, all)
          PROVE  Tells(w, next, Append(all, arg.message))
      BY <1>1, <1>4, <2>1, TellsAppended
    <2>2. \A all : AfterPut(p, all) = Append(all, arg.message)
      BY <1>4 DEF AfterPut
    <2>3. RoomForSummaries /\ Light(base.messages) => AlmostLight(next.messages)
      BY <1>1, <1>2, <1>4, AppendIsAlmost
    <2> QED BY <1>2, <2>1, <2>2, <2>3
  <1> QED BY <1>3, <1>4

-----------------------------------------------------------------------------
(***************************************************************************)
(* A step of one client, or of none, leaves the PUTs of the others.        *)
(***************************************************************************)
\* ps are the PUTs of all but client c, as far as clients wait for them.
Rest(ps, c) ==
    /\ ps \subseteq PutTypes
    /\ \A q \in ps : /\ Made(q) /\ (q.by = c => c = None)
                     /\ q.by # None => \E p \in puts : p.by = q.by /\ p.what = q.what
    /\ \A p \in puts : p.by \notin {c, None} => \E q \in ps : q.by = p.by
    /\ \A q, r \in ps : q.by = r.by /\ q.by # None => q = r

\* The PUTs of client c after its step, which leaves it in x.
Own(ps, c, x) ==
    /\ ps \subseteq PutTypes
    /\ \A q \in ps : Made(q) /\ q.by = c /\ x.pc = Waiting(q.what)
    /\ \A q, r \in ps : q = r
    /\ x.pc \in {"create", "put"} => ps # {}

LEMMA ClientMoves ==
    ASSUME SessionInv, NEW c \in Clients, NEW x \in CallTypes, InCall(x),
           NEW rest, NEW own, Rest(rest, c), Own(own, c, x),
           call' = [call EXCEPT ![c] = x], puts' = rest \cup own
    PROVE  ClientsWait' /\ puts' \subseteq PutTypes /\ call' \in [Clients -> CallTypes]
  <1>1. /\ call \in [Clients -> CallTypes] /\ c # None /\ None \notin Clients
        /\ \A p \in PutTypes : p.by \in Clients \cup {None}
    BY ClientAssumption DEF ClientAssumption, SessionInv, SessionShape, PutTypes
  <1>2. /\ \A d \in Clients : call'[d] = IF d = c THEN x ELSE call[d]
        /\ call' \in [Clients -> CallTypes]
    BY <1>1
  <1>3. puts' \subseteq PutTypes
    BY DEF Rest, Own
  <1>4. ASSUME NEW d \in Clients
        PROVE  /\ InCall(call[d])'
               /\ call'[d].pc \in {"create", "put"} => \E p \in puts' : p.by = d
    <2>1. CASE d = c
      <3>1. InCall(call'[d])
        BY <1>2, <2>1
      <3>2. ASSUME x.pc \in {"create", "put"} PROVE \E p \in own : p.by = c
        BY <3>2 DEF Own
      <3> QED BY <1>2, <2>1, <3>1, <3>2 DEF InCall
    <2>2. CASE d # c
      <3>1. call'[d] = call[d] /\ d \notin {c, None}
        BY <1>1, <1>2, <2>2
      <3>2. InCall(call[d]) /\ (call[d].pc \in {"create", "put"} => \E p \in puts : p.by = d)
        BY DEF SessionInv, ClientsWait
      <3>3. ASSUME NEW p \in puts, p.by = d PROVE \E q \in puts' : q.by = d
        BY <3>1, <3>3 DEF Rest
      <3> QED BY <3>1, <3>2, <3>3 DEF InCall
    <2> QED BY <2>1, <2>2
  <1>5. ASSUME NEW q \in puts'
        PROVE  Made(q) /\ (q.by # None => call'[q.by].pc = Waiting(q.what))
    <2>1. CASE q \in own
      BY <1>2, <2>1 DEF Own
    <2>2. CASE q \in rest
      <3>1. Made(q) /\ q.by # c
        BY <1>1, <2>2 DEF Rest
      <3>2. ASSUME q.by # None PROVE call'[q.by].pc = Waiting(q.what)
        <4>1. PICK p \in puts : p.by = q.by /\ p.what = q.what
          BY <2>2, <3>2 DEF Rest
        <4>2. q.by \in Clients
          BY <1>1, <1>3, <3>2
        <4>3. call[p.by].pc = Waiting(p.what)
          BY <3>2, <4>1 DEF SessionInv, ClientsWait
        <4> QED BY <1>2, <3>1, <4>1, <4>2, <4>3
      <3> QED BY <3>1, <3>2
    <2> QED BY <2>1, <2>2
  <1>6. ASSUME NEW q \in puts', NEW r \in puts', q.by = r.by, q.by # None PROVE q = r
    <2>1. CASE q \in own \/ r \in own
      <3>1. q.by = c
        BY <1>6, <2>1 DEF Own
      <3>2. q \in own /\ r \in own
        BY <1>1, <1>6, <3>1 DEF Rest
      <3> QED BY <3>2 DEF Own
    <2>2. CASE q \in rest /\ r \in rest
      BY <1>6, <2>2 DEF Rest
    <2> QED BY <2>1, <2>2
  <1>7. ClientsWait'
    BY <1>4, <1>5, <1>6 DEF ClientsWait, Made, Waiting
  <1> QED BY <1>2, <1>3, <1>7

\* The same when no client moves.
LEMMA ServerMoves ==
    ASSUME SessionInv, Rest(puts', None), call' = call
    PROVE  ClientsWait' /\ puts' \subseteq PutTypes
  <1>1. \A p \in PutTypes : p.by \in Clients \cup {None}
    BY DEF PutTypes
  <1>2. ASSUME NEW d \in Clients
        PROVE  /\ InCall(call[d])'
               /\ call'[d].pc \in {"create", "put"} => \E p \in puts' : p.by = d
    <2>1. InCall(call[d]) /\ (call[d].pc \in {"create", "put"} => \E p \in puts : p.by = d)
      BY DEF SessionInv, ClientsWait
    <2>2. ASSUME NEW p \in puts, p.by = d PROVE \E q \in puts' : q.by = d
      BY <2>2, ClientAssumption DEF Rest, ClientAssumption
    <2> QED BY <2>1, <2>2 DEF InCall
  <1>3. ASSUME NEW q \in puts'
        PROVE  Made(q) /\ (q.by # None => call'[q.by].pc = Waiting(q.what))
    <2>1. Made(q)
      BY DEF Rest
    <2>2. ASSUME q.by # None PROVE call'[q.by].pc = Waiting(q.what)
      <3>1. PICK p \in puts : p.by = q.by /\ p.what = q.what
        BY <2>2 DEF Rest
      <3> QED BY <2>2, <3>1 DEF SessionInv, ClientsWait
    <2> QED BY <2>1, <2>2
  <1>4. \A q, r \in puts' : q.by = r.by /\ q.by # None => q = r
    BY DEF Rest
  <1>5. ClientsWait'
    BY <1>2, <1>3, <1>4 DEF ClientsWait, Made, Waiting
  <1> QED BY <1>5 DEF Rest

\* What is left of the PUTs without those of c, without p, or made stale.
LEMMA IdleRest ==
    ASSUME SessionInv, NEW c \in Clients, call[c].pc \in {"idle", "get"}
    PROVE  Rest(puts, c)
  <1>1. ASSUME NEW p \in puts PROVE p.by # c
    <2>1. Waiting(p.what) \in {"create", "put"}
      BY DEF Waiting
    <2> QED BY <2>1, ClientAssumption DEF ClientAssumption, SessionInv, ClientsWait
  <1> QED BY <1>1 DEF Rest, SessionInv, SessionShape, ClientsWait

LEMMA WithoutRest ==
    ASSUME SessionInv, NEW p \in puts
    PROVE  Rest(puts \ {p}, p.by)
  <1>1. ASSUME NEW q \in puts \ {p}, q.by = p.by PROVE p.by = None
    BY <1>1 DEF SessionInv, ClientsWait
  <1> QED BY <1>1 DEF Rest, SessionInv, SessionShape, ClientsWait

LEMMA OutdatedIs ==
    ASSUME NEW ps \in SUBSET PutTypes, NEW q \in Outdated(ps)
    PROVE  /\ q \in PutTypes /\ q.stale
           /\ \E p \in ps : /\ q = [p EXCEPT !.stale = TRUE] /\ q.by = p.by /\ q.what = p.what
                            /\ q.memory = p.memory /\ q.adds = p.adds
  BY DEF Outdated, PutTypes

LEMMA OutdatedRest ==
    ASSUME NEW c, NEW ps \in SUBSET PutTypes, Rest(ps, c)
    PROVE  Rest(Outdated(ps), c)
  <1>1. ASSUME NEW q \in Outdated(ps)
        PROVE  /\ q \in PutTypes /\ Made(q) /\ (q.by = c => c = None)
               /\ q.by # None => \E p \in puts : p.by = q.by /\ p.what = q.what
    <2>1. PICK p \in ps : /\ q = [p EXCEPT !.stale = TRUE] /\ q.by = p.by /\ q.what = p.what
                          /\ q.memory = p.memory /\ q.adds = p.adds
      BY OutdatedIs
    <2>2. q \in PutTypes
      BY OutdatedIs
    <2> QED BY <2>1, <2>2 DEF Rest, Made
  <1>2. ASSUME NEW p \in puts, p.by \notin {c, None} PROVE \E q \in Outdated(ps) : q.by = p.by
    <2>1. PICK q \in ps : q.by = p.by
      BY <1>2 DEF Rest
    <2>2. [q EXCEPT !.stale = TRUE] \in Outdated(ps) /\ [q EXCEPT !.stale = TRUE].by = q.by
      BY DEF Outdated, PutTypes
    <2> QED BY <2>1, <2>2
  <1>3. ASSUME NEW q \in Outdated(ps), NEW r \in Outdated(ps), q.by = r.by, q.by # None
        PROVE  q = r
    <2>1. PICK x \in ps : q = [x EXCEPT !.stale = TRUE] /\ q.by = x.by
      BY OutdatedIs
    <2>2. PICK y \in ps : r = [y EXCEPT !.stale = TRUE] /\ r.by = y.by
      BY OutdatedIs
    <2>3. x = y
      BY <1>3, <2>1, <2>2 DEF Rest
    <2> QED BY <2>1, <2>2, <2>3
  <1> QED BY <1>1, <1>2, <1>3 DEF Rest

-----------------------------------------------------------------------------
(***************************************************************************)
(* The steps before a PUT is stored: the PUTs they leave or make.          *)
(***************************************************************************)
Same(q, p) == q.what = p.what /\ q.memory = p.memory /\ q.adds = p.adds /\ q.stale = p.stale

\* What a method's PUT is made of: the session it read, or an empty one in its place.
MadeOf(q, kind, arg, base) ==
    /\ arg.message # Absent <=> kind = "append"
    /\ q.what = "update" /\ q.adds = arg.message /\ q.memory = NewSession(kind, arg, base)
    /\ \/ session \in Session /\ base = [session EXCEPT !.messages = Truncated(@, window)]
       \/ /\ base = Empty
          /\ ReadsFail \/ \E p \in puts : p.what = "create" /\ p.stale = q.stale

Fresh(q) ==
    \/ q.what = "rewrite"
    \/ q.what = "create" /\ (session = Absent \/ ReadsFail)
    \/ \E kind \in Reading, arg \in ArgumentTypes, base \in Session : MadeOf(q, kind, arg, base)

\* A step that stores nothing: each PUT is an earlier one, or fresh.
Prepares ==
    /\ SessionInv' /\ UNCHANGED <<window, session, said, raced>>
    /\ \A q \in puts' : (\E p \in puts : Same(q, p)) \/ Fresh(q)

LEMMA EmptyIs == Empty \in Session /\ Empty.messages = <<>> /\ Empty.context = {}
  BY DEF Empty, Session

LEMMA IdleIs == Idle \in CallTypes /\ InCall(Idle) /\ Idle.pc = "idle"
  BY DEF Idle, NoArgument, CallTypes, ArgumentTypes, InCall, AllKinds

LEMMA ArgumentsAre ==
    ASSUME NEW kind \in Kinds, NEW arg \in Arguments(kind)
    PROVE  /\ kind \in AllKinds /\ arg \in ArgumentTypes
           /\ arg.message # Absent <=> kind = "append"
  <1>1. kind \in AllKinds
    BY ClientAssumption DEF ClientAssumption
  <1>2. NextMessages \subseteq Messages /\ Absent \notin Messages
    BY AbsenceAssumption DEF NextMessages, Unsaid
  <1>3. CASE kind = "open"
    BY <1>3 DEF Arguments, NoArgument, ArgumentTypes, AllKinds
  <1>4. CASE kind = "append"
    <2>1. PICK m \in NextMessages : arg = [NoArgument EXCEPT !.message = m]
      BY <1>4 DEF Arguments
    <2> QED BY <1>1, <1>2, <1>4, <2>1 DEF NoArgument, ArgumentTypes
  <1>5. CASE kind \in {"addMemory", "replaceMemories", "rewrite"}
    <2>1. PICK x \in Memories : arg = [NoArgument EXCEPT !.memories = {x}]
      BY <1>5 DEF Arguments
    <2> QED BY <1>1, <1>5, <2>1 DEF NoArgument, ArgumentTypes
  <1>6. CASE kind \in {"mergeData", "deepMerge", "replaceData", "setData"}
    <2>1. PICK x \in Paths : arg = [NoArgument EXCEPT !.data = {x}]
      BY <1>6 DEF Arguments
    <2> QED BY <1>1, <1>6, <2>1 DEF NoArgument, ArgumentTypes
  <1> QED BY <1>1, <1>3, <1>4, <1>5, <1>6 DEF AllKinds

\* The same for the step of a client that sends own and goes on in x.
LEMMA ClientPrepares ==
    ASSUME SessionInv, NEW c \in Clients, NEW x \in CallTypes, InCall(x),
           NEW rest, NEW own, Rest(rest, c), Own(own, c, x),
           call' = [call EXCEPT ![c] = x], puts' = rest \cup own,
           UNCHANGED <<window, session, said, raced>>, calls' \in 0 .. MaxCalls,
           \A q \in rest : \E p \in puts : Same(q, p),
           \A q \in own : Fresh(q)
    PROVE  Prepares
  <1>1. ClientsWait' /\ puts' \subseteq PutTypes /\ call' \in [Clients -> CallTypes]
    BY ClientMoves
  <1>2. SessionInv'
    BY <1>1 DEF SessionInv, SessionShape
  <1> QED BY <1>2 DEF Prepares

\* A client that sends nothing more, and one that sends a PUT.
LEMMA ClientEnds ==
    ASSUME SessionInv, NEW c \in Clients, NEW rest, Rest(rest, c),
           call' = [call EXCEPT ![c] = Idle], puts' = rest,
           UNCHANGED <<window, session, said, raced>>, calls' \in 0 .. MaxCalls,
           \A q \in rest : \E p \in puts : Same(q, p)
    PROVE  Prepares
  <1> DEFINE own == {}
             x == Idle
  <1>1. Own(own, c, x) /\ puts' = rest \cup own /\ \A q \in own : Fresh(q)
    BY IdleIs DEF Own
  <1>2. x \in CallTypes /\ InCall(x) /\ call' = [call EXCEPT ![c] = x]
    BY IdleIs
  <1> HIDE DEF own, x
  <1> QED BY <1>1, <1>2, ClientPrepares

LEMMA ClientSends ==
    ASSUME SessionInv, NEW c \in Clients, NEW x \in CallTypes, InCall(x), NEW rest, Rest(rest, c),
           NEW p \in PutTypes, Made(p), Fresh(p), p.by = c, x.pc = Waiting(p.what),
           call' = [call EXCEPT ![c] = x], puts' = rest \cup {p},
           UNCHANGED <<window, session, said, raced>>, calls' \in 0 .. MaxCalls,
           \A q \in rest : \E r \in puts : Same(q, r)
    PROVE  Prepares
  <1> DEFINE own == {p}
  <1>1. Own(own, c, x) /\ puts' = rest \cup own /\ \A q \in own : Fresh(q)
    BY DEF Own
  <1> HIDE DEF own
  <1> QED BY <1>1, ClientPrepares

LEMMA SameAsItself == \A ps : \A q \in ps : Same(q, q)
  BY DEF Same

LEMMA CallPrepares == ASSUME SessionInv, NEW c \in Clients, Call(c) PROVE Prepares
  <1>1. PICK kind \in Kinds : \E arg \in Arguments(kind) :
          /\ call' = [call EXCEPT ![c] = [pc |-> IF kind = "rewrite" THEN "put" ELSE "get",
                                         kind |-> kind, arg |-> arg]]
          /\ puts' = IF kind = "rewrite"
                     THEN puts \cup {Put(c, "rewrite", Given(arg), Absent, FALSE)} ELSE puts
    BY DEF Call
  <1>2. PICK arg \in Arguments(kind) :
          /\ call' = [call EXCEPT ![c] = [pc |-> IF kind = "rewrite" THEN "put" ELSE "get",
                                         kind |-> kind, arg |-> arg]]
          /\ puts' = IF kind = "rewrite"
                     THEN puts \cup {Put(c, "rewrite", Given(arg), Absent, FALSE)} ELSE puts
    BY <1>1
  <1> DEFINE x == [pc |-> IF kind = "rewrite" THEN "put" ELSE "get", kind |-> kind, arg |-> arg]
             p == Put(c, "rewrite", Given(arg), Absent, FALSE)
             own == IF kind = "rewrite" THEN {p} ELSE {}
  <1>3. /\ kind \in AllKinds /\ arg \in ArgumentTypes
        /\ arg.message # Absent <=> kind = "append"
    BY ArgumentsAre
  <1>4. x \in CallTypes /\ InCall(x)
    BY <1>3 DEF CallTypes, InCall
  <1>5. Rest(puts, c)
    <2>1. call[c].pc = "idle"
      BY IdleIs DEF Call
    <2> QED BY <2>1, IdleRest
  <1>6. ASSUME kind = "rewrite" PROVE p \in PutTypes /\ Made(p) /\ p.by = c /\ p.what = "rewrite"
    <2>1. /\ Given(arg) \in Session /\ Given(arg).messages = <<>> /\ Given(arg).context = {}
      <3>1. arg.memories \subseteq Memories
        BY <1>3 DEF ArgumentTypes
      <3>2. /\ Given(arg) = [Empty EXCEPT !.memories = arg.memories]
            /\ Given(arg).messages = Empty.messages /\ Given(arg).context = Empty.context
        BY DEF Given, Empty
      <3> QED BY <3>1, <3>2, EmptyIs DEF Session
    <2> QED BY <2>1 DEF Put, PutTypes, Made
  <1>7. Own(own, c, x) /\ \A q \in own : Fresh(q)
    <2> HIDE DEF p
    <2> QED BY <1>6 DEF Own, Waiting, Fresh
  <1>8. calls' \in 0 .. MaxCalls
    BY ClientAssumption DEF Call, SessionInv, SessionShape, ClientAssumption
  <1>9. /\ call' = [call EXCEPT ![c] = x] /\ puts' = puts \cup own
        /\ UNCHANGED <<window, session, said, raced>>
    BY <1>2 DEF Call
  <1> HIDE DEF x, own
  <1>10. \A q \in puts : \E r \in puts : Same(q, r)
    BY SameAsItself
  <1> QED BY <1>4, <1>5, <1>7, <1>8, <1>9, <1>10, ClientPrepares

LEMMA GetPrepares ==
    ASSUME SessionInv, NEW c \in Clients, GetFound(c) \/ GetMissing(c) \/ GetFails(c)
    PROVE  Prepares
  <1>1. /\ call[c].pc = "get" /\ call[c] \in CallTypes /\ InCall(call[c])
        /\ UNCHANGED <<window, session, said, raced>> /\ calls' \in 0 .. MaxCalls
        /\ call \in [Clients -> CallTypes]
    BY DEF GetFound, GetMissing, GetFails, SessionInv, SessionShape, ClientsWait
  <1>2. Rest(puts, c)
    BY <1>1, IdleRest
  <1>3. /\ \A q \in puts : \E r \in puts : Same(q, r)
        /\ call[c].kind \in AllKinds /\ call[c].kind # "rewrite" /\ call[c].arg \in ArgumentTypes
        /\ call[c].arg.message # Absent <=> call[c].kind = "append"
    BY <1>1, SameAsItself DEF InCall, CallTypes
  <1>4. CASE call' = [call EXCEPT ![c] = Idle] /\ UNCHANGED puts
    BY <1>1, <1>2, <1>3, <1>4, ClientEnds
  <1>5. ASSUME NEW base \in Session, Send(c, base, FALSE), call[c].kind # "open",
               \/ session \in Session /\ base = [session EXCEPT !.messages = Truncated(@, window)]
               \/ base = Empty /\ ReadsFail
        PROVE  Prepares
    <2> DEFINE x == [call[c] EXCEPT !.pc = "put"]
               kind == call[c].kind
               arg == call[c].arg
               p == Put(c, "update", NewSession(kind, arg, base), arg.message, FALSE)
    <2>1. kind \in Reading
      BY <1>3, <1>5 DEF Reading
    <2>2. call' = [call EXCEPT ![c] = x] /\ puts' = puts \cup {p}
      BY <1>1, <1>5 DEF Send
    <2>3. x \in CallTypes /\ InCall(x) /\ x.pc = "put"
      BY <1>1 DEF CallTypes, InCall
    <2> HIDE DEF x
    <2>4. /\ p \in PutTypes /\ Made(p) /\ p.by = c /\ p.what = "update"
          /\ p.adds = arg.message /\ p.memory = NewSession(kind, arg, base)
      <3>1. \E stale \in BOOLEAN :
              p = Put(c, "update", NewSession(kind, arg, base), arg.message, stale)
        OBVIOUS
      <3> HIDE DEF p
      <3> QED BY <1>3, <2>1, <3>1, UpdateIs
    <2> HIDE DEF p
    <2>5. x.pc = Waiting(p.what)
      BY <2>3, <2>4 DEF Waiting
    <2>6. MadeOf(p, kind, arg, base)
      BY <1>3, <1>5, <2>4 DEF MadeOf
    <2> HIDE DEF kind, arg
    <2>7. Fresh(p)
      BY <1>3, <2>1, <2>6 DEF Fresh, arg
    <2> QED BY <1>1, <1>2, <1>3, <2>2, <2>3, <2>4, <2>5, <2>7, ClientSends
  <1>6. CASE GetFound(c)
    <2>1. session \in Session
      BY <1>6 DEF GetFound, SessionInv, SessionShape
    <2>2. [session EXCEPT !.messages = Truncated(@, window)] \in Session
      BY <2>1, ReadIs
    <2>3. CASE call[c].kind = "open"
      BY <1>4, <1>6, <2>3 DEF GetFound
    <2>4. CASE call[c].kind # "open"
      BY <1>5, <1>6, <2>1, <2>2, <2>4 DEF GetFound
    <2> QED BY <2>3, <2>4
  <1>7. CASE GetMissing(c)
    <2> DEFINE x == [call[c] EXCEPT !.pc = "create"]
               memory == [Empty EXCEPT !.strategy = call[c].arg.strategy]
               p == Put(c, "create", memory, Absent, FALSE)
    <2>1. call' = [call EXCEPT ![c] = x] /\ puts' = puts \cup {p}
      BY <1>1, <1>7 DEF GetMissing
    <2>2. x \in CallTypes /\ InCall(x) /\ x.pc = "create"
      BY <1>1 DEF CallTypes, InCall
    <2>3. memory \in Session /\ memory.messages = <<>> /\ memory.context = {}
      <3>1. call[c].arg.strategy \in {"default", "custom"}
        BY <1>3 DEF ArgumentTypes
      <3>2. memory.messages = Empty.messages /\ memory.context = Empty.context
        BY DEF Empty
      <3> QED BY <3>1, <3>2, EmptyIs DEF Session
    <2> HIDE DEF memory, x
    <2>4. p \in PutTypes /\ Made(p) /\ p.by = c /\ p.what = "create"
      BY <2>3 DEF Put, PutTypes, Made
    <2> HIDE DEF p
    <2>5. x.pc = Waiting(p.what)
      BY <2>2, <2>4 DEF Waiting
    <2>6. Fresh(p)
      BY <1>7, <2>4 DEF Fresh, GetMissing
    <2> QED BY <1>1, <1>2, <1>3, <2>1, <2>2, <2>4, <2>5, <2>6, ClientSends
  <1>8. CASE GetFails(c)
    <2>1. CASE call[c].kind = "setData"
      <3>1. ReadsFail /\ Send(c, Empty, FALSE)
        BY <1>8, <2>1 DEF GetFails
      <3> QED BY <1>5, <2>1, <3>1, EmptyIs
    <2>2. CASE call[c].kind # "setData"
      BY <1>4, <1>8, <2>2 DEF GetFails
    <2> QED BY <2>1, <2>2
  <1> QED BY <1>6, <1>7, <1>8

\* A PUT that failed: its client ends the method or, without the session it did not create,
\* goes on.
LEMMA FailurePrepares ==
    ASSUME SessionInv, NEW p \in puts, p.by # None, NEW rest, Rest(rest, p.by),
           \A q \in rest : \E r \in puts : Same(q, r),
           AfterFailure(p, rest), UNCHANGED <<window, session, calls, said, raced>>
    PROVE  Prepares
  <1> DEFINE c == p.by
  <1>1. /\ c \in Clients /\ call \in [Clients -> CallTypes] /\ call[c] \in CallTypes
        /\ calls' \in 0 .. MaxCalls /\ p \in PutTypes
        /\ call[c].pc = Waiting(p.what) /\ InCall(call[c])
    BY DEF SessionInv, SessionShape, ClientsWait, PutTypes
  <1>2. CASE p.what = "create" /\ call[c].kind = "setData"
    <2> DEFINE x == [call[c] EXCEPT !.pc = "put"]
               arg == call[c].arg
               q == Put(c, "update", NewSession("setData", arg, Empty), Absent, p.stale)
    <2>1. call' = [call EXCEPT ![c] = x] /\ puts' = rest \cup {q}
      BY <1>1, <1>2 DEF AfterFailure
    <2>2. /\ x \in CallTypes /\ InCall(x) /\ x.pc = "put" /\ arg \in ArgumentTypes
          /\ arg.message = Absent
      BY <1>1, <1>2 DEF CallTypes, InCall
    <2> HIDE DEF x, arg
    <2>3. "setData" \in Reading /\ p.stale \in BOOLEAN
      BY <1>1 DEF Reading, AllKinds, PutTypes
    <2>4. /\ q \in PutTypes /\ Made(q) /\ q.by = c /\ q.what = "update"
          /\ q.adds = arg.message /\ q.stale = p.stale
               /\ q.memory = NewSession("setData", arg, Empty)
      <3>1. \E stale \in BOOLEAN :
              q = Put(c, "update", NewSession("setData", arg, Empty), arg.message, stale)
        BY <2>2, <2>3
      <3>2. q.stale = p.stale
        BY DEF Put
      <3> HIDE DEF q, c
      <3>3. arg.message # Absent <=> "setData" = "append"
        BY <2>2
      <3> DEFINE kind == "setData"
                 base == Empty
      <3>4. kind \in Reading /\ base \in Session /\ (arg.message # Absent <=> kind = "append")
            /\ \E stale \in BOOLEAN :
                 q = Put(c, "update", NewSession(kind, arg, base), arg.message, stale)
        BY <2>3, <3>1, <3>3, EmptyIs
      <3> HIDE DEF kind, base
      <3>5. /\ q \in PutTypes /\ Made(q) /\ q.by = c /\ q.what = "update"
            /\ q.adds = arg.message /\ q.memory = NewSession(kind, arg, base)
        BY <1>1, <2>2, <3>4, UpdateIs
      <3> QED BY <3>2, <3>5 DEF kind, base
    <2> HIDE DEF q
    <2>5. x.pc = Waiting(q.what)
      BY <2>2, <2>4 DEF Waiting
    <2>6. MadeOf(q, "setData", arg, Empty)
      BY <1>2, <2>2, <2>4 DEF MadeOf
    <2>7. Fresh(q)
      BY <2>2, <2>3, <2>6, EmptyIs DEF Fresh
    <2> HIDE DEF c
    <2>8. Rest(rest, c) /\ UNCHANGED <<window, session, said, raced>>
      BY DEF c
    <2> QED BY <1>1, <2>1, <2>2, <2>4, <2>5, <2>7, <2>8, ClientSends
  <1>3. CASE ~(p.what = "create" /\ call[c].kind = "setData")
    <2>1. call' = [call EXCEPT ![c] = Idle] /\ puts' = rest
      BY <1>3 DEF AfterFailure
    <2> QED BY <1>1, <2>1, ClientEnds
  <1> QED BY <1>2, <1>3

LEMMA GiveUpPrepares == ASSUME SessionInv, NEW p \in puts, GiveUp(p) PROVE Prepares
  <1> DEFINE late == [p EXCEPT !.by = None]
             rest == (puts \ {p}) \cup {late}
  <1>1. p \in PutTypes /\ p.by # None /\ Made(p) /\ puts \subseteq PutTypes
    BY DEF GiveUp, SessionInv, SessionShape, ClientsWait
  <1>2. /\ late \in PutTypes /\ late.by = None /\ late.what = p.what /\ late.memory = p.memory
        /\ late.adds = p.adds /\ late.stale = p.stale
    BY <1>1 DEF PutTypes
  <1> HIDE DEF late
  <1>3. Made(late) /\ Same(late, p)
    BY <1>1, <1>2 DEF Made, Same
  <1>4. Rest(puts \ {p}, p.by)
    BY WithoutRest
  <1>5. Rest(rest, p.by)
    <2>1. \A q \in puts \ {p} : /\ q \in PutTypes /\ Made(q) /\ (q.by = p.by => p.by = None)
                                /\ q.by # None => \E r \in puts : r.by = q.by /\ r.what = q.what
      BY <1>4 DEF Rest
    <2>2. \A r \in puts : r.by \notin {p.by, None} => \E q \in rest : q.by = r.by
      BY <1>4 DEF Rest
    <2>3. \A q, r \in rest : q.by = r.by /\ q.by # None => q = r
      BY <1>2, <1>4 DEF Rest
    <2>4. \A q \in rest : /\ q \in PutTypes /\ Made(q) /\ (q.by = p.by => p.by = None)
                          /\ q.by # None => \E r \in puts : r.by = q.by /\ r.what = q.what
      BY <1>1, <1>2, <1>3, <2>1
    <2> HIDE DEF rest
    <2> QED BY <2>2, <2>3, <2>4 DEF Rest
  <1>6. \A q \in rest : \E r \in puts : Same(q, r)
    BY <1>3, SameAsItself
  <1>7. AfterFailure(p, rest) /\ UNCHANGED <<window, session, calls, said, raced>>
    BY DEF GiveUp, late
  <1> HIDE DEF rest
  <1> QED BY <1>1, <1>5, <1>6, <1>7, FailurePrepares

LEMMA RefusePrepares == ASSUME SessionInv, NEW p \in puts, RefusePut(p) PROVE Prepares
  <1>1. /\ Rest(puts \ {p}, p.by) /\ UNCHANGED <<window, session, calls, said, raced>>
        /\ \A q \in puts \ {p} : \E r \in puts : Same(q, r)
    BY WithoutRest, SameAsItself DEF RefusePut
  <1>2. CASE p.by = None
    <2>1. puts' = puts \ {p} /\ call' = call
      BY <1>2 DEF RefusePut
    <2>2. Rest(puts', None)
      BY <1>1, <1>2, <2>1
    <2>3. ClientsWait' /\ puts' \subseteq PutTypes
      BY <2>1, <2>2, ServerMoves
    <2>4. SessionInv'
      BY <1>1, <2>1, <2>3 DEF SessionInv, SessionShape
    <2> QED BY <1>1, <2>1, <2>4 DEF Prepares
  <1>3. CASE p.by # None
    <2>1. AfterFailure(p, puts \ {p})
      BY <1>3 DEF RefusePut
    <2> QED BY <1>1, <1>3, <2>1, FailurePrepares
  <1> QED BY <1>2, <1>3

-----------------------------------------------------------------------------
(***************************************************************************)
(* The steps that change the session.                                      *)
(***************************************************************************)
\* The PUTs after a PUT was stored: stale ones, and that of a method that goes on with what
\* it has created.
Follows(q, next) ==
    \/ q.stale /\ \E r \in puts : q.memory = r.memory
    \/ \E kind \in Reading, arg \in ArgumentTypes :
         /\ arg.message # Absent <=> kind = "append"
         /\ q.what = "update" /\ q.adds = arg.message /\ q.memory = NewSession(kind, arg, next)

LEMMA ApplyIs ==
    ASSUME SessionInv, NEW p \in puts, ApplyPut(p)
    PROVE  /\ SessionInv' /\ window' = window
           /\ p \in PutTypes /\ Made(p) /\ p.memory \in Session
           /\ session' = Applied(p.memory) /\ session' \in Session
           /\ IF p.what = "rewrite" THEN said' = <<>> /\ raced' = FALSE
              ELSE said' = AfterPut(p, said) /\ (raced' <=> (raced \/ p.stale))
           /\ \A q \in puts' : Follows(q, session')
  <1> DEFINE c == p.by
             others == Outdated(puts \ {p})
             next == Applied(p.memory)
  <1>1. /\ p \in PutTypes /\ Made(p) /\ p.memory \in Session /\ puts \subseteq PutTypes
        /\ p.adds \in Messages \cup {Absent} /\ p.stale \in BOOLEAN /\ c \in Clients \cup {None}
        /\ said \in Seq(Messages) /\ raced \in BOOLEAN /\ call \in [Clients -> CallTypes]
    BY DEF SessionInv, SessionShape, ClientsWait, PutTypes
  <1>2. next \in Session
    BY <1>1, AppliedIs
  <1>3. UNCHANGED <<window, calls>> /\ session' = next
    BY DEF ApplyPut
  <1>4. /\ IF p.what = "rewrite" THEN said' = <<>> /\ raced' = FALSE
           ELSE said' = AfterPut(p, said) /\ (raced' <=> (raced \/ p.stale))
        /\ said' \in Seq(Messages) /\ raced' \in BOOLEAN
    <2>1. CASE p.what = "rewrite"
      <3>1. said' = <<>> /\ raced' = FALSE
        BY <2>1 DEF ApplyPut
      <3>2. <<>> \in Seq(Messages)
        OBVIOUS
      <3> QED BY <2>1, <3>1, <3>2
    <2>2. CASE p.what # "rewrite"
      <3>1. said' = AfterPut(p, said) /\ raced' = (raced \/ p.stale)
        BY <2>2 DEF ApplyPut, Recorded, AfterPut
      <3>2. AfterPut(p, said) \in Seq(Messages)
        BY <1>1 DEF AfterPut
      <3>3. raced' \in BOOLEAN /\ (raced' <=> (raced \/ p.stale))
        BY <3>1
      <3> QED BY <2>2, <3>1, <3>2, <3>3
    <2> QED BY <2>1, <2>2
  <1>5. Rest(others, c) /\ others \subseteq PutTypes
    <2>1. puts \ {p} \in SUBSET PutTypes
      BY <1>1
    <2>2. Rest(puts \ {p}, c)
      BY WithoutRest
    <2>3. Rest(others, c)
      BY <2>1, <2>2, OutdatedRest
    <2> QED BY <2>3 DEF Rest
  <1>6. \A q \in others : Follows(q, next)
    <2>1. ASSUME NEW q \in others PROVE q.stale /\ \E r \in puts : q.memory = r.memory
      <3>1. puts \ {p} \in SUBSET PutTypes
        BY <1>1
      <3> QED BY <3>1, OutdatedIs
    <2> QED BY <2>1 DEF Follows
  <1> HIDE DEF others, next
  <1>7. ASSUME ClientsWait', puts' \subseteq PutTypes, call' \in [Clients -> CallTypes]
        PROVE  SessionInv'
    BY <1>2, <1>3, <1>4, <1>7 DEF SessionInv, SessionShape
  <1>8. CASE c = None
    <2>1. puts' = others /\ call' = call
      BY <1>8 DEF ApplyPut, others
    <2>2. Rest(puts', None)
      BY <1>5, <1>8, <2>1
    <2>3. ClientsWait' /\ puts' \subseteq PutTypes
      BY <2>1, <2>2, ServerMoves
    <2>4. SessionInv'
      BY <1>1, <1>7, <2>1, <2>3
    <2> QED BY <1>1, <1>2, <1>3, <1>4, <1>6, <2>1, <2>4 DEF next
  <1>9. CASE c # None /\ p.what = "create" /\ call[c].kind # "open"
    <2> DEFINE x == [call[c] EXCEPT !.pc = "put"]
               kind == call[c].kind
               arg == call[c].arg
               q == Put(c, "update", NewSession(kind, arg, next), arg.message, FALSE)
               own == {q}
    <2>1. /\ c \in Clients /\ call[c] \in CallTypes /\ InCall(call[c])
          /\ call[c].pc = "create" /\ call[c].kind # "open"
      BY <1>1, <1>9 DEF SessionInv, ClientsWait, Waiting
    <2>2. call' = [call EXCEPT ![c] = x] /\ puts' = others \cup own
      BY <1>9, <2>1 DEF ApplyPut, others, next
    <2>3. /\ x \in CallTypes /\ InCall(x) /\ x.pc = "put" /\ kind \in Reading
          /\ arg \in ArgumentTypes /\ (arg.message # Absent <=> kind = "append")
      BY <2>1 DEF CallTypes, InCall, Reading
    <2>4. \E stale \in BOOLEAN :
            q = Put(c, "update", NewSession(kind, arg, next), arg.message, stale)
      OBVIOUS
    <2> HIDE DEF x, q, kind, arg
    <2>5. /\ q \in PutTypes /\ Made(q) /\ q.by = c /\ q.what = "update"
          /\ q.adds = arg.message /\ q.memory = NewSession(kind, arg, next)
      BY <1>2, <2>1, <2>3, <2>4, UpdateIs
    <2>6. Own(own, c, x)
      BY <2>3, <2>5 DEF Own, Waiting
    <2>7. Follows(q, next)
      BY <2>3, <2>5 DEF Follows
    <2>8. \A r \in puts' : Follows(r, next)
      BY <1>6, <2>2, <2>7
    <2> HIDE DEF own
    <2>9. ClientsWait' /\ puts' \subseteq PutTypes /\ call' \in [Clients -> CallTypes]
      BY <1>5, <2>1, <2>2, <2>3, <2>6, ClientMoves
    <2> QED BY <1>1, <1>2, <1>3, <1>4, <1>7, <2>8, <2>9 DEF next
  <1>10. CASE c # None /\ ~(p.what = "create" /\ call[c].kind # "open")
    <2> DEFINE own == {}
               x == Idle
    <2>1. call' = [call EXCEPT ![c] = x] /\ puts' = others \cup own
      BY <1>10 DEF ApplyPut, others
    <2>2. Own(own, c, x) /\ x \in CallTypes /\ InCall(x)
      BY IdleIs DEF Own
    <2>3. \A r \in puts' : Follows(r, next)
      BY <1>6, <2>1
    <2> HIDE DEF own, x
    <2>4. ClientsWait' /\ puts' \subseteq PutTypes /\ call' \in [Clients -> CallTypes]
      BY <1>1, <1>5, <1>10, <2>1, <2>2, ClientMoves
    <2> QED BY <1>1, <1>2, <1>3, <1>4, <1>7, <2>3, <2>4 DEF next
  <1> QED BY <1>8, <1>9, <1>10

LEMMA DeleteSessionIs ==
    ASSUME SessionInv, DeleteSession
    PROVE  /\ SessionInv' /\ window' = window /\ session' = Absent /\ said' = <<>> /\ ~raced'
           /\ \A q \in puts' : q.stale /\ \E r \in puts : q.memory = r.memory
  <1>1. /\ puts \subseteq PutTypes /\ puts' = Outdated(puts) /\ UNCHANGED <<window, calls, call>>
        /\ session' = Absent /\ said' = <<>> /\ raced' = FALSE
    BY DEF DeleteSession, SessionInv, SessionShape
  <1>2. Rest(puts, None)
    BY DEF Rest, SessionInv, SessionShape, ClientsWait
  <1>3. Rest(puts', None)
    BY <1>1, <1>2, OutdatedRest
  <1>4. ClientsWait' /\ puts' \subseteq PutTypes
    BY <1>1, <1>3, ServerMoves
  <1>5. SessionInv'
    <2>1. <<>> \in Seq(Messages) /\ FALSE \in BOOLEAN
      OBVIOUS
    <2>2. SessionShape
      BY DEF SessionInv
    <2>3. SessionShape'
      BY <1>1, <1>4, <2>1, <2>2 DEF SessionShape
    <2> QED BY <1>4, <2>3 DEF SessionInv
  <1>6. \A q \in puts' : q.stale /\ \E r \in puts : q.memory = r.memory
    BY <1>1, OutdatedIs
  <1> QED BY <1>1, <1>5, <1>6

LEMMA SessionStep ==
    ASSUME SessionInv, [ClientNext]_clientVars
    PROVE  \/ Prepares \/ (UNCHANGED clientVars /\ SessionInv') \/ DeleteSession
           \/ \E p \in puts : ApplyPut(p)
  <1>1. ASSUME NEW c \in Clients, Call(c) \/ GetFound(c) \/ GetMissing(c) \/ GetFails(c)
        PROVE  Prepares
    BY <1>1, CallPrepares, GetPrepares
  <1>2. ASSUME NEW p \in puts, GiveUp(p) \/ RefusePut(p) PROVE Prepares
    BY <1>2, GiveUpPrepares, RefusePrepares
  <1>3. CASE UNCHANGED clientVars
    BY <1>3 DEF clientVars, SessionInv, SessionShape, ClientsWait, InCall, Made, Waiting
  <1> QED BY <1>1, <1>2, <1>3 DEF ClientNext

LEMMA SessionInvariant == ClientSpec => []SessionInv
  <1>1. ClientInit => SessionInv
    <2>1. ASSUME ClientInit PROVE call \in [Clients -> CallTypes] /\ ClientsWait
      BY <2>1, IdleIs DEF ClientInit, ClientsWait
    <2>2. ASSUME ClientInit PROVE SessionShape
      <3>1. <<>> \in Seq(Messages) /\ 0 \in 0 .. MaxCalls
        BY ClientAssumption DEF ClientAssumption
      <3> QED BY <2>1, <2>2, <3>1 DEF ClientInit, SessionShape
    <2> QED BY <2>1, <2>2 DEF SessionInv
  <1>2. SessionInv /\ [ClientNext]_clientVars => SessionInv'
    BY SessionStep, ApplyIs, DeleteSessionIs DEF Prepares
  <1> QED BY <1>1, <1>2, PTL DEF ClientSpec

\* A waiting client has exactly one PUT on its way, and an idle one none, whichever PUTs fail,
\* are given up or answered late.
THEOREM ClientTypes == ClientSpec => []ClientTypeOK
  <1>1. ASSUME SessionInv PROVE ClientTypeOK
    <2>1. ASSUME NEW c \in Clients
          PROVE  Cardinality({p \in puts : p.by = c}) =
                   IF call[c].pc \in {"create", "put"} THEN 1 ELSE 0
      <3>1. CASE call[c].pc \in {"create", "put"}
        <4>1. PICK p \in puts : p.by = c
          BY <1>1, <3>1 DEF SessionInv, ClientsWait
        <4>2. {q \in puts : q.by = c} = {p}
          BY <1>1, <4>1, ClientAssumption DEF SessionInv, ClientsWait, ClientAssumption
        <4> QED BY <3>1, <4>2, FS_Singleton
      <3>2. CASE call[c].pc \notin {"create", "put"}
        <4>1. {q \in puts : q.by = c} = {}
          BY <1>1, <3>2, ClientAssumption DEF SessionInv, ClientsWait, Waiting, ClientAssumption
        <4> QED BY <3>2, <4>1, FS_EmptySet
      <3> QED BY <3>1, <3>2
    <2>2. Elements(said) \subseteq Messages
      BY <1>1 DEF SessionInv, SessionShape, Elements
    <2> QED BY <1>1, <2>1, <2>2
            DEF SessionInv, SessionShape, ClientsWait, InCall, ClientTypeOK, PutTypes
  <1> QED BY <1>1, SessionInvariant, PTL

-----------------------------------------------------------------------------
(***************************************************************************)
(* What the session says.                                                  *)
(***************************************************************************)
LEMMA AddedIsLast ==
    ASSUME SessionInv, [ClientNext]_clientVars, Len(said') > Len(said)
    PROVE  /\ session'.messages # <<>>
           /\ session'.messages[Len(session'.messages)] = said'[Len(said')]
  <1>1. said \in Seq(Messages) /\ Len(said) \in Nat
    BY DEF SessionInv, SessionShape
  <1>2. said' # said /\ said' # <<>>
    BY <1>1
  <1>3. PICK p \in puts : ApplyPut(p)
    BY <1>2, SessionStep, DeleteSessionIs DEF Prepares, clientVars
  <1> DEFINE ms == p.memory.messages
             left == Stored(ms, window)
  <1>4. /\ p \in PutTypes /\ Made(p) /\ p.memory \in Session /\ session' = Applied(p.memory)
        /\ IF p.what = "rewrite" THEN said' = <<>> /\ raced' = FALSE
           ELSE said' = AfterPut(p, said) /\ (raced' <=> (raced \/ p.stale))
    BY <1>3, ApplyIs
  <1>5. p.adds # Absent /\ said' = Append(said, p.adds) /\ p.adds \in Messages
    BY <1>2, <1>4 DEF AfterPut, PutTypes
  <1>6. ms # <<>> /\ ms[Len(ms)] = p.adds /\ ms \in Seq(Messages)
    BY <1>4, <1>5 DEF Made, Session
  <1>7. session'.messages = left
    BY <1>4, AppliedIs
  <1> HIDE DEF ms
  <1>8. left \in Seq(Messages) /\ left # <<>> /\ Ends(left, ms)
    BY <1>6, StoredIs
  <1> HIDE DEF left
  <1>9. left[Len(left)] = ms[Len(ms)]
    <2>1. Len(left) \in 1 .. Len(left) /\ Len(ms) - Len(left) + Len(left) = Len(ms)
      BY <1>6, <1>8
    <2>2. left[Len(left)] = ms[Len(ms) - Len(left) + Len(left)]
      BY <1>8, <2>1 DEF Ends
    <2> QED BY <2>1, <2>2
  <1>10. said'[Len(said')] = p.adds
    BY <1>1, <1>5
  <1> QED BY <1>6, <1>7, <1>8, <1>9, <1>10

\* A message is in the session after the PUT that adds it, whatever the budget and the window.
THEOREM NewestStays == ClientSpec => NewestIsKept
  <1>1. SessionInv /\ [ClientNext]_clientVars
          => (Len(said') > Len(said) =>
                /\ session'.messages # <<>>
                /\ session'.messages[Len(session'.messages)] = said'[Len(said')])
    BY AddedIsLast
  <1> QED BY <1>1, SessionInvariant, PTL DEF ClientSpec, NewestIsKept

\* An empty session is created only where there is none, unless a GET failed unnoticed.
THEOREM MissingIsCreated == ASSUME ~ReadsFail PROVE ClientSpec => []CreatesOnlyMissing
  <1>1. ClientInit => CreatesOnlyMissing
    BY DEF ClientInit, CreatesOnlyMissing
  <1>2. ASSUME SessionInv, CreatesOnlyMissing, [ClientNext]_clientVars
        PROVE  CreatesOnlyMissing'
    <2>1. CASE Prepares
      <3>1. ASSUME NEW q \in puts', q.what = "create", ~q.stale PROVE session' = Absent
        <4>1. session' = session
          BY <2>1 DEF Prepares
        <4>2. CASE \E p \in puts : Same(q, p)
          BY <1>2, <3>1, <4>1, <4>2 DEF Same, CreatesOnlyMissing
        <4>3. CASE Fresh(q)
          BY <3>1, <4>1, <4>3 DEF Fresh, MadeOf
        <4> QED BY <2>1, <4>2, <4>3 DEF Prepares
      <3> QED BY <3>1 DEF CreatesOnlyMissing
    <2>2. CASE UNCHANGED clientVars
      BY <1>2, <2>2 DEF clientVars, CreatesOnlyMissing
    <2>3. CASE DeleteSession
      BY <1>2, <2>3, DeleteSessionIs DEF CreatesOnlyMissing
    <2>4. ASSUME NEW p \in puts, ApplyPut(p) PROVE CreatesOnlyMissing'
      <3>1. \A q \in puts' : q.stale \/ q.what = "update"
        BY <1>2, <2>4, ApplyIs DEF Follows
      <3> QED BY <3>1 DEF CreatesOnlyMissing
    <2> QED BY <1>2, <2>1, <2>2, <2>3, <2>4, SessionStep
  <1> QED BY <1>1, <1>2, SessionInvariant, PTL DEF ClientSpec

LEMMA EmptyIsLight ==
    ASSUME RoomForSummaries, NEW ms, ms = <<>>
    PROVE  Light(ms) /\ AlmostLight(ms)
  <1>1. ms \in Seq(Messages) /\ Len(ms) <= 1
    OBVIOUS
  <1> QED BY <1>1, OneIsLight DEF AlmostLight

\* A PUT that a client makes of what it has read tells the conversation.
LEMMA FreshTells ==
    ASSUME SessionInv, ConversationIsTold, SessionsAreLight, RoomForSummaries, ~ReadsFail,
           NEW q \in PutTypes, Made(q), Fresh(q)
    PROVE  PutTells(q) /\ (window = None => AlmostLight(q.memory.messages))
  <1>1. q.memory \in Session /\ said \in Seq(Messages)
    BY DEF PutTypes, SessionInv, SessionShape
  <1>2. CASE q.what = "rewrite"
    BY <1>2, EmptyIsLight DEF Made, PutTells
  <1>3. CASE q.what = "create" /\ session = Absent
    <2>1. AfterPut(q, said) = <<>> /\ q.memory.messages = <<>> /\ q.memory.context = {}
      BY <1>3 DEF Made, AfterPut, ConversationIsTold
    <2>2. Tells(window, q.memory, AfterPut(q, said))
      BY <1>1, <2>1, EmptyTells
    <2> QED BY <1>3, <2>1, <2>2, EmptyIsLight DEF PutTells
  <1>4. ASSUME NEW kind \in Reading, NEW arg \in ArgumentTypes, NEW base \in Session,
               MadeOf(q, kind, arg, base)
        PROVE  PutTells(q) /\ (window = None => AlmostLight(q.memory.messages))
    <2>1. /\ arg.message # Absent <=> kind = "append"
          /\ q.what = "update" /\ q.adds = arg.message /\ q.memory = NewSession(kind, arg, base)
      BY <1>4 DEF MadeOf
    <2>2. /\ Tells(window, base, said) => Tells(window, q.memory, AfterPut(q, said))
          /\ Light(base.messages) => AlmostLight(q.memory.messages)
      BY <1>1, <2>1, UpdateTells
    <2>3. SUFFICES /\ ~q.stale /\ ~raced => Tells(window, base, said)
                   /\ window = None => Light(base.messages)
      BY <2>1, <2>2 DEF PutTells
    <2>4. CASE session \in Session /\ base = [session EXCEPT !.messages = Truncated(@, window)]
      <3>1. session # Absent
        BY <2>4, AbsenceAssumption
      <3>2. /\ \A all \in Seq(Messages) : Tells(window, session, all) => Tells(window, base, all)
            /\ window = None => base.messages = session.messages
        BY <2>4, ReadIs
      <3> QED BY <1>1, <3>1, <3>2 DEF ConversationIsTold, SessionsAreLight
    <2>5. CASE base = Empty /\ \E p \in puts : p.what = "create" /\ p.stale = q.stale
      <3>1. base.messages = <<>> /\ base.context = {}
        BY <2>5, EmptyIs
      <3>2. ASSUME ~q.stale PROVE said = <<>>
        BY <2>5, <3>2 DEF ConversationIsTold, PutTells
      <3>3. Tells(window, base, <<>>)
        BY <3>1, EmptyTells
      <3> QED BY <3>1, <3>2, <3>3, EmptyIsLight
    <2> QED BY <1>4, <2>4, <2>5 DEF MadeOf
  <1> QED BY <1>2, <1>3, <1>4 DEF Fresh

LEMMA PrepareTells ==
    ASSUME SessionInv, ConversationIsTold, SessionsAreLight, RoomForSummaries, ~ReadsFail, Prepares
    PROVE  ConversationIsTold' /\ SessionsAreLight'
  <1>1. UNCHANGED <<window, session, said, raced>> /\ puts' \subseteq PutTypes
        /\ \A q \in puts' : Made(q)
    BY DEF Prepares, SessionInv, SessionShape, ClientsWait, Made
  <1>2. ASSUME NEW q \in puts'
        PROVE  PutTells(q) /\ (window = None => AlmostLight(q.memory.messages))
    <2>1. CASE \E p \in puts : Same(q, p)
      <3>1. PICK p \in puts : Same(q, p)
        BY <2>1
      <3>2. PutTells(p) /\ (window = None => AlmostLight(p.memory.messages))
        BY DEF ConversationIsTold, SessionsAreLight
      <3>3. AfterPut(q, said) = AfterPut(p, said)
        BY <3>1 DEF Same, AfterPut
      <3> QED BY <3>1, <3>2, <3>3 DEF Same, PutTells
    <2>2. CASE Fresh(q)
      BY <1>1, <2>2, FreshTells
    <2> QED BY <2>1, <2>2 DEF Prepares
  <1>3. ASSUME NEW q \in puts' PROVE PutTells(q)'
    <2>1. PutTells(q)
      BY <1>2
    <2>2. AfterPut(q, said') = AfterPut(q, said)
      BY <1>1
    <2> QED BY <1>1, <2>1, <2>2 DEF PutTells
  <1>4. ConversationIsTold'
    BY <1>1, <1>3 DEF ConversationIsTold
  <1>5. SessionsAreLight'
    BY <1>1, <1>2 DEF SessionsAreLight
  <1> QED BY <1>4, <1>5

LEMMA ApplyTells ==
    ASSUME SessionInv, ConversationIsTold, SessionsAreLight, RoomForSummaries,
           NEW p \in puts, ApplyPut(p)
    PROVE  ConversationIsTold' /\ SessionsAreLight'
  <1>1. /\ SessionInv' /\ window' = window
        /\ p \in PutTypes /\ Made(p) /\ p.memory \in Session
        /\ session' = Applied(p.memory) /\ session' \in Session
        /\ IF p.what = "rewrite" THEN said' = <<>> /\ raced' = FALSE
           ELSE said' = AfterPut(p, said) /\ (raced' <=> (raced \/ p.stale))
        /\ \A q \in puts' : Follows(q, session')
    BY ApplyIs
  <1>2. /\ p.memory.messages \in Seq(Messages) /\ session' # Absent /\ said' \in Seq(Messages)
        /\ puts \subseteq PutTypes
    BY <1>1, AbsenceAssumption DEF Session, SessionInv, SessionShape
  <1>3. ASSUME window = None PROVE AlmostLight(p.memory.messages) /\ Light(session'.messages)
    <2>1. AlmostLight(p.memory.messages)
      BY <1>3 DEF SessionsAreLight
    <2>2. session'.messages = Stored(p.memory.messages, None)
      BY <1>1, <1>3, AppliedIs
    <2> QED BY <1>2, <2>1, <2>2, AllIsSummarized
  <1>4. ASSUME ~raced' PROVE Tells(window, session', said')
    <2>1. Tells(window, p.memory, said')
      <3>1. CASE p.what = "rewrite"
        <4>1. said' = <<>> /\ p.memory.messages = <<>> /\ p.memory.context = {}
          BY <1>1, <3>1 DEF Made
        <4> QED BY <1>1, <4>1, EmptyTells
      <3>2. CASE p.what # "rewrite"
        BY <1>1, <1>4, <3>2 DEF ConversationIsTold, PutTells
      <3> QED BY <3>1, <3>2
    <2> QED BY <1>1, <1>2, <1>3, <2>1, TellsApplied
  <1>5. ASSUME NEW q \in puts'
        PROVE  PutTells(q)' /\ (window = None => AlmostLight(q.memory.messages))
    <2>1. CASE q.stale /\ \E r \in puts : q.memory = r.memory
      BY <2>1 DEF PutTells, SessionsAreLight
    <2>2. ASSUME NEW kind \in Reading, NEW arg \in ArgumentTypes,
                 arg.message # Absent <=> kind = "append",
                 q.what = "update", q.adds = arg.message,
                 q.memory = NewSession(kind, arg, session')
          PROVE  PutTells(q)' /\ (window = None => AlmostLight(q.memory.messages))
      <3>1. /\ Tells(window, session', said') => Tells(window, q.memory, AfterPut(q, said'))
            /\ Light(session'.messages) => AlmostLight(q.memory.messages)
        BY <1>1, <1>2, <2>2, UpdateTells
      <3> QED BY <1>1, <1>3, <1>4, <2>2, <3>1 DEF PutTells
    <2> QED BY <1>1, <2>1, <2>2 DEF Follows
  <1>6. ConversationIsTold'
    BY <1>1, <1>2, <1>4, <1>5 DEF ConversationIsTold
  <1>7. SessionsAreLight'
    BY <1>1, <1>3, <1>5 DEF SessionsAreLight
  <1> QED BY <1>6, <1>7

LEMMA DeleteTells ==
    ASSUME SessionInv, ConversationIsTold, SessionsAreLight, DeleteSession
    PROVE  ConversationIsTold' /\ SessionsAreLight'
  <1>1. /\ window' = window /\ session' = Absent /\ said' = <<>> /\ ~raced'
        /\ \A q \in puts' : q.stale /\ \E r \in puts : q.memory = r.memory
    BY DeleteSessionIs
  <1>2. \A q \in puts' : PutTells(q)'
    BY <1>1 DEF PutTells
  <1>3. ConversationIsTold'
    BY <1>1, <1>2 DEF ConversationIsTold
  <1>4. SessionsAreLight'
    BY <1>1 DEF SessionsAreLight
  <1> QED BY <1>3, <1>4

\* What tells the conversation is the conversation.
LEMMA ToldIsSaid ==
    ASSUME SessionInv, ConversationIsTold
    PROVE  SessionIsConversation
  <1> SUFFICES ASSUME session # Absent, ~raced
               PROVE  /\ Suffix(session.messages, said)
                      /\ window = None => session.context =
                           Elements(Oldest(said, Len(said) - Len(session.messages)))
    BY DEF SessionIsConversation
  <1> DEFINE ms == session.messages
             n == Len(said) - Len(ms)
             last == Newest(said, Len(ms))
             first == Oldest(said, n)
  <1>1. ms \in Seq(Messages) /\ said \in Seq(Messages) /\ Tells(window, session, said)
    BY DEF SessionInv, SessionShape, Session, ConversationIsTold
  <1>2. /\ Len(ms) <= Len(said) /\ \A k \in 1 .. Len(ms) : ms[k] = said[Len(said) - Len(ms) + k]
        /\ window = None => session.context = {said[k] : k \in 1 .. n}
    BY <1>1 DEF Tells, Ends
  <1> HIDE DEF ms
  <1>3. Len(ms) \in 0 .. Len(said) /\ n \in 0 .. Len(said)
    BY <1>1, <1>2
  <1>4. ms = last
    <2>1. /\ last \in Seq(Messages) /\ Len(last) = Len(ms)
          /\ \A k \in 1 .. Len(ms) : last[k] = said[Len(said) - Len(ms) + k]
      BY <1>1, <1>3, NewestIs
    <2> HIDE DEF last
    <2> QED BY <1>1, <1>2, <2>1, SeqEqual
  <1> HIDE DEF n
  <1>5. Elements(first) = {said[k] : k \in 1 .. n}
    <2>1. first \in Seq(Messages) /\ Len(first) = n /\ \A k \in 1 .. n : first[k] = said[k]
      BY <1>1, <1>3, OldestIs
    <2> HIDE DEF first
    <2> QED BY <2>1 DEF Elements
  <1> QED BY <1>2, <1>4, <1>5 DEF Suffix, ms, n

\* As long as no PUT replaces what its client had not read, the session is the conversation:
\* its messages are the last ones, in order, and its summary covers all the others, through
\* any number of summarizations, failed, late and abandoned PUTs.
THEOREM ConversationIsKept ==
    ASSUME ~ReadsFail, RoomForSummaries
    PROVE  ClientSpec => []SessionIsConversation
  <1> DEFINE Told == ConversationIsTold /\ SessionsAreLight
  <1>1. ClientInit => Told
    BY DEF ClientInit, ConversationIsTold, SessionsAreLight
  <1>2. ASSUME SessionInv, Told, [ClientNext]_clientVars PROVE Told'
    <2>1. CASE UNCHANGED clientVars
      <3>1. ConversationIsTold'
        BY <1>2, <2>1 DEF clientVars, ConversationIsTold, PutTells
      <3>2. SessionsAreLight'
        BY <1>2, <2>1 DEF clientVars, SessionsAreLight
      <3> QED BY <3>1, <3>2
    <2> QED BY <1>2, <2>1, SessionStep, PrepareTells, ApplyTells, DeleteTells
  <1>3. SessionInv /\ Told => SessionIsConversation
    BY ToldIsSaid
  <1> HIDE DEF Told
  <1> QED BY <1>1, <1>2, <1>3, SessionInvariant, PTL DEF ClientSpec

-----------------------------------------------------------------------------
(***************************************************************************)
(* The composition.                                                        *)
(***************************************************************************)
\* Side by side, each part does what it does alone, or nothing: whatever is proved of a part
\* holds of the composition that is model-checked.
THEOREM ClientPartsAreApart ==
    ClientsSpec => ClientSpec /\ ToolSpec /\ SearchSpec /\ McpSpec
  <1>1. ClientsInit => ClientInit /\ ToolInit /\ SearchInit /\ McpInit
    BY DEF ClientsInit
  <1>2. [ClientsNext]_clientPartVars =>
          /\ [ClientNext]_clientVars /\ [ToolNext]_toolVars
          /\ [SearchNext]_searchVars /\ [McpNext]_mcpVars
    BY DEF ClientsNext, clientPartVars
  <1> QED BY <1>1, <1>2, PTL DEF ClientsSpec, ClientSpec, ToolSpec, SearchSpec, McpSpec

\* Every part keeps to its types.
THEOREM ClientsTypes == ClientsSpec => []ClientsTypeOK
  <1>1. ClientTypeOK /\ ToolTypeOK /\ SearchTypeOK /\ McpTypeOK => ClientsTypeOK
    BY DEF ClientsTypeOK
  <1> QED BY <1>1, ClientPartsAreApart, ClientTypes, ToolTypes, SearchTypes, McpTypes, PTL
=============================================================================
