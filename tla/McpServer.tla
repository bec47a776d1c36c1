----------------------------- MODULE McpServer ------------------------------
(***************************************************************************)
(* For whom a tool of the MCP server works (agent_memory_server/mcp.py,    *)
(* class FastMCP and the tools): a namespace and a user.  A client         *)
(* connects to a URL with or without a namespace in its path.  The server  *)
(* keeps the request it handles in one attribute, _current_request, for    *)
(* all connections; a tool call that names no namespace takes the one of   *)
(* that request's URL, or the configured one, and for some tools a call    *)
(* that names no user takes the configured one.  Requests of the           *)
(* streamable HTTP transport are connections of one call.                  *)
(***************************************************************************)
EXTENDS Naturals

CONSTANTS
    Connections,
    McpNamespaces,
    McpUsers,
    MaxToolCalls,   \* bound on calls
    NoNamespace     \* no namespace, no user, no request

ASSUME McpAssumption ==
    MaxToolCalls \in Nat /\ NoNamespace \notin McpNamespaces \cup McpUsers \cup Connections

VARIABLES
    single,    \* connections do not overlap
    default,   \* settings.default_mcp_namespace and default_mcp_user_id
    current,   \* _current_request: the connection it came from
    conn,      \* conn[c]: whether it is open, the namespace in its URL, and its last call
    toolCalls  \* calls made so far

mcpVars == <<single, default, current, conn, toolCalls>>

MaybeNamespace == McpNamespaces \cup {NoNamespace}
Who == [namespace : MaybeNamespace, user : McpUsers \cup {NoNamespace}]
Anyone == [namespace |-> NoNamespace, user |-> NoNamespace]

\* The tools that call_tool gives a namespace, and those that take the configured user.
Injecting == {"set_working_memory", "memory_prompt", "search_long_term_memory"}
Personal == Injecting \cup {"create_long_term_memories"}
Tools == Personal \cup {"get_working_memory", "compact_long_term_memories"}

NoCall == [tool |-> "none", given |-> Anyone, used |-> Anyone]
ClosedConn == [open |-> FALSE, url |-> NoNamespace, call |-> NoCall]

McpInit == /\ single \in BOOLEAN
           /\ default \in Who
           /\ current = NoNamespace
           /\ conn = [c \in Connections |-> ClosedConn]
           /\ toolCalls = 0

\* handle_sse, and _NamespaceAwareHandler: the request is remembered for as long as it is
\* handled.
Connect(c) ==
    /\ ~conn[c].open
    /\ single => \A d \in Connections : ~conn[d].open
    /\ \E url \in MaybeNamespace :
         conn' = [conn EXCEPT ![c] = [ClosedConn EXCEPT !.open = TRUE, !.url = url]]
    /\ current' = c
    /\ UNCHANGED <<single, default, toolCalls>>

Disconnect(c) ==
    /\ conn[c].open
    /\ conn' = [conn EXCEPT ![c] = ClosedConn]
    /\ current' = NoNamespace
    /\ UNCHANGED <<single, default, toolCalls>>

GivenOrElse(x, other) == IF x = NoNamespace THEN other ELSE x

\* Mutant: the configured namespace goes first.
InjectedDefault(tool, given) ==
    IF tool \in Injecting
    THEN GivenOrElse(given, IF default.namespace # NoNamespace \/ current = NoNamespace
                            THEN default.namespace ELSE conn[current].url)
    ELSE given

\* call_tool: the namespace argument that is put in, for the tools that accept one.
Injected(tool, given) ==
    IF tool \in Injecting
    THEN GivenOrElse(given, IF current = NoNamespace THEN default.namespace
                            ELSE GivenOrElse(conn[current].url, default.namespace))
    ELSE given

\* Where each tool works with the arguments it gets: one search,
SearchTool(who) == [namespace |-> GivenOrElse(who.namespace, default.namespace),
                    user |-> GivenOrElse(who.user, default.user)]
\* a session and a search in the same scope,
PromptTool(who) == [who EXCEPT !.user = GivenOrElse(@, default.user)]
\* a session all of whose memories become the user's, whoever they name,
SetTool(who) == [who EXCEPT !.user = GivenOrElse(@, default.user)]
\* memories that may each name namespace and user,
CreateTool(who) == [namespace |-> GivenOrElse(who.namespace, default.namespace),
                    user |-> GivenOrElse(who.user, default.user)]
\* or just what is given: a session for get, memories of anyone for compact.
PlainTool(who) == who

Used(tool, who) ==
    CASE tool = "search_long_term_memory" -> SearchTool(who)
      [] tool = "memory_prompt" -> PromptTool(who)
      [] tool = "set_working_memory" -> SetTool(who)
      [] tool = "create_long_term_memories" -> CreateTool(who)
      [] OTHER -> PlainTool(who)

CallTool(c) ==
    /\ conn[c].open /\ toolCalls < MaxToolCalls
    /\ toolCalls' = toolCalls + 1
    /\ \E tool \in Tools, given \in Who :
         conn' = [conn EXCEPT ![c].call =
                    [tool |-> tool, given |-> given,
                     used |-> Used(tool, [given EXCEPT !.namespace = Injected(tool, @)])]]
    /\ UNCHANGED <<single, default, current>>

McpNext == \E c \in Connections : Connect(c) \/ Disconnect(c) \/ CallTool(c)

McpSpec == McpInit /\ [][McpNext]_mcpVars

-----------------------------------------------------------------------------
(***************************************************************************)
(* Properties.                                                             *)
(***************************************************************************)
\* The request that is remembered is that of an open connection.
McpTypeOK ==
    /\ single \in BOOLEAN /\ default \in Who /\ toolCalls \in 0 .. MaxToolCalls
    /\ current = NoNamespace \/ (current \in Connections /\ conn[current].open)
    /\ \A c \in Connections : conn[c].url \in MaybeNamespace /\ conn[c].call.used \in Who

\* A call that names no namespace works in the namespace of the URL its own client is
\* connected to, or else in the configured one, as long as connections do not overlap, and
\* one that names no user for the configured user; what a call does name is what it gets
\* (mcp.py 82, 132-164).
NamedOr(given, other, used) == used = GivenOrElse(given, other)
ScopeOfTheConnection ==
    \A c \in Connections :
        LET call == conn[c].call
        IN  /\ single /\ call.tool \in Injecting
                 => NamedOr(call.given.namespace,
                            GivenOrElse(conn[c].url, default.namespace), call.used.namespace)
            /\ call.tool \in Personal
                 => NamedOr(call.given.user, default.user, call.used.user)
=============================================================================
