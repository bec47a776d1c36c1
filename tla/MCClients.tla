----------------------------- MODULE MCClients ------------------------------
(***************************************************************************)
(* What clients do, side by side for TLC: the client's methods on one      *)
(* session, a model's tool calls, searches, and the MCP server.  A         *)
(* behaviour is one of the part named by active, the others stay at a      *)
(* fixed initial state.                                                    *)
(***************************************************************************)
EXTENDS SessionClient, ToolCalls, MemorySearch, McpServer, TLC

VARIABLE active

clientPartVars == <<active, clientVars, toolVars, searchVars, mcpVars>>

Parts == {"session", "tools", "search", "mcp"}

\* Messages of one token each; two fields of one key and one of another.
UnitSize == [m \in Messages |-> 1]
TwoKeys == {<<"k1", "a">>, <<"k1", "b">>, <<"k2", "a">>}

Symmetry == Permutations(Clients) \cup Permutations(Namespaces) \cup Permutations(Users)

ClientsInit ==
    /\ active \in Parts
    /\ ClientInit /\ ToolInit /\ SearchInit /\ McpInit
    /\ active # "session" => window = None
    /\ active # "tools" => chat = [space |-> Unnamed, user |-> Unnamed, default |-> Unnamed]
    /\ active # "mcp" => default = Anyone /\ single

ClientsNext ==
    \/ /\ active = "session" /\ ClientNext
       /\ UNCHANGED <<active, toolVars, searchVars, mcpVars>>
    \/ /\ active = "tools" /\ ToolNext
       /\ UNCHANGED <<active, clientVars, searchVars, mcpVars>>
    \/ /\ active = "search" /\ SearchNext
       /\ UNCHANGED <<active, clientVars, toolVars, mcpVars>>
    \/ /\ active = "mcp" /\ McpNext
       /\ UNCHANGED <<active, clientVars, toolVars, searchVars>>

ClientsSpec == ClientsInit /\ [][ClientsNext]_clientPartVars

\* Every part keeps to its types, and what is at rest holds nothing.
ClientsTypeOK == ClientTypeOK /\ ToolTypeOK /\ SearchTypeOK /\ McpTypeOK
=============================================================================
