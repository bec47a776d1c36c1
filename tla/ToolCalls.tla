----------------------------- MODULE ToolCalls ------------------------------
(***************************************************************************)
(* A model's tool calls, resolved by the client                            *)
(* (agent_memory_client/client.py).  The calls of one reply are parsed     *)
(* from the format of their provider and resolved one after the other,     *)
(* each by a request to the server or by two; errors become results.  The  *)
(* calls work for one conversation, which has a namespace and a user.      *)
(***************************************************************************)
EXTENDS Naturals, Sequences, FiniteSets

CONSTANTS
    ToolSpaces,   \* namespaces
    ToolUsers,
    MaxReply,     \* bound on the calls of a conversation
    Unnamed       \* no namespace, no user

ASSUME ToolAssumption == /\ Unnamed \notin ToolSpaces \cup ToolUsers
                         /\ MaxReply \in Nat

VARIABLES
    chat,     \* the conversation's namespace and user, and the client's default namespace
    reply,    \* the calls up to the one that is being resolved
    results,  \* their results so far
    doing,    \* the next step of the last one
    made,     \* the calls whose change the server has made (history)
    queued,   \* memories stored that are not indexed yet: namespace and user
    longTerm  \* those that are indexed

toolVars == <<chat, reply, results, doing, made, queued, longTerm>>

AnySpace == ToolSpaces \cup {Unnamed}
AnyUser == ToolUsers \cup {Unnamed}

\* create is eagerly_create_long_term_memory; add lazily_create_long_term_memory and
\* update_working_memory_data; edit stands for delete too, and resolves as
\* get_long_term_memory does; look is get_working_memory, with or without creating it.
NeedsArguments == {"search", "create", "add", "edit"}
Changing == {"create", "add", "edit"}
ToolNames == NeedsArguments \cup {"look", "clock", "unknown"}

\* strict: the formats whose argument string is parsed at once; arguments may name a user.
ToolCall == [tool : ToolNames, strict : BOOLEAN, arguments : {"good", "malformed", "none"},
             user : AnyUser]

\* Only the arguments of search and create may name a user; the format matters for malformed
\* arguments.
Plausible(call) ==
    /\ call.user # Unnamed => call.arguments = "good" /\ call.tool \in {"search", "create"}
    /\ call.strict => call.arguments = "malformed"

\* success: as reported; failed: the tool itself reports an error; reason: why.
Failure(why) == [success |-> FALSE, failed |-> TRUE, reason |-> why, found |-> {}]
ToolFailure(why) == [success |-> TRUE, failed |-> TRUE, reason |-> why, found |-> {}]
Success(found) == [success |-> TRUE, failed |-> FALSE, reason |-> "none", found |-> found]

ToolInit == /\ chat \in [space : AnySpace, user : AnyUser, default : AnySpace]
            /\ reply = <<>> /\ results = <<>> /\ made = {}
            /\ doing = "idle"
            /\ queued = {} /\ longTerm = {}

Current == reply[Len(results) + 1]
Effective == IF chat.space = Unnamed THEN chat.default ELSE chat.space

\* resolve_tool_calls and resolve_function_calls: the next call.
TakeCall ==
    /\ doing = "idle" /\ Len(reply) < MaxReply
    /\ \E call \in ToolCall : Plausible(call) /\ reply' = Append(reply, call)
    /\ doing' = "parse"
    /\ UNCHANGED <<chat, results, made, queued, longTerm>>

\* The call is done, with result r.
Resolve(r) ==
    /\ results' = Append(results, r)
    /\ doing' = "idle"

\* parse_tool_call: a malformed argument string is taken for no arguments, or kept.
Parsed(call) == IF call.strict /\ call.arguments = "malformed" THEN "none" ELSE call.arguments

\* Mutant: arguments that could not be parsed are left to the server.
RouteMalformed ==
    /\ doing = "parse"
    /\ IF Current.tool = "unknown" THEN Resolve(Failure("local"))
       ELSE IF Current.tool = "clock" THEN Resolve(Success({}))
       ELSE doing' = (IF Current.tool = "add" THEN "open" ELSE "send") /\ UNCHANGED results
    /\ UNCHANGED <<chat, reply, made, queued, longTerm>>

\* resolve_function_call: the arguments are parsed, the tool is found and its arguments
\* are there; adding begins with get_or_create_working_memory.
Route ==
    /\ doing = "parse"
    /\ LET arguments == Parsed(Current)
       IN  IF \/ arguments = "malformed" \/ Current.tool = "unknown"
              \/ arguments = "none" /\ Current.tool \in NeedsArguments
           THEN Resolve(Failure("local"))
           ELSE IF Current.tool = "clock" THEN Resolve(Success({}))
           ELSE /\ doing' = IF Current.tool = "add" THEN "open" ELSE "send"
                /\ UNCHANGED results
    /\ UNCHANGED <<chat, reply, made, queued, longTerm>>

OpenSession == /\ doing = "open" /\ doing' = "send"
               /\ UNCHANGED <<chat, reply, results, made, queued, longTerm>>

\* _resolve_create_long_term_memory: what the call leaves open is the conversation's.
Created(call) == [space |-> Effective,
                  user |-> IF call.user = Unnamed THEN chat.user ELSE call.user]

\* Mutant: the client's default namespace is not applied.
AddedPlain == [space |-> chat.space, user |-> chat.user]

\* add_memory_tool
Added == [space |-> Effective, user |-> chat.user]

\* _resolve_search_memory and search_long_term_memory: the default namespace, and the
\* user that the call names.
SearchFinds(call) ==
    {m \in longTerm : chat.default \in {m.space, Unnamed} /\ call.user \in {m.user, Unnamed}}

\* The server does what it is asked for; memories are promoted or indexed in the background.
Changes ==
    /\ made' = IF Current.tool \in Changing THEN made \cup {Len(results) + 1} ELSE made
    /\ queued' = CASE Current.tool = "add" -> queued \cup {Added}
                   [] Current.tool = "create" -> queued \cup {Created(Current)}
                   [] OTHER -> queued

Serve ==
    /\ doing = "send"
    /\ Changes
    /\ Resolve(Success(IF Current.tool = "search" THEN SearchFinds(Current) ELSE {}))
    /\ UNCHANGED <<chat, reply, longTerm>>

\* The tools of working memory report an error themselves, the result says success.
Failed(why) == IF Current.tool \in {"add", "look"} THEN ToolFailure(why) ELSE Failure(why)

\* The server refuses a request, or never gets it.
Refuse ==
    /\ doing \in {"open", "send"}
    /\ Resolve(Failed("server"))
    /\ UNCHANGED <<chat, reply, made, queued, longTerm>>

\* The answer is lost: the client reports an error for what was done.
LoseAnswer ==
    /\ doing = "send"
    /\ Changes
    /\ Resolve(Failed("lost"))
    /\ UNCHANGED <<chat, reply, longTerm>>

\* promote_working_memory_to_long_term, index_long_term_memories
IndexQueued ==
    /\ \E m \in queued : longTerm' = longTerm \cup {m} /\ queued' = queued \ {m}
    /\ UNCHANGED <<chat, reply, results, doing, made>>

ToolNext == TakeCall \/ Route \/ OpenSession \/ Serve \/ Refuse \/ LoseAnswer \/ IndexQueued

ToolSpec == ToolInit /\ [][ToolNext]_toolVars

-----------------------------------------------------------------------------
(***************************************************************************)
(* Properties.                                                             *)
(***************************************************************************)
ToolTypeOK ==
    /\ chat \in [space : AnySpace, user : AnyUser, default : AnySpace]
    /\ reply \in Seq(ToolCall) /\ Len(results) <= Len(reply)
    /\ doing = "idle" <=> Len(results) = Len(reply)
    /\ made \subseteq 1 .. Len(results)
    /\ queued \subseteq [space : AnySpace, user : AnyUser]
    /\ longTerm \subseteq [space : AnySpace, user : AnyUser]

\* A result tells the truth: a change reported as made was made, and a call that was wrong
\* in itself changed nothing.  Only an answer that was lost leaves it open.
ResultsAreTrue ==
    \A k \in DOMAIN results :
        /\ reply[k].tool \in Changing /\ ~results[k].failed => k \in made
        /\ k \in made => /\ reply[k].arguments = "good"
                         /\ ~results[k].failed \/ results[k].reason = "lost"

\* A conversation in the client's namespace finds by a search what it has stored itself,
\* once it is indexed, though creating, adding and searching take namespace and user from
\* different places (client.py 2590-2645).
InClientSpace == chat.space \in {Unnamed, chat.default} \/ chat.default = Unnamed
ConversationFindsItsMemories ==
    [][\A k \in DOMAIN results' \ DOMAIN results :
         (InClientSpace /\ reply[k].tool = "search" /\ ~results'[k].failed)
           => {m \in longTerm : reply[k].user \in {m.user, Unnamed}} \subseteq results'[k].found
      ]_toolVars
=============================================================================
