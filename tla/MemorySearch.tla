---------------------------- MODULE MemorySearch ----------------------------
(***************************************************************************)
(* Searching and listing long-term memories, from the index up to the      *)
(* paging clients (memory_vector_db.py, long_term_memory.py, api.py,       *)
(* mcp.py, cli.py and agent_memory_client/client.py).  A search is a       *)
(* sequence of page requests; memories are created and deleted in between, *)
(* and between a search and its fallback.                                  *)
(*                                                                         *)
(* What matters of a memory is its namespace and user (the hard filters)   *)
(* and whether it matches the soft filters.  Ids grow with time.  The      *)
(* index ranks memories for the query; where the rank comes from is left   *)
(* open.                                                                   *)
(***************************************************************************)
EXTENDS Naturals, Sequences, FiniteSets, SequencesExt

CONSTANTS
    Namespaces,
    Users,
    MaxMemories, \* bound on memories created
    Limit,       \* memories per page
    Fronts,      \* the callers that search, of AllFronts
    Modes,       \* the modes they use, of AllModes
    AnyOne       \* no filter, no next offset

AllFronts == {"all", "tool", "next", "cli", "prompt", "promptAny"}
AllModes == {"semantic", "lexical", "recency", "listing", "list"}

ASSUME SearchAssumption ==
    /\ AnyOne \notin Namespaces \cup Users \cup Nat
    /\ Limit \in Nat \ {0} /\ MaxMemories \in Nat
    /\ Fronts \subseteq AllFronts /\ Modes \subseteq AllModes

VARIABLES
    index,   \* the memories, best match first
    created, \* memories created so far
    search   \* the search in progress

searchVars == <<index, created, search>>

MemoryFound == [id : 1 .. MaxMemories, namespace : Namespaces, user : Users, topical : BOOLEAN]
Scope == [namespace : Namespaces \cup {AnyOne}, user : Users \cup {AnyOne}]
Everyone == [namespace |-> AnyOne, user |-> AnyOne]

\* meant: whose memories the caller wants; scope: the hard filters that are sent; soft:
\* whether soft filters are set.  History: the matches that have been there all along, whether
\* memories came or went, and whether a query found no strict match.
NotSearching == [pc |-> "idle", front |-> "all", mode |-> "semantic", meant |-> Everyone,
                 scope |-> Everyone, soft |-> FALSE, offset |-> 0, got |-> {}, twice |-> FALSE,
                 steady |-> {}, came |-> FALSE, went |-> FALSE, none |-> FALSE]

SearchInit == index = <<>> /\ created = 0 /\ search = NotSearching

IdsOf(ms) == {ms[k].id : k \in DOMAIN ms}
First(ms, n) == SubSeq(ms, 1, IF n < Len(ms) THEN n ELSE Len(ms))
From(ms, offset) == SubSeq(ms, offset + 1, Len(ms))

InScope(m, scope) == /\ scope.namespace \in {m.namespace, AnyOne}
                     /\ scope.user \in {m.user, AnyOne}

\* The members of s that are in good, in their order.
Chosen(s, good) ==
    LET chosen[n \in 0 .. Len(s)] ==
          IF n = 0 THEN <<>>
          ELSE IF s[n] \in good THEN Append(chosen[n - 1], s[n]) ELSE chosen[n - 1]
    IN  chosen[Len(s)]

\* Mutant: filters are combined by "or".
EitherFilter(scope, soft) ==
    Chosen(index, {m \in MemoryFound : InScope(m, scope) \/ (soft /\ m.topical)})

\* _build_filter_expression: all filters must match.
Matches(scope, soft) ==
    Chosen(index, {m \in MemoryFound : InScope(m, scope) /\ (soft => m.topical)})

\* The memories of ms in the order of their ids.
ById(ms) ==
    LET ids == Chosen([i \in 1 .. MaxMemories |-> i], IdsOf(ms))
    IN  [k \in DOMAIN ids |-> CHOOSE m \in ToSet(ms) : m.id = ids[k]]

-----------------------------------------------------------------------------
(***************************************************************************)
(* Memories come and go.                                                   *)
(***************************************************************************)
CreateMemory ==
    /\ created < MaxMemories
    /\ created' = created + 1
    /\ \E k \in 1 .. Len(index) + 1, m \in MemoryFound :
         m.id = created' /\ index' = InsertAt(index, k, m)
    /\ search' = [search EXCEPT !.came = search.pc # "idle"]

DeleteMemory ==
    /\ \E k \in DOMAIN index :
         /\ index' = RemoveAt(index, k)
         /\ search' = [search EXCEPT !.steady = @ \ {index[k].id},
                                     !.went = search.pc # "idle"]
    /\ UNCHANGED created

-----------------------------------------------------------------------------
(***************************************************************************)
(* The database.                                                           *)
(***************************************************************************)
PageOf(page, total, next) == [page |-> page, total |-> total, next |-> next]

\* Mutant: only a page is fetched.
RankedPageShort(ms, offset) ==
    LET raw == First(ms, Limit)
    IN  {PageOf(From(raw, offset), Len(raw), AnyOne)}

\* search_memories: the best offset + limit matches are fetched, and the first offset
\* of them skipped.  total counts what was fetched.
RankedPage(ms, offset) ==
    LET raw == First(ms, offset + Limit)
    IN  {PageOf(From(raw, offset), Len(raw),
                IF Len(raw) > offset + Limit THEN offset + Limit ELSE AnyOne)}

\* _search_with_recency_aggregation: the best limit matches are fetched, sorted again,
\* and the first offset of them skipped.
RecencyPage(ms, offset) ==
    LET raw == First(ms, Limit)
        page(order) == From([k \in DOMAIN raw |-> raw[order[k]]], offset)
        orders == {f \in [DOMAIN raw -> DOMAIN raw] : \A j, k \in DOMAIN raw : j # k => f[j] # f[k]}
    IN  {PageOf(page(order), offset + Len(page(order)),
                IF Len(page(order)) = Limit THEN offset + Limit ELSE AnyOne) : order \in orders}

\* list_memories: a page of all matches, and their number.
ListedPage(ms, offset) ==
    LET page == First(From(ms, offset), Limit)
    IN  {PageOf(page, Len(ms),
                IF offset + Len(page) < Len(ms) THEN offset + Len(page) ELSE AnyOne)}

\* list_long_term_memories: the same, in the order of ids, which is that of creation.
ListOfAll(ms, offset) == ListedPage(ById(ms), offset)

\* search_long_term_memories: no query text means a listing.
Page(mode, ms, offset) ==
    CASE mode \in {"semantic", "lexical"} -> RankedPage(ms, offset)
      [] mode = "recency" -> RecencyPage(ms, offset)
      [] mode = "listing" -> ListedPage(ms, offset)
      [] mode = "list" -> ListOfAll(ms, offset)

-----------------------------------------------------------------------------
(***************************************************************************)
(* The callers.                                                            *)
(***************************************************************************)
GivenOr(x, default) == IF x = AnyOne THEN default ELSE x

\* search_long_term_memory and hydrate_memory_prompt of the client: the configured
\* namespace stands in for one that is not given.
ClientScope(asked, configured) == [asked EXCEPT !.namespace = GivenOr(@, configured)]
HydrateScope(asked, configured) == [asked EXCEPT !.namespace = GivenOr(@, configured)]

\* The command "search": its options, and no namespace but the one that is given.
CliScope(asked) == asked

\* memory_prompt of the server: with long_term_search = True no filter but the session's
\* user, otherwise the filters of the request, the user from the session if not given.
PromptScope(front, asked, sessionUser) ==
    IF front = "promptAny" THEN [Everyone EXCEPT !.user = sessionUser]
    ELSE [asked EXCEPT !.user = GivenOr(@, sessionUser)]

\* Whose memories a caller wants, and the filters that reach the index for it.
MeantScope(asked, configured, sessionUser) ==
    [namespace |-> GivenOr(asked.namespace, configured), user |-> GivenOr(asked.user, sessionUser)]
SentScope(front, asked, configured, sessionUser) ==
    IF front \in {"prompt", "promptAny"}
    THEN PromptScope(front, HydrateScope(asked, configured), sessionUser)
    ELSE IF front = "cli" THEN CliScope(asked) ELSE ClientScope(asked, configured)

StartSearch ==
    /\ search.pc = "idle"
    /\ \E front \in Fronts, mode \in Modes, soft \in BOOLEAN,
          asked \in Scope, configured \in Namespaces \cup {AnyOne},
          sessionUser \in Users \cup {AnyOne} :
         /\ mode = "list" => front = "next"
         /\ mode = "recency" => front \notin {"all", "cli"}
         /\ configured # AnyOne => front # "cli"
         /\ sessionUser # AnyOne => front \in {"prompt", "promptAny"}
         /\ LET scope == SentScope(front, asked, configured, sessionUser)
            IN  search' = [NotSearching EXCEPT
                             !.pc = "query", !.front = front, !.mode = mode,
                             !.meant = MeantScope(asked, configured, sessionUser),
                             !.scope = scope, !.soft = soft,
                             !.steady = IdsOf(Matches(scope, soft))]
    /\ UNCHANGED <<index, created>>

\* search_all_long_term_memories goes on while a page is full.
AllGoesOn(a) == Len(a.page) = Limit

\* search_memory_tool says has_more.
ToolGoesOn(a) == a.next # AnyOne \/ a.total > search.offset + Len(a.page)

\* Whether the caller asks for another page; others follow next_offset (the user of the command
\* does, told so), a prompt has one page.
GoesOn(a) == CASE search.front = "all" -> AllGoesOn(a)
               [] search.front = "tool" -> ToolGoesOn(a)
               [] search.front \in {"next", "cli"} -> a.next # AnyOne
               [] OTHER -> FALSE

\* Mutant: the next page starts with the last memory of this one.
NextOffsetShort(a) == search.offset + Len(a.page) - 1

NextOffset(a) == CASE search.front = "all" -> search.offset + Limit
                   [] search.front # "all" /\ a.next # AnyOne -> a.next
                   [] OTHER -> search.offset + Len(a.page)

\* A page arrives.  An empty page ends every search.
TakePage(a, none) ==
    LET going == GoesOn(a) /\ a.page # <<>>
    IN  search' = [search EXCEPT
                     !.pc = IF going THEN "query" ELSE "done",
                     !.offset = IF going THEN NextOffset(a) ELSE @,
                     !.got = @ \cup {a.page[k] : k \in DOMAIN a.page},
                     !.twice = @ \/ \E k \in DOMAIN a.page :
                                      a.page[k].id \in {m.id : m \in search.got},
                     !.none = @ \/ none]

\* Mutant: a page without results is filled up with less relevant memories.
RelaxesEmptyPage(a) == search.soft /\ search.mode \in {"semantic", "listing"} /\ a.page = <<>>

\* search_long_term_memory (api.py): the soft filters are given up if nothing matches.
\* Server-side recency answers before; lexical modes, /list and the command never relax.
Relaxes(a) ==
    /\ search.soft /\ search.mode \in {"semantic", "listing"} /\ search.front # "cli"
    /\ a.total = 0

\* The request for a page reaches the index.
QueryIndex ==
    /\ search.pc = "query"
    /\ LET ms == Matches(search.scope, search.soft)
       IN  \E a \in Page(search.mode, ms, search.offset) :
             IF Relaxes(a) THEN search' = [search EXCEPT !.pc = "relax", !.none = @ \/ ms = <<>>]
             ELSE TakePage(a, ms = <<>>)
    /\ UNCHANGED <<index, created>>

\* The second query, with the values of the soft filters in its text and therefore ranked,
\* or its failure, which is logged: the caller gets the empty answer.
Fallback ==
    /\ search.pc = "relax"
    /\ \E a \in RankedPage(Matches(search.scope, FALSE), search.offset)
                \cup {PageOf(<<>>, 0, AnyOne)} : TakePage(a, FALSE)
    /\ UNCHANGED <<index, created>>

\* A request fails: the search ends where it is (the MCP tool answers an empty page).
FailSearch ==
    /\ search.pc \in {"query", "relax"}
    /\ search' = NotSearching
    /\ UNCHANGED <<index, created>>

EndSearch == /\ search.pc = "done"
             /\ search' = NotSearching
             /\ UNCHANGED <<index, created>>

SearchNext == CreateMemory \/ DeleteMemory \/ StartSearch \/ QueryIndex \/ Fallback \/ FailSearch
              \/ EndSearch

SearchSpec == SearchInit /\ [][SearchNext]_searchVars

-----------------------------------------------------------------------------
(***************************************************************************)
(* Properties.                                                             *)
(***************************************************************************)
SearchTypeOK ==
    /\ index \in Seq(MemoryFound) /\ created \in 0 .. MaxMemories
    /\ Cardinality(IdsOf(index)) = Len(index)
    /\ search.pc = "idle" => search = NotSearching
    /\ search.got \subseteq MemoryFound /\ search.steady \subseteq IdsOf(index)

\* Nobody is shown memories of another namespace, user or session than was asked for or
\* configured, in the first query or in the fallback (api.py 762-778: only relevance filters
\* are relaxed).  A prompt with long_term_search = True does not keep this: it searches the
\* user's memories of every namespace ("promptAny", to be left out of Fronts).
ScopeIsKept == \A m \in search.got : InScope(m, search.meant)

\* Where the pages of a search are meant to reach everything: ranked pages say nothing of
\* what is beyond them, so only a caller that goes on after each full page does.
ReliablePaging == {<<"all", mode>> : mode \in {"semantic", "lexical", "listing"}}
                  \cup {<<front, "listing">> : front \in {"tool", "next", "cli"}}
                  \cup {<<"next", "list">>}

\* Following the pages to the end reaches every match that was there all along, if nothing
\* was deleted meanwhile; memories may be created (client.py 3017-3080).
PagesReachAll ==
    (/\ search.pc = "done" /\ ~search.went
     /\ <<search.front, search.mode>> \in ReliablePaging)
      => search.steady \subseteq {m.id : m \in search.got}

\* No memory is shown twice if none was created meanwhile.
NothingTwice == search.twice => search.came

\* A memory that does not match the soft filters is shown only if, at some moment of the
\* search, no memory of the owner did: a later page is never filled up with them.
RelaxedOnlyIfNone ==
    (search.soft /\ \E m \in search.got : ~m.topical) => search.none
=============================================================================
