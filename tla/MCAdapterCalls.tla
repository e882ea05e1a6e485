--------------------------- MODULE MCAdapterCalls ---------------------------
(* An instance of AdapterCalls for TLC: one call of any method of any       *)
(* adapter beside one of those that other calls can get in the way of.      *)
EXTENDS AdapterCalls, TLC

CONSTANTS c1, c2

MCSplit == ("p/a" :> <<"p", "a">>) @@ ("k/t" :> <<"k", "t">>)
           @@ ("p/a/tags/t" :> <<"p", "a", "tags", "t">>)

Params == [slug |-> "p/a", tag |-> "t", from |-> "p/a", to |-> "t", link_type |-> "k", date |-> "t",
           version_id |-> "t", source |-> "t", query |-> "q", partial |-> "s", brain |-> None]
Given4 == <<"p/a", "t", None, "k">>

\* Their paths are those of tag t of p/a, and of the link k from p/a to t.
TagAsPage == [Params EXCEPT !.slug = "p/a/tags/t"]
LinkMoved == [Params EXCEPT !.from = "p", !.link_type = "a", !.to = "k/t"]

OneArg ==
    [langgraph |-> [thread_id |-> "t", checkpoint_ns |-> "", checkpoint_id |-> None,
                    checkpoint |-> "p", task |-> "w"],
     langchain |-> [session |-> "s", number |-> 2],
     mastra    |-> [resourceId |-> "r", threadId |-> "t", message |-> None, query |-> "q",
                    groupId |-> "g"],
     mem0      |-> [user |-> None, agent |-> "a", run |-> "r", app |-> None, memory |-> "m",
                    items |-> None],
     letta     |-> [agent |-> "a", label |-> "l", block |-> "b"]]
    @@ ("agent-letta" :> [agent |-> "a", label |-> "l", block |-> "b"])

Every(surface, names, a) == {<<surface, n, a>> : n \in names}

\* Every method of every adapter, and of those that default an argument the
\* same without it.
Everything ==
    Every("operations", DOMAIN OperationTable("b", Params)
                          \cup {"new_memory_write", "sync_brain", "get_stats", "whoami"}, Params)
    \cup Every("operations", {"add_link", "put_page", "resolve_slugs"},
               [f \in DOMAIN Params |-> IF f \in {"from", "to"} THEN Params[f] ELSE None])
    \cup Every("operations", {"put_page"}, TagAsPage) \cup Every("operations", {"add_link"}, LinkMoved)
    \cup Every("engine", DOMAIN EngineTable("b", <<>>) \cup {"connect", "executeRaw", "setConfig"}, Given4)
    \cup Every("engine", {"addLink", "getRawData"}, <<"p/a", None, None, None>>)
    \cup Every("transaction", {"addLink"}, Given4)
    \cup Every("connection", {"executeRaw", "release"}, <<>>)
    \cup Every("mem0", {"reset"}, OneArg["mem0"])
    \cup UNION {Every(s, DOMAIN Table(s, OneArg[s]), OneArg[s]) : s \in Frameworks}
    \cup Every("langchain", {"addMessages"}, [OneArg["langchain"] EXCEPT !.number = 0])

Few == Every("transaction", {"putPage"}, Given4) \cup Every("engine", {"addLink", "removeTag"}, Given4)
       \cup Every("langgraph", {"list"}, OneArg["langgraph"])
       \cup Every("langchain", {"addMessage", "addMessages"}, OneArg["langchain"])

MCMenu == (c1 :> Everything) @@ (c2 :> Few)

Client  == [actor |-> "agent", session |-> None]
Job     == [actor |-> "", session |-> "job"]
MCWho   == (c1 :> {[own |-> Nobody, context |-> Nobody], [own |-> Job, context |-> Client]})
           @@ (c2 :> {[own |-> Nobody, context |-> Client]})

Plain  == [reads |-> TRUE, adminReads |-> FALSE, skips |-> {}, optsIn |-> {}, brain |-> None,
           actor |-> None, allowAnonymous |-> FALSE, missing |-> {}]
Sparse == [reads |-> FALSE, adminReads |-> FALSE, skips |-> {"delete_page", "deletePage"},
           optsIn |-> {"executeRaw", "get_stats", "sync_brain"}, brain |-> "b", actor |-> None,
           allowAnonymous |-> TRUE,
           missing |-> {"deleteAll", "batchUpdate", "batchDelete", "indexObservation", "detach"}]
MCOptionSets == {Plain, Sparse}
=============================================================================
