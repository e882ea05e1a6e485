---------------------------- MODULE AdapterTables ----------------------------
(***************************************************************************)
(* What the framework adapters of psy-core record of a call: per adapter   *)
(* a table from the method's name to the canonical operation and the       *)
(* synthesized path of the row (src/adapters/*/wrap.ts).                   *)
(*                                                                         *)
(* A path is the sequence of its segments. A name is one segment, since    *)
(* encoding leaves no slash in it; but the slug of a GBrain page is as many *)
(* as its slashes make. The counts of items that some paths end in are     *)
(* left out; the hash of a query is the query.                             *)
(* The arguments of a call are a record with the fields its method reads,  *)
(* None where the caller gave none.                                        *)
(***************************************************************************)
EXTENDS Naturals, Sequences

CONSTANTS None,   \* undefined
          Split   \* the slugs with slashes in them, each with its segments

\* A slug is told by its segments: slashes that are doubled, or at an end of a
\* slug, and that split drops, are left out.
ASSUME SplitAssumption ==
    /\ \A v \in DOMAIN Split : Split[v] \in Seq(STRING) /\ Len(Split[v]) > 1
    /\ \A v, w \in DOMAIN Split : Split[v] = Split[w] => v = w

\* The operator ?? of the code.
Or(v, fallback)    == IF v = None THEN fallback ELSE v
\* pathSegment: the fallback replaces what is missing or empty.
Missing            == {None, ""}
Given(v, fallback) == IF v \in Missing THEN fallback ELSE v
Segment(v)         == Given(v, "unknown")

Class(operation, path) ==
    [operation |-> operation, path |-> path, new_path |-> <<>>]
View(path)    == Class("view", path)
Create(path)  == Class("create", path)
Replace(path) == Class("str_replace", path)
Insert(path)  == Class("insert", path)
Delete(path)  == Class("delete", path)

(* -------------------------------- LangGraph ------------------------------ *)

ThreadPath(a)     == <<"threads", Given(a.thread_id, "unknown-thread"),
                       Given(a.checkpoint_ns, "_")>>
CheckpointPath(a) == Append(ThreadPath(a), Given(a.checkpoint_id, "latest"))

\* checkpoint is the id of the checkpoint that is put, and not of its parent.
LangGraphTable(a) ==
    [getTuple     |-> View(CheckpointPath(a)),
     get          |-> View(CheckpointPath(a)),
     list         |-> View(Append(ThreadPath(a), "list")),
     put          |-> Create(Append(ThreadPath(a), Segment(a.checkpoint))),
     putWrites    |-> Insert(CheckpointPath(a) \o <<"writes", Segment(a.task)>>),
     deleteThread |-> Delete(<<"threads", Segment(a.thread_id)>>)]

(* -------------------------------- LangChain ------------------------------ *)

MessagesPath(a) == <<"sessions", Segment(a.session), "messages">>

\* A row of an add also names the numbers of the messages; see AdapterCalls.
LangChainTable(a) ==
    [getMessages    |-> View(MessagesPath(a)),
     addMessage     |-> Insert(MessagesPath(a)),
     addMessages    |-> Insert(MessagesPath(a)),
     addUserMessage |-> Insert(Append(MessagesPath(a), "user")),
     addAIMessage   |-> Insert(Append(MessagesPath(a), "ai")),
     clear          |-> Delete(MessagesPath(a))]

(* --------------------------------- Mastra -------------------------------- *)

WorkingMemoryPath(a) == <<"working-memory",
                          Segment(Or(a.resourceId, a.threadId))>>
MastraThreadPath(id) == <<"threads", Segment(id)>>
ResourceThread(a)    == <<"threads", "resource", Segment(a.resourceId)>>
MastraMessages(id)   == <<"messages", Segment(id)>>
DeletedMessages(a)   == IF a.message = None THEN <<"messages", "empty">>
                        ELSE <<"messages", "by-id", a.message>>

\* The thread of messages is that of the first one that names a thread.
MastraTable(a) ==
    [getWorkingMemory    |-> View(WorkingMemoryPath(a)),
     updateWorkingMemory |-> Replace(WorkingMemoryPath(a)),
     createThread        |-> Create(IF a.threadId \in Missing THEN ResourceThread(a)
                                    ELSE MastraThreadPath(a.threadId)),
     updateThread        |-> Replace(MastraThreadPath(a.threadId)),
     deleteThread        |-> Delete(MastraThreadPath(a.threadId)),
     getThreadById       |-> View(MastraThreadPath(a.threadId)),
     saveMessages        |-> Create(MastraMessages(a.threadId)),
     updateMessages      |-> Replace(MastraMessages(a.threadId)),
     deleteMessages      |-> Delete(DeletedMessages(a)),
     recall              |-> View(MastraMessages(a.threadId)),
     searchMessages      |-> View(<<"semantic-recall", Segment(a.resourceId), Segment(a.query)>>),
     indexObservation    |-> Create(<<"observational-memory", Segment(a.threadId),
                                      Segment(a.groupId)>>)]

(* ---------------------------------- Mem0 --------------------------------- *)

\* The first of user, agent, run and app that is given.
EntityScope(a) ==
    LET given == SelectSeq(<<<<"users", a.user>>, <<"agents", a.agent>>,
                             <<"runs", a.run>>, <<"apps", a.app>>>>,
                           LAMBDA s : s[2] \notin Missing)
    IN  IF given = <<>> THEN <<"unscoped">> ELSE Head(given)

Mem0Table(a) ==
    [add         |-> Create(Append(EntityScope(a), "pending")),
     search      |-> View(<<"search">> \o EntityScope(a)),
     get         |-> View(<<"memories", Segment(a.memory)>>),
     getAll      |-> View(<<"all">> \o EntityScope(a)),
     history     |-> View(<<"memories", Segment(a.memory), "history">>),
     update      |-> Replace(<<"memories", Segment(a.memory)>>),
     delete      |-> Delete(<<"memories", Segment(a.memory)>>),
     deleteAll   |-> Delete(Append(EntityScope(a), "all")),
     batchUpdate |-> Replace(<<"batch", "update", Or(a.items, "unknown")>>),
     batchDelete |-> Delete(<<"batch", "delete", Or(a.items, "unknown")>>)]

(* --------------------------------- Letta --------------------------------- *)

GlobalBlock(a)   == <<"blocks", Segment(a.block)>>
LabelledBlock(a) == <<"blocks", "label", Segment(a.label)>>
AgentBlock(a)    == <<"agents", Segment(a.agent), "blocks", Segment(a.label)>>
AgentBlockId(a)  == <<"agents", Segment(a.agent), "blocks", "id", Segment(a.block)>>

LettaBlocksTable(a) ==
    [create   |-> Create(LabelledBlock(a)),
     retrieve |-> View(GlobalBlock(a)),
     update   |-> Replace(GlobalBlock(a)),
     delete   |-> Delete(GlobalBlock(a))]

LettaAgentTable(a) ==
    [retrieve |-> View(AgentBlock(a)),
     update   |-> Replace(AgentBlock(a)),
     attach   |-> Create(AgentBlockId(a)),
     detach   |-> Delete(AgentBlockId(a))]

\* wrap tells the two resources apart by the method only one of them has.
LettaTable(agentScoped, a) ==
    IF agentScoped THEN LettaAgentTable(a) ELSE LettaBlocksTable(a)

(* -------------------------------- GBrain --------------------------------- *)

\* brainIdFrom: that of the operation's context, of the options, or "host".
BrainIdFrom(own, fallback) == Given(own, Given(fallback, "host"))

BrainPath(b)             == <<"brains", Segment(b)>>
\* The slashes of a slug are those of its path.
SlugPath(v)              == IF v \in DOMAIN Split THEN Split[v] ELSE <<Given(v, "unknown")>>
PagePath(b, slug)        == BrainPath(b) \o <<"pages">> \o SlugPath(slug)
TagPath(b, slug, tag)    == PagePath(b, slug) \o <<"tags", Segment(tag)>>
LinkPath(b, from, to, t) == BrainPath(b) \o <<"links">> \o SlugPath(from)
                              \o <<Given(t, "link")>> \o SlugPath(to)
Hashed(v)                == Or(v, "")

\* p: the named parameters of a GBrain operation.
OperationTable(b, p) ==
    LET brain == BrainPath(b)
        page  == PagePath(b, p.slug)
    IN
    [get_page           |-> View(page),
     put_page           |-> Replace(page),
     delete_page        |-> Delete(page),
     list_pages         |-> View(brain \o <<"pages">>),
     search             |-> View(brain \o <<"search", "keyword", Hashed(p.query)>>),
     query              |-> View(brain \o <<"search", "hybrid", Hashed(p.query)>>),
     add_tag            |-> Insert(TagPath(b, p.slug, p.tag)),
     remove_tag         |-> Delete(TagPath(b, p.slug, p.tag)),
     get_tags           |-> View(page \o <<"tags">>),
     add_link           |-> Insert(LinkPath(b, p.from, p.to, p.link_type)),
     remove_link        |-> Delete(LinkPath(b, p.from, p.to, None)),
     get_links          |-> View(page \o <<"links", "out">>),
     get_backlinks      |-> View(page \o <<"links", "in">>),
     traverse_graph     |-> View(page \o <<"graph">>),
     add_timeline_entry |-> Insert(page \o <<"timeline", Segment(p.date)>>),
     get_timeline       |-> View(page \o <<"timeline">>),
     get_versions       |-> View(page \o <<"versions">>),
     revert_version     |-> Replace(page \o <<"versions", Segment(p.version_id)>>),
     put_raw_data       |-> Replace(page \o <<"raw-data", Segment(p.source)>>),
     get_raw_data       |-> View(page \o <<"raw-data", Segment(Or(p.source, "all"))>>),
     resolve_slugs      |-> View(brain \o <<"resolve", Hashed(Or(p.partial, p.slug))>>),
     get_chunks         |-> View(page \o <<"chunks">>),
     find_orphans       |-> View(brain \o <<"orphans">>)]

\* The positional arguments of an engine method.
Arg(a, i) == IF i \in DOMAIN a THEN a[i] ELSE None

\* Mutant: the type is taken for the third argument, as in removeLink.
ThirdAsType(b, a)  == LinkPath(b, Arg(a, 1), Arg(a, 2), Arg(a, 3))
\* addLink(from, to, context, type)
AddedLinkPath(b, a) == LinkPath(b, Arg(a, 1), Arg(a, 2), Arg(a, 4))

EngineTable(b, a) ==
    LET arg(i) == Arg(a, i)
        brain  == BrainPath(b)
        page   == PagePath(b, arg(1))
    IN
    [getPage                 |-> View(page),
     putPage                 |-> Replace(page),
     deletePage              |-> Delete(page),
     listPages               |-> View(brain \o <<"pages">>),
     resolveSlugs            |-> View(brain \o <<"resolve", Hashed(arg(1))>>),
     getAllSlugs             |-> View(brain \o <<"pages", "slugs">>),
     searchKeyword           |-> View(brain \o <<"search", "keyword", Hashed(arg(1))>>),
     searchKeywordChunks     |-> View(brain \o <<"search", "chunks", Hashed(arg(1))>>),
     searchVector            |-> View(brain \o <<"search", "vector">>),
     getEmbeddingsByChunkIds |-> View(brain \o <<"chunks", "embeddings">>),
     upsertChunks            |-> Replace(page \o <<"chunks">>),
     getChunks               |-> View(page \o <<"chunks">>),
     getChunksWithEmbeddings |-> View(page \o <<"chunks">>),
     countStaleChunks        |-> View(brain \o <<"chunks", "stale", "count">>),
     listStaleChunks         |-> View(brain \o <<"chunks", "stale">>),
     deleteChunks            |-> Delete(page \o <<"chunks">>),
     addLink                 |-> Insert(AddedLinkPath(b, a)),
     addLinksBatch           |-> Insert(brain \o <<"links", "batch">>),
     removeLink              |-> Delete(LinkPath(b, arg(1), arg(2), arg(3))),
     getLinks                |-> View(page \o <<"links", "out">>),
     getBacklinks            |-> View(page \o <<"links", "in">>),
     findByTitleFuzzy        |-> View(brain \o <<"resolve-title", Hashed(arg(1))>>),
     traverseGraph           |-> View(page \o <<"graph">>),
     traversePaths           |-> View(page \o <<"graph">>),
     getBacklinkCounts       |-> View(brain \o <<"links", "backlink-counts">>),
     findOrphanPages         |-> View(brain \o <<"orphans">>),
     addTag                  |-> Insert(TagPath(b, arg(1), arg(2))),
     removeTag               |-> Delete(TagPath(b, arg(1), arg(2))),
     getTags                 |-> View(page \o <<"tags">>),
     addTimelineEntry        |-> Insert(page \o <<"timeline", Segment(Or(arg(2), "unknown-date"))>>),
     addTimelineEntriesBatch |-> Insert(brain \o <<"timeline", "batch">>),
     getTimeline             |-> View(page \o <<"timeline">>),
     putRawData              |-> Replace(page \o <<"raw-data", Segment(arg(2))>>),
     getRawData              |-> View(page \o <<"raw-data", Segment(Or(arg(2), "all"))>>),
     createVersion           |-> Insert(page \o <<"versions">>),
     getVersions             |-> View(page \o <<"versions">>),
     revertToVersion         |-> Replace(page \o <<"versions", Segment(arg(2))>>),
     updateSlug              |-> [Class("rename", page) EXCEPT !.new_path = PagePath(b, arg(2))],
     rewriteLinks            |-> Replace(brain \o <<"links", "rewrite", Hashed(arg(1)),
                                                    Hashed(arg(2))>>)]
=============================================================================
