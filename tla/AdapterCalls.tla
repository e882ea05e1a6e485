---------------------------- MODULE AdapterCalls ----------------------------
(***************************************************************************)
(* Calls of one host through the framework adapters (src/adapters), side   *)
(* by side on one thread. A call is classified (AdapterTables), waits for  *)
(* the wrapper's Auditor, and is run by runAudited, of which every adapter *)
(* has the same text: record the intent, run the host's handler, record    *)
(* the result. Around that the adapters differ, and that is modelled here: *)
(*   operations, engine, transaction, connection   GBrain: what is not     *)
(*                audited, transactions that roll back, raw connections    *)
(*   langgraph    list, a generator that is audited as a whole             *)
(*   langchain    the numbers of added messages                            *)
(*   mem0, mastra, letta, agent-letta   methods the host may not have      *)
(*                                                                         *)
(* Auditor.record is one step: it adds the row, or throws with or without  *)
(* the row in the store (AuditedCall has its steps, and the store). The    *)
(* rows of each call are kept apart, their order across calls left out.    *)
(*                                                                         *)
(* The wrapped objects are the host's and external: a writing method makes *)
(* its change while it runs and then returns or throws; a database keeps   *)
(* the changes of a transaction or undoes them all.                        *)
(***************************************************************************)
EXTENDS AdapterTables, FiniteSets

CONSTANTS Calls,       \* calls a host makes
          Menu,        \* what each may be: <<surface, name, arguments>>
          Who,         \* the identities each may be made under
          OptionSets,  \* the options to choose from
          MaxItems,    \* bound: items of a listing
          MaxFaults    \* bound: records and Auditors that fail

ASSUME CallAssumption  == IsFiniteSet(Calls)
ASSUME BoundAssumption == MaxItems \in Nat /\ MaxFaults \in Nat
ASSUME MenuAssumption  == \A c \in Calls : \A m \in Menu[c] :
                             m[1] = "langchain" => m[3].number \in Nat

GBrainEngine == {"engine", "transaction", "connection"}
GBrain       == {"operations"} \cup GBrainEngine

\* What writes and is in no table: operations of admin scope or of none
\* (sync_brain stands for them), raw SQL, the configuration, and mem0's reset.
Unlisted == {"sync_brain", "executeRaw", "setConfig", "reset"}

\* The methods that change what the host's object keeps.
Writers(surface) ==
    CASE surface = "operations" ->
           {"put_page", "delete_page", "add_tag", "remove_tag", "add_link", "remove_link",
            "add_timeline_entry", "revert_version", "put_raw_data", "new_memory_write",
            "sync_brain"}
      [] surface \in {"engine", "transaction"} ->
           {"putPage", "deletePage", "upsertChunks", "deleteChunks", "addLink",
            "addLinksBatch", "removeLink", "addTag", "removeTag", "addTimelineEntry",
            "addTimelineEntriesBatch", "putRawData", "createVersion", "revertToVersion",
            "updateSlug", "rewriteLinks", "executeRaw", "setConfig"}
      [] surface = "connection" -> {"executeRaw"}
      [] surface = "langgraph" -> {"put", "putWrites", "deleteThread"}
      [] surface = "langchain" ->
           {"addMessage", "addMessages", "addUserMessage", "addAIMessage", "clear"}
      [] surface = "mastra" ->
           {"updateWorkingMemory", "createThread", "updateThread", "deleteThread",
            "saveMessages", "updateMessages", "deleteMessages", "indexObservation"}
      [] surface = "mem0" ->
           {"add", "update", "delete", "deleteAll", "batchUpdate", "batchDelete", "reset"}
      [] surface = "letta"       -> {"create", "update", "delete"}
      [] surface = "agent-letta" -> {"update", "attach", "detach"}
      [] OTHER -> {}

\* The scope GBrain gives each of its operations.
Scope(n) == IF n \in {"sync_brain", "get_stats", "find_orphans"} THEN "admin"
            ELSE IF n \in Writers("operations") THEN "write" ELSE "read"

VARIABLES options,    \* how the host wrapped its objects
          pc,         \* how far each call has come
          call,       \* what each call is
          created,    \* wrappers whose Auditor exists
          broken,     \* wrappers whose Auditor could not be created
          rows,       \* what was recorded of each call, in order
          effect,     \* what each call changed: "none", "open", "kept", "undone"
          tx,         \* GBrain's transaction
          counter,    \* langchain's messageCounter
          crossed,    \* an add was made while another one was under way
          items,      \* items of a listing that reached the caller
          outcome,    \* what the caller got
          faults

vars == <<options, pc, call, created, broken, rows, effect, tx, counter, crossed,
          items, outcome, faults>>

Skip    == Class("skip", <<>>)
Refused == Class("refused", <<>>)
NoCall  == [surface |-> "", name |-> "", class |-> Skip, args |-> <<>>,
            identity |-> None, first |-> 0, last |-> 0]

Init == /\ options \in OptionSets
        /\ pc = [c \in Calls |-> "new"]
        /\ call = [c \in Calls |-> NoCall]
        /\ created = {} /\ broken = {}
        /\ rows = [c \in Calls |-> <<>>]
        /\ effect = [c \in Calls |-> "none"]
        /\ tx = "none"
        /\ counter = 0 /\ crossed = FALSE
        /\ items = [c \in Calls |-> 0]
        /\ outcome = [c \in Calls |-> "none"]
        /\ faults = 0

(* ---------------------------- classification ---------------------------- *)

MaybeSkipRead(class, scope) ==
    IF /\ class.operation = "view"
       /\ ~options.reads \/ (scope = "admin" /\ ~options.adminReads)
    THEN Skip ELSE class

\* The class a host's own classifyOperation or classifyEngineMethod gives.
HostClass(n) == Insert(<<"host", n>>)

\* Mutant: what the table does not know is let through.
IsNoWrite(scope) == FALSE
IsUnclassifiedWrite(scope) == scope = "write"

\* Both classify by the host's override, or else by the table.
IsClassified(n, table) == n \in options.optsIn \cup DOMAIN table
ClassOf(n, table)      == IF n \in options.optsIn THEN HostClass(n) ELSE table[n]

OperationClass(n, p) ==
    LET table == OperationTable(BrainIdFrom(p.brain, options.brain), p) IN
    IF n \in options.skips THEN Skip
    ELSE IF IsClassified(n, table) THEN MaybeSkipRead(ClassOf(n, table), Scope(n))
    ELSE IF IsUnclassifiedWrite(Scope(n)) THEN Refused ELSE Skip

EngineClass(n, a) ==
    LET table == EngineTable(BrainIdFrom(None, options.brain), a) IN
    IF n \in options.skips \/ ~IsClassified(n, table) THEN Skip
    ELSE MaybeSkipRead(ClassOf(n, table), "none")

(* -------------------------------- identity ------------------------------- *)

\* own: the identity the adapter derives from the call; context: that of the
\* caller's AsyncLocalStorage. Tenants are left out.
ResolveIdentity(own, context) ==
    LET actor   == Or(own.actor, Or(options.actor, context.actor))
        session == Or(own.session, context.session)
    IN  [actor |-> actor, session |-> session,
         error |-> \/ "" \in {actor, session}
                   \/ {actor, session} = {None} /\ ~options.allowAnonymous]

Nobody == [actor |-> None, session |-> None]

\* defaultOperationIdentity: the OAuth client, and the subagent or the job.
OperationIdentity(auth) == [auth EXCEPT !.actor = IF @ = "" THEN None ELSE @]

(* ------------------------------ making a call ---------------------------- *)

Goto(c, l) == pc' = [pc EXCEPT ![c] = l]

\* The call is over, and how it looks to its caller.
End(c, how) == Goto(c, "ended") /\ outcome' = [outcome EXCEPT ![c] = how]

\* A method is called; nothing has been awaited yet.
Make(c, surface, n, class, a, identity) ==
    /\ pc[c] = "new"
    /\ call' = [call EXCEPT ![c] = [NoCall EXCEPT !.surface = surface, !.name = n,
                                      !.class = class, !.args = a, !.identity = identity]]
    /\ \/ class = Refused /\ End(c, "refused")
       \/ class = Skip /\ Goto(c, "bare") /\ UNCHANGED outcome
       \/ class \notin {Skip, Refused} /\ Goto(c, "auditor") /\ UNCHANGED outcome
    /\ UNCHANGED <<options, created, broken, rows, effect, counter, crossed, items, faults>>

\* wrapOperation
CallOperation(c) ==
    \E m \in Menu[c], who \in Who[c] :
       /\ m[1] = "operations"
       /\ Make(c, m[1], m[2], OperationClass(m[2], m[3]), m[3],
               ResolveIdentity(OperationIdentity(who.own), who.context))
       /\ UNCHANGED tx

\* wrapEngineWithAuditor
CallMethod(c, surface) ==
    \E m \in Menu[c], who \in Who[c] :
       /\ m[1] = surface
       /\ Make(c, m[1], m[2], EngineClass(m[2], m[3]), m[3],
               ResolveIdentity(who.own, who.context))
CallEngine(c) == CallMethod(c, "engine") /\ UNCHANGED tx

\* A callback of engine.transaction calls a method of the engine it is handed,
\* which is wrapped as well; the first such call is made in a new transaction.
CallInTransaction(c) ==
    /\ tx \in {"none", "open"} /\ tx' = "open"
    /\ CallMethod(c, "transaction")

\* wrapReservedConnection audits executeRaw and nothing else.
CallConnection(c) ==
    \E m \in Menu[c], who \in Who[c] :
       /\ m[1] = "connection"
       /\ Make(c, m[1], m[2],
               IF m[2] = "executeRaw" THEN EngineClass(m[2], m[3]) ELSE Skip, m[3],
               ResolveIdentity(who.own, who.context))
       /\ UNCHANGED tx

\* The adapters whose options are those of wrap(), under the caller's context.
Table(surface, a) ==
    CASE surface = "langgraph"   -> LangGraphTable(a)
      [] surface = "langchain"   -> LangChainTable(a)
      [] surface = "mastra"      -> MastraTable(a)
      [] surface = "mem0"        -> Mem0Table(a)
      [] surface = "letta"       -> LettaTable(FALSE, a)
      [] surface = "agent-letta" -> LettaTable(TRUE, a)

Frameworks == {"langgraph", "langchain", "mastra", "mem0", "letta", "agent-letta"}

\* langchain passes an empty list of messages on.
FrameworkClass(surface, n, a) ==
    LET table == Table(surface, a) IN
    IF n \notin DOMAIN table \/ (n = "addMessages" /\ a.number = 0)
    THEN Skip ELSE table[n]

CallFramework(c) ==
    \E m \in Menu[c], who \in Who[c] :
       /\ m[1] \in Frameworks
       /\ Make(c, m[1], m[2], FrameworkClass(m[1], m[2], m[3]), m[3],
               ResolveIdentity(Nobody, who.context))
       /\ UNCHANGED tx

(* ------------------------------- runAudited ------------------------------ *)

\* Every wrapped operation, and every other wrapped object, has an Auditor of
\* its own; a transaction and a raw connection use that of their engine.
Wrapper(c) == IF call[c].surface \in GBrainEngine THEN "engine"
              ELSE IF call[c].surface = "operations" THEN call[c].name
              ELSE call[c].surface

\* getAuditor keeps the promise of Auditor.create, rejected or not.
CreateAuditor(c) ==
    /\ pc[c] = "auditor" /\ Wrapper(c) \notin created \cup broken
    /\ \/ created' = created \cup {Wrapper(c)} /\ UNCHANGED <<broken, faults>>
       \/ /\ faults < MaxFaults /\ faults' = faults + 1
          /\ broken' = broken \cup {Wrapper(c)} /\ UNCHANGED created
    /\ UNCHANGED <<options, pc, call, rows, effect, tx, counter, crossed, items, outcome>>

AuditorFails(c) ==
    /\ pc[c] = "auditor" /\ Wrapper(c) \in broken
    /\ End(c, "audit error")
    /\ UNCHANGED <<options, call, created, broken, rows, effect, tx, counter, crossed, items, faults>>

IsListing(c) == call[c].surface = "langgraph" /\ call[c].name = "list"

\* The messages an add is about, by the counter when its Auditor is there.
Numbers(c) ==
    LET n == call[c].name IN
    IF call[c].surface # "langchain" THEN 0
    ELSE IF n = "addMessages" THEN call[c].args.number
    ELSE IF n \in {"addMessage", "addUserMessage", "addAIMessage"} THEN 1 ELSE 0

Numbered(c) == IF Numbers(c) = 0 THEN call[c]
               ELSE [call[c] EXCEPT !.first = counter + 1, !.last = counter + Numbers(c)]

Row(r, phase, status, count) ==
    [phase |-> phase, status |-> status, class |-> r.class,
     actor |-> r.identity.actor, first |-> r.first, last |-> r.last, count |-> count]
Intent(r)         == Row(r, "intent", "pending", 0)
Result(r, status) == Row(r, "result", status, 0)

\* One or two calls of Auditor.record in a row: all rows are there, or one of
\* them threw, before or after its row was committed.
Record(c, new) == rows' = [rows EXCEPT ![c] = @ \o new] /\ UNCHANGED faults
RecordFails(c, new) ==
    /\ faults < MaxFaults /\ faults' = faults + 1
    /\ \E k \in 0 .. Len(new) : rows' = [rows EXCEPT ![c] = @ \o SubSeq(new, 1, k)]

\* The await of the Auditor is over: everything up to the handler's first await.
RunAudited(c) ==
    /\ pc[c] = "auditor" /\ Wrapper(c) \in created
    /\ call[c].name \notin options.missing
    /\ LET r == Numbered(c) IN
       /\ call' = [call EXCEPT ![c] = r]
       /\ crossed' = (crossed \/ (Numbers(c) > 0 /\
                         \E d \in Calls : pc[d] = "running" /\ Numbers(d) > 0))
       /\ \/ ~r.identity.error /\ Record(c, <<Intent(r)>>)
             /\ Goto(c, IF IsListing(c) THEN "listing" ELSE "running")
             /\ UNCHANGED outcome
          \/ /\ ~r.identity.error /\ RecordFails(c, <<Intent(r)>>)
             /\ End(c, "audit error")
          \/ /\ r.identity.error /\ Record(c, <<Intent(r), Result(r, "validation_error")>>)
             /\ End(c, "refused")
          \/ /\ r.identity.error /\ RecordFails(c, <<Intent(r), Result(r, "validation_error")>>)
             /\ End(c, "audit error")
    /\ UNCHANGED <<options, created, broken, effect, tx, counter, items>>

\* A method the wrapped object does not have: a TypeError before any row.
MethodMissing(c) ==
    /\ pc[c] = "auditor" /\ Wrapper(c) \in created
    /\ call[c].name \in options.missing
    /\ End(c, "refused")
    /\ UNCHANGED <<options, call, created, broken, rows, effect, tx, counter, crossed, items, faults>>

\* An empty list of messages changes nothing.
Changes(c) == /\ call[c].name \in Writers(call[c].surface)
              /\ ~(call[c].name = "addMessages" /\ Numbers(c) = 0)

\* The handler, audited or not, changes the memory it is about.
Mutate(c) ==
    /\ pc[c] \in {"running", "bare"} /\ effect[c] = "none"
    /\ Changes(c)
    /\ effect' = [effect EXCEPT ![c] = IF call[c].surface = "transaction" THEN "open" ELSE "kept"]
    /\ UNCHANGED <<options, pc, call, created, broken, rows, tx, counter, crossed,
                   items, outcome, faults>>

\* Mutant: after several messages the counter moves on by one.
CounterByOne(c) == IF Numbers(c) = 0 THEN counter ELSE call[c].first
\* messageCounter after an add that was recorded: read before the handler ran
\* where one message was added, now where several were.
CounterAfter(c) ==
    CASE Numbers(c) = 0               -> counter
      [] call[c].name = "addMessages" -> counter + Numbers(c)
      [] OTHER                        -> call[c].first

\* Mutant: the handler's promise is not awaited.
ReturnsUnawaited(c) ==
    /\ pc[c] = "running"
    /\ Record(c, <<Result(call[c], "ok")>>) /\ End(c, "value")
    /\ counter' = CounterAfter(c)
    /\ UNCHANGED <<options, call, created, broken, effect, tx, crossed, items>>
\* The handler is done, and has made its change if it was to make one.
HandlerReturns(c) ==
    /\ pc[c] = "running" /\ (Changes(c) => effect[c] # "none")
    /\ \/ /\ Record(c, <<Result(call[c], "ok")>>) /\ End(c, "value")
          /\ counter' = CounterAfter(c)
       \/ /\ RecordFails(c, <<Result(call[c], "ok")>>) /\ End(c, "audit error")
          /\ UNCHANGED counter
    /\ UNCHANGED <<options, call, created, broken, effect, tx, crossed, items>>

HandlerThrows(c) ==
    /\ pc[c] = "running"
    /\ \/ Record(c, <<Result(call[c], "error")>>) /\ End(c, "error")
       \/ RecordFails(c, <<Result(call[c], "error")>>) /\ End(c, "audit error")
    /\ UNCHANGED <<options, call, created, broken, effect, tx, counter, crossed, items>>

\* A call that is not audited: what the handler does is what the caller gets.
BareEnds(c) ==
    /\ pc[c] = "bare"
    /\ \/ (Changes(c) => effect[c] # "none") /\ End(c, "value")
       \/ End(c, "error")
    /\ UNCHANGED <<options, call, created, broken, rows, effect, tx, counter, crossed, items, faults>>

(* ----------------------------- LangGraph's list --------------------------- *)

\* One next() of the caller, answered with an item. A caller that stops asking
\* leaves the generator where it is.
Yield(c) ==
    /\ pc[c] = "listing" /\ items[c] < MaxItems
    /\ items' = [items EXCEPT ![c] = @ + 1]
    /\ UNCHANGED <<options, pc, call, created, broken, rows, effect, tx, counter, crossed,
                   outcome, faults>>

\* Mutant: no finally block, so that only an exhausted listing is recorded.
EndsWithoutFinally(c) ==
    /\ pc[c] = "listing"
    /\ End(c, "value")
    /\ UNCHANGED <<options, call, created, broken, rows, effect, tx, counter, crossed, items, faults>>
\* The listing is exhausted, or the caller breaks out of its loop: the finally
\* block records what was yielded so far.
ListingEnds(c) ==
    /\ pc[c] = "listing"
    /\ LET row == Row(call[c], "result", "ok", items[c]) IN
       \/ Record(c, <<row>>) /\ End(c, "value")
       \/ RecordFails(c, <<row>>) /\ End(c, "audit error")
    /\ UNCHANGED <<options, call, created, broken, effect, tx, counter, crossed, items>>

\* The saver's own iterator throws, while it is read or when it is closed.
ListingThrows(c) ==
    /\ pc[c] = "listing"
    /\ \/ Record(c, <<Result(call[c], "error")>>) /\ End(c, "error")
       \/ RecordFails(c, <<Result(call[c], "error")>>) /\ End(c, "audit error")
    /\ UNCHANGED <<options, call, created, broken, effect, tx, counter, crossed, items>>

(* -------------------------- GBrain's transaction -------------------------- *)

InTransaction(c) == call[c].surface = "transaction"

\* The callback returns or throws when the calls it made have ended.
EndTransaction(how, fate) ==
    /\ tx = "open" /\ tx' = how
    /\ \A c \in Calls : InTransaction(c) => pc[c] = "ended"
    /\ effect' = [c \in Calls |-> IF effect[c] = "open" THEN fate ELSE effect[c]]
    /\ UNCHANGED <<options, pc, call, created, broken, rows, counter, crossed, items,
                   outcome, faults>>
CommitTransaction   == EndTransaction("committed", "kept")
RollbackTransaction == EndTransaction("rolled back", "undone")

Next == \/ \E c \in Calls :
              \/ CallOperation(c) \/ CallEngine(c) \/ CallInTransaction(c)
              \/ CallConnection(c) \/ CallFramework(c)
              \/ CreateAuditor(c) \/ AuditorFails(c) \/ MethodMissing(c) \/ RunAudited(c)
              \/ Mutate(c) \/ HandlerReturns(c) \/ HandlerThrows(c) \/ BareEnds(c)
              \/ Yield(c) \/ ListingEnds(c) \/ ListingThrows(c)
        \/ CommitTransaction \/ RollbackTransaction

Spec == Init /\ [][Next]_vars

-------------------------------------------------------------------------------
\* What the adapters let through without a row: what the host classifies as
\* null, and what is in no table unless the host classifies that itself.
PassedOn(c) ==
    LET own == call[c].surface \in GBrain IN
    \/ own /\ call[c].name \in options.skips
    \/ call[c].name \in Unlisted /\ ~(own /\ call[c].name \in options.optsIn)

(* "The wrapper path fails closed before provider execution if the intent   *)
(* row cannot be written": no change reaches the host's memory before      *)
(* an intent row of its call, whatever the read options and however records *)
(* fail. The tables know every method that writes but raw SQL, the          *)
(* configuration, operations without write scope and mem0's reset (tests    *)
(* "skips non-memory GBrain operations by default", "skips raw SQL ...");   *)
(* an operation of scope write that no table has is refused.                *)
EffectIsAnnounced ==
    \A c \in Calls : effect[c] # "none" /\ ~PassedOn(c)
                      => rows[c] # <<>> /\ rows[c][1].phase = "intent"

(* The rows of an audited call say what its caller saw: one result under    *)
(* the intent, of that status, and for a listing the number of items that   *)
(* came through, however the listing ended. A refused call changed nothing, *)
(* and only a failing record leaves anything else.                          *)
RecordedAsSeen ==
    \A c \in Calls :
       LET statuses == [i \in DOMAIN rows[c] |-> rows[c][i].status] IN
       /\ pc[c] \in {"running", "listing"} => statuses = <<"pending">>
       /\ pc[c] = "ended" /\ call[c].class # Skip =>
            CASE outcome[c] = "value"   -> /\ statuses = <<"pending", "ok">>
                                           /\ rows[c][2].count = items[c]
              [] outcome[c] = "error"   -> statuses = <<"pending", "error">>
              [] outcome[c] = "refused" -> /\ statuses \in {<<>>, <<"pending", "validation_error">>}
                                           /\ effect[c] = "none"
              [] OTHER                  -> outcome[c] = "audit error" /\ Len(statuses) <= 2

(* An ok row is true of the memory: the change it stands for is there, or   *)
(* was made in a transaction that is still open or has rolled back, and     *)
(* then its rows stay.                                                      *)
OkIsKept ==
    \A c \in Calls : \A i \in DOMAIN rows[c] :
       rows[c][i].status = "ok" /\ Changes(c) =>
          \/ effect[c] = "kept" /\ tx # "rolled back"
          \/ effect[c] = "kept" /\ ~InTransaction(c)
          \/ effect[c] = "open" /\ tx = "open" /\ InTransaction(c)
          \/ effect[c] = "undone" /\ tx = "rolled back" /\ InTransaction(c)

(* "lets multiple addMessage calls within one session disambiguate": as     *)
(* long as adds never overlap, no two messages that were added get the same *)
(* number, of whatever mix of methods.                                      *)
NumbersAreDistinct ==
    ~crossed => \A c, d \in Calls :
       /\ c # d /\ outcome[c] = "value" /\ outcome[d] = "value"
       /\ Numbers(c) > 0 /\ Numbers(d) > 0
       => call[c].last < call[d].first \/ call[d].last < call[c].first

\* What GBrain's methods are about, where that is one thing.
TargetOf(n, a) ==
    CASE n \in {"get_page", "put_page", "delete_page"} -> <<"page", a.slug>>
      [] n \in {"getPage", "putPage", "deletePage"}    -> <<"page", Arg(a, 1)>>
      [] n \in {"add_tag", "remove_tag"}               -> <<"tag", a.slug, a.tag>>
      [] n \in {"addTag", "removeTag"}                 -> <<"tag", Arg(a, 1), Arg(a, 2)>>
      [] n = "add_link"           -> <<"link", a.from, a.to, Or(a.link_type, "link")>>
      [] n = "addLink"            -> <<"link", Arg(a, 1), Arg(a, 2), Or(Arg(a, 4), "link")>>
      [] n = "removeLink"         -> <<"link", Arg(a, 1), Arg(a, 2), Or(Arg(a, 3), "link")>>
      [] n = "add_timeline_entry" -> <<"entry", a.slug, a.date>>
      [] n = "addTimelineEntry"   -> <<"entry", Arg(a, 1), Arg(a, 2)>>
      [] n = "put_raw_data"       -> <<"raw", a.slug, a.source>>
      [] n = "putRawData"         -> <<"raw", Arg(a, 1), Arg(a, 2)>>
      [] n = "revert_version"     -> <<"version", a.slug, a.version_id>>
      [] n = "revertToVersion"    -> <<"version", Arg(a, 1), Arg(a, 2)>>
      [] OTHER                    -> <<>>

Target(c) == TargetOf(call[c].name, call[c].args)

\* The folder of what is kept under a page.
Folder == [tag |-> "tags", entry |-> "timeline", raw |-> "raw-data", version |-> "versions"]

\* Paths do not tell where a slug ends: t is the page whose slug goes on like
\* the path of u, or both are links whose slugs meet at different slashes.
Coincide(t, u) ==
    \/ /\ t[1] = "page" /\ u[1] \in DOMAIN Folder
       /\ SlugPath(t[2]) = SlugPath(u[2]) \o <<Folder[u[1]], Segment(u[3])>>
    \/ /\ t[1] = "link" /\ u[1] = "link"
       /\ Len(SlugPath(t[2])) # Len(SlugPath(u[2]))

(* A reader who follows one page, tag, link, timeline entry, raw datum or   *)
(* version by the path of the rows finds every call about it, made as an    *)
(* operation or on an engine. He finds calls about something else only      *)
(* where slashes in slugs make the two paths coincide: page                 *)
(* people/alice/tags/founder and tag founder of people/alice share one.     *)
RowsNameTheirTarget ==
    \A c, d \in Calls :
       LET t == Target(c)
           u == Target(d)
           samePath == rows[c][1].class.path = rows[d][1].class.path
       IN  rows[c] # <<>> /\ rows[d] # <<>> /\ t # <<>> /\ u # <<>> =>
              /\ t = u => samePath
              /\ samePath => t = u \/ Coincide(t, u) \/ Coincide(u, t)
=============================================================================
