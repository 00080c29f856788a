# strawberry-orm in TLA+

strawberry-orm (`src/src/strawberry_orm/`, about 20 000 lines of Python) serves
SQLAlchemy, Django and Tortoise models over GraphQL.  Most of it shapes data:
it turns models into types, and arguments into clauses.  Some of it keeps state
across steps that others interleave with, or must do several writes as if they
were one.  These modules model that part, starting with the pieces where a
mistake is silent: a change that runs twice, rows of another parent in an
answer, a nested write that stops half way, a row somebody was not to see.  The
clauses that three backends build of the same filter, order or grouping are
modelled as operators and held against what they mean.

Paths below are relative to `src/`; `batching.py` and the like are files of
`src/strawberry_orm/`.

 1. [The system](#the-system)
 2. [Modules and code](#modules-and-code)
 3. [Runs, bounds and results](#runs-bounds-and-results)
 4. [Fairness](#fairness)
 5. [What is proved](#what-is-proved)
 6. [What is only model-checked, and what is not modelled](#what-is-only-model-checked-and-what-is-not-modelled)
 7. [Where code and documentation disagree](#where-code-and-documentation-disagree)
 8. [Plan](#plan)

## The system

A process holds one schema.  Each GraphQL operation is executed by
graphql-core: resolvers that return awaitables run concurrently as tasks of one
event loop, the others run in the order of the selection.  Extensions wrap the
resolvers, and keep state per operation.  The contrib package adds an agent
that writes GraphQL operations with the help of a language model.

| component | state it keeps | operations | what is hard | what makes it correct |
| --- | --- | --- | --- | --- |
| MCP query agent, `contrib/mcp/agent.py` | per call: the conversation, its budgets, the pending clarification; per agent: the redeemed confirmations | `ask`, `resume`, the tools `run_graphql`, `lookup` and `ask_user` | calls interleave at each await; paused states are resumed late, twice, or elsewhere; the clock | a change runs once, on somebody's word; every tool call is replied to; every call ends |
| MCP server, `contrib/mcp/server.py` | the sealed state at the client | the tool `ask` | three kinds of client, each with its own way of showing a form | a change that must be confirmed never runs without a form |
| Clarifications and checks, `clarification.py`, `checks.py` | none | form schemas, validation of operations, truncation of results | none: pure | the verdicts the agent acts on |
| Relation batching, `batching.py` `BatchingExtension` | per operation and path: rows by the address of their parent, the reason of a bail; on each path the parents last stashed | `resolve` | one path is reached by many groups of parents, in any order; addresses are reused; a sibling fails | every field answers as if it were resolved alone, and N+1 statements become one |
| Relation connections, `batching.py` `RelationConnectionExtension` | per path: nothing, a task, pages by the address of their parent, or a bail; a page on a row | `resolve`, the shared read, `take_page` | siblings arrive before the read has answered; the shared task fails | one read for all; each field answers its own parent's page; nobody waits for ever |
| Optimizer and row scoping, `optimizer/extension.py` | marks on rows that are loaded and scoped | `resolve`, `_load_rows`, `RowScopeExtension.resolve` | a mark that outlives what it says; rows scoped twice, or not at all | no row of a scoped type is answered unless the scope lets it through |
| Lazy resolution, `lazy_resolution.py` | per operation: open probes, results by path, the report; on Tortoise the methods of the client | probes around resolvers, the flush at the end | probes are held across awaits and overlap; resolvers share rows | every lazy load is reported, and only those |
| Relay connections, `relay/connection.py` | a window on a query, the rows of a page | page, tail, count, slice of rows already read, groups | the page, its total and the count that locates a tail are statements of their own, and so is every page of a walk; cursors are any number | a page is what slicing the whole result would give; a walk meets every row once; a total was true while it was answered |
| Nested upserts, `upserts.py` | the stack of the walk, the transaction | `apply_upsert` | errors at any depth, re-sent payloads, three ORMs that save in different ways | the whole write or nothing; parents' scopes; repeatable |
| Reference lists, `backends/*.py` `apply_ref_list` | the relation of one row, what a list has collected | create, update, upsert, unlink, delete, in one list | the order differs between backends; an item fails half way; another request links and unlinks rows | the list ends as the input says; rows it may not touch stay |
| Mutation inputs, `mutations.py` | memo of input types by projection | normalised relation policies, recursive input types | recursion through memoised placeholders | one type per projection and depth |
| Repositories and policies, `repo.py`, `policy.py` | none of their own | `get`, `create`, `update`, `delete`, argument limits | hooks between load and save; a second writer | nothing is written before the hooks let it |
| Filters and ordering, `filters.py`, `fields.py`, `types.py`, `backends/*.py` | registries filled at import; on Tortoise the orders of the last 1024 queries | generated inputs, clauses | three-valued logic, scopes below relations, a shortcut past the join, NULLs in an order | the clause means what its input says, and shows nothing of hidden rows |
| Core and schema assembly, `core.py`, `_async.py` | registries; a query stashed on the operation's context | decorators, `schema()`, the automatic filter extension, `run_sync` | one context is shared by all fields of an operation | a filter applies to its own field; extensions run in the right order |
| Cutting and payloads, `cover.py`, `tags.py`, `payload.py` | copies of types by tag | schema cutting, error payloads | a payload hides a partial failure | errors are reported by kind |
| Backends, `backends/*.py` | type scopes, query orderings | everything above, in terms of each ORM | three ORMs with different sessions | the three behave alike |

How they interact:

  - `OptimizerExtension` loads the rows of a root field or of a relation and
    calls `stash_parents` with each list of two or more; `_siblings` of the two
    batching extensions reads that stash.  It is one stash per path, and only
    the latest list is in it.
  - The batching extensions take a query apart with the backend
    (`split_parent_predicate`, `query_signature`, `apply_key_filter`), and a
    page goes from `RelationConnectionExtension` to the backend's resolver
    through an attribute of the parent row (`hand_over_page`, `take_page`).
  - `upserts.py` is a generator that yields database calls and a driver that
    runs them, synchronously or not; its backend is an adapter of each ORM's
    session.  `orm.apply_upsert` puts it in a transaction.
  - `OptimizerExtension` and `RowScopeExtension` scope rows and mark them, and
    mark relation caches, on the instances themselves; the relation resolvers of
    the backends read the marks.  Both go through `lazy_resolution.py`.
  - A connection's field leaves its filtered query on the operation's context
    (`_stash_context`), and the connection takes it from there for its groups.
  - The MCP server runs the agent, and the agent runs the schema.

## Modules and code

| module | models | extends | checked by |
| --- | --- | --- | --- |
| `QueryAgent` | `QueryAgent` of `contrib/mcp/agent.py` | | `MCQueryAgent` |
| `ConfirmationLedger` | what its docstring promises of confirmations | | refined by `QueryAgent` |
| `McpServer` | the `ask` tool of `contrib/mcp/server.py` | `QueryAgent` | `MCMcpServer` |
| `ParentRows` | parent rows, their addresses, `stash_parents`, `_siblings` | | the next two |
| `RelationBatching` | `BatchingExtension` | `ParentRows` | `MCRelationBatching` |
| `RelationConnection` | `RelationConnectionExtension` | `ParentRows` | `MCRelationConnection` |
| `PerParentResolution` | every parent resolved alone | | refined by both |
| `UpsertWriter` | `UpsertWriter`, its backends and `apply_upsert` | | `MCUpsertWriter` |
| `AtomicWrite` | one unit of work | | refined by `UpsertWriter` |
| `ConnectionPaging` | `ORMListConnection` of `relay/connection.py`, `_fetch_pages` of `batching.py`, `apply_page` and `count_query` of the backends | | `MCConnectionPaging` |
| `GroupedConnection` | groups, items and aggregates: `_stash_context` of `core.py`, the second half of `relay/connection.py`, grouping on the backends | | `MCQueries`, `MCGroupedConnection` |
| `Sorting` | rows one after another, in an order | | used by `GroupedConnection` and `Ordering` |
| `RowScoping` | `OptimizerExtension`, `RowScopeExtension`, the marks of `lazy_resolution.py`, eager loads and relation resolvers of the backends | | `MCRowScoping` |
| `ReferenceList` | `apply_ref_list` of the backends, with the checks of `repo.py` | | `MCReferenceList` |
| `Filters` | the filter builders of the backends, `filter_pk_shortcut.py` | | `MCQueries` |
| `Ordering` | the order builders of the backends, and on Tortoise the memory of orders and the second sort | `Sorting` | `MCQueries`, `MCOrdering` |
| `LazyResolution` | `LazyResolutionExtension`, `query_probe` of the backends | | `MCQueries` |
| `*Proofs` | theorems of `QueryAgent`, `RelationBatching`, `RelationConnection`, `UpsertWriter`, `ConnectionPaging`, `ReferenceList` and `RowScoping`; `QueryAgentProofs` also those of `McpServer`; `FieldProofs` those of `LazyResolution`, `GroupedConnection` and `Ordering` | `TLAPS` | the proof system |

### QueryAgent

`Calls` are the invocations of `ask()` and `resume()`, `Agents` the agents of a
deployment (one per process, since `_confirmed` is an attribute).  `pc[c]` is
the await a call is at, and each action is the code between two awaits, which
the event loop does not interrupt:

| action | code |
| --- | --- |
| `Ask`, `ResumeQuestion`, `ResumeDeclined`, `ResumeRefused`, `ResumeConfirmed` | `ask`, `resume`, `_redeem` |
| `RunInvalid`, `RunGraphql`, `UnknownTool`, `Lookup`, `AskUser` | one message of the model, `_converse`, and the tool it calls |
| `ConfirmedInCall`, `AnsweredInCall`, `Pause` | the answer of a clarifier, or nobody to ask |
| `HookAccepts`, `HookRejects` | `before_query` returns |
| `ExecuteReturnsData`, `ExecuteReturnsNoData` | `schema.execute` returns |
| `Raise` | any await raises: the provider, the person's no, a hook that stops the agent, a cancelled task; also arguments of a tool that are JSON but no object |

A conversation is reduced to its counters (`state["used"]`), the number of tool
calls in the model's last message and the replies to them; messages, questions
and rows are left out, for no branch reads them.  A paused state is data at the
caller: `paused[i]` never changes, and any number of calls may resume it on any
agent.  `now` is `time.time()`.

The confirmation expires when it is *redeemed*: `before_query` and the
operation itself are awaited afterwards, so the change may run later than
`confirm_within`.  The model has these steps; no property denies them.

### McpServer

Extends `QueryAgent` with the client of each invocation and the paused state
that it resumes.  The sealing of the state is the MCP library's: the model
assumes that a client can only send back what was sent out, and then at any
time, to any process, any number of times.

### ParentRows, RelationBatching, RelationConnection

A place of the response where a parent row is read is a member of `Parents`;
`GroupOf` is the list it is an item of and `PkOf` the row.  Two places can read
the same row, in one group or in two.  `at[p]` is `id(row)`.  `Load(g)` is the
parent field returning a list, after which its rows have addresses (distinct
for distinct rows in memory) and the list is stashed if it has two rows or
more.  `Release(g)` is the interpreter freeing rows: it is external, and
happens only to groups that are not in `Retained`.  A list is retained when
something of the operation holds its rows: the response under construction, a
batch (`results`), or the parent rows they were loaded with.

`resolve()` of one place is one action of `RelationBatching`, since it never
awaits; groups come in any order, because extensions of the application that
await delay each field by its own time.  A query is a set of equality
conditions on foreign keys and the set of rows its other conditions let
through, which is all that the rewrite looks at: whether exactly one condition
names the parent's key, whether the queries are equal without it, and which
rows come back for a set of keys.  `Outcomes` gives what a resolver may do for
each key: return a query that can or cannot be rewritten, return rows, or
raise.

`RelationConnection` has the read as a task with two awaits (rows and totals),
fields that start it, join it, use its result, and then find their page on the
row or not.  A page is the key of the parent it was read for.  With
`async = FALSE` the read is over when `resolve()` returns.  What a group's
fields do when they do not find their page (they read their own), and that a
failed task fails the fields of later groups as well, is as in the code.

### UpsertWriter

The walk of `upserts.py` is a generator; its local state is the model's
`stack`, one frame per operation of the payload that has been entered.  A
frame goes through `_upsert` or `_update_by_id`, the single links in order, the
insert or the save, the old targets of links, and the to-many items; each
database call is an action.  Rows are of one model that refers to itself, which
is enough for all the shapes a payload can take: `owner` is the foreign key
behind a to-many relation and `a` and `b` are single links.

`orm` is the backend.  The model keeps the difference that matters: SQLAlchemy
has one object per row and flushes assignments before the next query
(`SetNow`, `Held`), Django and Tortoise hold a row in memory and write all of
its columns at the save, Django inserting it again when it has gone.

`Valid` is the validation of the whole payload by depth; `db` is what the
transaction sees and `committed` what others do.  A payload may be sent again
after any outcome, as a client that saw no answer would.

### ConnectionPaging

A request is a window of positions over the query a resolver returned, and what
it selects (`edges`, `counts`).  `FirstStage` is the case distinction of
`resolve_connection` and `_resolve_query_page`; each later action is one
statement, which sees the table as it is by then, and `Write` is another client
between two of them:

| action | code |
| --- | --- |
| `ReadWhole` | `_resolve_rows`, `_slice_rows`: every row is read, and sliced in Python |
| `ReadPage`, `CountTotal` | `_resolve_query_page`: the page and, unless it is short, its total |
| `Locate`, `ReadTail` | `last` without `before`: the count, then `_cut_tail` |
| `ReadWindow`, `CountGroups` | `_fetch_pages` of `batching.py` and the backends' windowed reads, for one parent |
| `StartWalk`, `Continue` | a client that follows `endCursor`, or `startCursor`, from page to page |

The database returns the rows of a statement in any order that the statement's
ORDER BY allows: `Listings` is the set of them, so rows that tie may come
differently each time unless `_ordered_to_the_row` has added the key.  A query
is of a `kind`: one that is cut, a Django queryset that is already sliced (cut,
but with no order added), or one that is read whole; and it has an offset and a
limit of its own, with which the cut must compose (`Cut`, `RowsOf`, `SizeOf`).

`LastPosition` is both `_LAST_POSITION` and Strawberry's `sys.maxsize`: the same
number, 2^63 - 1, that stands for "no end".  `PySlice`, `Overfetch` and `Answer`
are external: Python's slices and Strawberry's `SliceMetadata` and
`ListConnection`, which turn the rows of a slice into edges, cursors and flags.
`Sliced` is then the plain meaning of a connection, and `AnswersLikeSlicing`
holds each page against it.

### GroupedConnection

A field of one model is a connection that asks for groups, items of groups and
aggregates, or a plain list that only leaves its query on the context
(`StashContext`).  `PostProcess` is the page's arrival, after which the
connection takes the stash; `ReadGroups` and `ReadItems` are its statements;
each is one action, and fields of an asynchronous operation, or of two
operations, come between each other's.  What they share is modelled as it is:
`ctx`, one stash per operation, and `keyFields`, the columns on the model's one
`AggregateMeta`.  `disturbed` is a ghost: the fields that found either replaced.
The keys, aggregates, windows and edge indices are operators, one for each
backend where they differ.  The rows that an order leaves one way to arrange
(`Precedes` ends with the primary key) are arranged by rank (`Sorting`).

### RowScoping

One model, related to itself by a forward key (`boss`) and by its reverse
(`team`), with a `scope_rows`, an edge with a `scope=` of its own, or both.  An
instance is a row and the way it was loaded: SQLAlchemy's identity map has one
per row, Django and Tortoise one per load.  On an instance are its relation
caches, which of them are marked as scoped (`trusted`), and whether the row is
marked as scoped (`scoped`) and as loaded by the optimizer (`prepared`).

| action | code |
| --- | --- |
| `ReturnQuery` | a resolver returns a query, with eager loads of its own; `optimize_query_nodes`, `apply_optimizer_hints` |
| `ReturnFreshRows`, `ReturnHeldRows` | it returns rows it has read, or rows that another field has; `_load_rows` |
| `ScopeInstances`, `LoadRelations`, `FinishPrefetches` | the awaits of `_load_kept` and `_resolve_async` |
| `ReadRelation` | a relation field of a row in the answer, and what reading it leaves on the row |

The eager loads of the three backends are operators with the code's names:
what they skip (SQLAlchemy, what an instance has loaded; Django, what it has
cached, which is why
`_clear_scoped_relation_caches` exists; Tortoise, nothing), and
what they mark.

### ReferenceList

A list is taken item by item into `toAdd`, `toRemove` and `toDelete`
(`CreateItem`, `UpdateItem`, `UpsertItem`, `NoteItem`, `SkipItem`), behind a
repo, which raises, or an `authorize` callback, which skips.  Django and
Tortoise then write one statement after the other (`AddLinks`, `RemoveLinks`,
`UnlinkDoomed`, `DeleteRows`; behind a repo, Django deletes row by row,
`DeleteRow`), each of which may fail;
SQLAlchemy assigns the merged collection (`SaCollection`), and the flush writes
the difference from the collection in memory (`Flush`).  `Fail` is any of it
raising.  `OtherWrites` is another request that links or unlinks a row; `base`
is the table as it would be without the list, and `moved` remembers the rows
that the other request wrote.

### Filters, Ordering

A filter is a tree (`field`, `object`, `all`, `any`, `not`, `oneOf`, `isNull`).
`SaFilter`, `DjFilter` and `TtFilter` are the three builders: they give a
condition's value on a row, with SQL's unknown, "no condition" and "refused" as
values of their own, since the builders drop the one and raise the other.
`ReferenceClause` is the shortcut that answers a filter below a forward relation
from the key column.  `Means` is what a tree means.

An order is a sequence of terms.  SQLAlchemy and Django write it into the
statement (`ListRows`).  Tortoise cannot write where NULLs go, so it leaves such
terms out (`Written`) and remembers the order beside the query
(`RememberQueryOrdering`), in a memory of bounded size that all queries of the
process share: `OrderAnother` is one of them, ordered before this one or while
it is awaited.  A list that is materialized waits for its rows, reads its order
back and sorts, one pass for each term from the last to the first
(`MaterializeQuery`, `ApplyPythonOrdering`).  The optimizer reads the order
before it waits, gives it to the query it makes, and answers the rows as they
arrive (`ApplyOptimizerHints`, `RowsArrive`).  `Listings` is every order a
database may give; `since` is a history, the other queries ordered until the
order was read.

### LazyResolution

A relation field is noted when its relation is not loaded
(`RecordRelationAccess`); any other field of a row runs under a probe
(`StartProbed`, `Statement`, `RecordResolverQueries`, `ResolverRaises`).
`client` is what a statement passes on its way to the database: SQLAlchemy's
listeners, Django's wrappers, Tortoise's replaced methods; how a probe closes
differs on each (`Closed`).  `issued` and `lazily` are histories: what was really
sent and loaded.

## Runs, bounds and results

States are distinct states; every run ends well within five minutes with two
workers.

| run | states | question | bounds, and why they are enough |
| --- | --- | --- | --- |
| `agent_confirm` | 194 048 | Can a confirmation be used twice? | Two agents, one of which refuses mutations; three calls, so one state is resumed twice on one agent, or once on each; two units of time over an expiry of one, so a state is resumed before, at and after it. One attempt, one lookup and one question: `_redeem` reads nothing of a conversation, but a call that resumes may pause again. The theorems say the same of any number of calls. |
| `server_talk` | 113 784 | Is every change agreed to and behind a form, every turn paid for, every tool call replied to, and does every call end? | Two calls, the first from a client of the newest kind and the second from one of each kind, so a state that pauses for one comes back from another; two attempts, a lookup and a question, so each budget is exhausted in each order; up to two tool calls in a message, the second refused. |
| `batching_exact` | 222 412 | Does batching ever change an answer, and does it save what it should? | Three groups: two that share rows of one key with different others, and a single row that is freed, five places, four addresses so that one is reused; three keys; resolvers that plainly query, filter, have a second key, slice, return rows or raise; one statement fails. |
| `batching_freed_rows` | *violated* | The same if the rows of a batched list are freed. | As above, without faults. |
| `connection` | 513 048 | Does each field answer its own page, with one read, and always? | Three groups, one of a single row that is freed, three addresses, both modes, one failed read. A failure in each of the two awaits, a bail of each group and every interleaving of five fields are reached. |
| `connection_pages` | 180 431 | Is a page, cut, batched or sliced, what slicing the whole result gives, and does a client who walks through the pages meet every row? | Four rows, three of which tie, and all sixteen tables; pages of up to two rows, so a walk has up to four pages; windows from before the first row, on each boundary, past the last row, at `LastPosition` (7, more than the rows) and past it; four queries: plain, with an offset and a limit, sliced, whole; one write in a request or a walk, between any two statements. A walk remembers one row more than there are. |
| `groups_shared_context` | *violated* | The same when two fields of one operation run concurrently. | The requests of `queries`. |
| `scoping` | 213 663 | Does any field answer a row its scopes reject, or miss one? | Four rows, one without a key yet, in a cycle of the forward key; two fields, each returning a query, fresh rows or held rows, with no eager load of its own or one, and with no selection, or one on each relation with the other below it; three loads; with and without the optimizer and the type's scope, on each backend. |
| `ref_list` | 614 894 | Does a list end as asked, leave alone what it may not touch, and lose nothing when it fails? | Every list of one or two of fourteen items over four rows, one hidden and one forbidden, and two lists of three; three tables to begin with; a failure at each step; another request that links and unlinks one row, as often as it likes, at each step; SQLAlchemy synchronous and not, Django, Tortoise; a repo and a callback. |
| `queries` | 305 668 | Do filters and orders mean on each backend what they say, do filters tell of hidden rows, is every lazy load reported, and are groups, their items and aggregates those of the field's own rows? | One of the four in a behaviour. Trees of every kind up to two relations deep, beside the limits on depth, branches and lists (2 each), over 24 tables of three rows with NULLs and cycles, three scopes. Orders of one and two of ten terms, over four tables with ties and NULLs in each column, with up to two other queries, ordered at any time, in a memory of two; with the optimizer and without it. Two resolvers on one row that issue up to two statements each, and a relation field, one after the other and interleaved. Five rows, one out of scope, with equal and missing values; three fields, two of one asynchronous operation and one of another, each with one of five requests: a category twice, a category with a window of one item, a quarter, a day with a category, and a plain list; pages that hold all rows and pages that do not; each backend. |
| `orders_optimized` | *violated* | Does an order mean the same on each backend, through the optimizer too? | The orders of `queries`. |
| `upsert` | 17 904 | Is a write atomic, validated, scoped, repeatable? | Eight payloads: three nested append-only shapes, one that ignores a match, two that edit, link, unlink, delete and move rows, two that validation refuses (too deep, and a missing `where`); each is sent twice to the empty table and to each of 54 states of three related rows, on each backend; any step may fail. Six rows suffice for what two sends create. |

`CHECK_DEADLOCK FALSE` in every configuration: an operation, a conversation and
a write come to an end, and the bounded inputs run out.

In `agent_confirm` and `batching_*` calls or addresses are
symmetric; the properties of these runs do not tell them apart.  Runs that check
liveness use no symmetry.

What the runs show, one property after another:

  - `RedeemedOnce`, `ChangeRunsOnce`, `KeepsLedger`: however resumptions
    interleave, an agent lets a confirmation through at most once and then runs
    its change at most once.  That holds per agent, that is, per process: two
    processes each let it through once, as the docstring says.
  - `ForgottenMeansExpired`: the memory is dropped no sooner than the time check
    refuses.
  - `OnlyAgreedMutationsRun`, `TurnsArePaidFor`, `EveryToolCallIsReplied`,
    `CallsEnd`: the loop with the model, as the server runs it.
  - `ChangesNeedAForm`: the server.
  - `NeverWrongRows`, `ResolvesAsIfAlone`, `OneStatementPerShape`: batching
    changes no answer, and reads a group once for each shape of its queries.
  - `NeverWrongPage`, `OneSharedRead`, `FieldsAnswer`: the same for pages, and
    nobody waits for ever.
  - `AnswersLikeSlicing`, `CursorsAreTrue`, `TotalIsReal`: pages, cursors and
    totals, with a writer between the statements.  A tail that was located
    before a write may show other rows than the last ones, but each at its own
    position and no more than were asked for.
  - `WalkSeesEveryRow`, `WalkEnds`: a walk through the pages of a query that is
    cut, while nobody writes, though rows tie; and that a walk ends, whoever
    writes.
  - `UndisturbedGroupsAreExact`, `AggregatesAgree`: groups count every row once,
    hold items they count, in order, and add up to the connection's aggregates,
    for a field whose context and columns nobody replaced.
  - `RootsAreReadable`, `RelationsReadAsScoped`, `MarksAreTrue`: whatever a
    resolver returns and has loaded, no field answers a row its scopes reject,
    no relation field misses one they let through, and a mark says what it stands for.
  - `ListEndsAsAsked`, `ForbiddenRowsStay`, `LossesComeLast`: a list ends
    alike on all backends, with another request's changes kept; what a repo
    hides or refuses stays as it was at each step, also of a list that fails;
    and a failure costs no row: a refused item finds no link moved, and rows are
    deleted when nothing else is left to do.
  - `PositiveFiltersMeanTheSame`, `HiddenRowsDoNotShow`, `OrdersAsAsked`:
    filters without negation mean the same on each backend; no filter tells a
    row that is hidden from one that is not there; rows come in the order asked
    for, each once, whatever the database does with ties and whichever queries
    are ordered meanwhile.
    Each of these has exceptions, which the property names and section 7
    describes.
  - `EveryLazyLoadIsReported`, `ProbesCountTheirResolver`: the report is
    complete and names nothing else; counts are right where probes do not share
    what they replace.
  - `AllOrNothing`, `EveryFrameWasValidated`, `RowsElsewhereAreUntouched`,
    `ResendAddsNothing`, `UpdatedRowsSurvive`, `WriteEnds`: nested writes.

Each property has a mutant of a mapped definition, defined just above it, that
is the kind of mistake a change to that code could make, and that violates the
property in the same run.

## Fairness

  - `McpServer!ServerFairSpec`: weak fairness of `ToolContinues(c)` for each call.  The
    event loop runs every coroutine whose await has come back, and an await is
    the model, a person or the database, which answer or raise in the end (the
    providers have timeouts).  Resumptions and time are not fair: nobody need
    come back.
  - `RelationConnection!FairSpec`: weak fairness of the shared task and of each
    field, for the same reason.  Loading further groups is not fair.
  - `UpsertWriter!FairSpec`: weak fairness of the walk: a database call returns
    or fails.  Sending is not fair.
  - `ConnectionPaging!Spec`: weak fairness of the statements, which return, and
    of `Continue`: the client of `WalkEnds` does walk on.  Asking, and writing,
    is not fair.

In each case the disjunction is fair, and not its parts: which of several
outcomes an await has is left open.

## What is proved

`TLAPS` checks these theorems for all values of the constants that satisfy the
named assumptions.

| theorem | says |
| --- | --- |
| `QueryAgentProofs!TypeCorrect` | `Spec => []TypeOK` |
| `QueryAgentProofs!AtMostOneRedemption`, `AtMostOneChange`, `ForgettingIsSafe` | `Spec => []RedeemedOnce`, `[]ChangeRunsOnce`, `[]ForgottenMeansExpired` |
| `QueryAgentProofs!ImplementsLedger` | `Spec => KeepsLedger` |
| `QueryAgentProofs!MutationsAreAgreed`, `EveryTurnIsPaidFor`, `RepliesAreComplete` | `Spec => []OnlyAgreedMutationsRun`, `[]TurnsArePaidFor`, `[]EveryToolCallIsReplied` |
| `QueryAgentProofs!ChangesWaitForAForm` | `ServerSpec => []ChangesNeedAForm` |
| `RelationBatchingProofs!RowsAreNeverWrong`, `BatchingImplementsPerParent` | `Spec => []NeverWrongRows`, `Spec => ResolvesAsIfAlone`, if `BatchedRowsAreKept` |
| `RelationBatchingProofs!OneStatementForEachShape` | `Spec => []OneStatementPerShape` |
| `RelationConnectionProofs!PagesAreNeverWrong` | `Spec => []NeverWrongPage`, if `BatchedRowsAreKept` |
| `RelationConnectionProofs!ConnectionsImplementPerParent` | `Spec => ResolvesAsIfAlone`, if `BatchedRowsAreKept` |
| `RelationConnectionProofs!ReadsAreShared`, `ConnectionsAreTyped` | `Spec => []OneSharedRead`, `[]TypeOK` |
| `UpsertWriterProofs!UpsertIsAtomic` | `Spec => AllOrNothing` |
| `UpsertWriterProofs!WritesAreTyped`, `WalkIsValidated` | `Spec => []TypeOK`, `[]EveryFrameWasValidated` |
| `UpsertWriterProofs!NestedWritesStay`, `ResendsAddNothing` | `Spec => []RowsElsewhereAreUntouched`, `[]ResendAddsNothing` |
| `ConnectionPagingProofs!PagingTypeCorrect` | `Spec => []TypeOK` |
| `ConnectionPagingProofs!PagesAreSlices`, `TotalsAreReal` | `Spec => []AnswersLikeSlicing`, `[]TotalIsReal` |
| `ConnectionPagingProofs!CursorsStayTrue` | `Spec => []CursorsAreTrue` |
| `ConnectionPagingProofs!WalksSeeEveryRow` | `Spec => []WalkSeesEveryRow`, if `SmallPages` |
| `ReferenceListProofs!ForbiddenRowsAreKept`, `ListsLoseRowsLast` | `Spec => []ForbiddenRowsStay`, `[]LossesComeLast` |
| `ReferenceListProofs!ListsEndAsAsked` | `Spec => []ListEndsAsAsked` |
| `RowScopingProofs!MarksStayTrue`, `AnswersAreReadable`, `RelationsAreScoped` | `Spec => []MarksAreTrue`, `[]RootsAreReadable`, `[]RelationsReadAsScoped` |
| `FieldProofs!LazyLoadsAreReported`, `ProbesCountTheirOwn` | `LazySpec => []EveryLazyLoadIsReported`, `[]ProbesCountTheirResolver` |
| `FieldProofs!GroupsKeepTheirQuery` | `Spec => []GroupsInv` of `GroupedConnection`: the invariant under the next |
| `FieldProofs!OrdersAreRemembered` | `OrderSpec => []OrdersInv`: the invariant under the next |
| `FieldProofs!RowsComeAsOrdered` | `OrderSpec => []OrdersAsAsked` |
| `FieldProofs!AggregatesAlwaysAgree`, `GroupsAreAlwaysExact` | `Spec => []AggregatesAgree`, `[]UndisturbedGroupsAreExact` |

*The agent.*  That a confirmation is redeemed once is not inductive: `_redeem`
forgets what has expired.  The invariant adds that what has been redeemed is
either remembered or expired (`ForgottenMeansExpired`, `MemoryIsTrue`), that
only states which have paused are redeemed, and that a call about to run a
change is the only one that holds its consent and the change has not run
(`ConsentIsFresh`).  The step that matters is `ResumeConfirmed`: what can be
redeemed is not in the memory and has not expired, so it has not been redeemed.
`Spec` has a clock that never goes back; without that the theorem is false
(section 7).

What the loop with the model promises rests on `TalkInv`: at each await it says
how many messages of the model are not paid for yet (`Owing`: none between two
messages and in a lookup or a question, one while an operation is on its way)
and which of the last message's tool calls have a reply (`AllReplied`, or
`OneReplyLeft`, all but the first), that a lookup runs a query, and that an
operation past its confirmation has somebody's word.  The same is said of what
has paused (`PausedFits`), so that a resumption begins where the pause left
off.  The lemma that the replies are all different numbers is about sets of
numbers: a sequence of n replies in which each of n numbers occurs has none
twice.

*The server.*  Each step of the server is one of its agent, so `TypeOK` and
`TalkInv` carry over.  `WordIsKept` adds where a word came from: from a
clarifier, or from a client that shows forms while the question runs, or from a
client that came back with a state that could be resumed.

*Batching.*  `RewriteIsExact` is the heart: the rows of the batched query that
have the parent's key in the column of the condition taken out are the rows of
the parent's own query.  `IInv` then says that what is cached under an
address belongs to the row at that address (`CacheIsOwn`), that such an address
stays occupied (`CachedIsOccupied`), and that a stashed list is in memory
(`StashIsLoaded`).  It needs `BatchedRowsAreKept`: lists of two rows or more
are kept until the operation ends.  `batching_freed_rows` is the behaviour
without it.  The refinement maps `own` to what each resolver answers alone.
What a batch costs needs no such assumption: by `CostInv` a group that was
batched has been loaded and is not loaded again (`BatchedWereLoaded`), its rows
have been answered or find their result while it is the stashed list
(`StashIsServed`), so it is paid for once (`PaidOnce`).

*Connections.*  The same for pages, with the row a field needs while it is
between two awaits (`FieldsHaveRows`) and the group a task under way reads for
(`TaskHasReader`).  The refinement adds `AnswerInv`: a field has an answer only
once it has ended, and a task that failed has been counted as a fault, so that
a field which fails when it resumes maps to a failure that the per-parent
specification allows too (`FieldImplements`); a shared read that fails is a
statement that fails, and loading, releasing and the task's other steps are
stutters (`OthersImplement`).  `OneSharedRead` and `TypeOK` need no
assumption: a row that is not batched may go, but not before its own field has
ended (`FieldsHaveRows`), so no address is missing when it is used.

*Upserts.*  That a write is one unit of work needs no invariant: of all steps of
the walk only `Commit` and `Fail` change what others see, and the lemma
`WalkIsPrivate` says so for all the others.

`WalkInv` says that every frame is an operation that `Valid` has seen at the
frame's own depth: its operation is reached from the root by as many nestings
as there are frames below it (`Levels`), and it was found to be well formed.
The depth of a payload is unbounded here and a payload may contain itself, so
`Levels` is an induction over depths; it is done with sets of numbers, which
have a least member (`LeastElement`, `SetInduction`).

`RowsElsewhereAreUntouched` rests on `TreeInv`: foreign keys are intact in the
table and in the table at the start, what was elsewhere is as it was, the frames
work on rows that are not elsewhere, and until the root is found nothing was
written.  The steps that matter: a nested operation finds its row below a parent
that is not elsewhere, and at the start a row that refers to one of the tree is
of the tree (`ElsewhereIsApart`), so what it finds is not elsewhere either; a
row that is created has a key that no row of the table has; and a row that is
removed takes with it what refers to it, directly or not (`Reaching`), where
nothing elsewhere does (`DeletingStays`).  `TablesAssumption`, that foreign keys
refer to rows, is the database's promise for the tables a write begins with.

`ResendAddsNothing` needs a set that the program does not have: `Covered(t, C)`
says of a set C of operations, each below a parent, that the table t meets every
one of them, and that what they append is in C again.  While a payload that only
adds is written, the frames that are through are covered (`Progress`), so at its
commit the root is in a covered set.  When it is sent again, the walk stays in
that set (`OnCourse`), meets a row with each operation and creates nothing.  A
covered set stays covered when rows are added, which is why the payload must
change none (`Additive`, the property's hypothesis).

*Pages.*  The rows of a query, a cut of it, a slice of either and a windowed
read are all a `Part` of a listing, and a part of a part is a part
(`PartOfPart`).  From that: `CutIsSlice` (a cut composed with the query's own
offset and limit is the slice), `NothingIsSlice`, `WindowIsSlice`, `TailIsSlice`
and `ShortPageIsTheEnd` (a short page ends where the rows end, unless it began
past them).  These are about all numbers, where the runs have six.  The
invariant `PagingInv` says what the statement that a request waits for knows of
the request (`Fits`: a page has a proper window, a tail has a `last`), that the
count which locates a tail is that of now unless somebody wrote (`SizesFit`), and
that a page already read is right while its total is awaited (`PageFits`).
`PagingAssumption` is all it assumes: there are fewer rows than positions.
That an edge's cursor is its row's position follows from the slice, except for
a tail that was located before a write, which `TailFits` describes: it is in
place wherever the total of that time put it.

A walk needs that the order of a query that is ordered to the row leaves the
database one listing only (`OneListing`: of two that differ, the first place
where they do would hold two rows that tie).  `WalkFits` keeps that listing and
says that what the client has seen is its beginning, or its end, up to where the
next window begins.  `SmallPages` is a hypothesis of this theorem: the largest
page and the table together are smaller than `LastPosition`, which is
`sys.maxsize`.  The code ensures it with `relay_max_results`, 100 by default; a
page of 2^63 - 1 rows would be taken for one without an end and read without
the key in its order.

*Reference lists.*  The invariant `Untouched` says that nothing forbidden has
been collected to be added, removed or deleted, and that the table, the
collection in memory and the table without the list agree on forbidden rows.
An item that passes the checks names a permitted row; a row is forbidden from
the start and stays so, for nobody changes it; and the statements, or the flush,
write no row that was not collected.  How a list ends, and what it has done when
it fails, is `EndInv`: what the items before
`pos` asked for has been collected (`Collected`) and, for rows they write, is in
the table (`Written`); the links are those without the list until a statement
writes them, then with what it wrote (`Linked`), each up to the rows that the
other request has moved; and on SQLAlchemy the collection in memory differs from
the links at the start on such rows only (`InMemory`), so that the difference
the flush writes is the list's.  For `LossesComeLast` it is kept beyond the end: a
failure either goes back to the table without the list, where no row is gone, or
leaves the table as it was, and the first row goes after the last link
(`LossInv`).  `ListAssumption` says what the constants are: a list
is a sequence of items, and rows have keys below those of new ones.

*Scoping.*  `IInv` says of every instance that what its scope leaves of a cache is
what a scoped read gives, and of a marked cache that it is that (`SoundAt`),
that only loaded relations are marked (`Backed`), and which load made an
instance (`Numbered`), so that two loads on Django and Tortoise share none.  A
field that has rows in hand may hold unreadable ones among its candidates only
(`FieldFits`), and those are gone when it has finished.  One lemma for each
loader says what it leaves in the caches: SQLAlchemy's skips what is loaded,
Django's what is cached, and Tortoise's prefetch of a forward relation holds
rows that are hidden an await later (`Prefetched`), in which time no other field
holds the instance (`Apart`).  `SharedAssumption` says so; section 7 tells what
happens without it.

*Lazy loads.*  The invariant `IInv` follows a lazy load from where it happens to
the report: a relation that was not loaded when a resolver began was not loaded
then, one that has become loaded since was loaded lazily by some field, and
every lazy load has been noted, or will be when a resolver that is under way
ends, or belongs to one that raised, or is in the report.  `LazyAssumption` says
that no field is both a relation field and another one.  That probes count their
own statements is `ProbeInv`: on SQLAlchemy the probes on the client are those
of the resolvers that run, each once (`Listening`), and without await there is
at most one, which found the client bare (`OneAtATime`).

*Groups.*  `GroupsInv` follows a field that is not in `disturbed` from stage to
stage (`OnItsWay`): while its page is read the stash of its operation is its own
query; from then on the model's key columns are its own, and its base is that
stash; and at the end its groups are `OwnGroups`, what its own query, columns,
order and window give.  The step that matters is another field's: whoever
replaces the stash or the columns with something else puts the fields that still
need them into `disturbed`, and whoever replaces them with the same changes
nothing (`OthersUndisturbed`).  The rest is about what `OwnGroups` is, for tables
of any size.  Sums are folds of the library, which take the members of a set in
an order that nobody knows; `SumAny` says that the order does not matter, by
induction over the number of members, and `SumParts`, that what the parts of a
set sum to adds up to the sum of the whole.  Counts are sums of ones.  From that
the groups count every row once (`GroupsCountRows`), whatever the backend takes
for keys, and the aggregates of a page that holds every row are the query's
(`PageOfAll`).  That `Precedes` is a strict order of all rows, for any sequence
of columns (`PrecedesTotal`, `PrecedesTransitive`), makes the rank of a row its
place (`RankReached`, `ArrangedIs`), and so what a window leaves out is what has
too few or too many rows before it (`WindowItems`).  `TableAssumption`,
`BackendAssumption` and `RequestAssumption` are the types of the constants:
finitely many rows, numbers or NULLs in their columns, three backends.

*Orders.*  `OrdersInv` says of the memory that a query is in it once, that what
is remembered for the query is its own order (`OwnIs`), and, while fewer others
than the memory holds have been ordered since, that it is there with only those
after it (`HasOwn`): whoever is remembered again moves to the end, so as many
others as there are places push it out, and no fewer.  Of the rows it says how
far they are sorted: after the passes of some terms they are in the order of
these, and those that tie in all of them still as the database gave them
(`SortedBy`).  `PassSorts` is about one pass, which is stable, `NextPass` adds a
term, and `AllPasses` says what that comes to when each term but the last is a
column of the row: the last may be a related row's, where Python finds nothing
and the database's order shows.  `OrderAssumption` gives the constants their
types: finite tables with numbers or NULLs, orders that are sequences of terms,
finitely many other queries.

## What is only model-checked, and what is not modelled

Out of the prover's reach: liveness (`CallsEnd`, `FieldsAnswer`, `WriteEnds`,
`WalkEnds`), and whatever rests on a RECURSIVE definition: a module that reaches
one has no arithmetic in its proofs.  So `Filters`, whose trees are read
recursively, stays with the runs (`PositiveFiltersMeanTheSame`,
`HiddenRowsDoNotShow`).  The library's induction theorems take an operator as a
parameter and cannot be used; where a proof needs induction over numbers, or over
the subsets of a finite set, it takes the least number of a set (`SetInduction`,
`SubsetInduction`).

`UpdatedRowsSurvive` is true of the payloads of the run and not of all: an
update that points one link to the row which another link replaces loses its own
row to a cascade, as section 7 says, so no theorem states it.

A module has a `TypeOK` where a theorem states
it or a proof rests on it.

Left out of the modules above:

  - the agent: the text of messages, forms and rows; the checks of an operation,
    whose verdicts are the model's inputs;
  - batching: what the ORMs' expressions look like.  A condition in an OR arm or
    behind a join makes a query not rewritable, and a failure to parse is one;
  - upserts: a second writer (isolation is the database's), many-to-many lists,
    `where.id`, hooks that change what is written, back-reference columns of
    one-to-one relations.  A hook that denies is `Fail`;
  - pages: an offset of the resolver's own of two or more, which added to a
    cursor near the last position is a number no database takes (the comment at
    `relay/connection.py:43` is about the cursor alone); the windowed read for
    many parents at once, whose grouping is `RelationConnection`'s;
  - groups: the types generated for keys and aggregates; writers between the
    statements, which `ConnectionPaging` has;
  - scoping: more than one model; the columns, annotations and hints of a plan,
    which is the set of relations it names.  SQLAlchemy's load of a plan's
    relations is one step, and so is a query of Tortoise's, with
    its prefetches and the hiding that follows them: nobody else holds its rows
    yet.  In `load_relations` the prefetch (`LoadRelations`) and the hiding
    (`FinishPrefetches`, all levels at once) are two steps; what a field reads
    between them on a row that it shares is told in section 7 and left out here,
    so two fields under way share rows on SQLAlchemy and Django only.  A row
    without a key, which Django and Tortoise cannot prefetch for, raises;
  - lists: a list that deletes a row which another of its items links, whose
    end depends on cascades the database declares; many-to-many tables, where a
    row may be linked by several;
  - orders: a term through a relation to many rows, which may repeat a row;
  - filters: what two conditions on one to-many join mean on Django and
    Tortoise, which is the ORM's, so the comparison with what a tree means leaves
    such trees out; an application's own filter and order fields; matching within a text, which is equality;
  - lazy resolution: the load of a relation field itself is one step, with no
    other task between; causes (which ancestor returned rows rather than a
    query), counts of instances, levels and wording.

Not modelled, and why:

  - `mutations.py`: which input types are generated from which projections, once,
    when the schema is built.  Its one piece of state is a memo of types under
    construction; a wrong entry fails at start-up.
  - `contrib/mcp/clarification.py`, `checks.py`: pure functions of a form or an
    operation; `QueryAgent` takes their verdicts as inputs.
  - `core.py` other than the stash, `_async.py`: decorators and registries
    filled at import, and the list of extensions a schema is built with.
  - `cover.py`, `tags.py`, `payload.py`, and the limits of `policy.py`: types cut
    by tag, error payloads, and refusals of arguments, all decided by their
    inputs alone.
  - the CRUD helpers of `repo.py` which only an application calls: one load, one
    hook, one save.  Two of them on one row lose an update on Django and
    Tortoise, whose `save()` writes every column; a model would say no more.

## Where code and documentation disagree

Three disagreements are runs that end in a violation:

  - `batching_freed_rows`: "never to wrong rows" (`README.md:603`).  Results are
    kept by `id(parent)` and the parents are not.  If a list that was batched is
    freed (it was itself loaded per parent, and its fields are complete), a row
    loaded later at the same address is answered with the children of the freed
    one.
  - `groups_shared_context`: a group has the aggregates, edge indices and items
    of its connection's rows (`README.md:1516-1521`).  `_stash_context`
    (`core.py:330-338`) keeps one query per operation, and the connection takes
    it after the page has been awaited (`relay/connection.py:664-675`), so
    connections that run concurrently group the rows of whichever came last;
    and the columns of the keys are written on the model's shared `AggregateMeta`
    (`relay/connection.py:703-713`), where another operation replaces them.

  - `orders_optimized`: types, filters, ordering are "identical across the three
    backends" (`README.md:230`), and `ASC_NULLS_FIRST` and its like are supported
    (`README.md:1177`).  On Tortoise such a term is no part of the statement
    (`backends/tortoise.py:478-479`), and `apply_optimizer_hints` returns the rows
    as the database gave them (`backends/tortoise.py:1137-1142`), with the order
    it has read (`:1121`) unused.  A list is not materialized, and so not sorted,
    when the schema has the optimizer (`core.py:305-309`, `483-485`).  The rows then
    come in no order of that term at all, whether there are NULLs or not.

The others were met while the code was translated.  The models have these
behaviours, and the properties name them as exceptions or keep to inputs where
they do not arise:

  - The agent: the docstring of `QueryAgent` says that a paused confirmation
    runs once within a process.  `_redeem` reads the wall clock
    (`contrib/mcp/agent.py:429`); set back after an expired entry was dropped, it
    lets the state through again.  A monotonic clock could not, but would not
    survive a restart.
  - Upserts: "Saved before the old targets go, so a cascade cannot take this row
    too" (`upserts.py:480`).  It can if the update points one link to the row
    that another link replaces.
  - Pages: "the connection always slices from a correctly filtered and sorted
    result set" (`README.md:1970`).  On Tortoise an order such as
    `ASC_NULLS_LAST` is no part of the statement: `apply_ordering` remembers it
    beside the query object, to sort in Python, and `apply_page` cuts another
    object.  The pages come in the order of the primary key.
  - Scoping on Tortoise: "A scoped-out row reads as absent"
    (`backends/tortoise.py:1310`).  When `load_relations`
    (`backends/tortoise.py:1144`) prefetches a forward relation for rows that
    another field holds, the related rows are in the cache until the next await
    has hidden them.
  - Filters, which are "identical across the three backends" (`README.md:230`):
      - the shortcut takes a lookup of an integer column for one of the key
        (`filters.py:95`), and compares the foreign key instead; it also answers
        at a depth that would be refused otherwise;
      - on Tortoise `isNull` on a scoped relation ignores the rest of that filter
        (`backends/tortoise.py:1529-1532`), and on Django and Tortoise a nested
        `isNull` is true of a row whose relation is absent;
      - `neq`, `notInList` and `not` on a column that is NULL hold on some
        backends and not on others, and so does the order of NULLs by default.
  - Ordering on Tortoise, where rows are sorted again: the second sort reads `relation__column` as an
    attribute, which no row has, so an order by a related column and then by an
    own one is answered by the own one, and where NULLs go on a related column
    is ignored.  Only the last 1024 orders are remembered
    (`backends/tortoise.py:91`).
  - Groups: an order inherited from the base query splits groups on Django
    (`backends/django.py:589`), which Tortoise's comment at
    `backends/tortoise.py:710` warns of.  On SQLAlchemy the keys of intervals
    other than a day match no row again, so such groups are counted and have no
    edges, and a quarter is `strftime("%Y-Q")`, the year; Django and Tortoise
    ignore the interval.  A group whose key is NULL lists every edge.
  - Reference lists: an update and an unlink of one id leave the row linked on
    SQLAlchemy, and unlink it on Django and Tortoise; a list without an upsert
    has no savepoint, so of a list that fails the items before it stay, until the
    caller's transaction decides.
  - Lazy resolution: `QueryProbe` "counts SQL statements issued while a resolver
    runs" (`lazy_resolution.py:326`), and so those of others that run meanwhile.
    On Tortoise a probe puts back the methods it found
    (`backends/tortoise.py:844-869`): probes that overlap and close out of order
    leave one on the client for good, and later statements are counted by it; on
    Django the last wrapper is removed, whichever probe closes.  A relation that
    a concurrent resolver loaded on the same row is attributed to both, and a
    resolver that raises is not reported.

## Plan

In the order of what is most important to the system and least covered by
tests:

 1. *done*: `QueryAgent` with its ledger; `McpServer`; `ParentRows`,
    `RelationBatching` and `RelationConnection` with `PerParentResolution`;
    `UpsertWriter` with `AtomicWrite`; `ConnectionPaging`; their first theorems.
 2. *done*: `RowScoping`; `ReferenceList` with a second writer, and its theorems;
    `LazyResolution` and its theorem; the groups of `relay/connection.py`;
    `Filters` and `Ordering`, against what they mean.
 3. *done*: proofs of every safety property of `QueryAgent`, `McpServer`,
    `RelationBatching`, `RelationConnection`, `ConnectionPaging`,
    `ReferenceList`, `RowScoping`, `LazyResolution`, `GroupedConnection` and
    `Ordering`, and of those of `UpsertWriter` that are true of all payloads.  Left: what a
    cascade may take in `UpsertWriter`, with the links that allow it as a
    hypothesis.
 4. `SchemaExtensions`: the order of extensions, and the filter that fields
    share through the operation's context; `OperationChecks`: `checks.py` as
    operators; `MutationTypes`: memoised recursive inputs.
