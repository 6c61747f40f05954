# A formal model of memlocal_core

memlocal_core is a memory engine for LLM applications: a Rust library
(`src/`) over an embedded CozoDB, with a set of tools that a language model
calls to store and to find memories. This directory models its state machines
in TLA+, model-checks them with TLC and proves theorems about them with TLAPS.

Paths below are relative to the repository, whose Rust crate is in `src/`.

1. [The system](#1-the-system)
2. [The modules](#2-the-modules)
3. [What is checked](#3-what-is-checked)
4. [What is proved](#4-what-is-proved)
5. [Assumptions](#5-assumptions)
6. [What the code does that its documentation does not say](#6-what-the-code-does-that-its-documentation-does-not-say)
7. [What is not modelled](#7-what-is-not-modelled)
8. [Plan](#8-plan)

## 1. The system

```
   application ──► Engine (api/bridge.rs)
                     │  mutex: ConversationBuffer per session
                     │  mutex: SensoryBuffer
                     │  mutex: WorkingMemory
                     ▼
   LLM tool calls ─► ToolExecutor (tools/tool_executor.rs)    no lock, &self
                     │        │
                     │        └─► EmbeddingProvider, LlmProvider, RerankerProvider
                     ▼                       (external, every call may fail)
                   MemoryStore (storage/memory_store.rs)
                     │
                     ▼
                   CozoDB: mem_items (versions), mem_edges, mem_conversations,
                           mem_triples, mem_prospective, mem_profiles, mem_summaries
```

The store runs one query at a time and gives every query its own transaction.
An operation that needs two queries has no transaction around them: it can be
interleaved with any other operation, and it can stop half-way, because each
query, each embedding and each LLM call may return an error which `?` passes on.
This is where the hard behaviour of the program is.

### Components

**Conversation buffer and log** (`shortterm/conversation_buffer.rs`,
`Engine::append_message`, the relation `mem_conversations`).
*State*: durable rows keyed by `(session_id, seq)`; in memory, for each session, a
window of the last `max_messages` messages, the last sequence number and a
`loaded` flag. *Operations*: load, append, recent, clear; a new process starts with
an empty buffer on the same rows. *Interaction*: the Engine holds the mutex of
the buffer map for the whole append; the buffer calls `put_message`,
`get_messages` and `message_count`. *Hard*: a failed write leaves the
bumped sequence number behind; a restart recomputes it from the number of rows.
*Correct if*: what was appended is in the log, once, in order; the window is the
end of the session.

**Sensory buffer** (`shortterm/sensory_buffer.rs`). *State*: a queue of messages
with their instants, bounded in length and age. *Operations*: add, items, recent,
len, is_empty, clear. *Hard*: eviction happens only when the buffer is used and looks
only at the front; the clock moves inside a call; a capacity of 0.
*Correct if*: a read shows exactly the last messages that have not expired.

**Memory items** (`ToolExecutor::add_memory`, `delete_memory`, and the store's
`put_memory`, `find_by_hash`, `search_semantic`, `delete_memory`,
`invalidate_memory`). *State*: `mem_items`, keyed by `(id, validity)`: a write
adds a version, a delete adds a retraction, a query `@ "NOW"` sees the last
version if it is asserted. *Operations*: add_memory looks for the same content
by hash (reinforce it), then for a similar one by vector search (update it), and
otherwise stores a new memory and links it to related ones. *Interaction*: five
store calls and up to two embeddings per call, without a lock. *Hard*: what is read
before one call is written after another; the vector index contains every version
ever written, including retracted ones; unscoped calls write over users' memories.
*Correct if*: a user never sees one text twice; memories of different users never
mix; counts are counts; links stay with a user; contents change only for similar
ones.

**Knowledge-graph edges** (`mem_edges`, `add_relationship`, graph search).
*State*: edges keyed by (from, to, relation). *Hard*: edges outlive the memories at
their ends, and graph search follows them without a user filter.

**Batch extraction** (`ToolExecutor::add_memories`). *State*: none of its own.
It asks an LLM for items, triples, contradictions and observations, and calls
add_memory, the triple operations, put_memory and put_edge for each. *Hard*: the
first error ends the batch and leaves the earlier writes; a retry meets what the first
attempt left; a contradiction marks other memories as no longer latest.
*Correct if*: what a failed batch stored stays usable and its retry stores nothing twice;
only what was contradicted is demoted, and the value stated last is not.

**Semantic triples** (`mem_triples`, `put_triple`,
`increment_triple_mention`). *State*: (subject, predicate, object) with a mention count
and a memory id. *Hard*: the increment is a read and a write, and so is the insertion;
rows outlive the memories they name.
*Correct if*: a count never exceeds the mentions there were; the memory of a triple
has stated it.

**Reminders** (`ToolExecutor::add_reminder`, `mem_prospective`,
`longterm/prospective.rs`). *State*: rows with a trigger (a topic, a time, a person, a
condition to be matched), pending or completed, and a memory for each. *Operations*:
add_reminder, the pending rows of a user, check_triggers, completion. *Hard*: the row is
written first, then a fallible embedding, then the memory, under the hash of a text it does
not hold; a reminder may be shown to several users and completed twice.
*Correct if*: a reminder without a memory comes from a call that reported an error; nobody
is shown another user's reminder, or one whose time has not come.

**Tool loop** (`http/llm_client.rs`) and **provider clients** (`http/*_client.rs`).
*State*: the message list, which the caller keeps. *Operations*: one LLM request per round,
then one result per tool call; a last request without tools. Each client puts the messages
into its provider's format and reads the reply back. *Hard*: a model that never stops calling
tools; a call that fails half-way; a run that ended with an error and is continued, maybe with
another provider. *Correct if*: it returns; every call has one result, in place, whenever the
trace is sent; what a result says is so.

**Searches** (`MemoryStore::search_*`). *State*: `mem_items` with a vector, a text and a
near-duplicate index, all over every version; edges, triples, session summaries. *Operations*:
semantic, text, LSH, hybrid (text hits have reserved places, the rest is fused), hybrid
without near duplicates, graph search (a loop over two hops, and a recursive query), by
session, time, speaker, adjacent turns, time travel. *Hard*: several versions of one id among
the results, filters that two indexes cannot apply and that come after their k, skipping what
was seen. *Correct if*: no more than k results, no id twice behind the reserved places,
nothing dropped without something newer that says the same.

**Context preparation** (`ToolExecutor::prepare_context*`, `http/jina_reranker.rs`).
*State*: none that stays; inside a call, the memories found, the ids seen, the keyword hits,
the sessions to open. *Operations*: the question is classified and turned into variants; for
each, one search per memory type, a catch-all, a graph search, sessions, triples and text
searches; then summaries, windows around raw turns, reserved keyword hits, ranking, reranking,
truncation and the block. *Hard*: some forty queries without a transaction; most errors count as
"nothing found", others end the call; a reranker that names some documents only, or one twice; a triple or an
edge leads to whoever's memory. *Correct if*: a memory is in a context once, unless the reranker names it twice; another user's memory only
if an edge or a triple led to it; nothing found is lost before the cut; sections share nothing.

**Working memory** (`shortterm/working_memory.rs`): slots that are set and laid out in
sections, each of which takes some of the memories. *Correct if*: a memory has one place.

**Consolidation** (`consolidation/consolidator.rs`): greedy clustering of old
memories by cosine similarity, pairs of contradicting triples. *Correct if*: clusters are
disjoint and large enough.

**Engine** (`api/bridge.rs`): opens the store, owns the buffers and their
mutexes, delegates the rest. **Schema** (`storage/schema.rs`): the relations and
indexes, created at opening, errors ignored.

**Thin or external parts**: `longterm/*` (typed wrappers that set the memory type
and call the store), user profiles (one keyed row), prompts (text), tool definitions (JSON schemas; of
the two tools that write a single memory, `Agent` has the arguments and which of them are required), the Flutter package (a
bridge skeleton and build scripts).

`PROJECT.json` lists the components with their status, and under `hazards` each
of the hard places, with the properties that watch it or the reason why none does.

## 2. The modules

| Module | Models | Extends or uses |
|---|---|---|
| `ConversationLog` | what a session's log promises: append-only, and, once a gap was found, at most one message displaced per append | |
| `ConversationBuffer` | one session: rows, window, restarts | `ConversationLog` (refinement) |
| `ConversationBufferProofs` | proofs | `ConversationBuffer` |
| `Selection` | the elements of a sequence at some positions; the lowest of some positions | |
| `SequenceLemmas` | lemmas of the other proofs: induction over a set of numbers, recursive functions, `Selection`, orders and ranks of a finite set, sequences of sequences | `Selection` |
| `SensoryBuffer` | the queue and its clock | |
| `SensoryBufferProofs` | proofs | `SensoryBuffer`, `SequenceLemmas` |
| `MemoryStore` | `mem_items` with its versions and its index, `mem_edges`, and their operations | |
| `MemoryPool` | what the users are promised: a pool of facts, each with an owner | |
| `AddMemory` | add_memory and delete_memory by concurrent clients | `MemoryStore`; `MemoryPool` (refinement) |
| `MCAddMemory` | constants of the bounded instance | `AddMemory` |
| `AddMemoryProofs` | proofs | `AddMemory` |
| `AddMemories` | batches of add_memory calls with triples, contradictions, raw segments | `AddMemory`, whose steps are the steps of a batch |
| `MCAddMemories` | constants of the bounded instance | `AddMemories` |
| `AddMemoriesProofs` | proofs | `AddMemories`, and the lemmas of `AddMemoryProofs` |
| `Reminders` | add_reminder, triggers, completion, the clock | `AddMemory`, for the store the memories go to |
| `WireFormats` | messages, the requests of three providers, replies | `Selection` |
| `WireFormatsProofs` | proofs | `WireFormats`, `SequenceLemmas` |
| `Agent` | run_with_tools, whose tools make the steps of `AddMemory` and `Reminders` | `Reminders`, `WireFormats` |
| `MCAgent` | constants of the bounded instance | `Agent` |
| `AgentProofs` | proofs | `Agent`, and the lemmas of `AddMemoryProofs` and `WireFormatsProofs` |
| `Search` | every search of the store, and the writes that go on meanwhile | `MemoryStore`, `Selection` |
| `WorkingMemory` | the sections of the context block | `Search` |
| `Consolidation` | find_clusters | `Search` |
| `QueryShaping` | what a question is turned into | `Selection` |
| `Context` | prepare_context, search after search | `WorkingMemory`, `Consolidation`, `QueryShaping` |
| `MCContext` | constants of the bounded instance | `Context` |
| `ContextProofs` | proofs | `Context`, `SequenceLemmas` |

A definition whose comment starts with "Mutant:" is a broken variant of the
definition after it, and no specification uses it: `PROJECT.json` names, for each
property, the variant that the property rejects.

### ConversationBuffer

`rows` is the relation `mem_conversations` restricted to one session, a function
from `seq` to message. `messages`, `seq`, `loaded` are the fields of
`ConversationBuffer`. A message is the number of the append call that brought it, so that
equal texts stay apart. `calls`, `written`, `own`, `fails`, `restarts`, `intact` are
history variables. What a query returns in the order of `seq` is given by the place each number has
among the numbers of the rows (`Place`, `Nth`).

| Action | Code |
|---|---|
| `Load`, `LoadFails` | `load()`, including the case where the window was replaced and `message_count` then fails |
| `AppendOk` | `append()`: load if needed, `seq += 1`, `put_message`, push, trim |
| `AppendPutFails` | `append()` when `put_message` fails: `seq` stays bumped |
| `Clear` | `clear()` |
| `Restart` | the process stops anywhere and another one opens the store |

One append is one action because `Engine::append_message` holds the mutex
throughout. A stop inside an append is the sequence `AppendOk`, `Restart` or `Restart`
alone: the caller does not hear the result in either case.

### SensoryBuffer

`buffer` is the `VecDeque`, `now` the monotonic clock, `added` what was added since the
last clear. `Add(m, then)` evicts at `now`, makes room, and stamps the message
with a later instant `then`, since the code reads the clock twice. `Read` is any of the
reading methods; each evicts first.

### MemoryStore and AddMemory

`items[id]` is the sequence of the versions of an id, the last one is the one a
query `@ "NOW"` looks at; `Visible(i)` says that it is asserted. `Index(u)` is the
set of versions the vector index offers a search scoped to `u`: all versions, also
superseded and retracted ones (`memory_store.rs:514`). `SearchSemantic` returns the k
nearest as a set: the query has no `:order`, so the model lets any of them be the
first. A content is a model value; embeddings are represented by the order of
their distances (`Distance`) and scores by the two comparisons the code makes
(`Similar`: score > 0.85, or > 0.70 with conflicting specifics; `Related`: score > 0.5).

`call[cl]` is the program counter and the local variables of a client inside
add_memory. Each call to the store is an action:

| Action | Code in `add_memory` |
|---|---|
| `StartAdd` | `find_by_hash` |
| `Reinforce` | the branch of an exact duplicate: `put_memory` of the version read, count + 1, with the vector of the caller's text (`Reembedded`) |
| `SearchSimilar` | `search_semantic(.., 3, ..)` and the decision on the first hit |
| `Update` | the branch of a near duplicate: `put_memory` under the hit's id, with the new content and the caller's user |
| `Store` | `put_memory` under a fresh id |
| `Link` | the second search and the best-effort `put_edge` calls |
| `Fail` | an error of the store or of a provider, passed on by `?` |
| `Delete` | `delete_memory`, one query, guarded by nothing |

### AddMemories

`triples` is the relation `mem_triples`: for each fact (subject, predicate, object) that has
a row, the memory it names and its mention count. A fact is about a topic (subject and
predicate), and a statement may contradict all that was said of a topic. `batch[cl]` is the
program counter and the local variables of a client inside add_memories. What
the LLM answers is a choice of one `Reply`: the entries the tool keeps, memories first, then
observations, and the raw segments of the text. An observation is an entry without
fact and contradiction. Inside an entry the client makes the steps of add_memory, so `AddEntry`
is built from the actions of `AddMemory`.

| Action | Code in `add_memories` |
|---|---|
| `StartBatch` | arguments, the LLM call, the parsed answer |
| `AddEntry` | `self.add_memory(..)?`, each of its store calls a step |
| `FindFact` | `search_triples(..).unwrap_or_default()` |
| `PutFact` | `let _ = put_triple(..)`, which replaces a row that has come up since |
| `ReadMention`, `BumpMention` | `let _ = increment_triple_mention(..)`, a query and an `:update` |
| `FindRivals` | `search_triples` of the contradicted topic |
| `ReadRival` | `get_memory` of one of them, skipped if it is gone or fails |
| `MarkRival` | `put_memory` of the version read with `is_latest` false, `put_edge`; either may fail unnoticed |
| `FindSegment`, `StoreSegment`, `LinkSegment` | a raw segment: `find_by_hash` (whose error counts as "not found"), `put_memory`, links to similar memories |
| `LinkSession` | the edges between segments and entries; any of them may fail |
| `BatchFails` | an error that `?` passes on |
| `DeleteMemory` | `delete_memory` by a client that is in no batch |

`mentions` counts how often each fact was recorded. `clean` becomes false when two batches
overlap or when an error was swallowed in a query on which a
decision about triples or segments rests.

### Reminders, WireFormats and Agent

`reminders` is `mem_prospective` in the order of creation, `reminding[cl]` the row a
client inside add_reminder has yet to make a memory of, `now` the clock, `shown` the history of what
check_triggers returned to whom. `run[cl]` says where a client is in run_with_tools (round,
calls of the last answer without a result), `trace[cl]` is its `messages`. What the LLM
answers is a choice of one `Reply`: a text and calls with their arguments, which may lack the
required ones. `Hash` gives the text whose hash is stored with a content: it differs from the content for the memory of
a reminder only (`tool_executor.rs:1567`), so that add_memory of the bare text reinforces that memory. The reinforcement keeps the text
of the reminder and embeds the bare one (`tool_executor.rs:803`), so that afterwards other searches find the memory: what
has the same text and another vector is another content here, and `Reembedded` says which.

| Action | Code |
|---|---|
| `StartRun` | the caller adds a message and calls run_with_tools |
| `Answer`, `LastAnswer` | a reply to a request with tools; to the last one, whose calls are dropped |
| `RequestFails` | `?` on a request: the run returns, the messages stay |
| `CallFails` | dispatch of an unknown tool, missing arguments, an error of the first store call: an error result |
| `CallAddMemory`, `AddMemoryGoesOn`, `AddMemoryReturns` | the steps of `AddMemory`, the last one with a result |
| `CallAddReminder` | `put_prospective` |
| `AddReminderReturns` | embedding and `put_memory`, or their failure |
| `Application` | deletes, check_triggers, complete_prospective; the clock moves |

A result is modelled by what it tells the LLM: the memory or the reminder it names, or an error.
`WireFormats` keeps of a request the order of its messages, their roles, and which parts are texts, calls
and results with which ids; Gemini's format has no ids for calls.

### Search

The operators give the *set of results* an operation may return, since scores (cosine,
text rank, confidence, decay) decide only the order and the cut among what may be found:
semantic searches return the k nearest by `Distance`, text and graph searches any k of what
matches. Where a query has an `:order`, `FirstOf` gives every order in which nothing comes before what is less, so that
ties come in any order, and cuts it. Deduplication, the sections of the block and the words of a question take elements of a
sequence by their positions (`Selection`). A hit is a pair of an id and the number of a version. What is stored beside a content
(type, session, speaker, time of the event, whether it has an end, whether it is a raw turn, its words) goes with the content here (`Info`).
`SameTopic` stands for a word overlap of more than 0.6, `NearText` for what the near-duplicate index takes for the same text, `Within` for one text containing
another, `Close` in `Consolidation` for a cosine of at least 0.65. Writes are those of
the tools and of the engine; they carry the time (`updated`), so that created_at is the time of the
first version and updated_at that of the last.

### QueryShaping, WorkingMemory, Consolidation and Context

A question is a sequence of words, and what the code tells from a word's spelling is a set of
words. `Plan` lists the store calls of one preparation in the order of the code; `prep.todo` are
those left, and a call that opens others (sessions, triples, windows) puts them in front. Each method of the store
that the code calls is one action, and `Elsewhere` may write between any two; the few queries inside `search_hybrid` and `search_graph`
are not interleaved (see [section 5](#5-assumptions)).
A word counts for the class of a question at the beginning only (`would`, `when`: `Openers`), after it only (`Inner`), or anywhere;
a variant of fewer than four bytes (`Brief`) is dropped, be it the question itself, and so is a part of at most five (`Slight`).

| Action | Code in `prepare_context_with_diagnostics_reranked` |
|---|---|
| `StartPrepare` | classification, variants, limit |
| `FindBySpeaker` | `get_known_speakers`, `search_by_speaker`; errors count as nothing |
| `FindByType` | `search_hybrid_deduped` for each type and once for all |
| `FindByGraph` | `search_graph` with two hops |
| `OpenSessions`, `ReadSummaries`, `FindInSession` | sessions of what was found, and of the nearest summaries |
| `ReadEntityTriples`, `ReadTriples`, `FindByTriple` | `search_triples`, `search_triples_fts`, and `get_memory` of what they name |
| `FindByText` | `search_text` per entity and for the keywords, filtered by user |
| `OpenWindows`, `FindInWindow` | raw turns, one per session, and `get_adjacent_turns` |
| `Reserve` | keyword hits for a section of their own |
| `Rank` | penalties and boosts, sort: any order |
| `Rerank`, `KeepOrder` | what a reranker names, in its order: some of the pool, some of it twice, some that is not there; no reranker, or its error |
| `Assemble` | truncation, and the block, flat for a question of one hop |
| `PrepareFails` | an error that `?` passes on |

The order in which the memories were found is not kept, since ranking sorts them; where the code takes the first few of them
(three sessions, five raw turns) the model takes any few. One call takes the k nearest versions of
an index, so `Register` keeps one version per id, any of them.

## 3. What is checked

Every run is a `.cfg` of this directory; `PROJECT.json` gives the module of each.
Two kinds: runs that pass, and runs that show a disagreement between the
repository's words and its code ([section 6](#6-what-the-code-does-that-its-documentation-does-not-say)).
No configuration replaces a definition of a module. Deadlock is checked in all but the two runs of
`MCContext`: one context is prepared there, and then the system rests. In the others a state where all bounds
are used up still has a step: a buffer can be cleared or read, a client can begin a call and fail, an application can check triggers.

### conversation (`MCConversationBuffer.cfg`)

* `TypeOK`: types, and the window never exceeds its size.
* `LogFaithful`: until a restart finds a gap in the sequence numbers, the rows are
  exactly the messages written, and reading by seq gives the order of the calls,
  in spite of failed writes, failed loads, clears and restarts.
* `LossBound`: what is ever lost is at most `fails * restarts` messages.
* `WindowTail`: what this buffer itself appended is the end of the window.
* `WindowRecentUntilFull`: until the first restart, and after it while all messages of the session fit into the window,
  the window is the end of the session's log, unless a restart has found a gap. This is how far the
  sentence of `reloaded_window` is right.
* `RefinesLog`: the rows implement `ConversationLog`.

Bounds: a window of 2, 6 appends, 2 failed writes, 2 restarts. The window overflows
several times; a gap can survive one restart and a second gap can follow, which is the
shortest way to lose more than one message, and there are appends left to do it.

### sensory (`MCSensoryBuffer.cfg`)

* `TypeOK`: types, and the queue never exceeds its size (1 if the capacity is 0).
* `ItemsAreLive`: a read shows exactly those of the last `Size` messages which have
  not expired, in order. This is what lazy eviction at the front could break.

Bounds: capacity 2, time to live 2, instants 0 to 6, 4 messages between two clears: a
message can be dropped for age, for room, or for both at once, and time runs far
enough for two generations.

### add_memory (`MCAddMemory.cfg`)

* `TypeOK`.
* `NoDuplicate`: as long as no two add_memory calls overlapped, no user sees one
  content under two ids. Overlapping calls do store it twice; the history variable
  `overlapped` makes the precondition explicit.
* `OneOwner`: over its whole history an id names at most one user. Calls scoped to
  different users can never write the same id.
* `CountBounded`: a version never counts more mentions than there were writes of its
  id. Interleaved reinforcements lose counts but never invent any.
* `DriftBySimilarity`: each content of an id is similar to an earlier one of
  the same id, or is the text of an earlier one with the vector of another text of its hash (`Follows`). It cannot say "to the previous one": see `stale_update`.
* `LinksStayWithUser`: a link from a memory stored for a user leads to a memory that
  has a version of that user.
* `RefinesPool`: what the users see implements `MemoryPool`: every step adds one
  fact and drops at most one, and a call for a user drops only that user's facts or facts
  without an owner. TLC checks it here; it is proved for batches and tool loops as well.

Bounds: 2 ids, 3 contents on a line (the middle one similar to both ends, the ends
related but not similar), 2 users and calls without user, 2 clients, 4 versions in
total. Similarity that is not transitive needs three contents; each property
about two users needs two; a stale read needs a second client between two calls
of the first; four versions allow an id to be stored, changed, retracted and
written again, or two ids to be written twice. Ids, users, clients and the two ends
of the line are symmetric: the definitions and the properties treat all alike, so the
run uses `SYMMETRY`. There is no
liveness property in the run.

### add_memories (`MCAddMemories.cfg`)

* `BatchTypeOK`.
* `MentionsCounted`: the count of a triple is the number of times its fact was recorded; with
  overlapping batches or swallowed errors it is less, but never more.
* `TripleHasMemory`: the memory a triple names has held a statement of its fact, in
  spite of rows that outlive updates and deletions.
* `DemotedHasRival`: a memory is demoted only if it has stated a fact of a topic and
  *another* memory has held a statement that contradicts that topic. A batch must not demote
  what it has just added.
* `EntriesKept`: each entry a batch is done with is in the history of the memory it
  remembers for it. What failed half-way is therefore a prefix of what was asked.
* `NoDuplicateText`: as long as `clean`, no text is visible under two ids, whether a
  failed batch is repeated, or an entry and a segment have the same text.

Bounds: 3 ids, 3 contents of which none is similar or related to another (similarity is the
subject of the `add_memory` run), no users (triples do not know of any), 2 clients,
4 versions in total, and two replies. One states "lives in Berlin" and
"lives in Munich", which contradict the same topic; the other brings an observation and one
raw segment whose text is that of a statement, so that either can find what the other has
stored. Four versions allow both values to be stored, one of them to be
demoted and another write to follow, and a batch that failed after one write to be repeated
by either client. Clients and ids are symmetric. About 1.1 million distinct states.

### agent (`MCAgent.cfg`)

* `AgentTypeOK`: types, and never more rounds than `MaxRounds`.
* `RequestsPaired`: whenever a trace is, or could be, sent, each call in it has exactly one result, in the order of
  the calls, in each of the three formats; also after a run that failed and is continued.
* `ResultsTrue`: a result names a memory that has held the text, or a reminder that is stored as asked for and has had
  its memory written. The second part is what a best-effort second write would break.
* `RemindersRemembered`: the reminders without a memory are no more than the calls that are unfinished or
  reported an error, and no memory of a reminder is without its row.
* `ShownRightly`: a reminder is shown only to its user, or to a check for nobody in particular, and one with a time only when it has come.
* `RunReturns`: every run returns (liveness).
* `RunsRunDown`: each step of a run lowers the rounds before it, the calls without a result, or the steps of the call, in this
  order of importance, and none goes below zero. A retry would break it.

Bounds: one client (the interleaving of two add_memory calls is the subject of `add_memory`), two runs of
at most one round and a last request each, 2 ids, 3 versions, 2 reminders, one tick of the clock, four contents: a
text, the longer text of its reminder with the same hash, that longer text once it has got the vector of the first, and one that is similar to the longer text's own vector, so that
add_memory can reinforce and overwrite the memory of a reminder, and after a reinforcement no longer overwrites it. The four replies have no call, one, two,
and one with missing arguments. 470,530 distinct states.

### context (`MCContext.cfg`)

* `ContextTypeOK`: types; what was found is stored; a preparation is pending as long as there is something to do.
* `OncePerContext`: an id is found in one version, and reserved in one version, however many searches return it and whatever is
  written between them.
* `RerankLosesNothing`: what is ranked is what was found, also if the reranker
  names only some documents, or one that does not exist, or one twice; and a memory is ranked twice only among what the reranker named, as often as it did.
* `ScopedContext`: a memory that is not the user's is in the context only if a graph search or a triple brought it, and is no
  keyword hit, whoever else writes meanwhile; a memory that a call without a user has written over stays the user's. The two indexes without a user filter would bring it.
* `ReadsAreCurrent`: what was superseded or deleted before the question was asked comes only from an
  index, or from the graph search that starts from one.
* `BlockPartition`: below the keyword hits an id is in one section of the block, in one version, and in one place of it unless the reranker named it twice; each
  relevant memory has a place unless its section is full. Relevant and important memories are read at different times, with writes between.
* `HybridOnce`, `DedupedApart`, `GraphAgrees`, `ClustersApart` are about the searches alone, for every query,
  caller and size, in each of the databases: at most k results and no id twice behind the reserved places; near duplicates
  kept apart, nothing dropped without something as new, the newest kept; loop and recursive query reach the same ids; clusters
  disjoint, large enough, and each around a first memory that nothing in a later one resembles.

Bounds: four databases of three memories, two of Ann's and one of Bob's, that differ in superseded and deleted
versions, edges or triples, a summary or none; one write while the context is prepared; a question of one hop (flat block) and
a temporal one (sessions and sections); callers Ann and nobody; two places where the code has
fifteen, so that cuts happen; at most three memories asked for, or four, and a pool of two for the reranker, which names up to two (`MaxNamed`), one of them twice perhaps;
one place for evidence and two for raw turns and for a speaker, so that a memory named twice has two places and another one
is left out. A third question is a name alone, too short to have variants. Three memories suffice for a chain of two hops and for a reserved,
a fused and a dropped hit; one content overlaps three that do not overlap each other, so overlap is not transitive, and clusters meet chains of resemblance.
Two things happen in no state of this instance and rest on the theorems: supporting memories of one speaker that fill their places without a repeat, and more raw turns than places.
While a context is prepared a call with or without a user may write, and revive what was deleted. 2,585,794 distinct states.

### Fairness

`AgentSpec` assumes weak fairness of `Continue(cl)`: the thread that runs the loop goes on. Nothing it does waits for
another thread (the tools take no lock; `ToolExecutor` works on `&self`), a store call returns, and a request returns since
reqwest's blocking client has a timeout by default. It is not assumed that a request or an embedding ever succeeds: `RunReturns` holds
since each failure ends the run or gives a result, and the rounds are bounded. `RunsRunDown` is the part of this that needs no fairness: a run has only
finitely many steps; fairness adds that it takes them. The other specifications state no fairness: their components
do something only when called.

## 4. What is proved

The proofs hold for every value of the constants: any numbers of clients, users,
ids, contents, any window, capacity, time to live and any bounds.

**`SensoryBufferProofs`**: `QueueStaysBounded` (`TypeOK`) and `ReadsShowTheLive`
(`ItemsAreLive`), by an inductive invariant. What makes lazy eviction right is that the
queue is a suffix of what was added, ordered by instant, and that everything
before it is either expired (and the clock does not go back) or out of room; the
invariant says so, and the property about reads follows from it.

**`ConversationBufferProofs`**: all six properties of the run.

| Theorem | States | By |
|---|---|---|
| `LogStaysFaithful` | `Spec => []LogFaithful` | `LogInv` adds what the property leaves out: as long as the promise is intact, the number the next append will use lies beyond every row (`NextSeqIsFree`), both for a loaded buffer, where gaps may exist, and for one that is not loaded, where the rows are contiguous; and rows hold only messages of earlier calls |
| `BufferTypesHold` | `Spec => []TypeOK` | `TypeInv`: with the types, the rows are a finite function, so that what is read by seq is a sequence of messages |
| `WindowEndsWithTaken` | `Spec => []WindowTail` | `TailInv` compares the window with all messages taken, as far as the buffer has appended since it was loaded |
| `WindowRecentWhileSmall` | `Spec => []WindowRecentUntilFull` | `RecentInv`: a buffer that is not loaded before the first restart has no rows to load; the first rows by seq are all rows while they fit; and while the promise is intact an append puts its row behind all others, as it does with the message in the window |
| `LossIsBounded` | `Spec => []LossBound` | `LossInv`: what is lost, plus what is *pending* (the rows beyond the number the next append of a new process would use), is at most `fails * restarts`; a failed write adds one to a gap, and only a restart turns gaps into rows that are written over |
| `ImplementsLog` | `Spec => RefinesLog` | every step appends to the log, displaces one message, or leaves the log alone |

**`AddMemoryProofs`**: the inductive invariant `AddInv` says of a client inside a
call that the version it holds is still one of the versions of the id it is about
to write, matches its user and is similar to its content if it is to be updated. It is
inductive because versions are never taken back: whatever other clients write
meanwhile only adds (`Grows`, `CallOKGrows`). Every write is then `Justified`,
and a lemma (`PutKeepsHistory`) shows that a justified write keeps the three
properties of the history. From it:

| Theorem | States |
|---|---|
| `TypesHold` | `Spec => []TypeOK` |
| `OwnerIsUnique` | `Spec => []OneOwner` |
| `CountIsBounded` | `Spec => []CountBounded` |
| `DriftIsSimilar` | `Spec => []DriftBySimilarity` |
| `LinksStay` | `Spec => []LinksStayWithUser` |
| `ImplementsPool` | `Spec => RefinesPool`: initial states map to the empty pool, and every step to a step of the pool or to none |
| `NoDuplicates` | `Spec => []NoDuplicate`, by a second invariant `SoleInv`: without overlap at most one client is inside a call, and if it is past `find_by_hash` without a match, no visible memory has its content and user |

`SoleInv` needs the case of a delete by another client between two store calls of the
one add: it only makes memories invisible, so what was not there stays not there.

**`AddMemoriesProofs`**: the six properties of the run of batches, `BatchTypesHold`, `MentionsAreCounted`,
`TriplesHaveMemories`, `DemotedHaveRivals`, `EntriesAreKept` and `NoTextTwice`, by one invariant `BatchInv`. The steps a batch
makes inside an entry are those of `AddMemory`, so the lemmas of `AddMemoryProofs` give what they do to the memories;
`BatchInv` adds what a client knows of the triple, the rival or the segment it has read. For the first five
that has to stay true whatever others write, and it does because versions, and the history
of statements, only grow. `BatchesImplementPool` is `BatchSpec => RefinesPool`: also a demotion, which writes a version again that may have been
replaced or deleted since it was read, drops only a fact of the owner whose fact it shows, or one of the two has no
owner, since all versions of an id that have an owner have the same one (`HeldOwner`). A count stays below the mentions since whoever has read it has not yet recorded its own
mention. `NoTextTwice` is about batches that do not overlap: then the client in a batch is the only one that writes.

**`WireFormatsProofs`**: `RequestsArePaired`, a theorem about the formats alone. If in the messages of a trace each
call is followed by its result, in the order of the calls, and there are no other results, no calls of anybody but the model and no second
system message, then so it is in the request of each of the three providers, although
the system message moves to a field of its own and Gemini's calls lose their ids.

**`AgentProofs`**: `AgentInv` says what the trace of a client has to look like at each
place of the loop: how many of the calls of the last answer still wait for their result, that every id was issued by
this trace, and what each result says. It contains `AddInv`, for the memories.
From it follow `AgentTypesHold`, `RequestsStayPaired` (with `RequestsArePaired`), `ResultsStayTrue`,
`RemindersShownRightly`, and `StoreStaysRight`: the properties of the store that hold for the clients of `AddMemory`
hold for the tools of the loop, together with reminders, their memories and deletes. `DriftBySimilarity` is among them: a
reminder's memory that add_memory has reinforced has the vector of the bare text from then on, and `Follows` says so.
`AgentsImplementPool` is `AgentSpec => RefinesPool`, with the steps of add_memory from `AddMemoryProofs`
and the memory of a reminder as a step that adds a fact and drops none.

`RemindersAreRemembered` is `AgentSpec => []RemindersRemembered`, for replies with `TextsApart`: no text that add_memory is
asked to store is that of the memory of a reminder that is asked for. Without that hypothesis the property is false, for
a memory with the text of a reminder would count as its memory; TLC evaluates it in `MCAgent`, where add_memory does reinforce and
overwrite memories of reminders. `RemindersInv` is the second invariant it
needs: every call in a trace is one of a reply, so that the rows have texts that were asked for; a memory whose first text is that of a
reminder was written for one; and rows, memories, failed calls and unfinished calls are counted together
(`StartCounted`, `RememberCounted`, `FailCounted`).

`RunsComeToAnEnd` is `AgentSpec => RunsRunDown`, one lemma for each kind of step: an answer, a call that begins or goes on, a call that
returns. `AgentInv` gives what makes it a descent in the natural numbers: rounds stay within `MaxRounds`, and at a tool there is a call to do.

**`SequenceLemmas`**: what the other proofs need of sequences and finite sets, once.

* A set of naturals that contains 0 and with each number the next contains all, up to a bound, by the library's theorem
  that `<` is well founded. A set is all that is needed to prove things of a recursive function: the set of the
  arguments it has the property for. `Recursion` is that such a function is what its definition says, if the definition
  gives each value from the one before; the loops of the code become such functions.
* `SelectedParts`: what is selected from a sequence at some positions is those elements, in their order, each once.
* `SetToSeqIs`, `SetToSeqsAre`: an order of a finite set has each element once, so its length is the size of the set.
* `RanksAre`, `LowestAre`: in a finite set with a strict order the ranks are the numbers below its size, each once. So the
  elements of rank less than k are k, or all there are: what "the first five" and "at most eight of each" mean.

**`ContextProofs`**: all ten properties of the run.

| Theorem | States | By |
|---|---|---|
| `GraphSearchesAgree` | `[]GraphAgrees` | `TwoHops` unfolds the rules of the recursive query; the loop, although it skips seeds on its second hop, finds nothing less, because their neighbours were found on the first |
| `HybridFindsOnce` | `[]HybridOnce` | text hits take their places first, and what is fused is one version each of ids that have none |
| `DeduplicationSound` | `[]DedupedApart` | `KeptOf`, the invariant of the loop: those kept so far do not overlap, and each one dropped overlaps a result, kept or since replaced, that is as new |
| `ClustersSeparate` | `[]ClustersApart` | `Clustered`, the invariant of the greedy loop: the clusters are disjoint parts of what was visited, and what is left to visit resembles none of their first memories |
| `EachMemoryOnce` | `[]OncePerContext` | `OnceInv`: `RegisterOnce` is the heart of it, new hits are one version each of ids that no earlier search has found, whichever channel they came by and whatever was written since |
| `ContextTyped` | `[]ContextTypeOK` | `ContextInv` |
| `ContextScoped` | `[]ScopedContext` | `ContextInv`: every search brings the user's memories, but those along edges and triples; a memory that was the user's stays so |
| `OldOnlyFromIndexes` | `[]ReadsAreCurrent` | `ContextInv`: queries at NOW bring a version that is not older than the question, and versions are only added |
| `RankingKeepsAll` | `[]RerankLosesNothing` | `ReorderedIs`: what a reranker names in front, as often as it does, and then all that it did not name, each once: together every element of the pool and no other, and a repeat only in front |
| `BlockHasOnePlaceEach` | `[]BlockPartition` | the sections are taken from one order of what is relevant, in which a repeat is one of the reranker's (`Shows`, `ShownOnce`); raw turns and others cannot meet since all versions of a memory have one mark; the raw turns shown are those of lowest rank by time and place, relevant and important ones together, so that one is left out only when as many others have all places; likewise for the memories of a speaker (`LowestAre`) |

`ContextInv` is `StoreOK`, `OnceInv`, `SearchOK(prep)` and `PlanOK(prep)`. `StoreOK` says of the store, besides its
types, that an id names one user in all its versions (what `OneOwner` is for `AddMemory`) and has one raw mark. It is kept by the
writes that go on (`Elsewhere`), and with it `Grown`: versions are only added, and what is the user's stays it.
`SearchOK` says of each memory found where it came from, whose it is and how old, which stays true under
`Grown`. `PlanOK` says how far a preparation is: searches to make and then the three last steps, or what was found in
order; without it nothing would be known of what is ranked when the block is laid out. That the searches planned for a question are searches
needs the variants of the question to be sequences of words, none empty (`VariantsAre`, `PlanIs`); there may be no variant at all.

*Assumptions used*: the named ones of the modules (`StoreAssumption`, `ClientAssumption`, `EmbeddingAssumption`, `WordAssumption`, `SizesAssumption`,
`SensoryAssumption`, `ReplyAssumption`, `AgentAssumption`, `ContextAssumption`, `DatabaseAssumption`, `InfoAssumption`,
`PlacesAssumption`, ...), which TLC evaluates in the passing runs. `DatabaseAssumption` is about the stores a context is prepared
from: there are finitely many ids, sessions and words, every version has its time, an id names at most one user (as
`OwnerIsUnique` proves of what add_memory makes) and keeps its raw mark.

*Only model-checked*:

* `RunReturns`, which is about liveness. That no run has endless steps is proved (`RunsComeToAnEnd`); that
  it always has a next one, and takes it, is what is left to TLC.

The violations of section 6 are counterexamples and need no proof.

*Tolerated and not ruled out*: some hazards of `PROJECT.json` are bounded by a property and not excluded, since the code does meet them.
Counts of mentions and reinforcements that interleave are lost (`CountBounded`, `MentionsCounted` are upper bounds); a demotion writes an older version back
over an update (`EntriesKept` and `DemotedHasRival` speak of the history); a reinforcement revives what was deleted (`RefinesPool` allows a fact to be added);
a result about the memory of a reminder is true up to the hash. A sensory buffer of capacity 0 is in no instance: `QueueStaysBounded` and `ReadsShowTheLive` cover it.

*Out of the prover's reach*: liveness under fairness, `ENABLED`, and the library's induction theorems that take an
operator. What the proofs say of loops and recursive functions rests on `InductionUpTo` and `Recursion` instead, which speak of sets.

## 5. Assumptions

* Two writes of one id carry different, increasing timestamps, so that the versions of
  an id form a sequence. CozoDB takes the time of the write in microseconds.
* The SHA-256 hash of a content identifies it, and so does, per content, its
  embedding. `Hash` is therefore injective on what batches store (`ReplyAssumption`); the memory of a reminder,
  in `Agent`, is stored under the hash of another text, which `Hash` says. `Reembedded` gives, for two texts with one hash, the first with the vector of the
  second; it keeps the hash and changes nothing if both are the same (`EmbeddingAssumption`).
* A reply of the LLM is any sequence of calls whose arguments fit the tool they name, or are missing (`AgentAssumption`).
* The vector index is exact on the few versions of the instance, and its filter is
  applied while searching, so that a scoped search fills its k places with matching
  versions.
* A query is atomic: CozoDB runs it in one transaction. `search_hybrid` makes three queries and `search_graph` a search, two rounds of neighbours and some
  reads; each of the two is one action of `Context`. The versions of a hit come from the
  indexes, which contain old ones anyway; the neighbours would be of two instants.
* An error of `get_neighbor_ids` counts as no neighbour in the code (`memory_store.rs:866`); the model has no such error, which would only leave results out.
* Who writes while a context is prepared are the tools. `Engine::put_memory` (`bridge.rs:75`) takes whatever item an application makes, which may give
  an id to another user or take its raw mark; the properties about owners and sections suppose that no application does.
* The operations behind an Engine mutex are atomic. A poisoned mutex (a panic while it is
  held) is not modelled.
* All calls pass the default confidence, so that a score depends on the two contents
  only. Speaker, session and other metadata are carried along by the code and are
  left out.
* In `AddMemories`, entries with equal content have a score above the update threshold
  (score times the root of the confidence), as they have at the default confidence;
  a session id is given, or no edge of `LinkSession` is written.
* A reader's message identity is that of the append call.
* A provider gives the calls of a trace different ids, and Gemini's client makes fresh ones.
* The application that shows reminders completes only what was shown.
* Scores are open (see Search), and any two are different: what was not reranked keeps its order when the block sorts by score again (`ByScore`).
  A reranker may answer anything: any documents, in any order, with any scores, also one twice or one that does not exist.
* An update by add_memory keeps what `Info` says of the metadata; in `Context` an update keeps the mark of a raw turn.
* In `Agent`, clients do not write the text `Reminder: ...` of a reminder themselves: `TextsApart`, a hypothesis of `RemindersAreRemembered` and of
  no other theorem. The code does nothing to ensure it.

`MaxCalls`, `MaxFails`, `MaxRestarts`, `MaxTime`, `MaxAdds`, `MaxVersions`, `MaxReminders`, `MaxRuns`,
`MaxWrites`, `MaxNamed`, `Caller`, `Written`, `Asked` are bounds of the models and not of the code.

## 6. What the code does that its documentation does not say

Each run here checks one sentence of the repository, and TLC finds a behaviour of
the code against it. `PROJECT.json` quotes the lines.

| Run | Sentence | Behaviour |
|---|---|---|
| `reloaded_window` | "Recent messages for coherence", a sliding window | `load()` reads the *first* `max_messages` rows by seq: three appends to a window of two, a restart, a load, and the window holds messages 1 and 2 |
| `lost_message` | "Append a message and persist it." | a failed write leaves a gap, `load()` counts rows to find the last sequence number, and an append after a restart replaces a persisted message |
| `stale_update` | "semantically similar memory updated" | the search also finds superseded versions: the content that is replaced need not be similar to the new one |
| `deleted_comes_back` | "Hard-delete a memory by ID." | a deleted memory is still found by the search of add_memory and becomes visible again, under its old id, with its counts and edges |
| `stated_is_latest` | "demote superseded facts" | Berlin, then Munich, then Berlin again: the third statement reinforces the demoted memory, which stays demoted, and demotes Munich as well |
| `past_memory` | "retrieves memories as they existed at a specific point in time" | `search_at_time` filters on the created_at of the memory, which an update keeps: a text written later is returned |

None of the six needs two clients.

Noticed while reading, without a run: `README.MD:130` and `:131` give working memory
and the conversation buffer a lifetime of 5 minutes, for which the code has no counterpart.
A reminder for the presence of a person is filtered by its owner first, so that it
fires only for a reminder somebody made about themselves. The keyword hits reserved for a
question of one hop are dropped, since a flat block has no section for them. A reranker that names an index twice puts
the memory into the context twice (`tool_executor.rs:530`), and the second mention takes the place of another memory under the limit and in its section; the Jina client
passes the indices on as they come. No document says that it cannot happen. `prepare_context_iterative` cuts
the block at byte 3000 for its prompt, which panics inside a character of several bytes, and returns the list of
one retrieval with the block of another.

## 7. What is not modelled

* **Two engines on one database file.** Each would cache its own sequence numbers.
* **prepare_context_iterative, request_more_context, get_context.** The first prepares up to five contexts one after the other,
  each as `Context` models it; the others are a few of its searches.
* **Contradicting triples and session texts of the consolidator.** One sort and one join of what a read returned.
* **Export, import, counts of rows.** Reads that nothing modelled uses.
* **The session summary of a batch.** One keyed row, written last, whose error is ignored; in `Context` it appears from elsewhere.
* **Triples of several users in a batch.** `mem_triples` has no user column, so a statement of one user
  demotes memories of another; no document says what should happen, and the run has no users.
* **Opening.** ensure_schema creates what is missing and ignores every error, so a missing relation shows as an error later.
* **Scores.** Confidence, decay, boosts and importance are numbers; what depends on them is a choice in the models.
* **Layout and wording**: the texts of the context block, prompts, tools' messages, and of the tool definitions
  the descriptions and the arguments of the tools that only search.
* **HTTP**: bodies and headers beyond the messages; an embedding is a choice or a failure.
* **Profiles, `longterm/*` wrappers, Flutter**: no interaction of their own.

## 8. Plan

1. *(done)* `ConversationLog`, `ConversationBuffer`, `MemoryStore`, `MemoryPool`, `AddMemory`,
   `SensoryBuffer`, with their proofs.
2. *(modelled and checked)* `AddMemories` on top of `AddMemory`.
3. *(modelled and checked)* `Reminders`, `WireFormats` and `Agent`, with termination as a liveness property.
4. *(modelled and checked)* `Search`, `QueryShaping`, `WorkingMemory`, `Consolidation`, `Context`.
5. *(proved)* all safety properties and refinements of the passing runs, the refinement of `MemoryPool` also for batches and tool loops.
6. What is left to prove is liveness, which is out of reach. Of the six sentences of section 6 one has its positive
   counterpart, `WindowRecentUntilFull`; for the search by time it would be stores whose memories were never updated.
