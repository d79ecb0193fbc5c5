# A TLA+ model of rustic-backend

rustic-backend is a Rust workspace: a library of LLM agents (`rustic-agent`), a
web service that keeps conversations with them (`rustic-boot`), repositories over
MongoDB and over plain files (`rustic-storage`), and pipelines that fill a
database with market and economic data (`rustic-finance`, `rustic-economic`,
`rustic-providers`).  This directory has TLA+ modules for the parts whose
correctness depends on the order in which things happen, TLC configurations that
check them on small instances, and proofs that TLAPS checks for every instance.

Paths below are relative to `src/crates/`.

## 1. Inventory

| component | state | operations | what is hard |
|---|---|---|---|
| File repository (`rustic-storage/src/file/{repository,record}.rs`) | an append-only log, the offset map in memory | insert, update, delete, find, replay on open | crash inside a write, failed writes, replay order |
| File database (`file/database.rs`) | a manifest, directories, the map of open collections | load, register, hand out a repository | crash inside the rewrite of the manifest, two repositories on one log whose appends fall in between each other |
| Mongo repository (`mongo/repository.rs`, `mongo/critera.rs`) | none of its own | find, insert, upsert, delete, build a filter | several conditions on one field, no transactions |
| Agent loop (`rustic-agent/src/agents/agent.rs`, request builders in `providers/*/request.rs`) | iteration, messages and usage of the run, a bounded channel | call the model, execute tools concurrently, call it again, answer | errors in the middle of a stream, cap, slow or absent consumer, which history a provider is sent |
| Provider adapters (`providers/*/completion.rs`) | tool-call buffers, stop state of one stream | SSE event to chunk | deltas mixed by call, finish reason, calls and usage in different orders |
| Pipeline runner (`agents/runner.rs`, `agents/domain/turn_response.rs`) | stage records, usage, permits | decide, run sub-agents in sequence or in parallel, synthesize | timeouts racing answers, permits, partial failure |
| Agent construction (`services/{agent,builder}.rs`, `services/registry/`) | registered agents and providers; the clients all requests share | register and validate, resolve, build an agent or a topology | two builds at once, agents referred to twice, agents that were dropped |
| MCP registry (`tools/mcp.rs`) | servers, their sessions and tools, under one lock | register a server or a tool, list, call | a session outlived by its server, names that contain the separator |
| HTTP client (`rustic-core/src/http/`) | none | get, post, notification, event stream | which failure becomes which error, an answer in a stream; no request is ever repeated |
| Conversation service (`rustic-boot/src/conversation/service.rs`, `storage/manager.rs`) | conversation and turn documents | send a turn, update, delete, recompute costs | several database calls per request and no lock across them |
| Routes and authentication (`rustic-boot/src/{routes,auth}`) | cache of public keys | handlers, token validation | concurrent refreshes, keys that rotate, client disconnects |
| Start of the server (`rustic-boot/src/boot.rs`) | none | providers, MCP servers, agents, keys, database, in this order | what is missing in the environment, what validation leaves dangling |
| Ticker synchronisation (`rustic-finance/src/core/{pipeline,tickers/update}.rs`) | tickers, controls, histories, indicators, sentiments | end-of-day, load, realtime and sentiment pipelines | worker pool, what is saved before what, error isolation |
| Ticker analytics (`core/tickers/{signals,indicators,search}.rs`, `tools/ticker_screening.rs`) | none | indicators, signals, rollup, screening, search | values that are not there yet, conditions, limits and ranking in the wrong order |
| Economic pipelines (`rustic-economic/src/{pipeline,core,tools}`) | FRED, BEA and census tables | clear, load, answer | failure between clearing and loading, bulk commands of two runs that mix, rows of several levels in one answer |
| Data providers (`rustic-providers`) | none | third-party requests | I/O |
| Embeddings (`rustic-ml`) | model weights | embed, similarity | numeric |
| Binaries, configuration, logging | none | start-up | I/O |

Interactions.  A route validates the token with the key cache, which all requests
share, and calls the conversation service.  That reads the conversation and its
turns, has `AgentService` build a runnable (a single agent or a pipeline) and
hands its stream to the client; when the stream's `Final` chunk comes by, it saves
the turn.  The builds of all requests share the cache of LLM clients and the MCP
registry.  A pipeline spawns a task that runs sub-agents through
`Runnable::execute` and streams its synthesizer.  A single agent forwards the
stream of an agent loop, which is a spawned task that talks to a provider adapter
and to tools, MCP tools over the HTTP client.  All of these are connected by
bounded `tokio::mpsc` channels.  The data pipelines share only the database, with
each other and with the tools that read it.

What makes each component correct:

- *File repository*: what was acknowledged is answered until it is overwritten,
  through failed writes and restarts; the offset map never points at a fragment.
- *File database*: a repository that was replaced reads no record of another key,
  no tombstone and no garbage, outside of appends that met; a collection the
  manifest lists can be opened again.
- *Agent loop*: one outcome per run, nothing after it; the accounts of the run
  are complete; every request is one the provider can answer, i.e. tool outputs
  come with their calls and the prompt is in reach; the loop ends.
- *Provider adapters*: a tool call reaches the agent once and with its own arguments,
  texts in order, and the usage the provider reported.
- *Pipeline*: usage is what was spent; the caller learns how it ended; agents that
  hang do not hold up the others.
- *Agent construction and MCP*: one client per provider and model, a topology is
  built whole or not at all, validation leaves no unknown agent that cannot be
  explained, a tool call ends at the tool whose definition the model was given.
- *Key cache*: no request is refused for a key that is published; a key that was
  taken back is not accepted for long; nobody waits for ever.
- *Conversation service*: no turn, cost, setting or deletion is lost, outside of
  windows that can be named.
- *Ticker synchronisation*: an update that succeeds leaves no gap in the history;
  indicators rest on bars; what a failure, a kill or an overlapping pass loses,
  doubles or sets back can be named; a pass ends.
- *Ticker analytics*: no day has two signals that deny each other, crosses and
  trends agree from day to day, a request is answered with what it asked for.
- *Economic pipelines*: a failure costs its own job and what can be named; the levels
  of a census year belong together, or do again after the next load that goes over it
  alone; an answer is about the place asked for.

The hazards, each at its line, are in `PROJECT.json`.

## 2. Modules

| module | models | composed with |
|---|---|---|
| `KVStore` | abstract store: live contents, contents on disk, crash | |
| `FileRepository` | `FileRepository<K, M>` on its log | implements `KVStore` |
| `FileRepositoryProofs` | theorems about it | extends `FileRepository` |
| `FileDatabase` | `FileDatabase`: manifest, directories, the repositories it hands out | failing writes of one repository are `FileRepository` |
| `FileDatabaseProofs` | theorems about it | extends `FileDatabase` |
| `ResponseStream` | abstract contract of a streaming call | |
| `AgentLoop` | `Agent::complete_with_streaming`, its provider, tools, channel and consumers | implements `ResponseStream` |
| `AgentLoopProofs` | theorems about it | extends `AgentLoop` |
| `StreamAdapter` | the four adapters: provider events to the chunks that `AgentLoop` reads | |
| `StreamAdapterProofs` | theorems about it | extends `StreamAdapter` |
| `Pipeline` | `PipeLineAgent`, deterministic and dynamic | implements `ResponseStream`; its sub-agents and synthesizer are response streams |
| `PipelineProofs` | theorems about the pipelines, of agents and of data | extends `Pipeline` and `EconomicPipeline` |
| `HttpClient` | what a POST comes to; operators only | |
| `McpRegistry` | servers, sessions, tools and their names | extends `HttpClient` |
| `AgentService` | the start of a server, builds and tool calls | extends `McpRegistry` |
| `Conversation` | concurrent requests on one conversation | |
| `ConversationProofs` | theorems about it | extends `Conversation` |
| `KeyCache` | the cache of Firebase keys and the requests that read and refresh it | |
| `ServerProofs` | theorems about the server: its key cache and its service of agents | extends `KeyCache` and `AgentService` |
| `TickerSync` | the load, end-of-day, sentiments and quotes passes over one database | |
| `TickerSignals` | the pass over a history: values, signals, rollup | |
| `TickerScreening` | the screening tool, the search route and their filter | extends `TickerSignals` |
| `TickerSyncProofs` | theorems about the ticker passes and the analytics | extends `TickerSync` and `TickerScreening` |
| `EconomicPipeline` | overlapping runs of the three pipelines, document by document, and the tools' answers | |
| `MC*` | instances for TLC | |

### FileRepository

`log` is the file, a sequence of records that are `whole` or not; `offsetm` the
in-memory map, from keys to positions in the log.  An insert or update is three
steps, as in the code: `BeginAppend` seeks to the end and starts the write (a
fragment), `FinishAppend` completes it, `UpdateOffset` sets the map.  `FailAppend`
is the error return between the first two.  A delete appends a tombstone.  `Crash`
drops the map in any phase.  `OpenRepository`, `ReplayRecord` and `ReplayEnd` are
`initialize`, one record at a time: it stops at the first record that cannot be
read and does not truncate the file.  Byte offsets are abstracted to positions,
so that a fragment hides everything behind it, as `read_record` does once it is
out of step.  That is the pessimistic outcome: a reader that gets out of step
may also read garbage lengths, which ends the replay as well.
The store refined is `KVStore` with a flag that says a write was torn: an
untainted store recovers all of its contents, a tainted one may lose.

### FileDatabase

`manifest`, `dirs` and `logs` are on the disk; `collections` is the metadata in
memory, `handles` every repository that was opened since the last start, each with
the offset map it has made for itself, `repos` those the database hands out and
`held` those somebody has been handed.  `register_collection` is one task with a
step for each call to the disk, `task`, because the writers of repositories that
were handed out before do not wait for it.  A name enters the metadata before its
directory is made, in both, and a collection that exists already is opened a second
time.  `Torn` is a manifest cut off inside `fs::write`; after it `LoadFromFile` is
never enabled, as `serde_json` fails at every start.

A log is a sequence of pieces, three to a record: its mark (magic and version, which
every record has in common), its kind (tombstone or not), and its body.  An insert or
a delete seeks for its offset, `op`, and then writes one piece per step, at the end the
log has at that moment, because the file is opened for appending; the mutex is that of
one repository, so the pieces of two repositories of a collection mix.  A record is
readable where a mark, a kind and a body follow each other, of whichever records: of
eight header fields only those matter that a reader looks at.  A crash leaves a log
that ends anywhere in a record.  `alone` (nobody else has written since this
repository was opened), `crossed` (keys into whose append another repository has
written) and `refused` (the directory could once not be made) are history variables.

### AgentLoop

`pc` is the position of the spawned task, `resp` what it has read of the current
response, `iterations` the messages every iteration has added, `chan` the
channel.  A response is named by its iteration, a tool call by iteration and
position; texts and arguments do not matter to the control and are left out.  The
four request builders are the operators `OpenAIBody`, `CompletionsBody`,
`AnthropicBody` and `GeminiBody`, which return the set of messages in a request;
`asked` is what the model can see, the request and what the provider remembers of
the response it continues.  The tools finish in any order (`ToolReturns`), as
under `join_all`.  The consumer is `Agent::complete`, which leaves after an
outcome, or the forwarding task of `SingleAgent`; either may be dropped at any
time (`Dropped`), by a client or by the timeout of a pipeline.

### StreamAdapter

A step is one event of a provider's stream together with everything the adapter
does with it.  `begun`, `sent`, `closed`, `texts`, `ending` and `reported` are what
the provider has streamed (external: an over-approximation of its protocol, in
which the fragments of calls mix freely if they are numbered); `pending` is the
adapter's buffer, `out` the chunks it has yielded.  An adapter of blocks
(Responses API, Anthropic, Gemini) has one action per event type.  A chat
completions chunk carries several things at once, so its handler is `Choice`, the
part all chunks share, and one action per finish reason.  The order in which
`pending_tool_calls.values()` yields is any order (`Batches`).  Arguments are the
sequence of fragments put together, and `from_str` succeeds when they are those of
one call from first to last; anything else becomes `{}` or `Null`, both 0 here.
Chunks without content, which the agent skips, are left out.  `live` ends with the
stream or with the first error, on which the agent leaves.

### Pipeline

`sub` is the state of the sub-agents of the current stage: waiting for a permit,
running, succeeded, failed, timed out.  A sub-agent is one call, a synthesizer
one response stream: that is what AgentLoop implements.  The loop of a
deterministic pipeline (`NextStage`) and that of a dynamic one (`Decide`) share
`execute_subs` and `execute_synthesizer`.  Waiting sub-agents acquire permits in
any order here, in FIFO order in tokio, and the channel of 200 places is never
full: both only add behaviours for the safety properties.

### HttpClient, McpRegistry, AgentService

`HttpClient` has operators only: a reply (was there one, its status, its lines, did
the body arrive whole) to an outcome or a variant of `HttpError`.  `McpRegistry`
keeps, per server, the session the handshake left and, per name, the server and the
tool behind it.  A name is a sequence of underscores and of texts without any: joined
with three underscores and taken apart at the first three in a row, as in the code, so
that a server name that ends in an underscore is cut elsewhere than it was joined, and
two tools of two servers may have one name.  `gen` counts the lives of a server: a session of an earlier life is refused (external).
`writer` holds the write lock across a registration's requests, as the guard in
`with_mcp_registry` does.

`AgentService` begins with the start of a server: `boot` is the step it is at, `env`
and `file` what it finds.  Providers, MCP servers, agents, keys and the database
follow in this order and each may end the start.  The registry, `agents`, is the set
of places of the file whose agents it has, and an id stands for the first of its
agents in the registry's order (`FindAgent`): pipelines last, otherwise as in the
file.  `RegisterAgents` leaves out agents with unknown tools; the pass that follows
(`ValidateAgents`) looks at one agent per step and drops pipelines with unknown
sub-agents.  The stages of a static pipeline are one list, in which the code's nested
loops walk them.  A build goes through the topology depth first, one agent per step:
`todo` holds the references still to build with the input they inherit and where they
come from (`from`, `at`; the request itself is the reference `None`, 0), `visited` the
ids seen, `built` the agents, each with the client, the definitions and the copy of
the registry it was given.  Steps of several requests interleave, because each takes the
locks for itself.  A built agent calls one tool it was told of (`Call`).

### Conversation

A request is a process whose `pc` is the next database call; MongoDB executes one
call at a time, because the repository is behind a mutex, and anything may happen
between two calls.  `copy` and `read` are the values read earlier on which a later
write rests.  `raced` records which pairs of requests were at the same time
between such a read and its write, so that the properties can say what is lost
*only* there.  The conversation exists at the start (`create_conversation` is
`Init`).  The natural order in which `find` returns documents and the unique
index on the id of a turn are the database's (`schema.rs:43-48`).

### KeyCache

`published` is what the key server gives out (external): it publishes the next key
or takes back the oldest.  A request looks at the cache under the read lock, fetches
with no lock when it is stale, and takes the write lock with the answer it has: the
answer may be older than what another request wrote meanwhile.  The request itself
goes on with its own answer.  A key that is not there is worth one refresh more.
`through` says that the key of a request was published all the time since it came,
and `age` how long ago an accepted key was last published: the two history fields
the properties speak of.  Time passes only while something is awaited.

### TickerSync

A pass is a process: `pc` is where its own code is, `task[p][s]` the tokio task of
a symbol, `mine` the copies of tickers and controls it works on until it saves
them whole.  Time is counted in days instead of timestamps, and a bar, an article
or an indicator is the day it belongs to, one of each per symbol: bars within a day
are not modelled.  The article of a day is there with the day;
the end-of-day bars may end any number of days before today (`FetchHistory`), and may
so be behind a quote.  The answer to a request for articles begins at the earliest
`Reach` days back, the month in the code, and possibly later, as it holds a limited
number of the latest (`Begins`): what was published before and after the stamp of the
copy is passed over by the new stamp.  A
ticker keeps two of its fields, the day of the price and the day of the indicator
behind its signals, which is enough to see which version a save put there; details,
prices and performance are left out.  A control keeps the sentiment stamp, the one
field a later pass reads.  Every database call may fail; an insert or a bulk write
that fails may have been done in part, and a control's save may be done and not
acknowledged.  `Kill` ends a process between any two calls.  `stale` (the tickers
another pass has replaced since this one read its own), `lost` (articles behind a
stamp that nobody will ask for again), `missed` (articles the answer did not reach)
and `fresh` (a task's reading of the history still holds) are history variables; no
guard reads them.  A stamp that was refused loses nothing: the next pass asks again.  A
calculation of indicators that fails is logged, and the ticker is finished without.
Embeddings, the news pass and the prune commands are left out.

### TickerSignals, TickerScreening

The values of the indicators are inputs; what is modelled is from which day on a
window has a value (`KeysAt`), what `SignalsCalculator` reads off a day and the day
before it, the composites it makes of what it found, and the rollup.  A signal whose
values are missing is not given, as with the `if let` chains of the code: this
includes the signals that ask for `"stochastic_k"`, a key no value is kept under.
`TickerScreening` takes the ticker whose day that is, and others, and answers a
request by the tool (`Execute`) or by the route (`Search`).  The conditions become
one filter document, pushed in the order of the code, with the rules of
`build_clause` for two conditions on one field; what an operator of MongoDB means
is external.  The limit goes into the query, and a question in words ranks what
that left, by `Near`, the similarity of an overview, which is an input.  A list of
tickers is a set: its order decides only which are left when it is cut off, so a
ticker is among the first `n` when fewer than `n` go before it (`FirstOf`).  Tickers
with equal sort keys go by their ids, and equally near ones as they were found,
since the code's sort is stable (`Goes`, `GoesNearer`).  Either request may fail: by an
unknown field, by the database, by the embedding of the question, and the route by the
`unwrap` in its log line when nothing that was found has an overview, which is
evaluated only at the level debug.

### EconomicPipeline

A run is a program: the jobs its configuration stands for, in order (`Program`),
each with one request or more and one command.  `db` says of every document which run
stored it last, `Old` before any, or that it is absent; values are left out.  What
an error costs differs from job to job, and that is the model's subject: a failed
clearing ends the run, a failed series, table or year is passed over, a failed
regional request or the nation's or states' census request ends the section, a
failed write is logged.  An error whose text holds 404 is no rows.  The years of a
regional request are the BEA's own last five (`RegionalYears`, from `Released`, the last
year of its data), those of the others are counted from the calendar
(`ResolveYears`).

A run is a process of its own, started from the command line, so that no mutex keeps
two of them apart.  `bulk_write` and `delete_many` are commands over many documents
without a transaction: `Begin` is the call, `Handle` the next document, `Complete` the
answer, and the steps of another run come between them.  `CutOff` is the end of a command
anywhere in between, by an error, after which the server is taken to do no more of it, or
by `Kill`.  The documents of a command are handled in one fixed order, which is the
model's bound: the order of a bulk write is that of its list.  `faults` and `mixed` are
history variables: every call that went wrong, and the census years whose last command
was cut off, went without a level, or met another run's.  A command that goes over a
year alone takes it out again.  The data tools are operators on `db`: which of the
documents that are there a question returns.

## 3. Runs

| run | instance | states | shows |
|---|---|---|---|
| `file_repository` | 2 keys, 2 values, 4 records | 174 thousand | offsets sound, loss only behind a torn record, implements `KVStore` |
| `file_crash_safe` | same | | counterexample to "crash-safe" |
| `file_database` | 2 collections, 2 keys, appends until 4 pieces are there, 2 repositories, a crash | 5.9 million | what a replaced repository may rely on, what the manifest lists |
| `agent_loop` | 3 iterations, channel of 1, 2 tool calls, 2 chunks | 1.1 million | one outcome, accounts, requests that can be answered, the end |
| `stream_adapter` | 3 calls of 2 fragments, 2 texts | 315 thousand | calls whole and handed over once, texts and usage relayed |
| `pipeline` | 3 rounds, 3 agents, 2 permits | 23 thousand | usage of the stages, how it ended, timeouts |
| `agent_service` | 8 agent files, 4 environments, 2 requests, 3 MCP servers, 6 fates of a request | 1.5 million | shared clients, whole topologies, what validation leaves, where tool calls end |
| `conversation` | 4 requests, at most 2 turns, symmetric | 1.4 million | what races can lose |
| `key_cache` | 2 requests, 3 keys, 4 ticks | 745 thousand | who is refused, what is accepted, that all are decided |
| `ticker_sync` | 2 days; two passes of kinds that share documents over one symbol, and a pass over two symbols with one permit | 1.0 million | gaps heal, what is lost, doubled or set back, the end |
| `screening` | 4 days of 57 kinds, 4 tickers, 15 requests | 17 thousand | signals that agree with each other, answers that fit |
| `economic` | a run that clears and loads everything beside one that loads the census, 1 fault | 1.0 million | what a failure costs, years that are whole again, answers that fit |

Bounds.  *FileRepository*: four records are a record, a fragment, and two records
behind it, of the same or of different keys, one of which may be a tombstone; a
violation needs no more than that, since a property relates two records of one
key and one fragment.  *FileDatabase*: two repositories after each start, of one
collection or of two, and appends that begin while the logs hold fewer than four
pieces: a record, and two appends behind it that meet.  One crash, since what it leaves
on the disk is all that the next start has.  *AgentLoop*: three iterations
are the least in which the newest iteration, the oldest and the prompt are three
different things; with one place every send can block; the cap of ten only repeats
iterations.  *StreamAdapter*: three calls with two fragments each can mix in every
way, a buffer of three has six orders, and two texts have an order.
*Pipeline*: three agents and two permits make one wait for a permit that a timeout
has to free.  *AgentService*: two requests make every race for a client; the agent
files are one for each way a topology can be sound or broken (shared twice,
circular, unknown, dropped late, settings or files missing), the environments lack
nothing, the MCP keys, the URLs of the local providers, which ends the start, or the key
of one server, so that the two whose names meet run together; the servers have names and
tools whose underscores meet, one of them has no sessions, and one tool's name holds the
separator; one restart and one registration make the session, and the copy of the
registry in an agent, older than the server.
*Conversation*: two turns that race, and two requests of other
kinds; a window is between two requests, so a third and a fourth are there to
make the state they race on interesting.  *KeyCache*: with a cache that is stale
after one tick and exchanges of up to one, four ticks hold two refreshes that
overtake each other and a request that trusts what they leave; three keys are one
taken back, one kept, one new.  *TickerSync*: two days are the least with a gap
behind a newer day, with a stamp that a later pass compares, with bars that end before
a quote, and with an answer that begins after the first article (`Reach` is both days:
where the window ends and where the limit does come to the same); two passes make
every race between a read and a save, and the instance with two symbols and one
permit makes a task wait for another.  *TickerScreening*: the windows are one to
three days, so that four days have days on which some are full and others not; the
bars are there for every signal to be given and to end; one place for ranked answers
and two for those without a limit make the cuts bite.  *EconomicPipeline*: two years, two
states with a county each, a regional line and a table that is configured twice.  Two runs over two years of five documents mix in
every place, and a later command over the year heals it; one fault is enough, as one cut
or one missing level makes a year mixed, and `FailureContained` holds each document
against a single fault; the theorems are for any number.

Fairness.  `AgentLoop!FairSpec` has weak fairness of the steps of the task, of the
provider's stream, of the tools and of the consumer's receive: tokio polls a task
that can make progress, and the code relies on the provider's stream and on the
tools to end, since it sets a timeout for neither.  `Pipeline!FairSpec` has weak
fairness of the task, of the semaphore and of the timer, and none of the
sub-agents, which may hang: `ParallelEnds` shows that the timeout is enough.
`TickerSync!FairSpec` has weak fairness of the steps of every pass that was
started; the calls to the database and to the providers are taken to return, with
an answer or an error.  `KeyCache!Fairness` is weak fairness of each request's steps:
the key server answers or the connection breaks.  Weak fairness is enough for the
write lock, because at each wait the readers ahead go away, and no request reads
twice.  `MaxFetch`, which bounds how long an exchange takes and so how long a
key that was taken back may be accepted, is an assumption about the network:
the client has no timeout.  The other modules state safety only.

Every property has a mutant in `PROJECT.json`: a definition of the model, changed as
a plausible bug would change the code, under which the run finds the property
violated.  The mutants stand before the definitions they replace.

## 4. Proofs

Every component has its theorems in one of eight `*Proofs` modules.  A component's
part starts with its invariant in named parts, proves that it holds initially and that
every action keeps it, and ends with the theorems.  Every safety property that a
passing run checks is a theorem there, for all values of the constants that the
assumptions allow.
The assumptions say which constants are naturals or positive (caps, permits, windows,
the number of fragments, `Reach`, the limits of an answer), that the symbols and passes of `TickerSync` are finite sets,
that markers such as `Missing` are no values, no errors (`ErrorsAssumption`) and no
appends (`NoneAssumption`), and
what a configuration looks like: the lists of the economic pipelines
(`ListsAssumption`), that the BEA's last year is not ahead of the calendar
(`ReleasedAssumption`) and that every state has a code (`PlacesAssumption`), that the
names of servers and tools are sequences of texts (`NamesAssumption`), that no hosted provider is called "local"
(`FileAssumption`), the name the local ones are cached under, that a bar's lower
band is not above its upper (`SignalsAssumption`), and that a symbol and an id are one
ticker's, and what tickers are sorted by are numbers (`TickersAssumption`).  Of a reply that is not an event
stream, the whole body is decoded, so it counts as one line (`Replies`).  The `Max...`
constants are the bounds of the models, and the theorems hold for each.  Where two
components share a `*Proofs` module, the second one's specification has a name of its
own: `SpecKeys`, `SpecEconomic`, `SpecScreening`.

| module | theorem | property | for any |
|---|---|---|---|
| `FileRepositoryProofs` | `MapSound`, `BoundedLoss`, `Implementation` | `OffsetsSound`, `LossOnlyBehindTear`, `ImplementsStore` | keys, values, log |
| | `SafeWithoutTear` | without a torn write, `CrashSafe` | |
| `FileDatabaseProofs` | `ListedCanBeOpened`, `OffsetsStayLive`, `AloneIsExact` | `ListedHasDir`, `OffsetsLive`, `AloneAgrees` | collections, keys, logs, repositories |
| `AgentLoopProofs` | `SingleOutcome`, `RunAccounted`, `HistoryAnswerable`, `Implementation` | `OneOutcome`, `FinalAccounts`, `RequestsAnswerable`, `ImplementsStream` | cap, channel, calls, configurations |
| `StreamAdapterProofs` | `CallsWhole`, `AnswerWhole` | `CallsHandedOver`, `AnswerRelayed` | calls, fragments, texts, token counts |
| `PipelineProofs` | `UsageComplete`, `EndTold`, `Implementation` | `StageUsage`, `EndsTold`, `ImplementsStream` | stages, agents, rounds, permits |
| `ConversationProofs` | `NumbersUnique`, `NothingLost`, `DeletionFinal` | `SequencesUnique`, `WritesKept`, `StaysDeleted` | requests, of any kinds |
| | `FailuresAreContained`, `YearsAreWhole`, `AnswersAreFit` | `FailureContained`, `YearWhole`, `AnswersFit` | runs, configurations, series, tables, places, faults |
| `ServerProofs` | `PublishedAccepted`, `WithdrawnExpires` | `NotRefused`, `AcceptedRecently` | requests, keys, clock |
| | `ClientsAreShared`, `CallsLand` | `OneClient`, `CallsReach` | files, environments, servers, requests, restarts |
| | `TopologiesAreWhole`, `UnknownsAreExplained` | `BuiltWhole`, `UnknownExplained` | the same |
| `TickerSyncProofs` | `Healed`, `Backing`, `Blind`, `ArticlesKept`, `DateForward` | `HistoryHealed`, `IndicatorsBacked`, `DuplicatesOnlyBlind`, `SentimentsKept`, `DateNeverBack` | symbols, passes, permits, days |
| | `SignalsAgree`, `CrossesMark` | `NoContradiction`, `CrossesMatchStates` | histories, windows |
| | `ScreeningFits` | `AnswersFitFilter` | tickers, requests, similarities |

Each component also has its invariant or its typing as a theorem (`Invariance`,
`TypeCorrect`, `KeyInvariance`, `ServiceInvariance`, `TopologyInvariance`,
`EconomicInvariance`; `CopyTyping` is a part of the invariant in
`TickerSyncProofs`).  The properties are not inductive as they
stand; what is added, and why, is the rest of this section.

*FileRepository*.  The invariant says
for each key that its offset is the last record of that key among those that
the process has replayed or appended, that at most the record being written is a
fragment unless the store is tainted, and that everything before `pos` has been
replayed while replaying.  `OffsetsSound` alone is not inductive: a delete has to
know that the map is at the *last* record, or an older one would come back.

*FileDatabase*.  `AloneAgrees` compares a repository's map with what a scan of the log
makes of it, and the invariant says instead, record by record, what such a map has:
`Exact`, the last record of each key and no key whose last record is a tombstone.
`ReplayExact` proves that the scan gives an exact map for a log of any length, and
the theorem is that two exact maps of one log are the same.  A log is a sequence of
pieces, so that an append is three steps after the seek; `Contiguous` says that what an
append has written is the end of the log as long as nobody else has written since its
seek, and `WholeBut` that the pieces before it are whole records.  An append
that another repository writes into is `crossed`, and its key is left out of what
`Sound1` promises: this is the exception `OffsetsLive` names.
A repository is `alone` until another one
of its collection writes.  `ListedHasDir` needs `Registered`: the metadata that the
next manifest is written from is ahead of the disk by one directory at most, the one
being made.

*AgentLoop*.  `OneOutcome` needs to know where in the loop an outcome can have been
sent: only as the last step of the task.  With the same invariant `ImplementsStream`
is proved: what the consumer does not hear as an outcome changes nothing, and once it
has heard one the channel is empty.  `FinalAccounts` speaks of the Final chunk;
the invariant has the accounts while they are made (`Billed`: the usage so far is the
sum of the bill; `Traced`: one entry in the trace per iteration).  `RequestsAnswerable`
speaks of a request about to be sent; `History` has what the iterations have added,
with which request the chain of stored responses began, and that what the model has
seen is answerable at every place between two requests.  The proof then takes the
four request builders one by one.

*StreamAdapter*.  The actions of the three APIs that end their calls one by one are
five steps between them (`FiveSteps`), and a call that is open has its fragments in a
buffer that is no other's (`Numbered`).  In a chat completion the buffers hold
everything until they are handed over at once; `Chosen` says when that may still
happen (`Flushable`), that nothing has been handed over until then, and that the
buffers are a chart of the calls: each slot has a call, each call a slot, and the
fragments sent are there in order unless calls share a slot.  A `HashMap` in any order
is a bijection onto its slots (`BatchIs`), hence each call once.

*Pipeline*.  `StageUsage` speaks of the Final chunk alone; the invariant has the
balance on the way there: what was spent is in the usage, but for the sub-agents of
the stage under way that have succeeded.  `EndsTold` needs to know that a
deterministic pipeline which has run a stage has one left, its last, whenever it is at
the top of its loop, so that only one without stages ends there.

*Conversation*.  The argument is about windows.  Two requests in one window at the same
time have raced (`RacedWithin`); without a race, the copy that a request holds in its
window is as good as the document (`UsageKept`, `SettingsKept`), the number a turn
has counted is above all that are stored (`NumbersBelow`), and nobody is about to
write behind a deletion (`MissingQuiet`).  The number of a turn is not fixed by the
count alone: turns inserted since then have raced with it, and are numbered from the
same count on, so the invariant compares a turn's number with the places of the others
and not with their numbers.  A recalculation writes back totals from the turns it has listed;
that no finished turn is missing there is the part of `UsageKept` that was hardest to see.

*KeyCache*.  The invariant follows the keys: those a
request has fetched were published when its exchange began, those in the cache
`MaxFetch` before they were written at most, and a key that was published all the
time is in every answer fetched for the request.  That a request looks its key up in
its own answer, and not in the cache that another may have overwritten, is what
the last part rests on.

*AgentService, clients and calls*.  `OneClient` and `CallsReach` speak of agents and
calls; `ServiceInv` says where these have them from.  A client in the cache talks to a
provider whose key it is kept under (`ClientsHold`), and is never replaced, so that an
agent's client is still there.  What an agent was given of the registry is a copy: a
session in it was opened in a life of its server that is not later than the present
one, and a definition is of a tool its server lists, under the name of both
(`RegistryHolds`, `DefinitionsHold`), and this stays true when the registry itself
moves on.  `CallsReach` then follows for the moment of a call, from what a reply can be
and how a name is taken apart, and a call that was made does not change.  A name is a
sequence of texts and underscores, joined with three of these and cut at the first
three: `NameParts` proves that this gives the two parts back when neither holds a
separator and the server's does not end in an underscore (`Separable`).

*AgentService, topologies*.  `BuiltWhole` compares what was built with what the root
reaches, the least set that has the root and the sub-agents of all it has.  The
invariant says of a build under way that each reference of an agent visited leads to an
agent visited or is still in `todo` (`Covered`), so that with nothing left the visited
agents are such a set, and that everything visited is in every such set (`Seen`).  For
the failures it counts: each reference is in `todo` once (`Once`), and each agent
visited was built for one that is there no more (`Spent`); an agent met a second time
has therefore two references, and they are different.  `UnknownExplained` needs the
history of the validation: a pipeline that was looked at names agents that are in the
registry, or pipelines that were (`Accounted`).  This is kept when a pipeline is
dropped, because it is a pipeline that is dropped, or because an agent of that id that
is none would come first in the registry and keep every agent of the id in place.

*TickerSync*.  For the histories the invariant
says of every task what it may take for granted at the stage it has
reached: before the insert, each day up to the last is stored or in its batch, and
after it stored (`Backed`); what it believes stored is stored (`Knows`); and if it
is fresh, nothing of its batch is stored (`Sighted`).  The properties alone are not
inductive, because they speak of a task's end and of what is in the database, and
not of a batch on its way there.  Bars are never removed, so a step of another pass
cannot falsify the first two; it can falsify the third, and then takes `fresh` away.
For the articles, what a stamp promises has to be kept for the stamps in the passes'
copies as well as for the stored ones, since any copy may be saved at any time
(`StampsKept`), and a task about to stamp holds every article since the stamp of
its copy but those its answer did not reach (`Asked`).  For the prices, a copy that no
other save has overtaken is not behind the stored ticker (`Copied`), and a task moves it
forward, or to the last bar it was given: the exception for bars that end earlier.

*TickerSignals*.  That a cross is reported on the day its trend becomes active relates
two days; the invariant says that the trend signals of a day are what its averages say
(`TrendKept`).  That no two signals deny each other follows day by day from the tables
of signals, for any values whose bands are in order (`Fits`).

*TickerScreening*.  `AnswersFitFilter` needs no invariant: it is about what one request
makes of its conditions.  Two conditions of a request that share a field are comparisons
by different operators, unless the request repeats a bound (`Joinable`); then each
joins the filter without taking from it what it had (`ClauseJoins`), and at the end the
filter holds the conditions and nothing else (`FilterHolds`), so that a ticker matches
it when it is wanted (`FilterWants`).  What the limit leaves out is then a fact about
ordered finite sets: the first `n` of one are `n`, or all of it, and who is not among
them has `n` ahead (`FirstCounted`, `LeftOut`).  The order of the database and that of
a question are instances of it (`GoesOrders`, `RankedIs`).

*EconomicPipeline*.  `FailureContained` speaks of the jobs a run has gone past.  The
invariant says of each of them that its documents are renewed or that there is a fault
that explains it (`Renewed`), says the same of the documents that the command
under way has passed (`PartRenewed`), and that the job at the run's place holds what its
requests have returned (`GotFits`): all of it, but for a census job a level that was
reported missing.  Another run may write the same documents, and then the properties
name it.  `YearWhole` rests on `YearFits`: a year that is not `mixed` has one command over
it at most, and every document of the year which this command has yet to come to is in
`got`, so that each of the others is what the command makes of it (`Becomes`), and all
agree when none is left.  That a document is handled at a time, in any mixture with
another run, is therefore no harm to a year but while two commands are over it, and these
make it mixed.

Folds.  What a fold computes is an induction over data.  The library's induction
theorems take the statement as an operator, which the provers cannot instantiate;
`Inductive` and `BySize` say the same of sets, from the library's theorem that a
well-founded relation has minimal elements, and that can be instantiated.  A fold is
a recursive function chosen with CHOOSE, so it is first shown that its recursion has a
solution (`AdditionDefined`, `SolutionUpTo`, `FilteredUpTo`), and then what the
solution is.

TLC has checked each of these invariants on the instances of the runs.

Only model-checked: liveness (`TaskEnds`, `ParallelEnds`, `PassEnds`, `Answered`),
which is beyond TLAPS.

## 5. Where the code and its documentation differ

`PROJECT.json` lists them under `findings`, with the line of the code and that of the
document or comment.  One has a run with a counterexample, `file_crash_safe`: a record
that is appended behind one whose write failed is acknowledged, read, and gone after the
next restart.  The other 40 were met while the code was translated; the models
have the code's behaviour, and where a property would be false without it, the
property names the exception (for example the appends that meet in `OffsetsLive`, the
local providers in `OneClient`, the limit in `AnswersFitFilter`, the first data line and
the names with underscores in `CallsReach`, the dynamic pipeline in `StageUsage`).

## 6. What is left

Not modelled:

- in `TickerSync`: the passes that embed articles and overviews, the news pass and
  the prune commands;
- in the analytics: top lists, look-up by symbols, performance figures;
- in `HttpClient`: GET and streaming requests, whose errors are those of a POST and
  whose events `StreamAdapter` starts from;
- handlers that only list or return a document; the claims and the signature of a
  token;
- the creation of schemas and indexes (`schema.rs`); that it waits for a lock it
  holds itself is a finding;
- and not planned: the numeric code (`rustic-ml`, the arithmetic of the indicators),
  the JSON of third-party services (`rustic-providers`), reading configuration files,
  command lines and logging.  They have no concurrency and no state that outlives a
  call.
