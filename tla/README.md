# SAP-Automate in TLA+

TLA+ models of SAP-Automate (an MCP server that gives agents guided access to
SAP, written in Rust on tokio): its concurrent and transactional core, its tool
surface and backends, and the services around it; the TLC configurations that
check them; and TLAPS proofs of the main invariants.
Every definition that models code is tied to its lines in `PROJECT.json`
("map"); this file says how to read the models and what has been established.

## 1. The system

| Part | State | Operations | Talks to | What is hard |
|---|---|---|---|---|
| MCP client (`crates/mcp-client`) | `pending` map of oneshots, `next_id`, outbox channel, reader/writer tasks | `call`, `notify`, `initialize`, `handle_server_request` | server, over a pair of pipes | many calls on one pipe, server requests interleaved with responses, EOF and broken pipes at any await |
| MCP server loop (`mcp-server/server.rs`) | inbound/outbound channels, one task per request | `run_stdio`, `dispatch`, `handle_method` | client, tools | bounded channels in a ring, tools that suspend on the client they are serving |
| Elicitation (`mcp-server/elicit.rs`) | `pending` map of oneshots, id counter from 1 000 000 | `elicit`, `deliver_response`, `parse_response` | server loop, workflow tools | an answer for the right tool; a failure must never be consent |
| stdio transport (`mcp-transport/stdio.rs`) | two byte pipes | `send`, `recv` | both | full pipe, EOF, broken pipe, malformed line |
| Workflow tools (`sap-automate-server/tools.rs`) | none of their own; the audit log | three `sap.workflow.*` tools with one or two forms | elicitation, audit log | every arm of a decision must agree with its audit entry |
| Transactional write (`sap-automate-rfc/transaction.rs`, `soap.rs`) | the LUW inside SAP | `execute_write_bapi`, `rollback`, via `sap.rfc.call` | SAP over HTTP | timeouts, late execution, COMMIT in another session than the BAPI |
| RFC metadata cache and pool (`metadata_cache.rs`, `pool.rs`) | map of entries with their age, counters, permits | `rfc_metadata`, `bulk_rfc_metadata`, `invalidate_all`, `acquire` | inner client | invalidation racing a fetch, counters under a lock of their own |
| Retry and circuit breaker (`retry.rs`) | state, failures, `opened_at` | `tick`, `call`, `retry_with_backoff` | any RFC call | late results of calls admitted in another state, half-open admits everybody |
| OData and ADT clients (`odata.rs`, `sap-automate-adt/http.rs`) | OAuth token and expiry, CSRF token | token fetch and refresh, `activate` | SAP over HTTP | concurrent refresh, a token that SAP has forgotten |
| HTTP transport, tool registry, start-up | configuration, exposed tools, event streams | `post_handler`, `events_handler`, `check_auth`, `check_origin`, `is_allowed_by`, `main` | server, backends | a route or tool without its check, a write without audit entry |
| SAP backends: catalogue, SOAP, ADT (`client.rs`, `soap.rs`, `bapiret2.rs`, `adt/http.rs`) | none; registers of the XML readers | searches, table reads, calls, XML readers | tool handlers | one or many elements of a name, cut documents, registers that outlive their element |
| Knowledge base and ingestion (`kb`, `ingest`) | documents, chunks, hashes, slots per host | `upsert`, `ingest`, `split_text`, `build_document_tree`, `acquire_wait`, robots matching | crawler, retrieval | runs that break off, raw pointers, byte offsets, groups in any order |
| Retrieval (`rag`) | none | `hybrid_search`, `reciprocal_rank_fusion` | store, reranker | ties, candidates cut off |
| Scheduler, memory, channels, gateway | jobs, rings per session, episodes with a tag index, CLI log | `next_in`, `fire_all_now`, `append`, `record`, `assemble`, `route` | gateway process | boundary arithmetic, eviction, two locks, one job failing |
| Graph, skills, TUI, web, bench | text and ranking | | | floating point and presentation |

What makes the modelled parts correct:

* client and server: a caller gets the answer to its own call; nothing is lost
  or duplicated at a hand-over; a call in progress returns;
* elicitation and workflows: a write is reported confirmed only if the user
  accepted each of its forms, and what the caller is told is what is audited;
* transactional write: what is reported (and audited) as committed is
  persisted, what is reported as rolled back has left nothing, and a read-only
  server sends no write;
* cache: counters account for every lookup, a result covers everything that was
  asked, and an invalidation takes effect;
* server process: without `--enable-writes` nothing changes SAP, over HTTP only
  an authorised caller has any effect, and no question is answered for the user;
* backends: what a caller reads is what SAP sent, and a failure stays one;
* breaker and tokens: an open circuit lets nobody in and every request returns;
  a token in use is alive;
* ingestion and retrieval: no text is lost between page and chunk, a repeated run
  repairs a broken one, consensus of the rankings wins;
* scheduler, gateway, memory: jobs fire when they are due, one failure does not
  keep the rest, a context holds the right turns and episodes.

## 2. The models

A tokio task is a process; a step is what it does between two awaits.

**`Workflow`** - operators: which methods put forms to the user, how many, and
the result and audit outcome of every arm of the three handlers.
`"mismatch"` is a release form whose phrase differs from the transport (for the
other tools it is an ordinary acceptance), `"bare"` an acceptance without the
requested fields. `workflow_release_transport` compares two absent fields as
two empty strings, so a bare acceptance confirms a release; the model has this
(`Mismatched`).

**`McpPipes`** - the two pipes. An end is open as long as the task that owns it
runs: EOF is an empty pipe whose writer ended, a broken pipe one whose reader
ended. Messages are records of kind, id and body.

**`McpClient`** - `Client::call` as four steps (`CallAllocate`, `CallRegister`,
`CallSend`, `CallReturn`), the notification that follows `initialize`, the
reader task with its drain at EOF, one handler task per elicitation, and the
writer task. `OutboxOpen` says who still holds a sender of the outbox, which
decides whether the writer task ever ends.

**`McpServer`** - `run_stdio`: reader, loop, writer, one task per request with
its elicitations, and the joins after EOF. `OutboundOpen` plays the part of
`OutboxOpen`: `elicit_handle` is a local of `run_stdio` and keeps a sender.

**`McpSession`** - composes the two over the pipes; either process may end at
any step (`ClientExit`, `ServerExit`, external: the kernel closes its ends).

**`ToolCalls`** - the abstract specification `McpSession` implements: what a
session promises to callers and user, without tasks, channels or messages. A
call is asked for, its forms are accepted one after the other, it is decided
together with its audit entry, and its caller is told once, the decision or that
the session is closed. The refinement maps what is wanted to `method`, consent to
the forms asked and accepted (`Consent`), the decision to `result`, the entry to
`audit` and what the caller was told to `outcome` once its `call` has returned
(`Told`).

**`WriteBapi`** - `execute_write_bapi` with the audit entry of
`tool_rfc_call`. Any `call_rfc` may fail at any time, and a request whose
caller gave up may be executed later. SAP is external: a BAPI leaves its change
in the LUW of the session it ran in, COMMIT persists that LUW, ROLLBACK
discards it. The `SapClient` trait says nothing of sessions, so `Sessions`
is a parameter: `"per_call"` (what `SoapRfcClient` does: one stateless POST per
RFC, no cookie store), `"per_attempt"` (what `execute_write_bapi` relies on),
`"shared"`. A BAPI that reports a failure may still have left a change; a
COMMIT or ROLLBACK that reports one had no effect.

**`MetadataCache`** - the cache with its inner client and pool. A signature is
its version number; `Import` raises SAP's version, `Expire` makes an entry
older than the TTL. Lookups, counters and stores are steps of their own because
the code takes a lock for each. `floor` and `overtaken` are history variables
written by `InvalidateAll` and read by properties only.

**`RfcFunctions`, `ToolSurface`, `ToolServer`** - the server process.
`RfcFunctions` is the curated catalogue with the gates of both RFC clients.
`ToolSurface` is what `main` builds from its environment and, per tool, the set
of effects its handler may have: reply, change in SAP, audit entry.
`ToolServer` has the process (start, serving, shutdown), both transports with
their checks, and one action per MCP method. A request is one step here; what
happens inside a workflow or a transactional write is the subject of
`McpSession` and `WriteBapi`, with which it shares `Workflow`.

**`RfcCatalogue`** - `MockSapClient`: table reads with client scoping, `LIKE`
and row limits, search, metadata, calls. Case is ignored, as the code does, in
column names, in comparisons and in patterns (`ColumnOf`, `Fold`); a column a row
does not have counts as empty text; a condition is taken apart by
`ParseCondition`, so `FIELD >= 'x'` becomes an equality on a column `"FIELD >"`.

**`SoapXml`, `AdtXml`** - the readers of SAP's answers, one XML event per step:
`parse_children` with its recursion as a stack of frames, and the event loops of
the ADT client with their registers. A SOAP answer is a few elements around
sections (tables, structures), whose items hold leaves with a text; an ADT
answer is a sequence of parts, whose items have fields in any order, not all of
them, or cells of any shape (attribute, text, empty element, element without
text). The reader has a place in the document and the next event follows from
it; the document may end at any of them. `MapKind` is the code's table with its
fallback (an unknown or missing type is a program); a BAPIRET2 type that is
unknown or missing is a failure (`IsFailure`).

**`SapHttp`** - the ADT and the OData client: bearer token cache, CSRF token,
request, status and timeout, with concurrent requests. A token is what is left
of its life; the unit of time is 15 s. SAP's side (`Arrive`, `SessionChange`) is
external. A CSRF token may come with any status of a GET. `activate` reports
success from the status of its POST alone and does not read the body, so the
model does not say that an answer 200 means an active object.

**`CircuitBreaker`, `BreakerGate`** - `retry_with_backoff` around
`CircuitBreaker::call`, with callers that share one breaker; the lock is released
during the call. `BreakerGate` is the abstract specification: a gate that shuts
only after `Threshold` failures without a success, admits nobody until it has
cooled down, and passes again with the next success. The refinement maps "shut"
to `circuit = "Open"` and "cooled" to `openLeft = 0`.

**`DocTree`, `Chunker`, `Ingest`, `CrawlPolicy`** - from page to chunk. `DocTree`
builds the section tree with a stack of raw pointers; a vector's `moves` counts
the pushes that may reallocate it. `Chunker` cuts a text of one- and two-byte
characters. `Ingest` crawls, embeds in batches and upserts, and may break off at
any batch. `CrawlPolicy` has robots.txt, line by line, and the rate limiter with
its callers: one reads the clock (`ReadClock`), takes a slot under the lock
(`AcquireWait`), sleeps and fetches (`Fetch`) or gives up (`Leave`), each a step
of its own.

**`Retrieval`** - two rankings in any order, fused by reciprocal rank in exact
arithmetic, reranked in any order, clipped.

**`Scheduler`, `Gateway`, `Memory`** - `next_in` at every second of a clock that
counts from the epoch, so that its days are those of UTC; `main` of the gateway
with its jobs and its one message; the working and the episodic tier, where
recording an episode takes two locks one after the other. A reader may have no tenant, and then sees every episode
(`MaySee`). An episode names a tag once, as every caller in the repository does.

`MCRfc`, `MCToolServer` and `MCServices` put parts side by side that share no
state. A behaviour has one *focus*: one part moves, the others stay in one initial state,
so each part is explored exhaustively without multiplying the others' states.

## 3. Runs

| Run | Instance | Result |
|---|---|---|
| `session` (`McpSession.cfg`) | 2 calls, up to 4 elicitations, capacities 1, both sides' ids starting at 1, three methods (0, 1 and 2 forms), answers that accept or decline | pass, 192 000 states |
| `no_call_hangs` | 2 calls of `ping` | `NoCallHangs` refuted |
| `elicit_returns` | 1 workflow call | `ElicitReturns` refuted |
| `drop_ends_server` | 1 workflow call | `DropEndsServer` refuted |
| `rfc` (`Rfc.cfg`) | write protocol: 3 attempts, a session each; cache: 2 keys, 2 requests, 1 permit, 2 imports per key | pass, 217 000 states |
| `committed_is_persisted` | 2 attempts, a session per call | `CommittedIsPersisted` refuted |
| `invalidation_is_final` | 1 key, 2 requests | `InvalidationIsFinal` refuted |
| `tool_server` (`ToolServer.cfg`) | 17 environments, 4 HTTP clients and the parent process; every table of the catalogue, up to two conditions in either case, several limits; answers of up to 2 rows of up to 2 columns, or 2 objects of up to 3 fields; 2 concurrent HTTP requests | pass, 1 105 000 states |
| `every_write_audited` | as `tool_server` | `EveryWriteAudited` refuted |
| `stale_csrf_retried` | as `tool_server` | `StaleCsrfRetried` refuted |
| `services` (`Services.cfg`) | 3 callers, 5 document lines, texts of 7 characters, 4 robots lines, 2 callers taking 3 slots, 2 ingestion runs, schedules over 2 weeks, 3 jobs, 4 recorders, 4 chunks | pass, 428 000 states |
| `weekly_on_time` | as `services` | `WeeklyOnTime` refuted |

`session` checks

* `ReplyIsOwn`: an outcome is the result the server computed for this very call;
* `ConfirmedOnlyByUser`: a confirmed workflow put all of its forms to the user
  and each was accepted;
* `ToldIsAudited`: what the caller was told is on the audit log;
* `ExactlyOneInFlight`: while both processes are up, what a suspended call or
  tool waits for is in exactly one place;
* `RegisteredCallReturns`: a call registered while the reader task runs
  returns, even through channels of capacity one and even if the server dies;
* `ImplementsToolCalls`: the refinement of `ToolCalls`.

`rfc` checks `ReportIsTrue`, `RolledBackLeavesNothing` and
`ReadOnlySendsNothing` of the write protocol, and `StatsAccount`, `ResultComplete`
and `InvalidationHolds` of the cache.

`tool_server` checks

* `ReadOnlyNeverChanges`, `OnlyAuthorisedEffects`, `HttpConfirmsNothing` of the
  server process: each holds only because several gates agree (exposure,
  per-request flag, catalogue; origin, token; disabled elicitation);
* `ReadIsSelect` (a table read with supported conditions is a SELECT that ignores
  case, against a reference definition of `LIKE`) and `SearchIsTop` of the
  catalogue;
* `RowsSurvive`, `FailureSurvives`, `BadAnswerIsError`, `ReadsWhatWasSent` of the
  XML readers, against the document as a whole;
* `CachedTokenIsAlive`, `NoExpiredTokenArrives` of the HTTP clients.

`services` checks `OpenAdmitsNobody`, the refinement `ImplementsGate` and the
liveness property `RequestReturns` of the breaker; `SectionsNested`,
`TreeIsOutline` and `PointersAlive`; `SplitLosesNothing`; `RobotsObeyed` and `SlotsSpaced`;
`StoredIsWhole`; `CalendarOnTime`; `JobsThenReply`; `ContextIsRight`;
`ConsensusWins`. Most compare an algorithm that works line by line or step by
step with a definition of its result over the whole input.

The refuted properties quote the code:

* "Drain pending waiters so callers see TransportClosed instead of hanging"
  (mcp-client `lib.rs:239`): a call that registers after the drain, before the
  writer task notices the broken pipe, is never completed.
* "On any failure (transport closed, ...), returns an `ElicitationResult`"
  (`elicit.rs:85-86`): only a failed send is handled; when the client goes away
  after the send, nothing drops the waiter.
* "Closing the child's stdin causes its event loop to exit" (sample-client
  `main.rs:166`): dropping the client does not close the child's stdin, since
  the client's own reader task holds a sender of the outbox; client and server
  wait for each other.
* "Whether the LUW was committed (true) — i.e. the change is persisted"
  (`transaction.rs:64`): with a session per call, COMMIT finds no LUW.
* "... so the next ... call re-fetches from SAP" (`tools.rs:389`): an answer on
  its way during the invalidation is stored after it.
* "Every invocation of a tool flagged `with_writes()` lands here" (`audit.rs:3`):
  `abap.adt.activate` is flagged and records nothing.
* "Weekly on a given weekday (1=Mon..7=Sun) at HH:MM" (scheduler `lib.rs:52`):
  with a time of day earlier than now's, on another weekday, the difference
  saturates and the job fires hours late.
* "On a 403 with `x-csrf-token: required`, refresh and retry"
  (`docs/SAP_CORRECTNESS.md:158`): `activate` posts once and returns the 403 as an
  object that was not activated.

### Bounds

Capacities of one make every send block, so every full-channel case occurs;
larger ones (64 in the code) only add slack. Two calls are the least that can be
confused, and 4 elicitations are all that two calls of the two-form workflow
make, so `MaxElicits` never disables a step of that run. Ids of client and
server overlap on purpose in `session` (`ElicitBase = 1`; 1 000 000 in the code)
to show that routing does not depend on them being apart. Three write attempts
are one more than a conflict needs. Two keys and two requests reach every
interleaving of one lookup or store with another; two imports per key separate
"before", "at" and "after" an invalidation. Symmetry is used for attempts, keys
and requests, and only in runs without liveness properties.

In `ToolServer.cfg`, environments take each setting both ways, alone or with all
backends configured. Margin and timeouts are those of the code in units of 15 s
(60 s, 45 s, 15 s); a token lives 5, so it expires within a request's reach. Two
rows, columns, cells or objects are the least with a neighbour to be confused
with, and three fields let one that a register keeps stand before, between and
after the others; six levels of XML stand for the code's limit. In `Services.cfg`, three
callers with a threshold of two reach late successes and failures in every
state of the breaker; lengths are scaled (target 5, window 2, overlap 1 for
1600, 200 and 200 bytes), and so is the calendar (2 seconds, 3 minutes, 4 hours,
7 days): the code's arithmetic does not depend on the numbers. Two callers of the limiter are the least of which one can read
the clock first and take the lock second; a third slot lets one come back.
Five lines, with
depths 1, 2 and 4, make every shape of a tree that pops one or several levels.

`services` checks deadlock. The other runs do not: calls, attempts, requests and
imports are bounded, so every behaviour may stop. That a *session* does not get stuck while something is owed
is `RegisteredCallReturns`.

### Fairness

Weak fairness of every task of client and server: tokio polls a task that was
woken, and channels and pipes wake their waiters. Answering a form is fair too:
a delegate returns. Making calls, dropping the client and the end of a process
are not owed. For the breaker: weak fairness of each caller's step (every call
of SAP has a timeout, so an answer or an error comes) and of time passing.
The other modules state safety only.

## 4. Proofs

`tlapm` checks all of them; they hold for every value of the constants.

**`WriteBapiProofs`**: `WriteTypeCorrect`, `ReportsAreTrue`,
`RollbackIsConfirmed`, `ReadOnlyIsSealed`. The properties are not inductive: what
an attempt may conclude from a reply depends on what is still under way. `IInv`
adds that an attempt has at most one request or reply, that of the call it
awaits (`OneExchange`); that a confirmed ROLLBACK has emptied the LUW, and that
an attempt which was refused or rolled back has at most a ROLLBACK outstanding
(`Emptied`); where the change is between BAPI, COMMIT and ROLLBACK when an
attempt has a session to itself (`OwnLuw`); and that a read-only server is
sealed (`Sealed`). One lemma per action. `ReportIsTrue` is about
`Sessions = "per_attempt"`; the two others hold for all three ways.

**`McpSessionProofs`**: `SessionTypeCorrect`, for every number of calls and
elicitations, every capacity and every id base: each message in a channel or
pipe is one its receiver can handle. `TypeOK` needs `Defined`, that what a task
puts into a message was set by an earlier step.

`RepliesAreOwn`, `ToldAudited`, `ConfirmedByUser` and `OneInFlight`: what a caller receives was put together by five tasks, so a claim
about it needs one about every place its request, its forms, their answers and
its response pass through. The proofs count: `Requests(n)`, `Responses(n)`,
`Forms(e)` and `FormReplies(e)` are the messages of a call or an elicitation on
their way in either direction, over all channels and pipes. `RInv` says that an
id is used for one call, a call for one request, a request for one task and a
task for one response (`ServedOnce`), that a message carries what its sender has
(`OwnMessages`) and that what was delivered is what the task computed
(`OwnResults`). `EInv` says the same of forms: `AskedOnce`, `OwnForms` (no two
forms share an id), `OwnAnswers` (an answer is final, and a reply on its way is
that answer) and `Progress` (the next form is put only after the earlier ones
were accepted). `OneInFlight` turns the inequalities into equations for as long
as both processes are up. `UpFlow` and `DownFlow` say once what a step of a
queue does to the counts; every action then only adds up. Two ids on the two
sides may coincide: the counts keep requests and responses apart.

`SessionIsToolCalls` is the refinement of `ToolCalls`: every step of every task is
a step of the abstract session or a stutter. What it needs beyond `RInv` and
`EInv` is the life of a form (`LInv`). The abstract user accepts a form before
the call is decided, whereas in the code the answer travels back to a workflow
that might have given up: `Settled` says that a form was answered, or was lost
before the user saw it, or is the one its workflow is suspended on, so an
acceptance never comes after the decision; `Delivered` that only the answer to a
form removes its waiter; `Phases` that a call not made asks for nothing and that
`initialize` sends its notification only after a success.

**`MetadataCacheProofs`**: `CacheTypeCorrect`; `InvalidationTakesEffect`: after
an invalidation no key holds a version from before it, unless an answer for this
key was under way (`CInv` adds that nothing held anywhere is newer than SAP's own
version, and that answers to be stored are as new as the last invalidation);
`CountersAccount`: entries and evictions do not outnumber misses although a
fetch stores only later and an invalidation may come between, because each miss
still under way is owed (`OwedKeys`) and pays for at most one entry; and
`ResultsComplete`, from `PInv`, which says what an answer on its way holds for
each key that missed.

**`ToolServerProofs`**: `ReadOnlyServer`, `HttpServerConfirmsNothing` and the
action property `EffectsAuthorised`, for any
set of environments and clients. `SurfaceInv` adds that configuration and tool
table are still those `main` built (`BuiltFromEnvironment`); one lemma
per kind of handler bounds the effects it can have (`ReadersAreHarmless`,
`ActivationEffects`, `WorkflowEffects`, `RfcCallEffects`), `CallToolEffects`
puts them together with the exposure gate. Of the catalogue, `SearchesAreTop`: an
order without repetition of as many places as there are scoring functions names
each of them (`OrderIsComplete`), so what a cut leaves out stands behind what it
keeps. `ReadsAreSelects`: the loop over the rows of a table (`Taken`, a recursive
function of the rows left) stops at the limit or at the end, and has then taken
exactly the rows a SELECT returns, in their order, for any sequence of supported
conditions; `sql_like`, on folded texts, agrees with the standard meaning of
`LIKE`, a cut of the text into pieces that match the pattern's characters, for the
patterns it is exact for.

**`ServiceProofs`**: eleven results about the services.
`PointersStayAlive` and `SectionsWellNested` of the section tree: the open
sections are exactly those that only deeper ones have followed, and get deeper
along the stack (`Nesting`), so a section is closed before its vector grows
again (`Opened`: a pointer's vector belongs to an earlier section than its own).
`TreeReadsAsOutline`: a section stands once, in the vector of the nearest earlier
section that is less deep (`EnclosingIs`), behind its earlier siblings; paths are
therefore ordered as the headings are, so the walk through the tree visits
section after section (a section's place in the walk is its rank among the
paths), and looking one up by its path finds it and no other.
`NothingIsLost` of the chunker: everything before `from` is in a segment and no
segment starts behind a character still to come (`Cutting`); a cut lies behind
the start of its segment (`CutIsAhead`), which is where the window must be
smaller than the target, and the next start not behind the cut (`NextStart`).
`FetchesSpaced` of the rate limiter: the bucket is ready when the interval of the
last slot is over (`Limited`), and a caller, whose reading of the clock is never
ahead of it, has a slot it cannot wake before (`InTurn`). `GatewayDelivers`: the counters equal the numbers
of jobs handled so far (`Counting`), and log, memory and reply follow the
position of `main` (`Talking`). `DocumentsWhole` of the ingestion: the store
mirrors what the run has done with the current document (`Mirrored`,
`Embedding`, `Inserting`), wherever earlier runs broke off.
`RobotsAreObeyed`: at every line the parser's agents and groups are what the
lines above say (`AgentsCurrent`, `GroupsRead`), which needs to know whether a rule
was read since the last user-agent line; the verdict then compares two maxima
(`LongestOf`). `ConsensusAlwaysWins`: the scale of the scores is a multiple of
every denominator (`UnitDivides`), so a better rank is worth strictly more
(`RanksDecrease`) and the sort cannot put it behind. `CalendarIsKept`: quotient and
remainder are unique (`RemainderUnique`), so the wait computed from the
remainders ends at the one wanted (`Aligned`, `WholeUnits`). `ContextsAreRight`:
the ring holds the latest turns (`RingIsLatest`), a recorder between the two locks
still knows its own entry (`OwnEntry`), and a tag's index holds each finished
episode once (`IndexExact`), so that the visible places of the index and the
episodes to be found correspond one to one (`VisibleIsMine`). Where an argument
needs the largest or least element of a set, or the k-th of one, or that a
product is defined, it is by `LeastNatural` (the order of the naturals is well
founded) and not by induction.

**`CircuitBreakerProofs`**: `BreakerTypeCorrect`, `OpenIsShut` and
`BreakerIsAGate`, the refinement of `BreakerGate`: one step of the proof per
action, each a step of the gate or a stutter. `RetryStep` is the lemma all of
them rest on: the retry loop never puts a caller inside.

**`SapHttpProofs`**: `CachedTokensLive`, `TokensArriveAlive`. A live cached token
is not inductive: `Margined` says how much longer than its ttl a cached token
lives (margin minus timeout), `Fresh` that a token on its way to the cache has
lost no more than its exchange took, `SentAlive` that a request leaves with more
than a timeout to live.

`AnswersReadAsSent`, of `AdtXml`, for documents of any number of objects, fields,
rows and cells. `DInv` says where the reader may be (`PlaceOK`), that a register
has the value of the field with its tag among those read so far (`NodeHeld`,
`Kept`), that the cells read so far stand under their columns, with the counter
staying behind once there are no more columns (`RowHeld`, `Filled`, `Counted`), and
that what is collected, followed by what the rest of the document stands for, is
what the caller should get (`Collected`); a document that breaks off therefore
leaves a beginning of it.

**`SoapXmlProofs`**: `RowsReachCaller`, `FailuresReachCaller`, `ErrorsAreErrors`, for
tables of any number of columns and rows and any limit on the depth. `SoapInv`
says where the reader may be (`PlaceAt`) and what each frame of `parse_children`
then holds (`FrameAt`): the value of everything that was read completely at its
level. One lemma per kind of step (`Descend`, `OpenSection`, `OpenItem`, `OpenLeaf`
and their ends) carries the frames from a place to the next, so the parser
returns the value of the document (`RootValue`, theorem `AnswerIsRead`). The rest
is about that value. For errors: none of the bad answers has a payload
(`NoBodyNoPayload`, `FaultNoPayload`). For failures: the levels of the walk
through the payload, one by one, hold the messages of RETURN and no other
(`StructureWalk`, `TableWalk`), whether they came as a value or as an array. For
rows: where each column starts and ends in the joined text (`ColumnAt`, `BarAt`),
that a delimiter up to the end of the last but one column is the end of a column
(`BarsEnd`), so that `splitn` cuts exactly there (`SplitAt`), and that the blanks
`parse_children` has trimmed off the row are blanks of its first and last column
(`SplitRows`: a delimiter is not a blank, so no column goes with them).

Assumptions: the margin of the token caches is at least the ADT timeout and
twice the OData timeout, and tokens are issued for longer than the margin; the
bounds and capacities are naturals, capacities positive; keys and requests of
the cache, pages of a site, jobs of the gateway, functions of the catalogue,
recorders and chunks are finite in number; limits are naturals; methods and
answers are among those the code knows; `Sessions` is one of the three; intervals
of the rate limiter are not negative; names, paths and the user agent are texts,
and the crawler's name does not start with `*`; the texts of a table read hold no
blank, quote or `=` at which the clause would be cut, and none of the characters
`sql_like` strips or takes for a wildcard of its regular expression; a schedule repeats after at least
one unit or names a minute of the hour, a time, a weekday (`next_in` clamps a larger
minute, and a repetition of 0 would fire without a pause: nothing checks it); a body is a trimmed,
non-empty text of whole characters, and the chunker's window (200 bytes, fixed in
`find_space`) is smaller than its target (1600; nobody configures another).
With a target of 200 or less `find_space` could look back beyond the start of the
segment. Of SAP's answers: a text that is there is not empty, an element without
one has no value, and a component occurs once in a structure; the columns of a
table have names, column names and values are texts, and the limit on the depth
is at least the six levels of an answer (256 in the code).

Only model-checked:

* liveness (`RegisteredCallReturns`, `RequestReturns`), which is out of the
  prover's reach.

## 5. What is left out, and observations

* A malformed line on stdin makes `recv` fail and ends the server's reader task
  for good (`stdio.rs:62`); not an action yet.
* `MetadataCache` has the behaviour, contrary to the module comment
  (`metadata_cache.rs:15-16`), that concurrent misses of one function do not
  serialise: both fetch, and the one that stores last wins.
* An error of the BAPI or of the COMMIT is passed on with `?` and no ROLLBACK is
  sent; an attempt whose COMMIT timed out is audited as failed although SAP may
  have committed it. `ReportIsTrue` therefore claims nothing of an attempt that
  returned an error.
* With one session for all attempts (`"shared"`), the COMMIT of one attempt
  persists the open change of another. No backend of the repository works that
  way; the model keeps the value to make the assumption visible.
* The `commit=false` path of `sap.rfc.call` is a single RFC. With
  `--enable-writes` it may change SAP (a function that commits by itself) and is
  not audited; README.md names the `commit=true` path only.
* A truncated SOAP answer parses: the end of the input counts as an end tag at
  every level (`soap.rs:485`). `RowsSurvive` is about whole documents.
* `sql_like` compares `_` and a `%` in the middle as they stand, and treats
  `%text` as `%text%`; `ReadIsSelect` is about the other forms.
* The offline client ignores case where a SAP system would not; `ReadIsSelect` is
  about a SELECT that does, and says nothing of a condition on a column the table
  does not have, which compares with empty text.
* `abap.adt.activate` reports `activated` for any success status; SAP may answer
  200 with messages of a failed activation in the body, which nobody reads
  (`adt/http.rs:466-471`).
* The HTTP server ends only when every client has closed its event stream, since
  the event bus keeps the senders (`http.rs:201`).
* An embedder that returns too few vectors makes `zip` drop chunks silently
  (`pipeline.rs:71`); a document that got shorter keeps its old chunks; two files
  of the same stem are one document (`crawler.rs:146`). The store has one
  writer, as the program runs it; two would race between hash check and insert.
* The ADT margin (60 s) covers one timeout of 45 s, not two, so an ADT request
  may arrive with an expired token; `NoExpiredTokenArrives` is about OData.
* Working memory is not filtered by tenant (`memory/lib.rs`), only by session.
* The stack of `build_document_tree` is safe, though not for the reason its
  comment gives (`doc_tree.rs:209-214`): `roots` does grow during the loop, but
  never while a pointer into it is on the stack.
* Robots rules and rate limiter are library code that the crawler does not call
  yet. The limiter keeps slots apart, not fetches: a caller that sleeps longer than
  it was told may fetch together with the next one.
* "Daily at HH:MM local time" (scheduler `lib.rs:50`): the time of day is taken
  modulo the days since the epoch, which is UTC, and so is the weekday.
  `CalendarOnTime` is about UTC.
* "Quarterly on the Nth day of the quarter" (scheduler `lib.rs:54`): the answer is
  90 days from whenever it is asked, and the day is ignored; a comment in the code
  (`lib.rs:100`) calls this rough. No property claims anything of quarterly jobs.
* "Supported operators: = , LIKE" (`client.rs:476`): a clause with `>=` is not
  refused but cut at its `=` and compared with a column that does not exist, so the
  answer is empty, or every row if the text is empty (`client.rs:481-484`).
* `record` indexes an episode once per element of its list of tags
  (`memory/lib.rs:140-142`), so a tag given twice would return it twice; nobody
  gives one twice, and `Memory` has tags as a set.
* Not modelled: the knowledge graph (PageRank, communities, RAPTOR) and the
  semantic memory tier (floating point), the Qdrant binding, HTML stripping, the
  terminal UI, web assets, benchmark and seed data.
* Elicitation is attempted whatever capabilities the client declared.
* Serialisation, texts, forms, logging and metrics are abstracted; a payload is
  the distinction its handler makes.
* The single-task client loop (`spawn_with_delegate`) is superseded by the split
  client and not modelled.

## 6. Plan

1. A malformed line on stdin as an action of the stdio loop.
2. A second writer of the knowledge base, should the program get one.
