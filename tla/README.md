# TLA+ models of opencode-webui-gateway

The gateway is an OpenAI-compatible HTTP server (Go) in front of OpenCode. A
chat request of Open WebUI is resolved to an OpenCode session through a SQLite
ledger, its latest user message is sent to that session, and the answer comes
back as one JSON object (`stream=false`) or as server-sent chunks
(`stream=true`) that a mapper makes out of OpenCode's shared event stream.

This directory holds TLA+ modules translated from that code, the TLC
configurations that check them on small instances, and proofs checked by TLAPS.
`PROJECT.json` relates every definition to its source lines and lists the runs,
the mutants (a plausible bug for each property, which the run must catch), the
hazards and the theorems.

## 1. Inventory

| Component | State | Operations | Interacts with |
|---|---|---|---|
| Streaming locks (`streaming/mapper.go` 204-259) | a set of session IDs under a mutex; per call a context, a `sync.Once`, a watcher goroutine | `Acquire`, the release it returns, `Run` | streaming handler; the context of the request |
| Event mapper (`streaming/mapper.go` 15-202) | prompt submitted?, target activity?, diff shown?, labels shown | `Handle`, `MarkPromptSubmitted`, `ConfirmFinalMessage` (only tests call it) | streaming handler feeds it every event |
| Streaming handler (`httpapi/server.go` 161-276, `openai/stream_writer.go`) | its program counter, context, response so far | `streamChat`, `fetchStreamUsage`, `finishStreamError` | locks, client, mapper, ledger |
| Synchronous handler (`httpapi/server.go` 58-160) | its program counter | `chat`, `extractText` | ledger, client |
| Session ledger (`ledger/ledger.go`) | SQLite table, one row per (user, chat, model); in memory a mutex per row key | `ResolveOrCreate`, `Get`, `Touch` | both handlers; `CreateSession` as a callback |
| OpenCode client (`opencode/client.go`) | an HTTP client with a timeout; per subscription a frame reader | `CreateSession`, `SendMessage`, `PromptAsync`, `GetMessages`, `SubscribeEvents`, `EventStream.Next/Close` | OpenCode |
| OpenCode (external) | sessions, their queues, runs and messages; subscriptions | REST calls, `GET /event` | client |
| Request validation, models, auth (`openai/validate.go`, `models/models.go`, `auth/auth.go`) | none | `Validate`, `ExtractLatest`, `Resolve`: checks in a fixed order | `Server.chat` calls them before anything else |
| Usage mapping (`openai/usage.go`) | none | `UsageFromOpenCodeTokens`, `tokenInt` | streaming handler |
| Process life cycle (`cmd/gateway/main.go`) | serving, shutting down, ledger closed, gone | start, signal, `Shutdown` with 10 s, the deferred `Close`, exit | all handlers; the ledger |
| Configuration (`config/config.go`, `streamTimeout` in `httpapi/server.go`) | none | `Load`, `secret`, `streamTimeout` | start of the process |
| Health, model list, logging, scripts, images | none | read-only or tooling | - |

What is hard, and what makes each component correct:

* **Locks.** Two goroutines release one entry, the table says nothing about
  whose entry a key is, and a context may end while the handler works. Correct:
  an entry is removed only by the release of the stream that made it; live
  streams exclude one another; an abandoned lock is freed; no release blocks.
* **Ledger.** The look-up, the call to OpenCode and the INSERT are far apart;
  answers get lost, statements fail or commit and still report an error,
  processes crash or share the file. Correct: one session per chat for ever; one
  creation at a time; a success leaves no orphan session; nobody waits for ever;
  times make sense.
* **Mapper.** One event stream carries all sessions, and events do not name the
  prompt they belong to. Correct: other sessions have no effect; progress is
  bounded and not repeated; a stream that has shown text can complete; it does
  not complete on somebody else's idle.
* **Streaming handler.** Subscribe, greeting, prompt and events interleave with
  OpenCode; anything may fail or time out; the client may leave. Correct: no
  event of the own answer is lost; `[DONE]` means the answer is whole; the
  status tells the truth about the prompt; the chunks keep their format; the
  ledger is refreshed by completed answers only; the handler ends.
* **Synchronous handler and life cycle.** The prompt runs in OpenCode whether or
  not the gateway still waits; the ledger fails after the answer is there; the
  process shuts down or dies in between, and a client may stall in its body.
  Correct: a status that speaks of the prompt is true for ever; the row is
  refreshed for answers only; the ledger stays open under handlers for the grace
  period; shutdown and requests end.
* **Frame reader.** An event may come in several lines with comments and fields
  between them, and the connection may end in any byte. Correct: events come
  whole, once and in order, or the stream fails; the limit is on one frame; no
  early exit leaves the handler waiting.
* **Pure functions.** Open WebUI sends the whole chat each time. Correct: OpenCode
  gets the last turn only and old turns cannot spoil a request; validation is no
  oracle for who has no key, and falls back to no other model; tokens are reported
  as they were given; a gateway that starts has its secrets and timeouts that run
  forward.

## 2. Modules

```
Lease              abstract lease table
InFlightLocks      locks, step by step             implements Lease
  MCInFlightLocks, InFlightLocksProofs
SessionMap         abstract write-once map
SessionLedger      ResolveOrCreate and Touch       implements SessionMap
  MCSessionLedger, SessionLedgerProofs
EventMapper        Handle as an operator
StreamMapper       one mapper under all events (EXTENDS EventMapper)
  MCStreamMapper, StreamMapperProofs
OpenCode           the external service
WireFormat         abstract response of stream=true
StreamChat         streaming handlers (EXTENDS OpenCode, EventMapper)
  MCStreamChat, StreamChatProofs,                  implements WireFormat
  StreamAnswerProofs
EventFeed          abstract subscription
SSEReader          sseReader.Next, line by line    implements EventFeed
  SSEReaderProofs
PromptOutcome      what a status says of a prompt
ChatSync           handlers of stream=false in     implements PromptOutcome
  ChatSyncProofs     the life of the process
GoInt              Go's int, which wraps
RequestValidation, UsageMapping, Configuration     pure functions as operators
PureFunctions      one call of one of them per behaviour
  MCPureFunctions, PureFunctionsProofs
```

The abstract modules are also the joints of the composition: `StreamChat` uses
the lease that `InFlightLocks` implements and the feed that `SSEReader`
implements (`OpenCode` keeps it as a FIFO per subscription), and `ChatSync` the
session per chat that `SessionLedger` provides.

**InFlightLocks.** `keys` is `l.keys`. `call` is where the handler is: before
`Acquire`, past its look at the context, holding, inside `release()`, done.
`once` and `watcher` are the `sync.Once` and the goroutine of a granted call.
The test-and-insert under the mutex is one action, as is the delete; entering
`once.Do`, deleting, closing `done` and each wake-up of the watcher's `select`
are steps of their own, so that a second stream may acquire between any two.

**SessionLedger.** A request passes `start` (waits for its mutex), `lookup`
(Get), `create` (the callback is in OpenCode), `insert`, `resolved`, `touch`.
`table`, `born`, `updated` are the columns of the row; one SQL statement is one
step since the pool has one connection. `GetFails`, `CreateFails`, `InsertFails`
are the error returns. `InsertLost` is a statement that commits while its context
ends: a row and an error. `OpenCodeCreates` may come after the gateway gave up.
`Crash` loses the mutexes and the requests in progress; rows and OpenCode's
sessions stay. A session is named after the request that created it: IDs are
unique and a request creates one at most.

**EventMapper / StreamMapper.** `Handle(m, ev)` gives the mapper after the event
and the action. An event is a record of what `Handle` reads; where the payload
holds it is abstracted (`deltaText`, `sessionStatus` look in several fields).
`StreamMapper` drives it through the two loops of `streamChat` and runs a `twin`
that sees only its own session's events.

**OpenCode.** External: a session runs accepted prompts one after another and
publishes the user message's part, `busy`, deltas, `idle`, `session.idle` and
diffs to every open subscription. Assumptions, taken from the client, its tests
and `docs/discovery/phase2-streaming-live-verification.md`: FIFO subscriptions
that get events from the moment of subscribing (also ahead of
`server.connected`); `session.idle` before the next run starts; a
`session.diff` during the run or after `session.idle`. A run ends with a message
that has token counts, or, for the prompts in `Uncounted`, perhaps without.

**StreamChat.** `pc` follows `streamChat` from `Acquire` to the deferred calls.
Each call to OpenCode or write to the client is a step; `CallFails`,
`ConnectFails`, `StreamFails` are the error paths with `writeDownstreamError`'s
statuses, `Return` is the deferred `stream.Close`, `release`, `cancel`. The lock
appears as the lease that `InFlightLocks` is shown to implement, with the
watcher's early release as an action. Prompts with `stream=false` are in
`Others`: they run in the same sessions and take no lock. `disturbed` is a
history variable: the streams whose session was busy when they subscribed (a
prompt ran, waited, or had its `session.idle` outstanding), or was given another
prompt afterwards.

**SSEReader.** OpenCode writes lines: the parts of a payload in `data` lines, event
fields, comments, unknown fields, empty lines. `wire` is what is on its way. `Cut`
ends the connection and leaves a prefix of the lines, the last of them perhaps
without its end, with half its value or half its field name. `ReadLine` is one
turn of the loop (`TakeBlank`, `TakeField`, `Dispatch`), `ReadEnd` the error of
`ReadString`, `FailWith` the context that overrides it in `EventStream.Next`. A
data line is named by event and part, and the JSON parser by one fact: exactly the
parts of an event in their order parse. `json = FALSE` is a payload that never
parses. `since` is a history variable that counts bytes independently of `bytes`.

**ChatSync.** A request passes `reading` (token, headers, body), `resolve`, `send`,
`sending`, `touch`, `reply`. `upstream` is what OpenCode makes of the prompt, in its
own time. `CallFails` may come before or after OpenCode took the prompt: no
connection, the client's timeout, the end of the context, an odd status or a
broken answer. The process is `serving`, `draining` (inside `Shutdown`), `closed`
(the deferred `Close` of the ledger has run, handlers may still be there) or
`down`; `Exit` and `Crash` cut the handlers that are left; `Start` begins the next
life on the same rows. `PromptOutcome` says which codes promise that the prompt
ran, which that it never will, and which say nothing.

**Pure functions.** `FrontDoor` is the list of all checks from `requireAuth` to
`models.Resolve` in the order of the code; the first that fails is the answer.
Texts are sequences of words, so that concatenation and the break between system
texts are visible. The loops over messages (`Turns`) and parts (`Texts`) are
recursive functions; `HistoryIsIgnored` takes one earlier message out of a request
and compares the answers, so that by repetition all of them may go. `TokenInt` works on halves, to have whole and fractional
numbers, and leaves the conversion of a number that no `int` holds to the
processor, as Go does. `Load` distinguishes empty, blank and given texts and
wraps the product with `time.Second`. `PureFunctions` makes each call a behaviour
of one step, so that each property is an invariant of what was returned.

A definition introduced by a comment `Mutant of X` is not part of a model: it is
the faulty form of `X` that some property must catch.

## 3. Runs

| Run | Instance | Shows |
|---|---|---|
| `locks` | 3 streams, 1 session | `TableMatchesHolders`, `LiveExclusive`, `ImplementsLease`: no release frees another stream's entry. `LocksAreFreed`, `ReleasesReturn`: a handler stuck for ever loses its lock at the deadline; no release deadlocks in `once.Do` |
| `ledger` | 3 requests, 1 chat, 2 processes on one file | `SingleFlight`, `NoCreateForBoundChat`, `OneSessionPerChat`, `OrphansComeFromFailures`, `UpdatedAfterBorn`, `RowsStay`, `ImplementsMap`: mutexes serve one process, the UNIQUE constraint all. Under fairness `CallsReturn`: no path keeps the mutex |
| `ledger_timestamps` | 2 requests | finding: `updated_at` moves backward |
| `mapper` | 2 sessions, all kinds of events, 5 chunks | `OthersDoNotInterfere`, `ProgressIsBounded`, `ReadyWhenActive` |
| `mapper_early_activity` | the same | finding: activity from before the prompt counts |
| `stream_pair` | 2 streams of a session, one of which may fail anywhere, late diffs; 3,133,115 states | `NothingIsMissed`, `CompletedIsAnswered`, `StatusTellsPrompt`, `LiveHandlersExclude`: a stream after one that was abandoned with its prompt still running, or that ended with its diff outstanding |
| `stream_client` | 1 stream with usage, client may leave, everything may fail, late diffs | `ImplementsWire`, `TouchedIsDone`, and under fairness `StreamsEnd` |
| `stream_own_run` | 1 stream, 1 `stream=false` prompt | finding: completion on the idle of the other prompt |
| `stream_usage` | 2 streams with usage, one after the other | finding: usage of the turn before |
| `sse_reader` | 6 lines of data, events, comments and unknown fields, cuts in every line | `ImplementsFeed`, `LimitIsPerFrame`, and under fairness `BrokenFeedFails`, `EventsArrive` |
| `chat_sync` | 2 requests, 2 lives of the process | `ImplementsOutcome`, `RowTellsUse`, and under fairness `ShutdownEnds`, `RequestsEnd` |
| `pure_functions` | 41,646 states: all pairs of faults and requests of up to 3 messages, counts, environments | `PromptIsLastTurn`, `HistoryIsIgnored`, `RefusalsAreNoOracle`, `UsageAddsUp`, `ConfigurationIsSound` |

`CHECK_DEADLOCK FALSE` everywhere: requests are finite in number and the system
stops when all have ended.

**Bounds.** `MaxClock = 2` gives three times, enough for two Touch calls to cross
an INSERT. `MaxWritten = 5` chunks is one more than the progress budget of four.
`MaxDeltas` is 1 or 2 (2 shows order and loss in the middle), `MaxDiffs` is 0 or
1: with 1, as in `stream_pair`, the diff of a run may come after its
`session.idle`, in the subscription of the next stream. `Uncounted` is empty where
usage is not at issue and names one stream where it is. A `stream=false` prompt is
only in `stream_own_run`; in `stream_pair` the foreign prompt is that of a stream
whose `PromptAsync` timed out and that OpenCode accepts late, which is the same to
the stream after it. `Fragile` and `Leaving` name the streams whose calls, feed or time may fail and
whose client may go: in `stream_pair` one stream fails anywhere, so that the
other, healthy one is judged; in `stream_client` one stream meets everything.
One session suffices for the locks and handlers since keys do not interact;
`StreamMapper` has the second session that shares the event stream. One chat
suffices for the ledger for the same reason, while the two processes share it.
Three streams are needed for a late release to meet a third's acquisition, three
requests for a failure, a success and a find. `MaxFrameBytes = 4` with data lines
of 1 and 3 bytes lets a frame stay below the limit, meet it and pass it by data
or by comments; two parts and six lines allow a whole event of two parts, its
empty line and part of the next. `MaxWire = 2` keeps a line behind the one that is
cut. `MaxLives = 2` is a restart over the rows of the life before; `ChatSync`
counts prompts per request, so two requests show all they can do to a shutdown.
`MaxInt = 7` and `Second = 2` put the sum of counts and the product of seconds on
both sides of a wrap; token counts lie around zero, around the largest int and at
the halves between.

**Fairness.** *Locks*: goroutines that can run do, the deadline of `WithTimeout`
passes; nothing is assumed of a handler between `Acquire` and `release`.
*Ledger*: strong fairness of `LockKey`, since Go's mutex hands over to a starving
waiter; weak fairness of the statements and of the callback, which the HTTP
client's timeout ends. *StreamChat*: handlers run, deadlines pass, watchers wake;
OpenCode and the subscription may stall for ever. A write to the client is
assumed to return, because the client reads or its connection breaks: the server
sets no write timeout, so for a client that does neither only `LocksAreFreed`
holds and not `StreamsEnd`. *SSEReader*: the handler calls `Next`, lines that
arrived are read, and the end of the context closes the connection, as net/http
does; OpenCode may stop writing anywhere. *ChatSync*: handlers run, which includes
that the HTTP client's timeout ends a call; `Shutdown` returns, since its context
has ten seconds; `main` exits. OpenCode may stall, and so may a client before its
body is whole (the server has a timeout for the header only): `RequestsEnd` says
nothing of a request in `reading` whose client stays and sends nothing. The wall
clock is assumed not to step backward.

## 4. Findings

1. `ledger_timestamps`: `Touch` takes `time.Now()` before it has the connection
   and writes it without comparing; two calls in the other order move
   `updated_at` backward, which `docs/design/session-ledger.md` line 75 excludes.
2. `mapper_early_activity`: part updates, deltas and diffs set `targetActivity`
   also before the prompt, against line 50 of
   `docs/reports/phase-2-implementation-report.md`.
3. `stream_own_run`: `stream=false` takes no lock, and its `busy`/`idle` complete
   a stream of the session whose own prompt has not run; line 61 of that report
   says unrelated idle events are not taken for completion.
4. `stream_usage`: `fetchStreamUsage` goes back past the stream's own message to
   an earlier one that has token counts; line 77 says usage is omitted. The trace
   is two turns of one chat: the second has its session to itself, its run is over
   and its message, the last one, has no token counts, and the client is told the
   usage of the first. (`UsageIsOwn` leaves out disturbed streams, so that finding 3
   is not shown again.)

`CompletedIsAnswered` is what does hold: a stream whose session was free when it
subscribed, and was given no other prompt afterwards, completes after the whole
of its own answer, also when a diff of the run before it comes late. An earlier
run that has not yet published its `session.idle` makes the session busy there
(`disturbed`): the part event of the new prompt's user message is activity, and
that idle would complete the stream. What a status says of the prompt is left
open for the errors after the post: they stand for prompts that ran and for
prompts that did not, and the code cannot tell (hazards at `server.go` 199, 147).

Three more disagreements of documents and code were met. They need no run, since
one look at the code shows them; no property claims either side.

* `docs/design/openai-compatibility-layer.md` line 291: several system messages
  are joined "only if explicitly enabled", else rejected. The code has no such
  setting and joins them always (`validate.go` 80-88). `PromptIsLastTurn` says
  *how* they are joined.
* `docs/design/model-routing.md` lines 268-274 rank a missing and an unsupported
  model third and fourth, ahead of the other errors of the request. In the code a
  missing model comes after the headers, and an unknown one after everything else
  (`server.go` 92-120). `RefusalsAreNoOracle` claims what that section is for: who
  has no key learns nothing, a refusal does not depend on which of the models was
  asked for, and no other model is accepted.
* `docs/design/session-ledger.md` line 160: a concurrent creation conflict uses the
  winning row. `ResolveOrCreate` returns an error when its INSERT meets the UNIQUE
  constraint (`ledger.go` 72-75), and only the next request of the chat finds the
  row. The model has the error (`InsertFails`), with the session an orphan.

## 5. Proofs

For any constants that satisfy the named assumptions. No theorem depends on a
bound except through the type of times and counters.

`InFlightLocksProofs` (assumes `KeyOf \in [Streams -> Keys]`):
`LockTyping`, `TableIsHolders`, `LiveStreamsExclude`, `TableImplementsLease`.
`TableMatchesHolders` is not inductive alone, since it does not know that a
call that has not been granted has its `once` new and its watcher unborn.
`LockInv` adds `CallLinked`, which ties the states of the call, the once and the
watcher of a stream together. The grant is the only step that adds a holder and
`DeleteKey` the only one that removes one, with its entry; all other steps keep
the holders and go through one lemma, `SameHolders`.

`SessionLedgerProofs` (assumes `LedgerAssumption`): `LedgerTyping`,
`CallsAreSingleFlight`, `ChatHasOneSession`, `NoRowChanges`, `NoNeedlessCreate`,
`OrphansAreExplained`, `LedgerImplementsMap`, `UpdatedStaysAfterBorn`. The
inductive invariant `LedgerInv` joins the types, single flight, `Unrouted` (nobody
has a session before `ResolveOrCreate` returned one, which the refinement needs: a
request is routed once) and `OneSessionPerChat`. `TableStep` and `RouteStep` say
which steps write the table and a route at all. `NoNeedlessCreate` holds for any
number of processes: it speaks of rows that the asking process has made itself.
`OrphansAreExplained` rests on `Asking`, which follows a session from the call
that created it. `UpdatedStaysAfterBorn` needs `TimesInOrder`: the time of a Touch
was read after its row was born, though not after the last Touch.

`StreamMapperProofs`: `MapperTyping`, `OthersNeverInterfere`, `ActiveIsReady`,
`ProgressStaysBounded`. `MapperInv` joins the types, the equality of mapper and
twin and the states in which activity may be missing (`Ready`, `Late`).
`ProgressStaysBounded` counts in `Remembered`: each label that was written is
remembered, and there are four at most. Its hypothesis is that no text of a delta
is one of the labels; without it a delta would be counted as progress.

`StreamChatProofs`: `StatusIsTrue`, `LiveHandlersExclusive`,
`TouchedIsAlwaysDone`, `ResponsesAreWellFormed`. `Shape` types the handlers'
variables. `PromptFacts` relates a handler's place to what was posted and
accepted, and says that a handler that was refused before its post has nothing
left to do but return, so that no step posts or answers again (`StatusStep`).
`LeaseFacts` relates the place to the table. For `TouchedIsAlwaysDone`, `InboxFacts` and
`WrittenFacts` say that the text of a failed stream never comes from OpenCode and
what has been written where. The refinement uses `FormatFacts`: what the chunks
so far are, at every place of the handler, so that each write is a step of
`WireFormat` or none.

`StreamAnswerProofs` proves what a stream shows of its own answer: `ChatIsTyped`,
`NothingMissed`, `CompletedAnswers`, for any number of streams, sessions, prompts
beside them and deltas. `Typed` extends `Shape` by what the sessions of OpenCode
keep to (`SessionFacts`: who waits is accepted, unfinished, and waits once; who
runs is the session's own). `NothingIsMissed` is about the chunks and the events
that wait *together*, so the invariant (`ShareFacts`) splits the deltas published
so far at one number: those up to it are in the chunks, position by position, the
others in the inbox. It has to say that no idle in the inbox is ahead of a delta
of the stream (`EndFacts`), or reading the idle would complete too early, and that
is only so while nobody else uses the session: `Accompanied` says what a stream
that is not `disturbed` may rely on (its own prompt is not yet accepted, or waits,
runs, settles or is done in a session that is otherwise empty). Without it an
idle of another run breaks the step of `Read`, which is finding 3.

`SSEReaderProofs` (assumes `ReaderAssumption`): `ReaderTyping` from `Typed` (types
that also bound where an unfinished line may be), `LimitIsOnFrames` from
`Counted` (while `Next` reads, its count is the bytes since the last empty line)
and the refinement of `EventFeed`, `ReaderImplementsFeed`. Its invariant `InOrder`
says that the lines on the wire form a path: each leads from the place (event,
part, inside a frame or not) before it to the one after it, from where the reader
is to where OpenCode is, unless the connection is cut. `GotFacts` says that what
`Next` returned are the events up to that place. A line that is read shortens the
path at its head, a line that is written extends it, and `Cut` leaves a prefix
that leads on from the reader but nowhere in particular; dispatch then returns
the event of the place, and no other.

`ChatSyncProofs` (assumes `MaxLives \in Nat \ {0}`): `SyncTyping`,
`RowTellsUseAlways`, `CodesAreTrue`, `HandlersKeepLedger`. `SyncInv` adds to the
properties that a code is told at the end of a handler and not before
(`EveryReturnAnswers`) and what is known at each place (`Linked`): a handler that
touches or replies has a prompt that ran, one that is before `sending` has posted
none, and a code of `NeverRun` leaves a prompt that was never posted or was
refused. With it each step maps to a step of `PromptOutcome` or none.

`PureFunctionsProofs` (assumes `ArgumentsAssumption`, which gives requests, token
counts and environments their types and says that no float64 is the largest int,
`ConfigurationAssumption` and `MaxInt \in Nat`): `UsageAlwaysAddsUp`,
`ConfigurationStaysSound`, `PromptAlwaysLastTurn`, `HistoryAlwaysIgnored`,
`RefusalsAreNeverOracle`. `Replied` says that what was returned is the function of
its argument. Usage and configuration are then arithmetic: `Converted` compares what
`TokenInt` makes of a number with the number, in all cases of the conversion and of
the rounding back. The three about requests are inductions, over messages and
parts of any number. `LeastOfNumbers` (a set of naturals has a least element, from
the well-founded order on `Nat`) gives `UpTo`, induction stated with a set in place
of a predicate, and `Recursion`, that a recursive function has a value. On them
rest: the first check that fails is the answer (`FirstThatFails`); the checks are
one of status 401, then any number of 400, then one of 404 (`Ordered`); what the
loop has found after each message (`Walked`); the system text grows message by
message as the joined texts do (`Grown`, `Flattened`); and without an earlier
message of the user or the assistant the loop finds the same (`SamePrompt`) and
the lists of checks fail alike (`Alike`, `SameTurns`). On another known model each
group of checks fails alike too (`OtherModel`), and then so does the whole list.

`SyncTypeOK`, `LedgerOutlivesHandlers` and `SSETypeOK` are
stated for every constant by their theorems and are not run again.

Every safety invariant, action property and refinement of the passing runs is the
subject of a theorem. Model-checked only are the liveness properties, since
fairness and ENABLED are out of the prover's reach: `LocksAreFreed`,
`ReleasesReturn`, `CallsReturn`, `StreamsEnd`, `BrokenFeedFails`, `EventsArrive`,
`ShutdownEnds` and `RequestsEnd`. The four findings are behaviours that TLC shows.

## 6. Not modelled, and the plan

* `Health`, `ListAgents`, the health and model endpoints, logging, scripts and
  images keep no state. `ConfirmFinalMessage`, `Count` and `MustResolve` are called
  by tests only, and so are the branches of `tokenInt` for `int`, `int64` and
  `json.Number`: the client decodes numbers as `float64`.
* JSON, the fields a payload value is looked up in, HTTP headers and the wording
  of texts are abstracted. `SSEReader` does not say what else a payload without a
  type may hold, and a line longer than the limit counts as one step, although
  `ReadString` has it all in memory before the limit is looked at.
* A number of seconds above `MaxInt / Second` wraps around; `ConfigurationIsSound`
  claims timeouts that run forward only up to there.
* The ledger's map of mutexes only grows (`ledger/ledger.go` 103) and is not
  observable otherwise.
* The shutdown is modelled around the handlers of `stream=false`. Streams meet the
  same ten seconds and are cut after them; what a cut stream has sent is a prefix
  that `WireFormat` allows.

What a next step would add: lemmas for the hypotheses of the liveness properties
that are safety (that a lock's deadline, or a call's end, always leaves a step that
frees it); the streaming handlers inside `ChatSync`'s process; two subscriptions
through `SSEReader` under one `StreamChat`.
