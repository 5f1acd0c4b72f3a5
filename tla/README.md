# HALEngine, verified

TLA+ models of the stateful core of [HALEngine](../src/README.md), a TypeScript
library for AI chat servers, with TLC runs that check them on small instances
and TLAPS proofs of what matters most. Paths below are relative to the
repository: `src/transport/...` is `src/src/transport/...` in `PROJECT.json`.

The engine is one Node process. Nothing in it runs in parallel, but nearly
everything awaits: a store, a vendor's stream, a policy, a tool, a host's hook,
a timer. Between any two awaits other sockets' handlers, close events and
timers run. The models therefore take as one step what the event loop runs
without yielding, and interleave everything else.

## The system

| Part | State it keeps | Operations | Talks to |
|---|---|---|---|
| Per-session lock, `shared/perSessionLock.ts` | a map from session id to the tail of its promise chain | `run`, promise reactions, `forget` | called by the message handler for every user message |
| Message handler, `transport/ws/messageHandler.ts` | per socket: queue counts, closing state; per turn: parser, open entries, suppression, held-back text | a frame arrives; a turn starts, is refused, dropped or run; a chunk of each kind; the end of the turn; close | lock, orchestrator, the session's entries, the socket |
| Entry writer, `orchestration/entryMutations.ts` | the session's entries (owned by the session object) | append, append delta, commit, mark suppressed, close the turn (commit, redact, bound) | message handler and orchestrator write through it |
| Chat orchestrator, `orchestration/chatOrchestrator.ts` | per run: messages, rounds used, calls in flight | hooks, provider call, tool round, deadline, abort, catch, finally, save | provider, tool registry, consumer hooks, session store |
| Tool registry, `orchestration/tools/registry.ts` | tools, validators compiled once per definition | register, definitions, execute | orchestrator; the host, which may register at any time |
| Connection handler, `transport/ws/connectionHandler.ts`, and resume, `sessionResume.ts` | per session: the sockets open on it, whose credentials it carries | `openSession` (look up, create, deliver, evict), the close listener, `onConnect`/`onDisconnect` | session store, message handler, consumer hooks |
| Rate limiter, `transport/rateLimit.ts` | a map from key to token bucket, the time of the last pruning | `consume` | HTTP middleware, upgrade, conversation lists |
| Mongo session store, `infrastructure/stores/mongo/` | a cache of live session objects, reads in flight, a collection | create, get, save, erasures, clear, list, lookup, close | orchestrator, connection handler, REST router, retention jobs |
| In-memory session store | a map with an age sweep | the same | the same |
| Provider resilience, `providers/withRetry.ts`, `withFallback.ts` | per call: vendor, attempt, timers, abort controllers | ask, chunk, fail, time out, back off, report a failover, release | orchestrator above, vendor adapters below |
| Prompt mask, `providers/withMask.ts` | held-back text of a stream | mask, restore | around the resilience chain |
| Provider adapters, `providers/*/` | per stream: the open tool block, the stop held for its counts | translate messages out, events and errors in | vendor network APIs |
| Conversation context, `orchestration/conversationContext.ts` | none | the messages of a session, cut to the window | orchestrator |
| Conversation list, `transport/ws/conversationList.ts` | a promise chain per socket | list, refuse | store, rate limiter |
| REST chat router, `transport/routes/chats.ts` | a map of chats with their owner and messages | create, list, read, and a POST that runs a turn on a session of its own, under no lock | orchestrator, store |
| Server, `transport/createServer.ts`, `createApp.ts` | the http server's listeners, the WebSocket server, the heartbeat's interval, a liveness flag per socket | start, stop, heartbeat, upgrade | everything |
| Parsing and data: frame validation, thinking-tag parser, session document, prompt builder, configuration, logger | none or one buffer | pure translations | their callers |

`PROJECT.json` lists each with its status. What interacts most is one chain: a
frame waits on the lock, its turn runs the orchestrator, which asks the
resilience chain and runs tools, and both handler and orchestrator write the
session's entries, which the store keeps and which another socket may resume.

### What is hard in it

The full list, each at its line with the property that covers it, is
`PROJECT.json` "hazards". The themes:

- **Two ends of a turn.** The orchestrator closes, bounds and saves the session
  in its `finally`; the handler's own `finally` runs afterwards and may still
  write. Every write after a close is a write nobody redacts, bounds or saves
  unless the writer takes care of it.
- **Frames name no message.** A client attributes frames by counting
  `stream_end`s, so every arrival must be answered in order, exactly once,
  refusals, malformed frames and abandoned turns included.
- **Losers of a race run on.** A policy or an executor that lost to its deadline
  or to an abort is not stopped. What it does later must not matter.
- **State read before an await.** A socket closes while its session is looked
  up, created or evicted; a cached session is erased while it is being read.
- **Half an answer.** A vendor that fails after the first chunk must not be
  retried, one that fails before may be, and an abandoned stream must be
  released.
- **Text cut anywhere.** A vendor's deltas end inside a mask token, a thinking
  tag or both; three stages hold text back, and each must let all of it go.
- **Listeners that outlive their call.** A refused, stopped or repeated `start()`
  leaves listeners on the http server; an `error` that finds none ends the
  process.
- **Numbers at a boundary.** Rounding in the rate limiter's hints, the tool
  budget, the cache's age order.

## The modules

| Module | Models | Its variables, in the code |
|---|---|---|
| `SerialQueue` | what a per-key lock promises: a call begins once every earlier call on its key is done; its fairness | abstract |
| `PerSessionLock` | `perSessionLock.ts`, reaction by reaction | `tails` is the `Map`; `phase[c]` is how far the promises of one `run` call are; `prev[c]` the tail it was chained behind |
| `ClientFrames` | the frames a client may send and the verdict of `validation.ts` on each | none: operators |
| `MessageHandler` | arrival, validation, refusal, dropping, answering and ending of frames, on top of an INSTANCE of `SerialQueue` | `sock` the ready state, `turn` the turn's place in `answerInTurn`, `wire` what the client received, `entries` the session's |
| `MessageHandlerProofs` | proofs | |
| `EntryStream` | the chunk loop of one session's turns, the entry writer, both ends of the turn, the client's copy | `stream` is the handler's stream state, `entries` the session's, `saved` the store's, `view` the client's |
| `ToolRounds` | one `processMessageStream` run | `at` the place in the function, `call[c]` one race and the work under it, `told` what the model was told, `log` what was called outside |
| `TurnProofs` | proofs about `ToolRounds` and `EntryStream` | |
| `AnswerParts` | what an answer is made of: text over an alphabet, names, calls, reasons to stop | none: sets |
| `ConversationContext` | the messages made of a session's entries, cut to the window, and what each vendor's mapper makes of them; of an input, whether its strings, its keys and its numbers hold what the mask knows | none: operators |
| `ToolRegistry` | `registry.ts` as operators on a registry: register, definitions, compiled validators, execute | a record of sources and validators |
| `VendorStream` | the Bedrock, Vertex and mock adapters: a step per event, the end of a stream, the errors | a record of the adapter's locals |
| `PromptMask` | `withMask.ts`: masking of messages by their three kinds, of the strings in an input and not its keys and numbers; restoring of chunks with text held back | the held text |
| `ThinkingTagParser` | `thinkingTagParser.ts`: `push` and `flush`, by the buffer | a record of its two fields |
| `ProviderTurn` | a turn over these five: request, events, abort, failure, tool round | `messages` and `round` are `processMessageStream`'s and `streamRound`'s, `wire` the adapter and the mask, `shown` the handler's parser and what it was given, `registry` the tools; `said`, `requests` and `tools.offered` are histories |
| `AnswerLaws` | lemmas about the operators of the five: recursion, folds, mask, parser, what a vendor says | |
| `ProviderTurnProofs` | proofs about `ProviderTurn`, with the lemmas about context and registry | |
| `ConnectionLifecycle` | `openSession` and the close listener of every socket | `conn[s]` the locals of one `openSession`, `openSockets` and `lentBy` the handler's maps, `stored` the store |
| `ConnectionLifecycleProofs` | proofs | |
| `ProviderResilience` | one call through `withFallback` around `withRetry` | `position`/`attempt` the loops' indices, `live` the requests whose controller was not aborted, `sent`, `received`, `reported` histories |
| `TokenBucket` | what a rate limiter promises a key | abstract |
| `RateLimiter` | `consume` with lazy refill and pruning, in whole numbers (a token is `Window` units of credit) | `buckets` the `Map`, `prunedAt` |
| `GuardProofs` | proofs about `PerSessionLock`, `RateLimiter` and `ProviderResilience` | |
| `MongoSessionStore` | cache and in-flight reads in front of a collection that answers late, out of order, or with a rejection after the fact; erasures by id, and of whatever is there when they are carried out | `cache`, `inFlight` the maps, `docs` the collection, `object[c]` the live object a create or get built; `overlapped` (history) the sessions read while created or read by another |
| `SessionHistory` | a user's sessions in either store, the list window, the chain of list reads of one socket, and a client that pages | `held`, `createdAt`, `activity` the store; `reading` the socket's chain; `walk[w]` what the client knows; `steady[w]` (history) the rows that stayed as they were |
| `SessionHistoryProofs` | proofs | |
| `RestChats` | `chats.ts`, request by request, with what each run makes of its session (a question a hook rewrote, entries its tools sent) and its save | `chat` the router's `Map`, `post[p]` one request, `stored` the store |
| `Server` | `createServer.ts`, the upgrade, and what Node's http server and ws do for them | `net` the http server's handle, its three kinds of listeners and its ticks, with two histories (`last`, `hasty`); `crashed` whose `error` ended the process; `beating` the interval, `socket[s]` one connection |
| `Transport` | the two side by side behind one port | |
| `TransportProofs` | proofs about the two, and about `MongoSessionStore` | |

`PROJECT.json` "map" gives each definition its lines. An action is one run of
the event loop: a handler with everything it calls, up to its next await.

**How they compose.** `MessageHandler` does not contain the promise chain; it
instantiates `SerialQueue`, and the run `guards` and the theorem
`ImplementsSerialQueue` show that the chain implements it. `MessageHandler`
reduces a run to its chunks, `EntryStream` says what the chunks of the turns
write, and `ToolRounds` what a run does between them; each names in its header
what it takes from the others (a run ends: `ToolRounds`; a provider's stream
ends: `ProviderResilience`). `ProviderTurn` composes what lies between a
session's entries and the text on its way to `EntryStream`: context, mask,
adapter, the loop's round, the registry's verdicts and the parser, in the order
`index.ts` nests them; `EntryStream` takes the parser by what it may answer, and
`SpokenIsShown` is why it may. `Transport` joins `Server` and `RestChats`:
requests arrive only while the server listens, and `stop()` waits for them.

**Slips.** Some definitions are preceded by a variant marked `Slip:`, the way a
plausible bug would read there. No specification uses them; each is put in
place of the definition that follows it to confirm that a property notices.

## The runs

| Run | Asks | Instance, and why it is enough |
|---|---|---|
| `guards` | Is the chain a serial queue per key, liveness included, and does its map empty? Is the limiter a token bucket, and are its hints exact? Through retry and failover, one vendor's answer; nobody asked needlessly; a call that ends? | Lock, limiter and chain share nothing: `MCGuards` looks at each by itself, in behaviours that use one of them. Lock: 2 keys, 3 calls, a call behind one that settles while a third arrives. Limiter: 2 keys, limit 2 per 3 ms, burst 2, 12 ms: refills that do not divide a token, and time for two prunings. Chain: 3 vendors, 2 attempts, 2 chunks: a first, a middle and a last vendor; a failure before, at and after the first chunk. All but the liveness proved for any number. |
| `message_handler` | Is every frame attributable; is a conversation written in arrival order; is every message on an open socket answered? | 2 messages on one or two sockets of a session, 1 chunk each, 1 frame off the lock, and what a frame holds at every boundary of its validation (content of 0, 1, the limit and one more; limits of 0, 1, the cap and one more; half a cursor): a turn refused, dropped or cut short in front of one that waits. Both invariants proved for any number. |
| `entry_stream` | Are a live client and a replay shown the same; is nothing stored unredacted, refilled or open? | 2 turns, 2 text chunks, 1 tool round, 7 entries, three policies (none, redaction with a bound that bites in the second turn, a redactor that refuses); all ways tags cut the chunks. Proved for any number, under every policy. |
| `answer_stream` | Is what the client is shown what the vendor said; does a round carry the vendor's calls, stop and counts; is every request acceptable; does a real value leave, or a token reach a tool? | Deltas of one or two characters over five that token and tags share, a token and a closing tag of three; 5 events of Bedrock, 4 of Vertex, with a mask and without, 2 of a scripted mock; every fault; one tool round; tools plain, by function, late, broken and unknown, with 2 changes; inputs that hold a value or a token in their strings, a token in their keys; and every history of up to 4 entries of five kinds under windows of 0 to 4 messages and 3 lengths. Token and tag are long enough to be cut twice, the windows small enough to cut between any two messages. All five proved for any alphabet, token, tags, vendors' events, window, history and number of rounds, two of them where `StandsApart` holds of value and token. |
| `tool_rounds` | Is every call answered truthfully, nothing started behind the model, the teardown in order; does the turn end? | 2 calls in the first round and 1 in the second, with and without policy and deadline; an abort anywhere. Two calls are what one rejecting while its sibling runs on needs, two rounds what a loser that runs into the next one needs. All but `RunEnds` proved for any number. |
| `connections` | Do credentials, hooks and sessions end with their connections; does a session that could not be handed over go, and stay where a client received it by name? | 3 upgrades of 2 users under all 8 deployments (resume.latest, a store with or without evict, prompts that throw); closing at any await. Three sockets are what leaving in another order than joining needs. Proved for any number. |
| `connections_evicted` | violation, see below | 2 upgrades |
| `transport` | Which `error` finds no listener; is every open socket watched; does the heartbeat cut the dead and only them; does REST store only what one run made of the chat's history, and nothing that was erased? | Four casts: 3 starts, 2 stops and a socket; 1 start, 1 stop and 2 sockets; 4 REST requests on 2 chats of 2 users, each run with its question as it was or rewritten and up to 1 entry of a tool (`MaxTools`); 2 starts, a stop, a socket and 2 requests. Starts and stops may share a task, and an `error` may come at any time. Three starts are what a refused, a repeated and a hasty one need, four requests what two runs beside each other on one chat and a third on its result need. All but `DeadIsGone` proved for any number. |
| `transport_stopped` | violation, see below | 3 starts and a stop |
| `mongo_store` | Is an erasure final, eraseAll included; is the cache no older than the collection and in age order; is a cached object stable? | 2 sessions and 3 calls, or 1 session and 4, in any order; 2 instants with entries that age after one. Four calls on one session are what a late create, read or save needs around an erasure; two sessions a batch, and a sweep that meets one entry that has aged and one that has not. Proved for any number. |
| `mongo_store_live` | violation, see below | 1 session, 3 calls |
| `session_history` | Does paging show a session twice, or miss one? | 3 sessions, 2 lists, pages of two, 3 instants, sessions that age after one, both stores: a full page and a page after it, ties, rows that age out, and two reads that could overtake each other. Proved for any number and any limit. |

Three invariants are conjunctions of parts that stand and fall together, each
stated by itself in its module: `SessionIsItsSockets` (types, credentials, the
open tab, owners, nothing evicted that was received), `PolicyHolds` (types,
redaction, the bound, closed when saved) and `CacheIsSound` (types, order and
freshness).

Deadlock is not checked where the bounds, or the system itself, come to rest:
every call made, the turn over, every upgrade served.

### Properties worth reading first

`AnswersAttributable` (each frame belongs to the message its client would
count), `LiveIsReplay` and `SuppressionHides` (two independent renderings of a
conversation agree), `SpokenIsShown` (three stages that hold text back lose
none and show none early), `RequestAcceptable`, `EveryCallAnswered` and
`NeverStartedBehindTheModel` (what the model was told is what happened),
`SessionIsItsSockets`, `ErasedIsGone`, `CacheIsSound`, `ErrorsAreHeard`,
`CopiesAreHistory`, `OneVoice`, `RetryHintHonoured`, `WalkMissesNone`, and the two refinements
`SerialQueueSpec` and `IsTokenBucket`.

### Fairness

Liveness is asked of five modules. What is assumed fair is what the event loop
does by itself: a settled promise's reactions run, a due timer fires. Beyond
that `MessageHandler` assumes that a run ends, which `ToolRounds` shows when
tool calls have a deadline; `ToolRounds` that a provider's stream ends, which
`ProviderResilience` shows of streamed calls, and that hooks and the store
settle, without which no turn of this code can end; `PerSessionLock` that the
callback under the lock settles; `Transport` that the heartbeat beats while its
interval runs, and that ws ends a closing socket, as it does within 30 s.
Nothing is assumed of an authenticator or a peer there, and nowhere of a policy,
a tool's executor, a vendor, a client or a socket. Accordingly `RunEnds` is about turns
with a deadline or an abort, and `StreamedCallEnds` about streamed calls:
`generateStructured` has no timeout.

## Where the code and its documents part

Three runs end in a violation, each of one property that states what a document
says. The counterexample of each is a finding in `PROJECT.json`.

| Run | The documents say | The code |
|---|---|---|
| `connections_evicted` | Eviction "is reserved for a new session no client ever received" (`specs/hal-engine-session-resume/spec.md:45`). | With `resume.latest` a second connect can rejoin a session whose creator's socket has closed and which is about to be evicted (`connectionHandler.ts:211`). |
| `transport_stopped` | "The listener survives `stop()`" (`specs/hal-engine-npm-release/spec.md:389`). | Every `start()` takes the late listener off before it binds, so a server that ran, was stopped and then refused a start has none, and its next `error` ends the process (`createServer.ts:136`). |
| `mongo_store_live` | The cache is there so that `get` returns the object a running turn writes to (`docs/session-stores.md:99`). | A read that overlaps the create, or another read, builds a second object, and whichever is answered last is cached (`mongoSessionStore.ts:87, 106`). |

Each has its counterpart among the properties that hold, which says how far the
code does keep the promise: `SessionIsItsSockets`, `ErrorsAreHeard` and
`StableObject`. Where such a property makes an exception, the exception is in
its comment and in the theorem's summary.

The others met while modelling are kept by the models as the code has them, as
the stated exception of a property or as a step it allows.

Of a session's turn:

- An answer held back whole (it may open a thinking tag) is flushed by the
  handler after the orchestrator saved the session, so the stored session lacks
  it until a later save (`messageHandler.ts:234`;
  `specs/hal-engine-session-write-signal/spec.md:18`). Text flushed there also
  escapes the content bound until the next turn
  (`specs/hal-engine-history-controls/spec.md:22`).
- The `truncated` flag is not sent to a live client (`messageHandler.ts:297`;
  `specs/hal-engine-websocket-protocol/spec.md:593`).
- A frame refused off the lock is answered with an `error` that a client cannot
  tell from its turn's.
- `execute` rejects when a tool's schema does not compile
  (`registry.ts:115,123`; `specs/hal-engine-tool-executor-throw/spec.md:13`).
- A run aborted while its first hook is pending still asks the provider once
  (`chatOrchestrator.ts:133`).
- After a failed turn the conversation holds two user messages in a row, and the
  next request sends both.

Of the providers:

- What the mask holds back it has restored already, and restores again with the
  next chunk: a value that ends in its token's beginning is put back twice
  (`withMask.ts:116`; `withMask.ts:27` says it "puts the real values back before
  anything downstream reads them"). The model does so too, and `SpokenIsShown`
  breaks for such a value; `StandsApart` excludes it.
- The mask lets go of the text it held when its stream is left on an abort
  (`withMask.ts:51`), against `specs/hal-engine-providers/spec.md:332`; the
  handler does not show it (`QuietAfterAbort`). When the provider throws, the
  held text is lost.
- Vertex replays stored tool calls with answers named after their ids
  (`hist-N`), and gives two calls of one function in one response the same id.
- A Vertex status 500 is not retryable, Bedrock's `InternalServerException` is.
- A definition function that answers another name after its registration is
  advertised under the new name and found under the old one
  (`specs/hal-engine-duplicate-tool-name/spec.md:21` leaves it out of scope; the
  model's functions change their schema only).

Of sessions and stores:

- A save that was carried out and then rejected leaves the cached object behind
  the document until the next save (`mongoSessionStore.ts:141-147`);
  `CacheIsFresh` excepts it.
- A create answered after an erasure was carried out caches a session no
  collection holds (`mongoSessionStore.ts:87`;
  `specs/hal-engine-mongo-session-store/spec.md:18`); eraseAll reaches even
  creates sent after it. `ErasedIsGone` excepts both.
- Example prompts that throw leave the new session stored: they are read outside
  the `try` whose `catch` evicts (`connectionHandler.ts:226`;
  `specs/hal-engine-session-lifetime/spec.md:21`). `NothingLeftBehind` excepts
  deployments that have such prompts.
- Of two REST runs beside each other on one chat the last to end decides what is
  stored, and may drop the other's question and answer (`chats.ts:98-131`).

Of the server's lifecycle:

- Of two starts whose binds are refused before either reports, the first `error`
  takes both listeners and the second ends the process (`createServer.ts:133`;
  `specs/hal-engine-npm-release/spec.md:383`). `ErrorsAreHeard` says that this is
  the only way a refused bind does.
- A refused start's callback stays a `listening` listener, and adds a late
  listener of its own with the next start's (`createServer.ts:139`; `:388` of that
  page).
- A `stop()` before `listening` leaves `start()`'s promise unsettled; a `start()`
  before a stopped server has drained leaves `stop()`'s pending; a server that
  was stopped and started again has no heartbeat and accepts no upgrade.
- While a socket is paused in `openSession` its pongs are not read, so a setup
  that takes two heartbeats costs a live client its connection.

## What is proved

TLAPS checks, for every value of the constants:

**`GuardProofs`**, on `PerSessionLock`, from `NoneAssumption` alone. `LockTypeCorrect`;
`Serialised` (no callback begins before every earlier one of its key is over);
`MapIsExact` (the map holds a key exactly while a callback of it is not
through); `ImplementsSerialQueue`. Mutual exclusion is not inductive: a callback
starts because *one* earlier callback is over. The invariant adds `Links` (that
one is the last of the earlier ones, or there was none left) and `SerialGone`
(the ones before it are not only over but forgotten).

The same module, on `RateLimiter`, from a positive limit and window and a burst of at
least one token. `LimiterTypeCorrect`; `NoKeyOutstays`; `ImplementsTokenBucket`;
`HintHonoured`. The invariant adds `Recent`: no bucket's last refill is a whole
refill away from the last pruning, in either direction, which `IdleForgotten`
follows from. The refinement rests on `PruningIsUnseen`: a key that is pruned
was full. The hint's exactness rests on `WaitIsLeast` (the rounded-up wait is
the least that suffices), `WaitRunsDown` (what is left of it after n
milliseconds), and the invariant `HintIsExact`.

The same module, on `ProviderResilience`, for any number of vendors, attempts
and chunks. `ChainTypeCorrect`; `OneVoiceAlways`; `ReleasedAlways`; `AbortIsQuietAlways`;
`SentOnOutageOnlyAlways`. The
invariant adds `Bounded` (a backoff has an attempt left to make, a failover a
vendor left to ask) and `Speaking` (an attempt that is being listened to is the
last that was sent, and until one speaks the caller holds nothing), from which
`OneVoice` follows at the first chunk. That a vendor was left only with its
retries spent needs `Counted`: the attempt that is under way is one more than
the failures there are of its vendor.

**`TurnProofs`**, on `ToolRounds`, for any number of rounds and of calls in each.
`TypeCorrect`; `AnsweredTruthfully`; `NothingStartedLate`; `TornDownInOrder`;
`QuietOnceAbandoned`. `EveryCallAnswered`
speaks only of moments at which the provider is asked, and of what a call has
become by then although it may have moved on after its race. The invariant adds
`Races` (which pairs of race and work can be: an open race means no abort, an
abandoned one means an abort, a call that was skipped never answered) and
`ToldSoFar` (what was told of a call in an earlier round is settled and can no
longer change). For `TeardownInOrder` it adds `Teardown`: at every place of the
function, how often each step of the teardown was taken and with what the log
ends; that an order once kept is kept for good needs nothing else, because the
log only grows. The theorems are about `SafeSpec`, the specification without
its fairness.

The same module, on `EntryStream`, for every policy and any number of turns,
chunks, rounds and entries: `StreamInvariant`; `LiveShowsTheReplay`;
`ClientAlwaysUnderstands`; `SuppressionAlwaysHides`; `PolicyAlwaysHolds`. What a
client and a replay show is compared only between turns, on an open socket;
`Good` is what holds of each entry meanwhile. `Watched`: where nothing is given
up on the way to the store, the client's copy is what a replay would show
*at every moment*, and it is open exactly while the stream refers to the entry
and its output is not suppressed. `Referred`: the stream's two indices name
entries of their roles, marked as suppressed exactly if its output is, and what
it may yet blank is closed and the model's. `Retractable`: what the model said
in the last turn is still on that list or open, or is hidden already, which is
why a suppression reaches all of it. `EntryFormed` is the policy's part. The
functions of the handler write one entry and send one frame about it, so each
has a lemma that says which entry it wrote, and `OneEntry` takes it from there:
the other entries, and an index nobody uses, are as they were. A retraction
(`Blanked`) and the end of a run (`CloseTurn`, `ClearBeyond`) write several, and
are shown entry by entry. A chunk is up to three spans, each of which opens at
most one entry; that there is room for them is counted in `FullSpans`.

**`SessionHistoryProofs`**, for any finite set of sessions, any walks, any limit
and both stores. `TypeCorrect`; `EachRowOnceAlways`; `WalkMissesNoneAlways`.
What a walk has shown lies in the past; the invariant says where those rows are
now. `Behind`: no session that was shown is after the walk's cursor, because a
session's activity only rises and a session erased does not come back under its
id. `Unseen`: nor is one on a page that was read and is still on its way.
`Ahead` and `Covers`: a row that stayed as it was is shown, or after the cursor,
or on that page, or after the last row of it. `Chained`: the socket's reads
and the client's requests are the same, in the same order, which is what lets a
page be attributed without an id.

**`TransportProofs`**, for any number of calls of `start` and `stop`, of
sockets, users, chats and requests. `ServerTypeCorrect`; `ErrorsAlwaysHeard`;
`OpenIsAlwaysWatched`; `NeverCutUnaskedAlways`; `ChatTypeCorrect`;
`CopiesAreHistoryAlways`; `ErasedStaysErasedAlways`. Of the server the invariant
adds `Listened` (a server that listens has a listener that stays, or is still to
say that it listens; one whose last start resolved keeps that listener, stopped
or not) and `Waited` (of starts that each waited for the one before, one event at
most is to come, and its start's listener is there), `Watched`
(upgrades are accepted only while the heartbeat beats) and `Marked` (an open
socket not marked alive was pinged). `ErrorsAlwaysHeard` has no assumption about
when the host calls `start` or when an `error` comes; it says in which of those
moments one finds no listener, and `transport_stopped` that there is such a moment. Of
the chats the invariant
adds `Alone` (the request that opens a chat is the only one that knows its id
until it is listed) with
`Nowhere` (an id nobody knows is neither stored, nor erased, nor listed), by
which a create can never bring back what was erased, and `Placed`, by which
only a request under way holds a copy. `CopiesAreHistory` needs `Asked`: a run
under way holds the chat's messages up to its own question, by position, and
since a chat's messages only grow it still does when the run ends. What the run
then makes of its copy (`SessionIsLeft`) is that with the last entry perhaps
rewritten and its own tools' entries behind it, and a later save replaces it
whole.

The same module, for any number of calls and sessions, on the Mongo store:
`StoreTypeCorrect`; `ErasedStaysGone`; `CacheAlwaysSound`; `ObjectAlwaysStable`.
`Erasures` says what an erasure has done by how far it is: by id, it names every
create of its sessions that was waiting when it was asked; eraseAll names, once
it was carried out, every create that was waiting or not yet asked, since it
deletes whatever is there at that moment; of any other session, once carried out
it left no document, and once answered no cached object and no counting read that
found one. `Overlaps` is
why the object is one: of a session that was never read while another read of it
or its create was under way, nothing
is cached while somebody creates or reads it, and nobody holds it while it is
being created. `Fresh` is weaker than what the run checks, since it must hold while
saves are under way: the cached object, and what a counting read has found, hold
all the document holds, *or* a save that was carried out has yet to answer and
will withdraw them. A rejected save that was carried out is the one that never
does, which is why `CacheIsFresh` excepts it. The cache's age order is a lemma
about sub-sequences (`CacheLeft`): the store only ever drops entries and appends
one.

**`MessageHandlerProofs`**, for any number of sessions, sockets, messages and
chunks, over the abstract queue. `TypeCorrect`; `ArrivalOrder`;
`CountingClientsKnow`. A conversation's order rests on `Serial` (whoever has
begun, all who came before on the session are through) and `Written` (only who
has begun has written). What a client may conclude by counting rests on
`Counted`: on an open socket the turns that ended are the first ones it asked
for, as many as it counted `stream_end`s, since a turn is dropped only on a
socket that is not open. `Filed` ties the client's list to the queue's tickets.

**`ConnectionLifecycleProofs`**, for any number of upgrades and users, under
every deployment. `TypeCorrect`; `SessionAlwaysItsSockets`; `HooksAlwaysPaired`;
`NothingEverLeftBehind`. The last holds where prompts do not throw, and of
`SessionIsItsSockets` the part that what a client received stays stored where
`resume.latest` is off; the other cases are findings, or exceptions listed above. The invariant says what `openSession`'s locals are at
each of its awaits (`Shapes`), that a session's list is exactly the sockets that
joined it and were not ended, each once (`Listed`), and who received what
(`Received`). `NamedIsNeverEvicted` is the other half of the finding below the
runs: the spec's promise that the store is never told to evict a session a
client received, which `connections_evicted` shows broken, holds wherever
`resume.latest` is off. It needs `Named`: a session can be named only by who
received it, so until its own client did nobody else is on it.

**`ProviderTurnProofs`**, over the lemmas of **`AnswerLaws`**, for every alphabet,
every token no longer than the mask says and every value, every pair of tags whose
closing one is no shorter, every order a vendor's events may come in, every
history, window, registry and number of rounds. `TypeCorrect`; `NothingReal`;
`AbortQuiet`; `Acceptable`; `ShownAsSpoken`; `AsSpoken`. The last two assume
`StandsApart` besides: a value put back makes no token with what stands before or
behind it. No interface of the mask asks for that.

- *What was said and what is shown.* `SpokenIsShown` compares the segments the
  handler was given with a reading of the whole text, and says nothing of what
  the mask and the parser hold. The invariant `Following` does: while a stream
  is on, `Renders` (the round's text, and the held text with whatever may still
  come behind it put back, is what was said with *the same* to come, put back)
  and `Parses` (what was given, and the parser's buffer with whatever may come,
  reads as the round's text with the same to come). Both quantify over every
  continuation, which is what makes them inductive: a token or a tag that is
  spread over chunks is complete in some of them. The mask keeps `Renders`
  because restoring twice is restoring once (`RestoredTwice`) and what is let go
  of is no beginning of a token (`Cut`, `Pushed`); the parser keeps `Parses` because
  what drain leaves is no place for a tag (`NothingBefore`, `Drained`). An
  adapter's part is `Carries`: whatever stands before, hearing an event's chunks
  is hearing what the event says.
- *Calls, stops and counts.* The invariant `Tallies` says what Bedrock's adapter
  holds: the stop that came and has not been passed on, the counts that came
  since, and a call's id exactly while its block is open. `RoundAsSpoken` is what
  is left of that when the stream has ended.
- *Requests.* The invariant `Holds`: a conversation is a sequence of pairs of
  calls and answers and of texts (`PairedMessages`), wherever the window cuts it
  (`WindowIsLongest`: the three cuts of `applyMessageWindow`, one after the other,
  make the longest end the bounds admit), and every round lengthens it by two.
  That a call is judged by the definition of its moment needs that a compiled
  validator is filed under its schema (`Sound`, `ExecuteAllTells`).
- *Aborts.* `AbortQuiet` needs only that an aborted turn is neither behind a round
  nor through (`AbortStops`).
- *The mask, there and back.* `NothingReal` goes by the kinds of a message:
  what the context makes of a history, and what a round appends, has its value
  in one of the three places `maskMessage` looks at (`RequestsClean`), and the
  calls a round carries went through `restoreChunk` on their way in (`RoundFull`),
  which is why their inputs hold values and must be masked again.

`Restore`, `Read`, `Drain` and the folds are recursive functions, and what they
compute of *every* text is an induction over data. The library's induction
theorems take an operator, which no installed prover can instantiate, so
`AnswerLaws` begins with its own, about sets: `LeastNumber` (from the
well-foundedness of inclusion among finite sets), `Induction` over membership of
a set of numbers, `SequenceInduction`, and `Recursion`: a step that looks only at
what is smaller has a solution, the union of its solutions below each number.
That gives each function its equation (`RestoreEquation`, `ReadEquation`,
`DrainEquation`, and for folds `SequenceRecursion`), on which the rest stands.

The type invariants these theorems name are proved and not checked by a run
besides, and so are three invariants no run checks any more because a stronger
one does: `TailIsNewestLive` (`MapIsExact`), `IdleForgotten` (`NoKeyOutstays`)
and `Released` (`ReleasedAlways`).

Only model-checked is liveness: `EveryMessageAnswered`, `RunEnds`,
`StreamedCallEnds`, `MapEmpties`, `DeadIsGone`, and of `SerialQueueSpec` that a call
begins in the end. Under fairness it is out of the prover's reach, as is
ENABLED. Every other property a run checks is a theorem.

## Not modelled, and why

- Data: message contents, prompts, redaction patterns, the text of schemas.
  Texts are chunk numbers, in `RestChats` a message is the request it came with,
  or in `ProviderTurn` sequences over five characters;
  what an input holds and which schema accepts it is a constant relation.
- The deployment's own mask: one token and one value stand for its mapping. What
  it does to a string is `apply` and `restore`; that an object's keys and its
  numbers pass it as they are is modelled, and no property says they are masked.
- `generateStructured` of the adapters, their options, the vendor clients and
  their transport. The openai and anthropic adapters throw and hold nothing.
- Floating point in the rate limiter; a clock that is set back.
- Delay lengths: a timer may fire at any moment it is set.
- Of the Mongo store: lookup by owner, connecting, closing, paging of a
  retention sweep (a page is an erasure of its ids).
- Of the conversation list: a socket that closes while its client pages, the
  deployment's switch, and the preview of a row. `SessionHistory` takes the saves
  of one session to land in the order of their stamps, as they do while its
  turns hold the lock.
- Of the REST router: the shape of its responses, and which of its guards turns
  a request away. Of the server: `createApp`'s middleware, TLS, header parsing.
- Configuration, prompt text, logging, usage and prompt stores, the test kit and
  the repository's own scripts hold no behaviour over time.

## Plan

Done, in the order it mattered: lock, message handler, entry stream, tool
rounds, connections, rate limiter, Mongo store, provider resilience, session
history; then the answer's way from vendor to client with the request's way
back, the tool registry, frame validation, the REST router, and the server's
lifecycle. Every safety property that a run checks is proved.

Left, for who extends it:

1. From `TokenBucket`, that any stretch of time grants a key at most its burst
   and what the stretch refills.
2. `generateStructured` of the adapters with its retries.
3. The rate limit in front of the HTTP routes and of a conversation list.

To run: `tlc -workers 2 -config X.cfg M`, and `tlapm M.tla` for the eight
proof modules. The longest run takes about three minutes.
