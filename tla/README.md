# Formal models of the Yuanbao channel plugin

TLA+ specifications of the plugin under `src/`, from the WebSocket to the agent and back: model-checked with TLC
on small instances, and proved with TLAPS where an instance is not enough. Source paths below are relative to
`src/src/`.

The plugin is a single-threaded Node program. What makes it hard is not parallelism but the number of things
that can happen between two turns of the event loop: socket events, timers, promise continuations, callbacks of
the host's reply dispatcher, external commands, and calls that are still waiting for a server. An action of
these modules is one such turn; everything a handler does before it awaits is one step, everything after an await
is another.

## 1. Inventory

How a message travels: the **gateway** owns a **WebSocket client** per account, whose credentials come from the
**sign-token cache**. A push is decoded and handed to the **dispatcher**, which batches it (the host's
debouncer), picks a **session queue** and, for direct chats, cancels older work through the **abort
controllers**. The queue runs the **pipeline**, a chain of middlewares with its **guards**, which ends in
`build-context` (it reads and clears the **group history**) and `dispatch-reply`, which lets the agent answer
through a **streaming output session** with a **heartbeat** beside it. Replies, message actions and the host's own
calls leave through the **sender** and the **transport** over the same client, with look-ups in the **caches**.
Beside it stand the **upgrade command**, which a message may trigger and which ends by replacing the process, and
the **reminder tool** of the agent.

| Component | State | Operations | Hard behaviour | What makes it correct |
|---|---|---|---|---|
| Session queue `dispatcher/queue/session-queue.ts` | promise chain and generation per session | `enqueue`, `invalidate`, three promise callbacks | calls between two callbacks of a link; entries of an idle session deleted | one task at a time, in order; exactly the superseded tasks skipped; no leak; no task stuck |
| Abort controllers `dispatcher/queue/session-abort-manager.ts` | controller per session | `rotate`, `cleanup` | clean-up by a task that has been replaced | the newest message owns the controller |
| Dispatcher `dispatcher/debouncer/index.ts` | none of its own; combines the two above | `flushDebouncedItems` | cancels while older pipelines wind down | newest message wins; stop requests are not queued behind what they stop |
| WebSocket client `access/ws/client.ts` | socket, state, timers, heartbeat, pending requests | connect, disconnect, sends, socket events, auth answers, timers | refreshes and timers that outlive their socket or the client | one driver at a time; requests settle once; disposal is final |
| Gateway and registry `access/ws/gateway.ts`, `runtime.ts`, `channel.ts` | map of active clients, status, bot and owner of the account | start, stop, client states, owner query, push conversion | a stop while a start still waits for its token | the registry names the live client; the status is true |
| Sign-token cache `access/http/request.ts` | token, fetch in flight, timer per account | `getSignToken`, `forceRefreshSignToken`, retry on 401 | fetches that were dropped still complete | a retry is fresher than the refusal; a token is refreshed in time |
| Pipeline and guards `business/pipeline/` | rate-limit windows | middleware chain with early ends and errors | a clean-up every so many checks; entries on a window's edge | the limit counts exactly; every run ends |
| Group history `business/messaging/chat-history.ts`, `recall.ts`, `resolve-mention.ts`, `build-context.ts` | pending messages, media per group | record, build context, clear, recall | the whole reply lies between reading and clearing | nothing shown twice, nothing lost, recalls take effect |
| Reply dispatch `business/pipeline/middlewares/dispatch-reply.ts` | flags of one reply | host callbacks, deliver, finalize, fallback | host callbacks are not awaited | fallback only when nothing was said |
| Output session `business/outbound/streaming-output-session.ts` | text, cursor, two promise chains | update, new segment, flush, finalize, abort | drains overlap with everything; the cursor is found by text search | text in order, once, complete; blocks kept whole |
| Markdown and thinking repair `business/utils/markdown.ts`, `business/outbound/repair/thinking-boundary.ts` | boundaries seen so far | chunking, fences, tables, formulas, newline repair | operations that undo each other only nearly | what is sent is what was written |
| Heartbeat `business/outbound/heartbeat.ts` | loop, timer, flags | emit, finish, stop | an answer that arrives after the end | one loop, FINISH last |
| Sender and transport `business/outbound/create-sender.ts`, `business/actions/`, `infra/transport.ts` | quoted messages, sequence counter | text, media, sticker, quote, send | awaits between deciding and sending | quoted once; numbers rise in the order sent |
| Caches `infra/cache/`, `business/messaging/directory.ts` | TTL store, member list, session members, resolved names | get, refresh, record, evict | overlapping queries with late answers | a list is no older than its age |
| Upgrade `business/commands/upgrade/` | configuration file, plugin on disk, reload mode | two flows of external commands | commands that fail after their effect; the restart kills the process | configuration restored; no reload meanwhile; the user is told the truth |
| Reminder tool `business/tools/remind.ts` | the host's scheduler | add, list, remove in three ways | time-outs and fallbacks that repeat what was done | ok means done, once |

`PROJECT.json` lists every component, also those left out, with the reason, and under `hazards` the lines where
this code can go wrong in ways a unit test would hardly reach, with the properties that would notice.

## 2. Modules

| Module | Models | Correspondence |
|---|---|---|
| `SerialQueue` | nothing in the code: what a serial queue with cancellation promises | tasks wait, begin or are dropped, end and leave; cancelling marks the waiting tasks of a session stale |
| `SessionQueue` | session queue | a link of the chain is a task; `Enqueue`, `Invalidate`, `Then`, `Settle`, `Finally` are the calls and callbacks |
| `SessionAbortManager` | abort controllers | `Rotate`, `Cleanup`, used by `SessionDispatch` |
| `SessionDispatch` | dispatcher, over instances of the two modules above | `FlushDirect` / `FlushGroup` do all a flush does in its turn; `PipelineEnds` includes the clean-up in its `finally` |
| `WsClient` | WebSocket client | one action per socket event, auth answer, timer and call; sockets have identities so that a second one would show. A connect may fail at once (`Connect`, `ReconnectFires`) |
| `ClientInterface`, `OwnedClient` | `setState` of the client, seen by its owner | which announced state may follow which; `WsClient` is shown to implement `OwnedClient`, and `Gateway` draws its clients' announcements from the same table |
| `TokenCache` | sign-token cache and its HTTP callers | fetches are numbered; a caller's continuation is a step of its own (`Headers`), run before the next event |
| `Gateway` | gateway of one account, registry, status | a start is a process: it waits for its token, then owns a client; the client is what `WsClient` lets its owner see of it (`ClientInterface`) |
| `Pipeline` | engine, assembly, guards | a run moves from one middleware that waits to the next (`RunFrom`); a guard ends the run or lets it pass |
| `Upgrade` | upgrade command | one action per completed external command, with the branch taken on its answer |
| `Inbound` | composition of the three above | a push becomes a run, a run may perform an upgrade, an upgrade that works kills them all |
| `GroupHistory` | one group's histories | `Record`, `BuildContext`, `ReplyCompletes`, `Recall`; a lane is a session queue reduced to its order. Media are recorded with a message and, for a mention with pictures, by `DownloadMedia` |
| `StreamingSession` | output session: order, sends, failures | text counted in pieces `<<segment, i>>`; where the chunker cuts is a choice |
| `ReplyHeartbeat` | heartbeat controller | awaits and timers of the loop are counted, so that a second loop would show |
| `DispatchReply` | reply dispatch, over instances of the two modules above | one action per host callback, one per await of the handler; a send that may have reached the user without an answer (`lost`) is an outcome of its own |
| `Markdown`, `ThinkingBoundary` | the text helpers | operators on texts of character classes; loops of the code as recursive functions |
| `StreamedText` | output session: the computation `StreamingSession` leaves open | cuts, fences and cursor of one message; a drain sends in one step |
| `TtlDb`, `Member`, `Directory` | the caches | stores with a clock; a query is asked, answered and settled in three steps |
| `Sender`, `Outbound` | senders and transport; their composition with the caches | a call works through its items, one action per await |
| `Remind` | reminder tool and, as its environment, the host's scheduler | a call sends a command, hears of it or gives up, and falls back |
| `*Proofs` | | theorems, section 5 |

`MC*` modules and the `.cfg` files instantiate them. Operators whose comment starts with "Mutant" are variants of
the definition after them with a plausible bug; nothing refers to them except the list of mutants in
`PROJECT.json`, which says which property notices which bug.

Variables keep the names of the fields they stand for. Variables marked "history" exist only for properties and
influence no guard.

`SessionDispatch`, `Inbound`, `DispatchReply` and `Outbound` are the compositions. The others are
linked without being composed further, because the product of their states is out of reach. The clients of
`Gateway` announce states in the order of `ClientInterface` and are quiet after disposal: `WsClient` is proved to
do so (`ImplementsOwnedClient`). Two links are assumptions that name the property of the other module they rest
on: the lanes of `GroupHistory` run one message at a time (`AtMostOneRunning`), and the text of `StreamedText` is
sent in order (`SentInOrder`).

## 3. Runs

| Run | Instance | What it shows |
|---|---|---|
| `session_queue` | 2 sessions, 3 tasks, generations up to 2 | mutual exclusion, exact map entries, refinement of `SerialQueue`, every task leaves if tasks end |
| `session_dispatch` | 1 direct and 1 group session, 3 batches, generations up to 3 | older replies are aborted, the newest survives, skipped exactly if cancelled, stop requests get through |
| `ws_client` | 2 sockets, 2 requests, 3 attempts, signed token | exactly one driver, and the state names it; disposal is final; requests settle once; a refused token is not reused; refinement of `OwnedClient`; the client gets somewhere; a silent peer is noticed |
| `token_cache` | 2 callers, 4 fetches | a retry is fresher than the 401, a cached token has a timer, every call ends |
| `group_history` | 4 messages, 2 lanes, lists of 2 | nothing shown again after its reply, recalls take effect, entries leave only for a reason |
| `dispatch_reply` | 2 assistant messages of 2 pieces, 2 queued drains | order, last message complete, fallback stands alone, one loop, FINISH last, the reply ends |
| `complete_reply` | as above | violated on purpose, section 6 |
| `inbound` | 2 starts, 1 run at a time, 5 messages, 2 senders, limit 2 in a window of 2, clock up to 2 | the registry names the live client, the status is true, the rate limit counts exactly |
| `inbound_upgrade` | 2 starts, 1 upgrade, 2 published versions and one that is not, 2 attempts | configuration restored and its rewriting unseen by the host's reload, every run ends, success is told only if it happened |
| `outbound` | 2 concurrent calls of 5 kinds, 2 quotable messages with room for 1, 2 rosters, clock up to 2 | a message is quoted once, numbers rise, a list is no older than its age |
| `streamed_text` | 8 messages of up to 11 characters, cut at 3 to 4, 2 ends of reasoning, both chunkers | all that can be read is sent, once; tables and diagrams are not cut |
| `remind` | 2 calls of 12 kinds, 3 ways, clock up to 5, time-out 2 | ok means done; a call makes one job at most |

Why the bounds are enough. Three tasks give one that runs, one that waits and one that arrives; the proofs cover
any number. With three generations a counter can be raised past a deletion and reach an old value again. The
client may open more sockets than it should ever hold, and three attempts are a whole series of failures with
one success in the middle. Four fetches let each caller be refused once while a timer and another caller have a
fetch in flight. Four messages against lists of two overflow between two mentions. Two assistant messages of two
pieces allow a drain that stops inside a message while the next message begins. Two starts are one that is
stopped, at any moment, and its successor. Against a limit of two in a window of two ticks, a sender can be
refused, and admitted again when the oldest entry has just left the window, with a clean-up after every second
check. Two attempts are a first one and a retry. Two calls are enough for each race of the transport (look-up,
quote and number are taken one message at a time), and two quotable messages against a store of one force an
eviction. Messages of `streamed_text` are longer than twice the chunk size, and each has one of the blocks the
chunker treats specially, or a mark within a line, at a place where it would be cut; every division into partial replies is tried. Two
calls of the tool and a time-out of two ticks in five allow a late command of one call beside a complete one of
the other.

Bounds in guards: `MaxDrains` (drains queued by tool calls), `MaxGeneration`, `MaxFetches`, `Sockets`, `MaxTime`
(clocks), `MaxReasoning`, `MaxUpgrades` (see 6). Symmetry is used only for messages and lanes of `GroupHistory` and
callers of `Outbound`, whose properties are all safety.

Deadlock is not an error in any run: finitely many tasks, messages, calls or ticks run out, and a client that was
disconnected stays so.

### Fairness

* `SessionQueue`, `SessionDispatch`: weak fairness of the promise callbacks (`Then`, `Finally`). The event loop
  runs the callback of every settled promise. Nothing is assumed of pipelines: that tasks end is a premise of
  the properties that need it, and `StopGetsThrough` needs it of stop requests only.
* `WsClient`: armed timers fire, a connection attempt ends (the TCP stack gives up; or at once, in the constructor), a token refresh settles.
  Not assumed: that the server ever answers. `GetsSomewhere` therefore has the premise that an auth-bind
  does not stay unanswered for ever; the client has no timeout for it.
* `TokenCache`: continuations run; fetches and requests settle. Those two are strong because an event that has
  arrived is only ever delayed by microtasks of other callers.
* `DispatchReply`: sends, heartbeats and awaits settle (both have timeouts). Nothing is assumed of the host:
  `ReplyEnds` begins when its dispatch is over.
* `Inbound`: callbacks run; downloads and sends settle; every external command of an upgrade completes (each is
  started with a timeout). Nothing is assumed of what they answer, nor that the host ever starts an account.
* `GroupHistory`, `Outbound`, `StreamedText`, `Remind` have safety properties only and no fairness.

## 4. What the properties rely on

* The host calls `deliver` one at a time and settles its dispatch afterwards; other callbacks are not awaited.
* The host starts an account again only when the promise of the last start has settled, and only if the
  configuration file has it.
* The SDK's history helpers append and cut to the limit, and clear a group's list; they are marked external.
* A lane of `GroupHistory` runs one message at a time. This is what `SessionQueue` proves of a session key.
* The gateway calls `connect()` once per client (`gateway.ts`).
* npm and the host's command line do what their names say, or fail with or without having done it; a command
  that succeeds has had its effect.
* The host's scheduler handles a command at most once, some time after it was sent, even if the caller has given
  up; its job ids are new.
* The server answers a member query with the list it has at some moment between the question and the answer.

## 5. Proofs

Eight modules, for any sets of tasks, sessions, sockets, requests, callers, senders, calls and starts, and for
any bounds:

* `SessionQueueProofs`: `TypeCorrect`, `ChainsExact`, `MutualExclusion` and `Refinement` (the queue implements
  `SerialQueue`; the mapping reads a task's phase off its link's status and calls a waiting task stale when its
  generation differs from the session's). Mutual exclusion is not inductive: it depends on what the promise a
  link waits for stands for. `QueueInv` adds the history `ahead` (the unfinished tasks of the session at enqueue)
  and says that a link past its `.then` has all of `ahead` done, that a link's single predecessor is behind
  everything else ahead of it, that the pending links of a session are ordered by `ahead`, and that no pending
  link holds a generation larger than the session's. The last part is what makes deleting the generation of an
  idle session harmless, since a session with a pending link keeps its counter.
* `SessionDispatchProofs`: `LatestMessageWins`, `LatestMessageSurvives`, `SkipsAreCancellations`. `DispatchInv`
  contains the queue's invariant, whose lemmas are reused through an instance of the module above. It adds that a
  batch cancelled by a later flush has a generation below its session's, or is past the check; that older plain
  batches that still run are aborted; and that the newest one owns the session's controller until it is over,
  so that a clean-up by a replaced batch finds a controller that is not its own.
* `WsClientProofs`: `OneDriverHolds`, `DisposalIsFinal`, `RequestsSettle`, `RejectedTokenDropped`,
  `ImplementsItsInterface`. `Inv` counts
  what drives the client (a socket whose handlers are attached, an armed timer, a refresh) and says that the
  count is one unless it was disposed of or gave up, that the kept handle is that of the armed timer, and that
  a detached socket is not listened to. The handlers of a socket, and a refresh that completes after
  `disconnect()`, are the cases that need all of it. The refinement follows case by case from where
  the count puts the client: an event of a socket finds it between connecting and connected, a timer finds it
  reconnecting, a refresh finds it not given up.
* `MemoryProofs`, of `TokenCache` and `GroupHistory`: `TokensAreRenewed`, `RetriesAreFresh`, and
  `AnsweredNotShownAgain`, `RecallIsFinal`, `LanesLoseNothing`. `RetryInv` follows a caller from its 401 to its
  second request: the fetch it waits for, or the cached token it is about to use, was started after the 401.
  `HistoryInv` follows a message from its lane into the lists: it waits once, is recorded once and only after it
  has left the lane, and what a context holds had been recorded; so nothing that was cleared or recalled can be
  recorded again. `RecallIsFinal` is about the text history: `recall.ts` does not look at the media. Four
  lemmas say what appending, cutting, clearing and removing do to a list without repetitions. That nothing is lost needs `LaneInv`: a message comes through one lane only, and while a lane's reply
  is under way, whatever of that lane is in the history was shown to it. The reply can clear what another lane
  recorded meanwhile, which `NothingLost` names as its exception; `OneLaneLosesNothing` is the case in which there
  is no other lane.
* `ReplyProofs`, of `DispatchReply` and `Remind`: `HeartbeatsDoNotPile`, `FinishStays`, `TextInOrder`, `LastMessageIsWhole`,
  `FallbackIsAlone`. `HeartbeatInv` has the three states of the loop and says that FINISH leaves nothing armed;
  `TextInv` that what was sent, and what the running drain has taken, is in order and below the cursor, from
  where every later drain goes on; `EndInv` that each piece below the cursor was sent or is about to be, unless
  a send threw, and that after finalize no drain is left; `FallbackInv` that what has reached the user is marked in
  one of the three flags the fallback looks at (`hasSentContent` of the session, `hasSent` of the handler,
  `actionDelivered`), and that a sent fallback leaves nothing in flight.
  Of the reminder tool: `RemindsOnce`, `OkIsDone`. `CallKnown`: a call the scheduler has not heard of or has refused has
  made no job, and a way is tried only after one that was refused. `AskedInv`: the ids of all jobs are behind the
  next one; a call that waits has waited no longer than its time-out, and what it is told of a success is done: its
  one job was made while it waited, whence the bound on the job's time (with `Rounds`, what rounding to seconds
  can change), the job it removed is gone for good, since no id is used twice, and the jobs it was shown are those
  its conversation had when they were listed, whatever was added since; with others only if the call is in `raw`.
* `InboundProofs`, of the composition `Inbound`:
  * `RegistryIsLive`, `StatusIsTrue`. `GatewayInv`: at most one start is unsettled, a client lives exactly while
    its gateway runs, and is the registered one. Pipeline and upgrade leave the gateway alone but for the restart,
    which ends everything.
  * `ConfigIsKept`, `SuccessIsReported`. `UpgradeInv` says of each command an upgrade
    may wait for whether reloads are off, what it aims at and what was found installed (`UpgradeOf`), and that the
    channel's section is in the file, about to be written back, or given up with a message to the user
    (`ConfigKept`). `SuccessIsReported` is about the version only (`BorneOut`): the one aimed at is installed, and
    where it could not be found out, the newest one or, after a failure, another than before. The theorems hold of behaviours in which upgrades do not overlap (`OneAtATime`, a hypothesis);
    two that overlap break them (see 6). `OneUpgradeEver` proves the hypothesis for `MaxUpgrades` up to one: a run
    that is about to order an upgrade, or waits in one, is the only such run.
  * `RateLimitIsExact`, with no hypothesis. `RateInv`: a sender's list holds what was admitted in the last
    window, each with a number of its own, and nothing that was never admitted, so that what a check or a clean-up
    drops had stopped counting. `RunsTyped` says of which sender a run in the guard is.
* `OutboundProofs`: `SequenceRises`, `AgeIsTrue`, `QuotesAreApart`. `SeqInv`: no message carries a number above its trace's
  counter. `AgeInv`: a request in flight is no older than the timeout, and its answer is a list the server still
  had after the question was asked. `QuoteInv`: a message that was quoted is in the store, or its quote is as old as
  the TTL, or at least `MaxKeys` others were quoted since (`Remembered`); the entries of the store are in the order
  of the messages that set them (`StoreOrdered`), so that the one that is evicted was set before all that stay, and
  those are the others that were quoted since. It needs no bound on the look-ups between deciding and sending,
  since the transport looks at the store and writes it in one turn.
* `TextProofs`, of `StreamedText`, `Markdown` and `ThinkingBoundary`: `TextIsTyped`, `ChunkAwareKeeps`,
  `BlocksAreKept`, `EverythingIsSent`. The loops of the text helpers are recursive functions over the positions of a
  text; `Induction` (over sets of numbers, from the library's well-founded order) and `Recursion` (such a function
  exists and unfolds) make them accessible without an operator as a parameter. `BlocksApart`: diagrams and tables of
  a text do not overlap. `AdjustedIs`: a boundary that is moved off the inside of a block is not inside of another
  one, and boundaries stay in their order. `PiecesAre`: what is cut at the moved boundaries, empty pieces dropped,
  is the text laid end to end. None of this depends on what the host's chunker does.

  `EverythingIsSent` (`SentExactly`) follows the characters a reader sees, those that are neither line breaks nor
  marks of a fence, through the whole chain. `Bare(text)` is where they stem from, in their order, and the lemmas
  say stage by stage that it stays: the repairs of reasoning boundaries (`SandwichedKeeps`, `JoinsKeeps`,
  `ReplacedKeeps`, `AppliedKeeps`), splitting into lines and joining them (`LinesKeep`), formulas and tables
  (`NormalizeKeeps`, `HealedKeeps`, `SanitizeKeeps`, `PreparedKeeps`). The chunks of either chunker lie between
  rising offsets of the text, each behind the line of a fence at most (`Dressed`, `RawCutting`), and so they leave
  the repair across messages (`RepairedDressed`). Here the host's chunker is what `HostChunks` says it is. Hence
  what is sent of a delivery tells each of its characters once (`SendAll`). `LastBody` and `CursorLands` say where
  the cursor lands: at the beginning of the last chunk, unless that chunk was cut within a line in front of a mark;
  what is passed over otherwise holds nothing to be read. `SentInv` is the inductive invariant: what came in is the
  message up to `received` but for line breaks and fences (`Come`), so that no character stands in the text twice;
  all that can be read before the cursor was told (`ToldSoFar`), nothing behind it was and nothing twice
  (`OnceSoFar`), each with the exceptions the property names. `SentExactly` alone says nothing of the cursor before
  the end. A partial reply that leaves the classes of the sent part as they were leaves its characters too, since
  both texts begin the same message (`CommonPart`); one that does not sets `rewritten`. TLC checked `SentInv` on the
  instance of `streamed_text` before it was proved.

Assumptions: the named ASSUMEs of the modules (the "none" values are not members of the sets they stand beside,
bounds are natural numbers, direct and group sessions differ, a push decodes to a message or to none, the
scheduler's old jobs have the first ids); TLC evaluates them in every run.

Three definitions have the form they have because they are reasoned about. The code's list of timestamps per sender
is a set of admissions in `Pipeline`, each a time and a running number, since two may have the same time and order
does not matter to a count. The JavaScript map of `TtlDb` is a set of entries, each with the place in the map's
order that decides which of two goes first that expire together. A call of `Remind` removes a job that exists or has
existed when the call begins (`Names`): the agent learns ids from the scheduler and does not guess those it has not
given yet.

Only model-checked: the liveness properties (`EveryTaskLeaves`, `StopGetsThrough`, `GetsSomewhere`,
`SilentPeerNoticed`, `EveryCallEnds`, `ReplyEnds`, `RunsEnd`), since fairness needs ENABLED. Every invariant and
every action property of a passing run is proved.

## 6. Where code and documentation disagree

With a run that TLC violates by a behaviour of the code:

* `complete_reply`: "Set `disableBlockStreaming: true` to send the complete reply in one message"
  (`src/README.md:248`). A reply of several assistant messages loses all but the last.

Met while modelling. The properties are stated so that they hold of the code, and name the exception:

* `RetryIsFresh`: `forceRefreshSignToken` drops the in-flight fetch from the map "to ensure a fresh request"
  (`access/http/request.ts:296`). The dropped fetch still caches its token when it completes (`:275`). The caller
  that met a 401 does get a newer token, unless that token came without a duration and was not cached.
* `RecalledStaysOut`: "If the recalled message is still in chatHistories, it hasn't entered AI context yet"
  (`business/messaging/callbacks/recall.ts:36`). It has, from the moment the context is built until the reply is
  over; recalled in between, the agent is not told.
* `NothingLost`: "clear consumed history after AI reply completes" (`build-context.ts:161`). With the control lane
  or a second account on the same group, it also clears what nobody consumed. The property excepts a message that
  the reply's lane did not bring.
* `SentExactly`, `stuck`: the cursor is moved to where the text of the last chunk, less the fences added to it, is
  found in what is not sent yet (`streaming-output-session.ts:142`). When the last chunk is only an opening fence nothing is left to
  search for, the cursor stays, and the chunks before it are sent again.
* `SentExactly`, `torn`: "finalize / flushNow send the remainder" (`streaming-output-session.ts:4`). A line that is
  too long for one chunk may be cut in front of a ```` ``` ```` within it. The last chunk then begins like a fence that
  was added (`:134`), the cursor is put behind its first line, and that line is never sent. This was found when the
  proof of the property met a cut at which it did not go through; the run has such a message.
* `SentExactly`, `rewritten`: the repair of newlines around reasoning may shorten text the cursor has already
  passed; one or more characters are then lost or doubled.
* `ConfigNeverLost` with one upgrade at a time (`MaxUpgrades`): a second upgrade's restart kills the first between
  the removal of the channel's configuration and its restoration (`upgrade.ts:172` says it is always restored).
  So does any crash in between.
* `OnceUnlessUnheard`: a command to the scheduler that timed out but took effect is repeated in the next way.
* `OkIsTrue`, `raw`: `status="ok"` "表示已完成，可以告知用户" (it is done and the user may be told,
  `business/tools/remind.ts:151`). When the command line's list is not JSON it is passed on as it is with that status
  (`:566`), with the jobs of all conversations in it.
* `FallbackStandsAlone`, `Unheard`: a send that timed out or lost its connection is told like one the server
  refused (`infra/transport.ts:153`). If it was all there was, the fallback is sent behind content that may have
  arrived. For `deliver` this cannot happen: it counts every send that does not throw.

Smaller observations, no property depends on them: `upgrade.ts:381` sets the reload mode to "hybrid" whatever it
was before; with an unknown latest version the regular flow, told that there is no install record, installs
`plugin@null`; `size()` and `delete()` of the TTL store count expired keys; a quote is marked as used before the
send that carries it has succeeded; resolved names are cached for all accounts and looked up in the account
"default"; a group with a partial match wins over an exact match in a later one; `handleAction` answers ok when a
sticker or a file could not be sent, and the host's outbound calls ignore an answer that is not ok; an idle
group's `/stop` leaves a generation entry behind (`debouncer/index.ts:220`); the reminder tool
removes jobs of any conversation; the thinking repair uses
`String.replace` with a text as replacement pattern, which turns `$$` into `$`.

## 7. Not modelled

* Codecs, facades over HTTP, tracing, telemetry, configuration, set-up, prompts: no control of their own.
* Inbound content handlers, the queries of the member and group tools, log upload: straight-line code.
* In modelled components: a heartbeat that cannot be encoded, after which the client sends no more of them
  (`client.ts:771`; its payload is the same empty message every time, and encoding it does not fail); the host's
  debouncer and the gateway-wide abort signal (dispatcher); pushes and
  kick-outs, which change nothing in the client; the tries inside one sign-token request; the caches of group
  owner and group info, which follow the member list's scheme; the sticker cache; the number of media files and
  chunks in one `deliver` (`DispatchReply`); headings, lists and quotes, which the thinking repair treats like
  tables (`ThinkingBoundary`). An account with a static token is the constant `StaticToken` of `WsClient`; the run
  uses a signed one.

## 8. Plan

1. Two accounts in `Gateway` and `TokenCache`, with the clearing of all accounts at once.
2. Type correctness of the compositions as theorems, and a rate limit and quotes for several accounts.
3. The sticker cache and the group-info caches as further instances of `TtlDb`.
