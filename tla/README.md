# A formal model of Tinkaria

Tinkaria is a local workspace for coding agents. A hub process (`src/server`) serves the web
client, keeps the chats and decides when a turn starts; a runner process (`src/runner`) executes
turns through the Claude SDK or the Codex app-server; both talk over an embedded NATS server.
This directory holds TLA+ modules that model the parts of it where steps of several actors meet,
the TLC runs that check them, and TLAPS proofs. Paths below are relative to the repository.

## 1. Inventory

| Component | State it keeps | Operations | What is hard about it | What makes it correct |
| --- | --- | --- | --- | --- |
| RunnerAgent, `src/runner/runner-agent.ts`, behind `runner-nats.ts` | `activeTurns`, one `ActiveTurn` per chat with status, pending tool and cancel flag | start_turn, cancel, respond_tool, tool requests and stream events of the harness | every handler awaits; a cancelled stream lives on after its entry is gone; a plan's answer starts a turn of its own | one live turn per chat, one verdict per turn, silence after a cancel, answers reach who asked |
| RunnerProxy, `src/server/runner-proxy.ts` | `recentlyStartedChats` | send, queue, drainQueuedTurn, cancel, respondTool | the reply of a start and the events of the turn travel apart; reads before awaits; 10 s timeout | a message is started once, is not lost, is not left in the queue |
| TranscriptConsumer, `src/server/transcript-consumer.ts` | `activeStatuses`, last sequence number in KV | handleEvent, restart from the number | the handler awaits the store between event and status | the status shown is the status of the turn |
| Hub wiring, `src/server/server.ts` | `previousStatuses` | onStateChange, reconcileDelegation, shutdown | compares snapshots of a map instead of events | every chat that becomes idle is drained |
| EventStore, `src/server/event-store.ts` | maps in memory, eleven JSONL logs, `snapshot.json`, per-chat transcripts, `writeChain` | some forty record operations, replay, compaction, reset | crashes, torn lines, several logs, a promise chain that can reject for good | a restart finds what was acknowledged |
| DelegationCoordinator, `delegation-coordinator.ts` | delegation records in a KV bucket, `activeBlockingCount` | create, reconcile live and at boot, resume | compare-and-set next to a transcript append; crash between the two | one settlement and one result per child, an exact count, a parent resumed by the last |
| SessionOrchestrator, `orchestration.ts` | `origins`, `children`, `waiters` | spawn, send, wait, close, cascade, prune | limits checked before awaits; timers against answers; two indexes of one hierarchy | the indexes agree, every wait settles |
| WorkflowEngine, `workflow-engine.ts` | `activeRuns` with abort controllers | execute, cancel, rollback | cancel while a step is awaited | one terminal event per run |
| WebSocket proxy, `server.ts` | frame buffer and cached INFO per socket | open, message, close, upstream events | bounded buffer before the upstream is open | frames in order, none lost below the limit, one greeting |
| UpdateManager with CLI and supervisor, `update-manager.ts`, `cli*.ts` | the snapshot of a check, exit codes | check, install, restart | tabs that check and install at once; a listener that exists late | never an older release; an installed one is run |
| RunnerManager, `runner-manager.ts` | registration and heartbeat in KV | ensure, readiness, dispose | a registration outlives its runner; pids are re-used | a ready runner listens |
| TerminalManager, `terminal-manager.ts` | sessions by id | create, close, exit callbacks | callbacks find a session by an id that may be re-used | every live shell can be closed |
| Codex sessions, `codex-app-server.ts` | sessions, pending turns and requests | handshake, turn, item, interrupt, exit | notifications go to whichever turn is pending | a turn gets its own items and an end |
| Client connection, `nats-socket.ts` | subscriptions, snapshots | connect, resume, resubscribe | core NATS loses what is sent during an outage | a view catches up |
| Client transcript, `useTranscriptLifecycle.ts` | transcript, cache, timer of an effect | open a chat, fetch, event, leave | answers for a chat that was left | each chat shows its own entries, all of them |
| Client submit, `useChatCommands.ts` | composer, queued text, pipeline state | submit, take back, drain | calls of one tab overlap with the drain and other tabs | what was acknowledged is not lost |
| Transcript rendering, `src/shared/transcript-render.ts` | none: a fold over the entries of a window | hydrate results, find the answer, group work and tools | what an entry is shown as depends on its neighbours, on whether the turn runs and on where the window begins | each entry is shown once, the answer in the open |
| Puggy templates, `src/shared/puggy` | the stack of frames of a parse | parse an indented source, render it with mixins, includes and layouts | where a line belongs is decided by all lines above it | a line is governed by what it is indented under; every template can be rendered or is refused |
| Composer and model choice, `ChatInput.tsx`, `chatPreferencesStore.ts`, `provider-catalog.ts` | preferences, overrides per chat, forks under way | choose, submit, fork, queue | three places a model may come from, read at different times on both sides | the turn runs what the composer showed |
| Tab navigation, `useChatCommands.ts`, `useTranscriptLifecycle.ts`, `useAppState.ts` | route, pending and deleted chats, sidebar rows | create, delete, fork, merge, redirect | replies and two kinds of snapshots in any order | a tab shows a chat that is there, and no row of one that is not |
| Scrolling, `scrollFollowStore.ts`, `useScrollRestore.ts`, `useScrollFollow.ts` | position, phase of a restore, guards on programmatic scrolls | follow the tail, leave a reader alone, restore a chat's place, stabilize after the first paint | effects, observers and timers move the same list, and a scroll event does not tell who caused it | a reader who left the tail is not moved; a restore ends |
| Questions and plans, `AskUserQuestionMessage.tsx`, `ExitPlanModeMessage.tsx` | what is chosen and typed, what was submitted, one card per tab | choose, type, go on, submit, approve; the runner answers or cancels | a card is done before the hub has its answer; a call may have two results | what is sent is what is shown; a card that is done tells what the agent was told |
| Agent inspector, `SubagentIndicator.tsx` | the agent selected, its transcript, runs that fetch and follow one | select, refresh, close; the hierarchy changes | answers and events of an agent that was left | it shows the agent that is selected, all of it |
| Sessions made from others, `ForkSessionDialog.tsx`, `MergeSessionDialog.tsx`, `session-seed.ts` | the open dialog, sessions being made | choose, create, rename, read, summarise, send, close the sources | minutes between reading a source and deleting it; providers that do not answer; budgets shared by several transcripts | a source that is closed was told; an excerpt leaves out old lines only |
| Sandboxes, `nats-responders.ts`, `sandbox-manager.ts` | the record of a workspace's container | create, start, stop, destroy | docker and the store are changed one after the other, each may fail | the record is true of the container |
| NATS daemon, RuntimeRegistry, discovery and search, other components of the web client | see `PROJECT.json` | | mostly one call each, or pure I/O | |

**How they interact.** A browser command is a NATS request; `nats-responders.ts` has one
subscription per command type and handles its messages one at a time. `chat.send` and
`chat.queue` go to RunnerProxy, which requests `start_turn` of the runner. The runner publishes
events on a JetStream stream; TranscriptConsumer applies them in order to the store and the status
map and calls onStateChange, which drains the queue of each chat that became idle. The store is
written by all of them through one promise chain.

`PROJECT.json` lists every component with its status, and under `hazards` each place where this
code is hard to test, with the property that watches it or the reason there is none yet.

## 2. Modules

| Module | Models | Notes |
| --- | --- | --- |
| `RunnerAgent` | `runner-agent.ts`, `runner-nats.ts`, what a harness can do to them | `turns` holds the `ActiveTurn` records and each harness, `activeTurns` the map, `tools` the promises of `onToolRequest`, `starting` the one start_turn being handled, `events` the stream |
| `TurnPipeline` | `runner-proxy.ts`, `transcript-consumer.ts`, `onStateChange`, the write chain, composed with `RunnerAgent` by EXTENDS | each hub call is a record that remembers which await it is at |
| `DurableStore` | nothing in the code: what the store promises | crash, restart, replay and compaction do not occur in it |
| `EventStore` | the chats of `event-store.ts` with its files | implements `DurableStore` |
| `WorkspaceRecords` | workspaces, repositories and clones, profiles and the records that are put as a whole; the order in which eleven logs are replayed | `records` the state in memory, `recordLogs` the files, `saved` the snapshot |
| `Claims` | file claims of `createClaim`, `releaseClaim` and their events | `creating` and `releasing` are the awaits of the two commands |
| `TranscriptCache` | `appendMessage`, `getMessages`, the cache of transcripts | a read is a record that remembers which await it is at |
| `Delegation` | `delegation-coordinator.ts` with TranscriptConsumer and the wiring that call it | each reconciler and the boot sweep keep the locals they hold across awaits |
| `Orchestrator` | `orchestration.ts` | `spawns` and `waits` are the calls under way; a cascade cleans up agents one by one |
| `WorkflowRun` | `workflow-engine.ts` and the workflow events of the store | one run; the dispatcher is external |
| `CodexSession` | `codex-app-server.ts` for one chat | the app-server is an environment that may answer, ask or exit |
| `SelfUpdate` | `update-manager.ts`, `cli-runtime.ts`, `cli-supervisor.ts` | releases are numbers |
| `WsProxy` | `createNatsWsProxyHandlers` of `server.ts` | frames are numbers |
| `RunnerRegistry` | `runner-manager.ts`, the start of `runner.ts` and `runner-nats.ts` | pids are re-used |
| `Terminals` | `terminal-manager.ts` and its three responders | shells are numbers |
| `Sandboxes` | the sandbox commands of `nats-responders.ts`, `sandbox-manager.ts`, their records | docker is external: one container of a fixed name |
| `SessionSeed` | forks and merges from the dialog to the prompt that is sent | a text is its length, an excerpt the positions it tells; whether a provider answers is open |
| `ClientSession`, `TranscriptView`, `SubmitPipeline` | the client's connection, transcript and submits with the hub's side of each | one topic, one tab, one chat; a snapshot is computed and published in one step |
| `TranscriptFold` | `foldTranscriptRenderUnits` with hydration and windowing | a pure function, checked over every log the runner can write up to a length, against what each entry is owed |
| `PuggyTemplate` | `parser.ts`, `render-html.ts` of Puggy | a pure function, checked against a definition by indentation alone |
| `SessionModels` | the path of a model id from the composer to the harness, `useChatCommands.ts`, `provider-catalog.ts`, `runner-proxy.ts` | ids are sequences, so that `sonnet[1m]` is `<<"sonnet", "1m">>` |
| `Navigation` | the effects and commands that change the route and the rows | the hub and another tab are part of it |
| `ScrollFollow` | where a tab's transcript is scrolled to, and the hooks that move it | the view is at the tail or above it; two chats |
| `QuestionForm` | a question or a plan from the request the runner holds to the cards of all tabs | a text is the sequence of its pieces between separators; Claude's own result of a call is external |
| `AgentInspector` | the inspector of a chat's agents, the hierarchy pushed to it and the transcripts read for it | each run of `refreshSelectedSession` is a record; its subscription is in parts that come in any order: the hub reads the count (`HubReads`), the reply arrives (`RunSnapshot`), the consumer of entries starts (`ConsumerStarts`), later snapshots arrive, older ones last if rounds of broadcasts overlap (`RunBroadcast`); what a stopped run asked for is still answered, and not looked at |
| `MCParts`, `MCStores`, `MCClient` | composites: each behaviour is one of their parts' (`focus`) while the others rest | parts share no variable; a property of one part is checked in the behaviours of that part |
| `*Proofs` | | inductive invariants and theorems |
| `MC*` | | symmetry sets of the runs |

Every stretch of code between two awaits is one action. In `RunnerAgent` the actions bear the
names of the handlers (`StartTurn` is the part of `startTurn` before `createTurn` is awaited,
`CreateTurnOk` and `CreateTurnFail` the part after it, `Finally` the `finally` of `runTurn`). A
Codex queue is filled and closed in one stretch, and `runTurn` drains it in microtasks before the
process reads anything else, so its result, its end and a plan's follow-up are one step. A Claude
stream ends when its process does, any time after its result or its interrupt. In `TurnPipeline`
`SubmitMessage` is the synchronous start of `queue` or `send`, `RequestStart` the request,
`StartAccepted` and `StartRefused` what follows the reply, `ConsumeEvent` a `handleEvent` up to
its await and `ConsumeTurnEnd` with `ApplyTurnEnd` the rest. In `EventStore` an operation checks
the state in memory and appends to `writeChain`; `Written` is one link of the chain.

Operators introduced by "Fault seeded in ..." are not part of the model. Each is the mutated form
of the definition after it and stands for a plausible mistake; `PROJECT.json` pairs each with the
property that notices it.

## 3. Runs

| Run | Result | What it shows |
| --- | --- | --- |
| `Runner` | holds | A chat of either provider: starts, cancels, answers and harness events may interleave as they like. One live turn per chat (`OneLiveTurnPerChat`; a Claude chat has two commands here, and needs three to break it: see `RunnerDuplicate`), a live turn that is lost only through a cancelled stream of its chat (`LiveTurnTracked`); a log that tells the status; one verdict per turn; answers that reach the asker; a cancelled turn is silent and ends |
| `RunnerDuplicate` | violated | `OneLiveTurnPerChat` fails for Claude: see below |
| `PipelineOrder` | holds | A message starts one turn at most; the hub knows that a chat is busy or is about to read so; when it has read everything, its status is right |
| `PipelineLost` | violated | `NoQueuedMessageLost`: see below |
| `PipelineStuck` | violated | `QueueDrains`: see below |
| `Stores` | holds | `EventStore` implements `DurableStore` under crashes, restarts, replays, compactions and failed writes, as long as no write is torn and no process dies while it compacts (`StoreKeepsPromise`); a restart rebuilds the other records from logs replayed in another order (`RestartRebuilds`); overlapping claims are marked (`ActiveClaimsAreApart`); the transcript cache tells all (`CacheTellsAll`), a session made from others is told of each of them, by excerpts that keep to their limits (`SeedsAreTrue`), and the inspector shows the agent selected (`InspectorTells`), which are `TranscriptsAreTold`; a sandbox's record is true of its container (`SandboxIsKept`) |
| `Client` | holds | a tab's views catch up (`ViewsCatchUp`), its transcript is of the chat shown (`ShowsItsChat`); no acknowledged message is lost (`AckedIsKept`) and the cards of a question send what they show and tell what the agent was told (`AnswersArrive`), which are `SaidIsHeard`; each entry is rendered once (`RenderedFaithfully`), the model shown is the model run (`ShownIsRun`), the route is a place that exists (`PlacesAreReal`), a Puggy template means its indentation (`TemplatesMeanTheirLines`), and a reader who left the tail is not moved (`ReaderIsLeftAlone`) |
| `ScrollStuck` | violated | `InitialScrollEnds`: see below |
| `Delegations` | holds | one settlement and one result for each child, an exact count of blocking children and a parent that its last child resumes (`ParentsResume`), with a hub that restarts between any two awaits |
| `Parts` | holds | eight parts of the hub and runner, each for itself: each call of the hub's pipeline ends, with a request that times out and a resumed parent (`EveryCallSettles`); a Codex turn's transcript holds its own items and every turn ends (`OwnTranscripts`, `TurnsSettle`); the two indexes of the agent hierarchy agree and waits end (`ListedAgentsAreTracked`, `WaitsSettle`); a stopped workflow run stores no more steps and every run ends (`StopsAndEnds`); updates go forward and are run (`InstallsForward`, `InstalledRuns`); frames stay in order (`FramesInOrder`); a ready runner listens (`ReadyIsListening`); no live shell escapes (`ShellsAreOwned`) |
| `StoreUnread` | violated | `UnreadSurvives`: see below |
| `StoreTorn` | violated | `HistoryKept`: see below |

**What the violations say.**

* `RunnerDuplicate`: `runTurn`'s `finally` deletes `activeTurns[chatId]` (line 390) though the
  entry may belong to the turn that replaced the cancelled one. The next start is not refused.
* `PipelineLost`: `drainQueuedTurn` reads the queue, then awaits its clear (lines 193-196). A
  message whose enqueue was applied in between is wiped, and its sender was told it is queued.
* `PipelineStuck`: a Claude turn publishes `turn_finished` with its result and keeps its entry
  until its stream ends. The drain set off by that event is refused as already running, puts the
  message back, and no event is left to drain it. The same queue is also stuck when `createTurn`
  fails for the drain, when an enqueue is applied after the end of the turn it waits for, and
  when a turn ends from `waiting_for_user` (`server.ts:525`).
* `StoreUnread`: all of `chats.jsonl` is replayed before `turns.jsonl`. A chat that was read
  after its turn had ended is unread after a crash. An orderly shutdown compacts and hides it.
* `ScrollStuck`: the restore of a chat is made stable by an interval and a timeout that the
  post-paint effect starts (`useScrollRestore.ts:105`). If the number of rendered units changes while
  they run, the effect's cleanup clears both and nothing starts them again: the phase stays
  "stabilizing", and the view does not follow its tail until another chat is opened.
* `StoreTorn`: the half line of a crash is skipped at the next start but not removed. The next
  event is written onto it; one line more, and the start after that finds a corrupt line in the
  middle of a log and empties all logs and the snapshot.

With two drains of one chat `StartedAtMostOnce` fails as well: the resume of a delegation's parent
(`server.ts:656`) runs beside the drain of `onStateChange`. It is not listed as a finding because at
this commit no orchestrator reaches the runner's turn factories, so an agent cannot delegate.

**What the properties let off.** Each of these is a place where the code does not keep the plain
property; the definition says so where it stands, and `PROJECT.json` lists the place as a hazard.
`OneResult` allows one result more for each boot that died while it told one. `TurnsSettle` leaves
out a start that hangs because the app-server died while it refused a resume, `WaitsSettle` a wait
whose agent is closed or cleaned up, `InstalledRuns` a process that was told of an install before it listens,
`FramesInOrder` a connection whose buffer dropped a frame, `ViewsCatchUp` behaviours with more than
one connection, the part of `ShowsItsChat` about completeness a recovery fetch that failed,
`InspectorTells` a run of the Refresh button that goes on for an agent that was left, an entry whose
frame came while the first answer was awaited, a fetch that failed, an event before the first
snapshot (it asks for one entry, and the snapshot, which tells of more, for nothing:
`SubagentIndicator.tsx:437`), an entry written between the hub's read of the count and the start of
the consumer and one that an older snapshot took back (431), all of which leave the inspector short
with nothing on its way; `AnswersArrive` the card whose own answer did not get through, a label with
the separator in it and blanks in the box, which look typed and answer nothing
(`AskUserQuestionMessage.tsx:202`), `ReaderIsLeftAlone` content that shrinks until the reader is at
the tail,
`ActiveClaimsAreApart` a claim whose creation a crash cut, `CacheTellsAll` an entry appended while
a transcript is read, `SeedsAreTrue` what was written to a source after it was read and the longer
header of an excerpt that omits lines, which no budget counts, `SandboxIsKept` the container of a creation that failed, `ShownIsRun` a chat
stored with a model id no catalogue has, `PlacesAreReal` a new chat whose row is still being
unpacked, `RestartRebuilds` two records that a restart leaves in a better state than it found.

**Bounds.** Chats meet in the runner only in the single start_turn subscription, and in the hub
only in the write chain, so a behaviour of `Runner` is about one chat: it already has every race, as
all maps are keyed by chat. Two turns are needed for a stale cleanup and a third for the duplicate
it admits; two tool requests for one that overwrites another. A Codex chat has three commands and
two requests, a Claude chat two and one, since its lingering streams multiply the states; the
duplicate of the third has a run of its own. Three messages are one that runs, one that queues
behind it and one that arrives during the drain; two drains overlap. The pipeline's chat is a Codex
chat except in `PipelineStuck`, for the same reason. In `Parts` the pipeline
has four turns, so that a start that timed out, the starts of two drains and one more each find one.

`Stores`: two chats for lines of different chats in one log, five writes for a create, a turn, a
queue, a clear and one more around a crash, logs compacted from three lines on, so that some starts
compact and some do not; four operations on other records and a restart (a conflict of two records
needs two operations in each log); three claims, so that one is released while two conflict; two
transcripts with a cache for one, so that a read evicts what another has read; four sandbox
commands, which is create, stop and two that overlap, and one death of the hub; one session made
of two sources, which share a budget, with limits scaled down so that a line is cut, a transcript
is too long for a fork and another too long for its share, and one change of a source meanwhile;
three agents, one of them Codex's own, with three runs of which some are the button's, and three
pieces of news, which are changes of the hierarchy, entries, later snapshots and presses of the
button: an agent appears, writes, and a snapshot tells of less.

`Client`: two subscriptions of a topic on two connections with an outage; two visits of two chats
with two entries, enough for an answer that arrives in the other chat; two tabs and two messages;
transcripts of five entries seen through a window of four, so that a call may be cut off from its
result; templates of three lines, which is one container, one line in it and one that leaves it;
two submits and two choices of a model on two chats; two chats, one of them yet to be made, and
three acts of a user; a view of two chats with two units that arrive and two guards on scrolls
under way; two tabs that show two questions, the second of which takes several options, and three
clicks, with a text, two texts and blanks to type. With three or four chats
`Navigation` holds as well, and `QuestionForm` with a fourth click, which lets both tabs submit,
outside the time a run may take.

`Delegations`: a parent with two agents, which is the least with a gate to get wrong, two
reconcilers, which overlap, and the hub's restarts, cancels and deletions dealt out by `Budgets`,
because all of them at once are beyond reach. `Parts`: two turns of a Codex session (one that
ends, one that receives its late notifications); two agents under a root with a limit of one and
two waits; workflows of two steps on two repositories with each failure policy; three releases, so
that an old answer can lie between two installs; five frames and a buffer of two; two runners and
two attempts; two terminal ids and four shells, so that both ids are re-used.

`CHECK_DEADLOCK` is off where the system is at rest once its bounded work is done.

**Fairness.** `RunnerFairness`: the cancel timeout fires (a `setTimeout` of the code), and a
stream that was interrupted, closed or has yielded its result ends. The second is an assumption
about the SDK; nothing is assumed of interrupts being answered, of users or of models.
`PipelineFairness`: event loops and the write chain run, messages arrive, the runner takes its
commands, and each turn comes to an end in some way. `DelegationFairness`: the consumer handles the
events that are there, a boot goes on and a reconciler takes its next step; nothing makes an agent's
turn end. `PartsFairness`, for the part in focus: that of the pipeline; the app-server answers what it was asked or exits, and the
user responds to a request; the timer of a wait fires; stored workflow events are applied and
dispatched steps come back; a process told to stop stops and its supervisor notices, and one that
starts comes up. `ScrollSpec`: React renders what is
due, announced units arrive, the observer reports and timers fire; readers do as they like. The parts
of `Stores` and `Client` are checked for safety only.

**Assumptions about code outside this repository.** A Claude stream ends only after its result, an
interrupt or a close, or by throwing. The Codex app-server asks for nothing after a turn's end. NATS
core delivers requests in order per subscription, JetStream the events in stream order, once each
while both processes live. `appendFile` puts its bytes at the file's end; what a failed or
interrupted one leaves is a prefix of the line.

## 4. Proofs

`PipelineProofs` proves of `RunnerAgent`, for any sets of chats, turns and tool requests:

* `TypeCorrect`: `RunnerSpec => []RunnerTypeOK`, one step per handler.
* `LiveTurnsAreTracked`: `RunnerSpec => []LiveTurnTracked`. The property is not inductive: that
  a cleanup removes only what a cancel explains needs to know whose entry it is and who may be
  creating a turn. `RunnerInv` adds `EntryIsLive` (an entry is a live turn, since cancel removes it
  at once), `CreatingHasNoEntry` (a turn is created while its chat has no entry, hence `CreateTurnOk`
  overwrites none), `OneStartAtATime` (a Claude turn is created by the start_turn subscription,
  which is serial), `OneTurnPerSession` (a Codex session refuses a second turn) and
  `UnusedIsFresh`. Steps are sorted into kinds (`QuietStep`, `StartStep`, `CreateStep`,
  `FinallyStep`, `FollowUpStep`, `CancelStep`), each a lemma with one case per conjunct.
* `CodexRunsOneTurn`: if every chat uses Codex, `RunnerSpec => []OneLiveTurnPerChat`; with Claude
  chats `RunnerDuplicate` shows it false.
* `CancelIsFinal`: `RunnerSpec => CancelledStaysSilent`. `SilentStep` takes each handler that
  publishes: `runTurn` asks `cancelRequested` itself, while the others never do and are silent only
  because, by `RunnerInv`, they act for a turn that has its entry or is about to get it.
  A tool request of a cancelled stream publishes only the two events the property allows.
* `AnswersReachAskers`: `RunnerSpec => []AnswerReachesAsker`. An entry is made for a turn that
  has asked for nothing (`UnaskedBefore`), and a request is settled in the same stretch in which
  its turn loses it, so that what an entry waits for is pending (`PendingIsAsked`).
* `EveryTurnHasOneVerdict`: `RunnerSpec => []OneVerdict`. `VerdictInv` relates the log to the phase
  of each turn of Codex (`Fits`): a turn that is being read has been announced and has no outcome,
  one that is being created was announced only if it follows up a plan, and one that ended has an
  outcome if it was announced. `CodexHarness` says what the harness of such a turn may be at.
  `VerdictsAdded` and `MarksAdded` say what an append adds to the events the properties count.
* `LogTellsStatus`: `RunnerSpec => []StatusPublished`. The log's reader is given a definition that
  appends do not disturb (`Tells`): the last mark of a chat, or what it was before. Its last mark
  makes the status at every step (`StatusInv`), which for a turn that follows up a plan is "running"
  before it has an entry. `SessionHeld` is why no other turn of the chat can say otherwise.

It proves of `TurnPipeline`, for any chats, messages, drains and slow calls:

* `PipelineTypeCorrect`: `PipelineSpec => []PipelineTypeOK`.
* `HubKnowsItsChats`: `PipelineSpec => []HubKnows`. The property speaks of a hub at rest; `HubInv`
  says at all times that the hub's view, the end of a turn it is about to apply included, makes the
  runner's status once the events it has not read are added (`HubTold`). It needs `EndIsAwaited`,
  which is the await that makes the consumer wait for the write of a turn's end, and `LastWords`:
  while a turn of Codex is read, the last mark of its chat is its own.
* `StartsOnce`: `PipelineSpec => []StartedAtMostOnce` where `Delegations = {}` and no drain is slow.
  Both hypotheses are limits of the code and not of the proof: a parent that is resumed is drained
  beside `onStateChange`, and a drain whose request times out puts back what the runner may start all
  the same. `OnceInv` says that a message is in one place (`OnePlace`): in the hand of a call, in a
  queue, or in a request that was not refused. A drain reads the queue before its clear is applied;
  that it clears all that it read, and that no second drain reads the same, rests on the order of the
  write chain (`ChainOrder`, `ClearLink`): the end of a turn, which alone sets off a drain, is
  applied only when the drain before it has cleared.

The other modules of proofs, each about any values of the constants:

* `DelegationProofs`: `DelegationTyped` (one step per action), `ParentHearsOnce`
  (`[]OneResult`) and `SettledStays` (a final status never changes). `DelegationInv` adds what makes
  the compare-and-set count: a record whose revision a reconciler still holds is active
  (`ReadersAreBehind`), so that one reconciler wins and alone has a result to tell (`OneWinner`); the
  boot's sweep runs while no reconciler does (`SweepIsAlone`); and all results of a record but one
  are of boots that were cut, all of them while its own is still to come (`ResultsCounted`).
* `DelegationProofs`, `TheParentIsTold`: `[]SettledIsTold`. The property speaks of what is settled;
  `SettledOnceTold` adds that nothing is told before, so that the winner makes it one, and
  `SweptAreCut` that the boot's sweep, which settles in an order of its own, touches only what the
  death of a hub cut off.
* `DelegationProofs`, `ParentsAreResumed`: `[]ParentsResume`. `blockingCount` is the cardinality of
  the delegations between their second put and the injection of their result (`Counted`); a boot
  counts anew, and finds only what was created to the end (`CreatedFirst`). `LastOneResumes` follows
  from `OneOpens`: of the delegations a parent awaits there is always one that has still to come to
  the gate or has resumed it, since the one that finds others counted leaves the gate to them.
* `StoreProofs`, `StoreTypeCorrect` and `StoreImplementsPromise`: `StoreSpec => StoreKeepsPromise`,
  the refinement of `DurableStore`, where `Faults` has no torn writes. That is a limit of the code:
  `StoreTorn` shows that a torn line costs the whole history. `PromiseInv` says that what a start
  would recover shows the same chats as the memory (`FilesTellAll`). A written line must then do to
  the recovered state what its event did to the one in memory, although a restart replays all of
  chats.jsonl before all of turns.jsonl: `ReplayedEarlier` proves, over a turns log of any length,
  that an event of the one commutes with those of the other as far as the promise goes
  (`EitherOrder`), unless it creates a chat that they are about. `CreatedOnce` rules that out: an id is
  handed out once and nothing is written about it before. Replays are reasoned about by induction on
  the length of the log: `NumberByNumber` gets it, without an operator as a parameter, from the
  well-foundedness of finite sets, and `ReplayGoes` gives the recursive function `Replaying` its
  equations.
* `StoreProofs`, `ClaimsKeepApart` and `ReleasedIsFinal`: `ClaimInv` follows a claim through the
  write chain: claims become known in their order (`KnownInOrder`), the chain has one event of a
  command that creates, and a creation in it is of the next claim (`OneCreation`, `CreationIsNext`),
  a mark is ahead of any release of its claim (`MarkIsFirst`), a release is of a known claim
  (`ReleasesAreKnown`).
* `StoreProofs`, `RecordFollowsContainer`: `SandboxSpec => []SandboxIsKept`. `SandboxInv` says what
  each command under way has done and may still do: while one creates no other does, and none is about
  what it creates (`CreateIsAlone`), and the container it made is named by the record in the end, or
  is lost with a failure (`cutShort`). `PlainInv` adds, while no commands overlapped, that
  the record is true between commands (`RecordIsTrue`) and how far from it each step of one is
  (`CommandIsTrue`).
* `StoreProofs`, `TranscriptsAreCached`: `CacheSpec => [](CacheTypeOK /\ CacheTellsAll)`. Every entry of
  a chat is in its file or in the write chain, in order and once (`FileInv`). A read that waits
  behind some links of the chain will therefore find every entry but those it noted to miss
  (`Finds`), however many writes and other reads come meanwhile; and a chat is cached once, since
  what was cached of it is taken out before it is cached anew (`WithoutOne`).
* `StoreProofs`, `RecordTypesHold` and `RestartsRebuild`: `RecordSpec => []RestartRebuilds`. What a start
  would find is one value, `RestartedFrom` of the snapshot and the logs, and `RecordInv` keeps it
  beside the memory and the write chain. A line more at the end of one log changes that value as the
  event would, because the logs replayed after it commute with it: `AppliedParts` says what an event
  makes of each part of the state, `EventsCommute` that events of different logs may change places, and
  `LinesAfter` and `LogsMore` carry one past a log and past the rest of them, by induction over
  the length. Events of chats and of repositories do not commute: a chat created in a repository that
  has just been removed stays in it, and a replay, which has the chats first, takes it out. `RestartCreated`
  says that a start has a new chat where it was put or, when that repository is gone, in none, which
  needs that the first event about a repository is the one that makes it (`AddsFirst`, `AddsNext`). So `Fits` does
  not say that the value is the memory, but that what is neither a workspace, a place of a chat nor a path is the same and
  in which ways those may differ (`SameWorkspaces`, `SamePlaces`, `SamePaths`); that a path leads to the last
  workspace open there (`PathLeads`); and that a workspace or repository yet to be made by the chain
  has a number nothing before it is about (`OpensNext`, `AddsNext`, `BelowOps`).
* `TranscriptProofs`, `SeedsHaveTypes` and `SeedsHold`: `SeedSpec => [](SeedTypeOK /\ SeedsAreTrue)`, for
  transcripts of any length. What a call has read and made is tied to the stage it is in (`JobFits`):
  what a session was made from was read whole before its intent is analyzed, each source read has a
  summary when the prompt is sent, and a source is closed only after that. That the excerpts keep to
  their limits is arithmetic over sums that a recursive function computes, by induction over the number
  of terms (`SumExists`, `SumGoes`): fewer lines cost no more (`CostOfFewer`), the newest that fit leave
  the header its room (`FittingFits`), and shares that are each rounded down add up to no more than
  what is shared (`SharesFit`, `BudgetsFit`).
* `TranscriptProofs`, `InspectorIsTrue`: `InspectorSpec => []InspectorTells`. Once the reply to its
  subscription was seen, a run that is not stopped has counted, or is yet to be told by an event, every
  entry of its agent, unless one is untold; without a consumer it has no events and counts no more than
  there is (`RunFits`). Until
  its first answer it has asked at most once (`AsksInv`). The last thing it asked
  for is as much as it had counted, unless a frame will ask again or came too early and is missed
  (`LastInv`, `UpToDate`); answers come in the order of the questions, so what is shown in the end
  answers that one. While the inspector is open the agent selected is followed by a run
  (`FollowedInv`), and no other writes what is shown unless the Refresh button started it. That a
  run is owed no more events than the agents wrote is `EventsFit`.
* `TranscriptProofs`, `StoresTyped` and `TranscriptsTold`: `StoresSpec => []StoresTypeOK` and
  `StoresSpec => []TranscriptsAreTold`, of the module that puts the parts of the hub's stores side by side.
  `PartsBehave` says that each part behaves as its own specification there; the theorems of the
  parts do the rest.
* `NavigationProofs`, `PlacesStayReal`: `NavigationSpec => [](NavigationTypeOK /\ PlacesAreReal)`.
  A chat shown is one of the rows, the one that is pending, or one whose snapshot or subscription is
  still on its way (`SettledInv`, `ToBeServed`); a row is of the last sidebar on its way or of the
  hub (`RowsInv`), what is pending was stored or is being created (`PendingInv`), and a hidden
  chat is being deleted (`DeletingInv`). With nothing left on its way each names a chat there is, unless its
  delete was refused: the property lets off what `RefusedInv` keeps account of. That nobody is
  taken away from a new chat is another invariant, `KeptInv`, which holds while the sidebar is not unpacked:
  a chat nobody deleted is listed from the first sidebar that has it on, and that one is ahead of
  every snapshot of the chat (`ListedInv`, `ShownInv`), because the hub broadcasts the one before the
  other and an id is created once (`CreatesInv`).
* `HubPartsProofs`: `BrowserIsGreetedOnce`, by what is skipped being the greeting, and
  `ServerHearsInOrder`: `OrderInv` says that the frames heard and then those held rise without a gap
  to the last one sent, and that none is held once frames are passed on.
* `HubPartsProofs`, `HierarchyIsConsistent`: what a spawn found before its await is still so after it,
  because a chat is registered once and by its own spawn (`KnownIsRegistered`,
  `SpawnsKeepTheirLevel`, `OriginsFromSpawns`), and an agent that a cascade cleans up leaves both
  indexes in one step, whatever it was doing.
* `HubPartsProofs`, `TranscriptsAreTheirOwn`: `[](CodexTypeOK /\ OwnTranscripts)`. No message of the
  app-server is compared with a turn. That it is still about the pending one is `ServerFits`: the turn
  it works on is pending and not yet over, and has been told as much of its item as the app-server
  sent. The reason is `OneIsBusy`, which the runner keeps up by ending one turn of a chat before the
  next (the app-server never has a second turn before it, which `ServerRecord` states). `TurnTold`
  says what a turn's transcript may hold: a tool was shown exactly if one of the two sets of ids has
  it, while the turn is not done, and a search that waits for its text was shown.
* `ClientProofs`, `ScrollTypeCorrect` and `TheReaderStays`: `ScrollSpec => []ScrollTypeOK` and
  `[]ReaderIsLeftAlone`. `ReaderInv` says that while a reader the tab knows of is up, the
  store is detached, the initial scroll does not run and no position is due to be restored. The bound on the
  depth of the guards, which the type states, is not inductive alone: each of the two effects that
  run may hold one more than was asked for (`Held`).
* `ClientProofs`, `ComposerShowsWhatRuns`: `SessionModelSpec => []ShownIsRun`. What a composer showed
  is kept with the request from its submit to its turn, through the queue of the chat and the forks:
  `AsksForShown` says that a request asks for it, and `WaitsForIts` that what waits of a chat is of
  the provider the chat is locked to; a composer's overrides are of the chat it shows
  (`OverridesAreOfTheChat`). That to normalize twice is to normalize once is a lemma.
* `ClientProofs`, `AnswersAreTold`: `QuestionSpec => [](QuestionTypeOK /\ AnswersArrive)`. A card is
  done by its own submit or by a result it has seen; a request has no result while it is pending, and
  the first result it gets tells what the agent was told (`ResultsInv`), whatever follows. What a form
  sends is what it shows because a single choice is given up for what is typed (`Ticked`), and an
  option of several that is ticked again leaves no piece of its own behind (`WithoutLabel`, by induction
  over the length of the text). Two limits of the code are hypotheses: an option has a label, since one
  without looks chosen before anything is (AskUserQuestionMessage.tsx:220), and the options of a
  question with several choices have no separator in theirs.
* `TabProofs`, `ViewsAreCurrent`: `ClientSpec => [](ClientTypeOK /\ ViewsCatchUp)`. `ServedInv` says
  of the connection in use that each subscription is fed by it, and that either its request is on its
  way or what it will show in the end is what the publisher sent last: the version of the last
  message for it on the wire or, with none left, what it shows (`Ends`). It is needed because the publisher
  does not repeat what it sent last, which `PublisherInv` relates to the data and to who
  subscribes. `RequestsInv` keeps an unsubscribe that was sent late from taking away a subscription
  in use, and `ConnsInv` a connection being closed from being the one in use; while there are not two
  connections, one that is neither unused nor closed is the only one (`OneConnection`).
* `TabProofs`, `ScreenIsOfItsChat`: `ViewSpec => [](ViewTypeOK /\ ShowsItsChat)`. A fetch or a message
  is of a visit that has ended, and then ignored, or of the chat of this one (`OnItsWay`). That the
  screen is complete when nothing is on its way is `CompleteInv`: unless a broadcast is due, the last
  message to a subscribed visit has all entries (`EndsAt`) and, with none left, the screen has them
  or was wiped. The wipe needs `RecoveryInv`: only the timer of the visit starts a recovery, and
  it fires once, so that one that fails leaves none of its visit behind (`OneRecovery`).
* `TabProofs`, `AckedStaysKept`: `SubmitSpec => [](SubmitTypeOK /\ AckedIsKept)`, which is inductive
  with the types. A text leaves the queue for a drain, and a drain for a turn or back to the queue,
  where `Coalesced` puts it with what came meanwhile; that joining, taking out and putting back
  keep the messages is `MessagesOf` and `KeptApart`.
* `TabProofs`, `TabTyped`, `SaidAndHeard` and `TabIsSafe`: `ClientPartsSpec => []ClientPartsTypeOK`, `[]SaidIsHeard`
  and the other safety invariants but that of what templates show, of the module `MCClient` that puts the parts of
  a tab side by side (`TabPartsBehave`). The types needed three invariants more: `FoldTypeCorrect` has that a result refers to a call before it (`Refers`), `ModelsTypeCorrect` that the
  models of records are of a catalog or one of its models with a window (`ModelsKnown`), and
  `PuggyTyped` that a template is written of its lines.
* `TabProofs`, `TemplatesParse`: `PuggySpec => []ParsedAsIndented`. What the stack holds after each line is
  described by indentation alone: a frame for each line from the root to the last one, every one
  the nearest less indented line above the next (`Stacked`). While the scan goes on, the lines so far
  are where their indentation puts them (`ParsedTo`), and it stops at the first that is not well
  written; `ParsesAsIndented` follows it line by line.
* `TabProofs`, `TranscriptsAreShown`: `FoldSpec => []RenderedFaithfully`, for transcripts and windows of any
  length. It is no invariant of steps but what two scans compute from each transcript that
  satisfies `Refers`. The messages are the entries of the window in order, each with the results of its call
  (`ItemsInv`, proved of the cases of `MessageOf`), so that no entry is a source of two. The units come
  from a recursive function on positions, whose equation is proved first and which is then followed from
  the end of the messages to the front: from each position on, the units are laid without gaps
  (`LaidFrom`), each over an interval of messages of which it shows all sources (`Shows`), and only what
  may be folded is in a block or a group (`Foldable`). Of the whole, intervals are disjoint, rise and
  leave out what is skipped (`Whole`), from which order, keys and completeness follow (`OnceInOrder`,
  `NothingFolded`); that putting sequences together keeps them apart is `Flattened`. The last text of a
  turn that is over is shown since a unit of work never contains the answer (`AnswerIndex`).
* `HubPartsProofs`, `InstallsMoveForward`: a process that serves knows the release on the
  disk though it may run an older one, and what it would install is newer (`KnowsTheDisk`).
* `HubPartsProofs`, `ReadyRunnersListen`: a heartbeat on its way was sent after its runner
  subscribed (`BeatsAreHeard`), and so was the one that is counted (`FreshHasListened`).
* `HubPartsProofs`, `NoShellEscapes`: the shell an exit callback finds under its id may be another
  one, but a running shell always bears a listed id (`OwnersAreIds`).

* `HubPartsProofs`, `AbortsAreSeen`: `WorkflowSpec => AbortIsSeen`, the safety half of `StopsAndEnds`. Only
  `EnterPosition` moves the engine, and it looks at the abort; the rest of the proof is that no other
  way out of an await takes up a step. `WorkflowInv` says for that which event is whose: the only one
  that `cancel` stores is "cancelled" (`EventRecord`), so that the engine is never continued by an
  append that is not its own; and a rollback that awaits a dispatch has a step left to undo.
* `HubPartsProofs`, `PartsTyped` and `PartsAreSafe`: `PartsSpec => []PartsTypeOK`, and of the same
  specification the six invariants of the parts, which the module `MCParts` puts side by side. For the types
  there are four invariants more: `WaitsTyped` of the calls that wait for agents, `FramesBounded`
  (the buffer keeps to its limit since what is put into it before the greeting finds it empty),
  `ReleasesBounded` and `RunnersKnown`, that what is registered and watched was started.

The assumptions are those of the modules on their constants, and TLC evaluates each: null values
are no members of the sets they are null for (`RunnerConstants`, `DelegationConstants`,
`CodexConstants`, `SessionModelConstants`, `InspectorConstants`), indentations are natural numbers
(`PuggyConstants`), bounds are natural numbers (`RecordConstants` also names
the kinds of records there are; those of `ViewConstants`
positive, since there is a first visit; `SeedConstants` has the relations between the limits of
session-seed.ts:23-31), and a tab has finitely many
subscriptions and connections (`SessionConstants`).

`RunnerTypeOK`, `PipelineTypeOK`, `DelegationTypeOK`, `RecordTypeOK`, `GreetedOnce`, `SettledIsFinal` and
`ReleasedStaysReleased` are proved and have no run of their own.

Model-checked only: liveness and ENABLED, which the provers used here do not treat; and what a
template renders (`TextsAreShown`, the other half of `TemplatesMeanTheirLines`). Induction over a length is proved where
`StoreProofs`, `ClientProofs` and the fold of a transcript in `TabProofs` need it, but the library's
induction theorems cannot be used, and each such function needs its equations proved first.

## 5. Not modelled

Text: transcript entries, titles, wording. Provider protocols beyond what they do to a turn: the
messages of the Claude SDK appear as what a harness may do to the runner, and of the Codex
notifications those that change a turn. The death of the runner, which nothing recovers. Restarts of
the hub in `TurnPipeline`; `Delegation` has them. A death inside `compact()` or `clearStorage()` and
requests in flight at a shutdown: both break the promise of `DurableStore` and are listed as
hazards. `destroy` of the orchestrator, which ends with its hub, and a cascade from a chat that is no
agent. The awaits inside `computeSnapshot` of a chat but for the inspector: that a round of broadcasts
may publish an older snapshot after a newer one is in `AgentInspector` only. `openProject`, which checks for a project and then appends it, so that two calls store two.

RuntimeRegistry (installation and probing of binaries), the NATS daemon, streams and bridge
(start-up of an external broker; its ordering is an assumption), session discovery and search,
titles, push notifications and extensions, React components without a protocol (the
client's terminal panes and their layout store are mounted nowhere at this commit), the
migration of legacy logs: mostly input and output, one call each. The components marked
`not_modelled` in `PROJECT.json` bear their reasons.

## 6. Plan

Done: the runner, the pipeline, the store with its abstraction, delegations, the orchestrator, the
smaller parts of the hub, the client's connection, transcript, submits, models, routes and
scrolling, and the proofs above.

Left, in this order:

1. A restart of the hub in the pipeline, with TranscriptConsumer resuming from its sequence number.
2. `RestartRebuilds` for single records, as a refinement in the manner of `DurableStore`.
