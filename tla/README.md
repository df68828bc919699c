# KERAI in TLA+

KERAI is a local-first assistant. A user gives it a *mission* in a browser page (the
control surface); an ASP.NET **Server** stores the mission in SQLite; a separate
**Worker** process claims it, lets a local language model plan and call tools until it
has an answer, and stores the outcome; events written on the way reach the page over a
WebSocket. The two processes share nothing but the database file. This directory models
that system in TLA+, checks the models with TLC on small instances, and proves the most
important properties with TLAPS for all instances.

Paths below are relative to `src/src/` unless they start with `apps/` or `docs/`; files
named `.ts` or `.tsx` without that are in `apps/control-surface/src`.

## 1. Inventory

### Components, their state and operations

| Component | Code | State | Operations that change it |
|---|---|---|---|
| Mission contracts | `Kerai.Contracts/Contracts.cs`, `MissionTransitions` in `Kerai.Runtime/Runtime.cs` | none: the statuses and the table of allowed moves | - |
| Mission store | `Kerai.Storage/SqliteMissionStore.cs` | table `missions` | `Create`, `Transition`, `SetResult`, `ClaimNext`, `ClearTerminal` |
| Agent | `Kerai.Runtime/Agent.cs` | one run: attempt, iteration, conversation, executions | `RunAsync` and all it calls |
| Mission worker | `Kerai.Worker/MissionWorker.cs` | the mission it is running | claim loop, `FailMissionAsync`, stop |
| Request handlers | `Kerai.Server/Program.cs` | none of their own; each is several statements | `POST missions`, `POST transition`, `DELETE memory`, automations, approvals, settings, `/ws` |
| Event bus | `Kerai.Storage/SqliteEventBus.cs` | table `events` (AUTOINCREMENT ids) | `Publish`, `ClearAll`; read by `Since`, `Recent` |
| Broadcaster and hub | `Kerai.Server/EventBroadcaster.cs`, `EventHub.cs` | watermark `lastId`; list of sockets | poll, send, advance; `Add`, `Remove` |
| Automations | `Kerai.Storage/SqliteAutomationStore.cs`, `Kerai.Worker/AutomationScheduler.cs`, `AutomationRules` in `Runtime.cs` | table `automations`; the pass being fired | `Create`, `Update`, `Delete`, `MarkFired`, the scheduler's pass |
| Live store | `apps/control-surface/src/lib/live.ts`, `api.ts` | the socket, a flag, timers, the missions and the activity all pages show | `connect`, `onopen`, `onmessage`, `onclose`, `refreshInitial` |
| Mission checklist | `lib/activity.ts`, `MissionCard.tsx` | none: derived from the list of activity | - |
| Voice controller | `lib/voice.ts` | microphone, recogniser, audio element, drive loop, status, timers | its methods and the callbacks of five browser interfaces |
| Audio analysis | `lib/audio.ts` | meters, speech detector, smoother | one step per frame |
| Neural core | `KeraiNeuralCore.tsx`, `lib/neural.ts` | the frame loop, the interpolated knobs | frame, hide, show, dispose |
| Home page | `HomePage.tsx`, `lib/brain.ts`, `CommandInput.tsx` | chat bubble and its timer, requests in progress, results read out | inputs, answers, timers, toggles |
| Data pages | `AutomationsPage`, `MemoryPage`, `ModelsPage`, `SettingsPage`, `SystemPage`, `WorkspacePage`, `AppShell`, `routes.ts` | the data shown, requests and a change in progress | mount, poll, refresh, change, leave |
| Approvals | `Kerai.Storage/SqliteApprovalStore.cs`, `Kerai.Runtime/Permissions.cs` | table `approvals`, which nothing fills | `Create` (no caller), `Approve`, `Deny` |
| Sub-mission dispatch | `Kerai.Runtime/Tools.cs`, `AgentLanes.cs` | none: writes missions | `submission.dispatch` runs a child mission inside a tool call |
| Settings | `Kerai.Storage/SqliteSettingsStore.cs` | table `settings`, a cache per process | setters |
| Ollama client | `Kerai.Runtime/OllamaClient.cs` | the stream being merged | `GenerateAsync` |
| Mission pages, overlays, tools, workspace, monitors | the rest | I/O and presentation | - |

### How they interact

* Server and Worker call each other only through rows. Every SQL statement is atomic,
  and a handler or the worker loop is a sequence of statements between which anything of
  the other process may run.
* Status changes go through `Transition` (optimistic: SELECT, then UPDATE with the
  status in its WHERE clause, retried) or through `ClaimNext` (one UPDATE). Results go
  through `SetResult` (SELECT, then UPDATE by id).
* An event is published by the writer *after* the row it announces, by a statement of
  its own that a crash or a failure may prevent. The broadcaster polls the table every
  300 ms, and for the events of a start and of an end reads the row again and sends it
  too. That a mission was created, or is being verified, sends no row: a page learns it
  from a snapshot.
* The scheduler only creates missions, by the store the handlers use.
* In the browser there is one event loop. What happens between two turns of it - an
  answer, a message, a timer, a promise, an event of a media element - comes in any
  order. The live store is a module of its own that all pages read; the other pages ask
  for their data themselves. The home page owns the voice controller, whose drive loop
  feeds the neural core.

### What is hard

* **Interleaving of statements.** Cancel, "Forget all" and the run of the same mission
  meet at any statement of any of them.
* **Failure in the middle.** Completion is four statements and failing a mission is four
  more; each may throw, and each process may die between two of them.
* **A run that must end.** Two nested loops, empty answers, failing tools, and a user
  who cancels or deletes the mission while a model turn is under way.
* **Delivery.** A watermark over a table that is cleared under it, sends that fail half
  way, sockets that come and go, a row that is newer than its event.
* **Time.** Schedules counted from the last fire, edited while a pass is firing from a
  list read earlier.
* **Callbacks that come late.** A promise of an audio element that was paused, the error
  of an utterance that was cancelled, the end of a recogniser that has been replaced, a
  snapshot that was read before a streamed update, an answer for a page that has been
  left.
* **Several owners of one resource.** Microphone, drive loop, socket and frame loop are
  each started from several places and stopped from others.

`PROJECT.json` lists every such hazard at its line, with the properties that would catch
it going wrong, or the reason why none does.

### What makes each component correct

* Mission store: the status only moves as the table allows, however calls interleave;
  the retry loop ends; a new mission is never starved; a result is not written on a
  mission that has ended.
* Agent: bounded cost, an end, an end soon after a cancel; every tool call is answered
  before the next turn; completion only on a verified answer.
* Worker with handlers: a mission is claimed at most once, keeps its executor until it
  ends, shows an outcome that fits its status, and is brought to an end; the event trail
  tells no lie.
* Event stream: nothing skipped, nothing out of order, rows no older than the events
  that announce them, every event handled.
* Automations: rows keep a schedule the rules accept, fire no earlier than it says, stop
  when disabled or deleted, and do fire when due.
* Live store: one connection, always about to be restored; a page shows each mission's
  last announced state in the end, unless it has missed it in one of the known ways.
* Checklist: the card of a completed mission is settled and verified, once the page's
  list of activity lacks nothing new.
* Voice: one voice at a time, within reach of a stop, that ends; one drive loop; no
  microphone left running. Neural core: one frame loop, layers that stay on the
  canvas, a drive that comes to rest.
* Home page: a result is read once, "thinking" is true. Data pages: an older answer does
  not take back what the user has just changed, or is known to have.

## 2. Plan

Modules in the order they were written; the most important behaviour first.

| # | Module | Rests on | State |
|---|---|---|---|
| 1 | `MissionContracts` | - | done |
| 2 | `MissionLifecycle`, the abstract specification of a store | 1 | done |
| 3 | `SqliteMissionStore`, implements 2 | 1, 2 | checked and proved |
| 4 | `AgentLoop` | - | checked and proved |
| 5 | `MissionExecution`: handlers, workers, events; implements 2 | 1, 2; its grain rests on 3 and 4 | checked and proved |
| 6 | `EventStream` | - | checked and proved |
| 7 | `Automations` | - | checked and proved |
| 8 | `LiveStore`: snapshots and stream, over what 6 delivers | its server's side rests on 6 | checked and proved |
| 9 | `VoiceController` | - | checked and proved |
| 10 | `AudioAnalyzer`, `NeuralCore` | the second extends the first | checked and proved |
| 11 | `MissionChecklist` | 1 | checked and proved |
| 12 | `HomePage` | - | checked and proved |
| 13 | `Pages` | - | checked and proved |
| 14 | `MCControlSurface`: 8 and 10 to 13 in one instance | 8, 10-13 | checked and proved |

"Proved" means that every invariant and every action property a passing run checks of
the module is a theorem as well; what is eventually done is only checked (section 5).

What is left for later: `Dispatch`, a parent's tool call with its child mission and the
other workers, against 2; merging of streamed tool calls in `OllamaClient`, against a
reference definition.

## 3. The modules and the code

`PROJECT.json` maps each definition to its lines. The choices behind them:

**`MissionContracts`** has the statuses and `Allowed`, the table of
`MissionTransitions`, plus `Unborn` and `Deleted` for ids without a row.

**`MissionLifecycle`** is what any store promises: missions are created once, move one
allowed step at a time, and leave the table only when terminal.

**`SqliteMissionStore`** has one action per SQL statement and any number of `Clients`,
each inside at most one call. A call keeps the status its SELECT read (`seen`);
`TransitionUpdate` fires only if the row still has it, `TransitionRetry` is the other
branch of the same statement. `SetResultUpdate` has no such condition, as in the code.
The order of `ClaimNext` is `ClaimsBefore`. Timestamps are ranks. The approvals table
appears only as the set of missions with a live grant, which any step may change.

**`AgentLoop`** is one `RunAsync` against a free model (any sequence of empty, short,
real or tool-calling turns), tools that succeed or fail, and a user who cancels and
forgets at any moment. The bounds of the two loops are the constants of the code
(`MaxIterationsPerAttempt`, `MaxRecoveryAttempts`). Because
`PermissionEngine.RequireApproval` returns null for every tool
(`Kerai.Runtime/Permissions.cs:50-54`), the agent's branch that waits for an approval is
never taken, and the model leaves it out. (`docs/architecture.md` 259-260 describes
approvals for modifying tools; the code does not ask for them.) The contents of the
conversation are reduced to what the loop's decisions and the properties depend on:
unanswered calls, results of tools, kind of answer.

**`MissionExecution`** composes Server and Worker over the tables. One action per
statement, except that `Transition` is one step - module 3 shows that the real one
implements it - and that a whole model turn is one step, bounded by `MaxTurns` as proved
of module 4. `SetResult` keeps its two statements, because it is *not* atomic. Requests
are two steps, the write and the `Publish`, with a crash of the Server possible in
between. A worker can crash anywhere, be stopped, be restarted, and have any statement
throw, with the handler the code has at that place.

**`EventStream`** is the way of an event from writer to socket. A mission's row is
reduced to how far it has come (the three terminal statuses are one rank), since nothing
on this way tells them apart. A message reaches the sockets of the hub in one step; a
failing send has reached any subset of them. The histories `since`, `got` and `told`
record what each socket was sent; the code has no such state.

**`Automations`** has a clock in minutes and days of `Day` minutes. `Update` is two
statements, the read with merge and validation, and the UPDATE of all columns; the
scheduler's pass is List, then Create, MarkFired and Publish per automation. The
histories `unmarked` and `late` name the automations with a mission that MarkFired does
not know of, and count missions created after the row was disabled or deleted. Daylight
saving is left out: local time is the clock.

**`LiveStore`** has the module state of `live.ts` (`ws`, `connecting`, the timers, the
list the pages show) and, of the server, what `EventStream` shows in detail. A row is in
one of the states Created, Running, Verifying, Ended and Gone (deleted). `Write` moves
it; if the new state is one whose event sends the row (`Announcing`, the
`MissionStateEvents` of the broadcaster: a start and the ends), an event is owed, and a
later `Publish` puts it into the table, or `LosePublish` says it never comes. `Broadcast`
handles an event and sends the row *as it is now* to the sockets of the hub, unless it is
gone. `Due` is the last announced state of a row: a mission that was only created has
none, so a page may not show it until it is claimed, the user refreshes, or the socket
opens again (`HomePage.createMission` does not ask), and a mission in Verifying may be
shown as Running. Events that send no row are left out, and so are changes of status only
an API client would ask for (a mission set back from Verifying to Running);
`MissionExecution` has those.

A socket joins the hub some time after it was accepted. `Connect` opens one, or the
constructor throws and a timer is set. A snapshot is three steps, the request, the
reading of the list, and the continuation after `allSettled`, so that streamed messages
come in between. The history `lost` names the missions of which the page has missed
something; why that may happen is said at `CatchesUp`. A mission leaves it when the page
shows what is due of it *and* no message of it is under way: `upsertMission` does not
compare `updatedAt`, so that a message a snapshot has overtaken takes the list back, and
after "Forget all" there may be no later one to put it right. (The inductive invariant
of `ChangesArrive` made this plain.)

**`MissionChecklist`** has one mission, its rows in the events table (`trail`), and the
list of activity of a page as positions in that table. A status changes first (`Owing`)
and its entry is published by a later statement (`Published`) that may never run; the
worker goes on only when its own entries are out (`GoesOn`), while those of the Server's
handlers come at any time. On the page's side the broadcaster streams the entries in
order (`Streamed`), a pass that failed sends one again (`Repeated`), and one handled
while the socket is not in the hub, or that a restarted Server starts behind, is
`Overlooked`. `Refreshed` is the continuation of `refreshInitial`: the answer of
`GET /api/activity` *replaces* the list, and may have been read at any earlier time, so
it can be behind what was streamed or ahead of it. The history `missed` says that the
list may lack an entry newer than its oldest. `buildChecklist` is a set of operators on
the list, one per kind of step; a checklist is a *set* of steps, since their order is
that of the code's statements and no property depends on it. `Drawn` is the card, which
leaves a single step out. The limit of 300 over all missions becomes the number of
entries of this mission that still fit, and `Crowded` is an entry of another mission that
pushes off the oldest. The card is judged with the status the database has; how the
page's copy of the row lags behind is `LiveStore`'s matter.

**`VoiceController`** has one action per method the page calls and per callback the
browser makes: the two awaits of `startListening`, the four events of a recogniser, the
promise and the events of an audio element, the events of an utterance, and the three
kinds of timers. `phase` says what the browser does with each text, including one that
was paused before `play()` had settled ("halted" by an interruption, "aborted"
otherwise) and whose promise rejects later. The history `overlapped` says that two calls
of `startListening` were in progress at once, which the code does not exclude.

**`AudioAnalyzer`** is the arithmetic of `audio.ts` in percent, and the drive loop of
`voice.ts` frame by frame. Exponential smoothing is reduced to the share of the distance
a frame covers, a half or a tenth, rounded so that it arrives. `normalize` reads the
bytes of the analyser as decibels, as the code does: every byte from 0 to 255 is then
above the loudest level, so that one byte stands for all.

**`NeuralCore`** extends it with the renderer. A smoothed knob lies between the values
it has been approaching, so the model keeps the set `mix` of rows it may be a mixture
of, and judges the drawing by the worst of them, knob by knob, in thousandths of half
the canvas. `approachKey` is not called for `particleSpread`, so that knob keeps the
value of the idle row, in the code as in the model. `RingFits` says how far each layer
reaches. Hotspots, particles, wisps, the inner energy and the halo up to its gradient
stop at 0.8 stay on the canvas in every transition, to and from an error included. The
strands do as long as no error shakes them; while `chaosSpike` lasts they may leave it,
by less than a quarter of half the canvas. The halo's last stretch, from that stop to its
end at 2.15 radii, where it fades out, is cut off by the canvas in the loud states (up to
1.14 of half the canvas without an error), and the property says nothing of it. The frame
loop has the frame whose id `raf` holds, and `strays`, frames whose id has been
overwritten.

**`HomePage`** has the inputs (typed, spoken, quick actions), the classifier of
`brain.ts` on the groups of patterns an input matches, the chat bubble with its timer,
the missions being created, and the effect that reads results out, run after every
change of what it depends on, as React does. `ListChanges` lets the list go to any other
list: the live store may go back to an earlier one.

**`Pages`** has the pages that load data of their own, told apart by what the code makes
of answers (`Guarded`: the system page drops superseded ones), whether they poll, and
whether a change is followed by another request or shows its own answer. Data is the
number of changes made so far. The history `behind` says that an older answer replaced a
newer one, or that the request after a change failed; unless it is set, a page shows its
last change or something newer whenever the refresh of a change is not in progress.
Pages that ask for several things at once keep what has succeeded of them
(`allSettled`); here a refresh fails or succeeds as a whole. A change and the arrival of
its answer are one step, and a second change while the first is under way is left out.

**`MCControlSurface`** puts these parts, except the voice, into one instance: an initial
state chooses one part, which runs while the others are at rest. They share no state
that a model of this size could relate, and the product of their states would show
nothing more than their sum.

Each module also holds, next to the definition it changes, the operators marked "A
mutant": plausible bugs, used to test that the properties can fail. No definition of the
models uses them.

## 4. What the runs check

Check a module with `tlc -config <run>.cfg <module>`, the module as in `PROJECT.json`.

| Run | Module | Instance | Question |
|---|---|---|---|
| `store` | `MCSqliteMissionStore` | 2 missions, 2 callers, fair | stale reads never reach the status (`ImplementsLifecycle`), the retry loop ends, no new mission starves |
| `agent_run` | `AgentLoop` | 3 iterations, 2 recoveries, up to 2 calls a turn, fair | cost, cancel, answered calls, verification, termination |
| `exec_ui` | `MCMissionExecution` | 2 missions, 1 worker that may be stopped, users cancel and forget, fair | outcomes fit, executors are kept, every mission ends |
| `exec_api` | `MCMissionExecution` | 1 mission, 2 workers, users may send any status; 1 crash, 1 stop, 1 fault | `ClaimedOnce`, `EventsFollowState`, `ImplementsLifecycle` |
| `stream_order` | `EventStream` | 1 mission, 2 pages, 2 faults, fair | nothing skipped or reordered, rows keep up, every event handled |
| `automations` | `MCAutomations` | 2 automations, 2 users, 1 fault, 3 minutes, fair | rules, stopping, spacing, and that the due ones fire |
| `surface` | `MCControlSurface` | see below, fair | one connection that catches up, announced states that arrive or are known to be missed, one frame loop, layers that fit, a drive that settles, settled cards, results read once, true bubbles, fresh pages |
| `voice` | `VoiceController` | 1 recogniser, 2 texts, 3 calls, 2 microphones, fair | one voice, a true status, nothing stray, speech ends |
| `exec_frozen` | `MCMissionExecution` | 1 mission, 1 worker | finding 1 |
| `exec_restart` | `MCMissionExecution` | 1 mission, 1 worker, 1 crash, fair | finding 2 |
| `agent_grounded` | `AgentLoop` | as `agent_run`, 1 call | finding 3 |
| `voice_interrupt` | `VoiceController` | as `voice` | finding 4 |

**Why these bounds are enough.**

* A lost update needs a reader and a writer in between: two callers on one row. Claim
  order needs two rows. Calls on different rows do not touch each other's state, so
  `MCSqliteMissionStore` leaves out states with both two rows and two calls in progress.
* The agent's loops are uniform in their bounds: first, middle and last iteration, with
  first, middle and last attempt, are there with 3 and 2 (the code has 8 and 2); two
  calls a turn show a batch half answered. The cost bound is proved for all values.
* One crash, one stop and one fault can fall on every statement, in every order; with
  one mission and two workers, a claim can meet a claim, and in `exec_ui` two missions
  show a worker that goes on to the next. The safety properties of these runs are proved
  without any bound.
* In `EventStream`, two faults let a pass fail again after a failed one, or the Server
  crash after a socket dropped. The events of one mission (created, running, ended) make
  a trail of three; two pages show a send that reached one of them. "Forget all" can
  clear the trail at every point.
* In `MCAutomations`, three minutes hold a fire of a two-minute interval with its wait,
  and a day of two minutes and the next; either one automation is edited by two users,
  which is what a lost update needs, or nobody edits and a second automation waits
  behind the first in the pass. Longer times and more automations are covered by the
  proofs.
* In `surface`: two sockets, so that one may be opened while another is there; one
  mission of five states, so that an older message may be under way when the next event
  is lost, two refreshes in progress and one fault for the live store. For the checklist
  one tool, a table of five entries and a list of three: room for a tool that starts and
  ends, or for a verification that fails, before the one that completes, and for any of
  them to have fallen off; one slip, and answers of every age. Two chats, as an answer
  may come after the next question; one change of a page's data, so that an answer may be
  older than it. Of the seven states of the core five are given; the rows with the
  largest of each knob and the smallest radius, on which the drawing depends, are among
  them. The safety properties of these parts are proved for all values. The run has
  523,588 distinct states.
* In `voice`, two texts let each callback of one come under the other; three calls of
  `startListening` are what switching to hands-free makes at once.

Deadlock is checked in every run except `surface`, `voice` and `voice_interrupt`: a page
may be left for good, and a part that has used up its bounds stops.

**Fairness** is assumed of what the code drives by itself, never of users:

* a thread inside a store call goes on (`Proceed`): each statement has a 10 s busy
  timeout and then throws;
* the worker polls `ClaimNext` and executes (`ClaimNext`, `Work`, `Agent`): the loop is
  a hosted service, a model turn ends because `HttpClient` buffers the answer under its
  timeout, and a tool runs under the timeout of its contract;
* a stopped or crashed process is started again (`Start`, `ServerStart`): the documents
  describe restarting as the normal recovery;
* a handler goes on to its `Publish`, the broadcaster polls and its sends end
  (`BroadcastStep`). The last one is an assumption on the pages: the hub has no timeout,
  and a page that stops reading without closing would hold the loop up;
* the scheduler polls and goes on with its pass (`Scheduler`). Time itself need not
  pass;
* a process that has written a row goes on to publish its event, or never does
  (`Publish`);
* the browser dispatches the events of a socket, fires the timers of the reconnect, and
  settles requests, which carry a timeout of their own (`SocketEvent`, `RetryFires`,
  `Request`);
* it calls the scheduled frames of the drive loop (`RestFrame`), and a text given to a
  speech engine is played, ended or failed (`Speech`).

**Findings.** Four runs are expected to find a violation.

1. `exec_frozen`: `SetResult` checks for a terminal status and then updates by id only.
   A cancel in between leaves a cancelled mission with an error or a result, which the
   comment of that check, and the in-memory store, exclude.
2. `exec_restart`: a mission that was running when its worker died stays Running for
   ever, since the claim takes only Created and granted ones. The repository's README
   says restarting either process loses nothing.
3. `agent_grounded`: the executions the verifier looks at are those of the last attempt.
   After an attempt whose tools all failed, a recovery attempt without tools may
   complete the mission, which the verifier's comment excludes.
4. `voice_interrupt`: an interruption pauses an element whose `play()` has not settled.
   The promise rejects, its handler is the fallback engine's, and the text that the user
   has just interrupted is spoken after all.

Weaker than one might wish, because the code promises no more: `CatchesUp` excepts
missions of which a page has missed something and promises nothing for one that was only
created; `CompletedCard` excepts a list that an older answer has replaced or that has
overlooked an entry (such a card may show a tool as still running until the next answer);
`RingFits` excepts the rim of the halo, and the strands while an error shakes them;
`DriveSettles` speaks of a loop that goes on (one that is stopped leaves the smoother as
it was, and the next one jumps back to it). `FreshPages` excepts pages on which an
older answer came last, `NothingStray` excepts microphones opened on top of each other,
and `OneFrameLoop` excepts a core that was mounted in a hidden tab, which has two loops
from then on.

## 5. What is proved

All proofs are checked by TLAPS, for every set of missions, callers, workers, sockets
and texts and every value of the bounds.

* `SqliteMissionStoreProofs`. `TypeOK` is inductive. For `StoreImplementsLifecycle` the
  strengthening is `ReadAllowsWrite`: a `Transition` past its SELECT carries a move the
  table allows *from the status it read*; with the UPDATE's condition that the row still
  has that status, the step is a `Move` of the lifecycle. Every other step maps to
  `Create`, `ForgetTerminal` or a stutter.
* `AgentLoopProofs`. `LoopInvariant` is `TypeOK`, the count of turns spent as a function
  of attempt and iteration (`TurnsSpent`), how the end of a run matches its row
  (`EndsMatchRow`), and that unanswered calls are the ones still queued
  (`CallsTracked`). It implies `TurnsBounded`, `CancelStopsAgent`, `CallsAnswered` and
  `CompletesVerified`. The first rests on arithmetic of the nested loops, stated as two
  lemmas. The types of this module are a theorem and no run repeats them.
* `MissionExecutionProofs`. `Ownership` (a worker has a job exactly while it runs one,
  and has claimed it) gives `ClaimedOnce`. With it, `Publications` (an event *about to
  be* published already fits its row) gives `EventsFollowState`, since an announced end
  is one no move leaves. Under the additional assumption that the only status users send
  is Cancelled, which is what the pages do, `Recording` (the row under the statements
  that record an outcome) gives `OutcomesFit`; with users who send Completed over the
  API that property is false. `KeepsExecutor` and the implementation of the lifecycle
  follow step by step.
* `EventStreamProofs`. Four parts, each proved with the ones before it. `Ids`: an id is
  never used again, so an event appended is above every watermark. `Watermark`: the list
  being handled holds all that is above the watermark up to its youngest event, so
  advancing past one event passes that one only. `Sent`: what a socket has is not
  younger than anything still to be sent, and the event whose row is being loaded has
  reached every socket that has to have it; this gives `NothingSkipped` and the order of
  events. `Rows`: no event is ahead of its row and no socket ahead of the row, and the
  loaded row lies between what the sockets have and what the row is by now; this gives
  `RowsKeepUp` and the order of rows (`StreamInOrder`).
* `AutomationsProofs`. `Typed` adds to the types that the scheduler holds an automation
  only while it fires it, and lists only ones that have had a row. `Validated`: what an
  UPDATE will write was validated as a whole; this gives `RulesKept`. `Stopped`: the one
  late mission of an automation takes it off the list of the pass, and no list has it
  again before it is enabled; this gives `StopsFiring`. `Spaced`: the last recorded
  mission is no later than the `LastFiredAt` from which the next one is counted, and
  whoever is on the list was due when it was made. With `NextDueMonotone` (counting from
  a later anchor makes nothing due earlier, which for daily times is arithmetic on days
  and minutes) it gives `FiresSpaced`.
* `VoiceControllerProofs`. The state falls into parts that no action mixes: the drive
  loop, the microphone, the speech, the listener and the timers. For each part there is
  an invariant (`LoopOwned`, `MicOwned`, `VoiceOwned`), a list of what a step may do to
  it, and the lemma that this keeps the invariant. They give `NothingStray`, `OneVoice`,
  `StatusIsTrue` and `TypeOK`.
* `LiveStoreProofs`, the live store. `Connected` strengthens `OneConnection` by what the
  flag means: it is set only while the module has a socket. Then `connect` returns early
  exactly when a socket is there. `ArrivalInv` gives `ChangesArrive`, the safety behind
  `CatchesUp`. Its parts: `LiveInv` (the types, and that only a row that runs or has ended
  has an event owed or unhandled), `GoneIsLost` (a deleted row counts as missed), `Hubbed`
  (the hub has only sockets that are there, and with the Server down each open one is
  about to be closed), and `Told`: of a mission with no event waiting, every message under
  way is followed by one with its last announced state. So when a message or a snapshot
  that is not the newest is applied, the newest is still behind it; when a socket is lost,
  the next one asks.
* `LiveStoreProofs`, the home page, which reads the store's list. `ReadOnce`: what has
  been read out is remembered, so nothing that is not remembered has been read. It gives
  `SpokenOnce`. `ThinkingIsTrue` is inductive as it stands.
* `ControlSurfaceProofs`, the composition. `SurfaceInv` is the conjunction of one
  invariant per part, each of which only the steps of its part can touch:
  - audio: `Core!TypeOK`, for which the arithmetic of the levels is bounded operator by
    operator (`LevelsClamped`, `LevelsApproach`, `DriveBounded`, `PulseBounded`,
    `UpdateBounded`). The types say that what the renderer is given stays in 0..100.
  - core: `LoopInv`, that a hidden core has a frame only if it was born hidden and has
    not been shown, and only such a core has overwritten one. It gives `OneFrameLoop`;
    without it, showing a hidden core might start a second loop. `RingFits` is a theorem
    about the table, with the jolt of an error at its worst: `Knobs` bounds each knob over the rows of any mixture (`Extremes`:
    a set of numbers has a least and a greatest), and `Rings` adds up what each layer
    reaches at most, at any loudness.
  - checklist: `ChecklistInv`, of the table and of the list. In the table every start of
    a tool, except of the one that is running, has an end of that tool after it
    (`Settled`), until a run ends otherwise than by completing; and its last verification
    says what the goal says from the moment it is published by a run that completes
    (`LastVerified`). The list, unless it has `missed` something, has behind each of its
    positions all that are newer (`Continuous`), also when entries come twice or are out
    of order after an answer. So a list that has a start has its end too. It gives
    `CompletedCard` for any limit, any tools and any number of slips, and that keys
    differ.
  - pages: `PagesInv` adds to `FreshPages` what the answers in progress hold
    (`Following`): the refresh that follows a change was asked after it, so its answer is
    not older than the change.
  - live store and home page: the invariants of `LiveStoreProofs` with the types.

Assumptions: the named `ASSUME`s of the modules - finite sets of missions and pages,
`None` and `Null` are nothing else, targets are statuses, bounds are naturals, a day has
minutes, the states of the core are rows of its table, the keys of tools are no other
keys - and nothing else.

Only model-checked: everything that speaks of "eventually" (`RetryEnds`,
`CreatedIsTaken`, `RunEnds`, `EveryMissionEnds`, `EventsAreHandled`, `DueFires`,
`SpeechEnds`, `CatchesUp`, `DriveSettles`), which is out of the prover's reach because
it needs fairness and ENABLED. For most of them the safety they rest on is proved: a run
of the agent has a bound on its turns, an active mission keeps its worker, the stream
skips nothing, and an announced state a page does not show is on its way or known to be
missed.

## 6. What is not modelled

* Sub-mission dispatch and the lanes: a run within a run. Its races are listed as
  hazards.
* Approvals, beyond what the claim query reads of them: no tool asks for one, so that
  the table stays empty (see `AgentLoop`).
* Settings: one cached row per process; a process sees a change of the other only after
  a restart.
* Merging of streamed tool calls in `OllamaClient`, and the workspace policy: pure
  functions on text.
* The in-memory stores: fallbacks that tests use; the processes use SQLite.
* Tools, the workspace inspector, computer tools and the system monitors: I/O without
  state of their own. The agent sees a result that succeeded or failed.
* Of the control surface: the mission pages, which filter and draw the live store and
  send one request, a cancel that is a user action of the models; toasts, menus and
  dialogs; forms and their drafts; colours, brightness and the pointwise shape of the
  core; the choice of a voice; `AudioAnalyzer.start` and `reset`, which have no caller.
* In `LiveStore` and `MissionChecklist`, changes of status that only an API client asks for
  (from Verifying back to Running, or past a pause for approval); `MissionExecution` has
  them.
* Migration of old databases, wiring of the hosts, formatting and logging.
* `TOOL_*` and `VERIFICATION` events in `MissionExecution`: they are only shown, and no
  row depends on them; `MissionChecklist` has them.
