# Bud: a TLA+ verification project

Bud turns a machine into an agent that can be reached from a browser.  A Rust
daemon (`bud/`) runs on the machine, a Node service (`service/`) keeps
conversations in PostgreSQL and runs the agent, and a React client (`web/`)
shows them.  This project models the parts of that system whose correctness
depends on the order in which processes, transactions, callbacks and messages
meet.

## The system and its parts

| part | code | module |
|---|---|---|
| durable invocation queue | `service/src/agent/invocation-repository.ts`, `invocation-worker.ts` | `InvocationQueue` |
| worker pump (wake, drain, stop) | `invocation-worker.ts` | `WorkerPump` |
| lease renewal and parking hooks of one task | `executeClaimed` in `invocation-worker.ts` | `LeaseRenewal` |
| control of a running turn, stop route | `agent-service.ts`, `cancellation-registry.ts`, `routes/threads/agent.ts` | `TurnControl` |
| rows of a conversation and their replay | `conversation-loader.ts`, `transcript-writer.ts`, `context-compactor.ts` | `ConversationReplay` |
| agent event stream and its client | `runtime/agent-runtime-state.ts`, `web/src/features/threads/use-agent-stream.ts` | `AgentFeed` |
| browser control and handoffs | `service/src/browser/`, `bud/src/browser/` | `BrowserControl`; what the queue sees of it, in `InvocationQueue` |
| terminal output | `bud/stem/`, `bud/src/terminal/manager.rs`, `runtime/terminal/output-store.ts` | `TerminalOutput` |
| terminal view | `routes/threads/terminal.ts`, `use-terminal-session.ts` | `TerminalView` |
| terminal tools of the agent | `request-dispatcher.ts`, `terminal-session-manager.ts`, `bud/src/terminal/manager.rs` | `TerminalTools` |
| data plane streams and edges | `data-plane-router.ts`, `proxy-edge.ts`, `file-edge.ts`, `bud/src/proxy/` | `EdgeStream`, which implements `ResponseChannel` |
| daemon sessions | `ws/bud-connection.ts`, `grpc/control-gateway.ts`, `bud/src/app.rs` | `DaemonSession` |
| wire protocol | `ws/protocol.ts`, `proto/wire.ts`, `bud/src/protocol.rs` | `Wire` |
| push outbox, session rows, sign-in, providers, schema, UI | | not modelled, see the end |

How they meet: a message, an automation event or an answer **admits** or
**decides** something in the database.  Any service process **claims** an
invocation, runs the agent's turn (model, tools on the daemon, browser), and
**parks** it when the owner has to decide.  Everything a viewer sees comes from
the event stream, the terminal store and the tables.  The database is the only
thing processes share and the only thing that survives them, so the queue is
the core: its invariants are the ones proved furthest.

Common conventions.  The service is one event loop, so an action is the code
between two awaits; a handler with several awaits is a program counter or a
*script*, the sequence of effects it still has to run, and scripts interleave
one item at a time.  A database transaction that locks its row first is one
action.  Time is abstract: a timer that is set may fire at any moment.  Texts,
screens, payloads and identifiers are members of small sets.

## InvocationQueue

| variable | code |
|---|---|
| `row[i]` | `agent_invocation`: `status`, `thread`, `origin`, `reserves` (reserves_thread), `fence`, `attempt`, `holder` (worker_id), `live` (lease_expires_at is in the future), `cancel` (cancel_requested_at is set), `due` (next_attempt_at has come), `deadline` (latest_start_at) |
| `act[i][c]` | `agent_invocation_action` of call id `c`: `st` (none, intent, waiting, completed), `kind`, `fence` |
| `wait[i][c]` | the question, data request, proposal or browser handoff the call waits for: pending, resolved, canceled |
| `ctl[b]` | who controls the Bud's browser: nobody (the agent) or the thread whose viewer took it |
| `closed`, `gone` | threads whose workspace is closed, and deleted threads |
| `task[s]` | what executor task `s` of process `WorkerOf[s]` is doing, and the lease token (invocation, fence) it was given |
| `sent[i][c]` | a history variable: how often the call left the service |

A repository method that locks its invocation row (`lockedLease`,
`requestCancel`, `recoverExpired`) is one transaction and one action.  `claim`
is different: it locks the *thread* row, reads the invocation and its rivals in
later statements without locking them, and updates the invocation last.  Under
READ COMMITTED other transactions commit in between, so each of its statements
is an action: `claimScan` (candidate snapshot), `claimLock` (SKIP LOCKED, then
the second read), `claimExpire`, `claimCount` (advisory lock and fresh count),
`claimLease`.

The executor's steps follow `executeClaimed`: `start` or `defer`,
`prepareQuestionContinuation`, then per call `recordAction`, `dispatch` or a
park, `completeAction`, and at the end `finish`.  Between any two of them the
lease may lapse, the process may crash, the owner may cancel.

What is merged: preflight with the transaction that follows it; an agent's
outcome, a throw and an abort with the `finish` they lead to; the three parks
for owner review, which differ in the table they insert into, in `parkReview`;
a batch of maintenance with the sequence of its rows.  What is left out: an
admission with a known idempotency key (it changes nothing), the audit action
of `abandonReviewed`, `parkUserBrowserHandoff` (nothing in the service creates
the handoff it looks for), work timing, message texts, and the
`model_context_at` stamp.  `leaseLapses`, `retryDue` and `deadlinePasses` may
happen at any moment; a heartbeat is the absence of a lapse.

What the runs show:

- A thread is never reserved twice (`ThreadExclusive`) or driven by two
  executors (`SingleExecutor`), although the claim decides on old reads.
- A call is dispatched at most once (`DispatchedOnce`); one whose result is
  unknown is never behind an invocation that would be tried again
  (`NoBlindRetry`), and never behind a success (`HonestOutcome`).
- A parked call resumes only by its decision (`ResumedByDecision`), and keeps or
  gives up its thread through every deferral and recovery
  (`ReservationFollowsWait`).
- A cancellation decides (`CancelDecides`) and settles (`CancelSettles`); a
  success or failure is final (`CompletedIsFinal`); a continuation does not
  expire (`ExpiredNeverRan`); an answer resumes its turn (`AnsweredResumes`);
  waits for a closed or deleted workspace end (`ClosedWorkspaceEnds`).
- Active automations stay within the Bud's limit (`CapacityHeld`).

## WorkerPump

The pump of one process: an action is the code from a resumption to the next
await; the database's answer to an awaited call, and the `catch` and `finally`
callbacks of the pump promise, are actions of their own.

| variable | code |
|---|---|
| `stopped`, `generation`, `timer`, `wakePending`, `maintenanceDue`, `pump` | the fields of `InvocationWorker`; `timer` and `pump` say whether they are set |
| `drain[d]` | a call of `drain()`: what it awaits, its `generation`, the invocation `claim` returned |
| `active` | `this.active`, by the invocation of each task |
| `stopper` | the call of `stop()`: what it awaits |
| `inv`, `hints` | the invocations as `claim` sees them, and committed changes whose callback has not run |
| `told` | a history variable: the invocations `wake` was called for and nothing dropped since |

`wake(...)` is an operator that its five callers use with the fields as they
stand at the call (`start` and the timer set `maintenanceDue` first, a settling
task leaves `active` first, the `finally` callback clears `pump` first).  The
server starts the worker once; the model also stops and starts it again, since
`generation` exists for that.  `runOnce` is only called by tests.

One drain runs at a time and within the concurrency (`DrainDiscipline`), a
resting pump leaves no hinted invocation behind (`NoLostWake`), a returned stop
leaves nothing running (`StopQuiesces`), and every invocation runs although
hints are lost, calls reject and claims are dropped (`EventuallyRuns`).

## LeaseRenewal

One call of `executeClaimed`: the timer, the chain of renewals, `ended`,
`parked`, the controller, and the turn that uses the hooks.

| variable | code |
|---|---|
| `pc`, `next`, `reply` | what the turn awaits, what follows its checkpoint, a park's answer that was not processed yet |
| `chain`, `broken` | the unsettled links of `renewal`, by timer or turn, and whether it is a rejected promise |
| `armed`, `heartbeat` | the timeouts that will fire, and the one the variable refers to |
| `ended`, `parked`, `aborted` | the flags and the controller's signal, with the reason |
| `lease` | the lease in the database |
| `calls`, `sent`, `seen`, `errors` | the turn's calls, the dispatched ones, whether a renewal failed, unanswered heartbeats |

A renewal is appended, starts when those before it have settled, is decided by
the database, and its reply is processed later: four actions (`fire` or a
checkpoint, `begin`, `decide`, `settle`).  A park is decided (`parkDecided`) and
replied (`parkReplied`) in two, because a heartbeat can come between them.  The
parking hooks share these: some throw on a refusal, some return it.

A running turn always has a next heartbeat (`HeartbeatKept`), and a hanging one
learns of a lost lease (`LossNoticed`).

## TurnControl, ConversationReplay and AgentFeed

**TurnControl** is the life of a turn inside the service process: the executor
enters `startUserMessage`, the flow walks from checkpoint to checkpoint, and the
user stops it, answers its question or returns its browser.  What they share is
not transactional: one abort controller per thread (`registry`), one runtime
snapshot (`runtime`) and the promise chain of thread transitions
(`transitions`).  The invocation row is `job`, reduced to what the flow and the
stop route read.  One process; the reply to a park's commit is taken to reach
its flow before another claim's round trips end.  A claimed turn is never turned
away by one that has parked, stopped, failed or ended (`NeverTurnedAway`), and a
turn whose controller is aborted starts no tool, records no result and asks
nothing (`StoppedDoesNothing`).

**ConversationReplay** is the log of message rows and provider calls that turns
write one at a time, and what `loadInternal` brings back of it for the provider
of the next turn: continuations, orphan repair, checkpoints of the compactor,
timeline entries of automations.  A turn may die between any two writes, park in
the middle of a call's tools, and be resumed later.  Every tool use is replayed
once with exactly one result that is not before it, for every provider
(`ReplayValid`), and nothing said in the thread falls behind a checkpoint unseen
(`NothingForgotten`).

**AgentFeed** is the browser's picture of one turn: the bounded event buffer
with its cursors, database notifications, the stream route's attachment and
boundary, the runtime snapshot, and the client's connection, recovery, reads and
merging of messages.  A browser that has handled everything it was sent shows
every committed row (`NothingSkipped`, with the exceptions below), and one
without a stream always has its next step ahead of it (`NeverLeftBehind`).

## TerminalOutput, TerminalView and TerminalTools

**TerminalOutput**: the holder's ring with absolute offsets, the daemon's
attachment (stat, replay, subscription, pump), the transport, the service's
ingest queue, the output table and its retention.  Every byte below the highest
stored offset is stored, pruned, announced as a gap, or given up in one of three
named places (`AccountedFor`); the rows stay within the cap (`WithinRetention`);
what the shell writes is stored or accounted for in the end (`CatchesUp`).

**TerminalView**: one visit to a thread's terminal, with the recovery loop of
the React hook against the snapshot and event-stream routes.  No stored byte is
missing from a connected screen or shown twice (`ViewExact`), the view never
rests without a next step (`NeverStranded`), and is not called connected while
it needs a snapshot (`NoStaleView`).

**TerminalTools**: `terminal.send`, `observe` and `wait` from the executor
through the dispatcher to the daemon's tasks and the pump, and back.  Screens
and timing are choices.  A completed command's result has all of its output
(`OutputKept`) and a line never completes with a command that was running
before it was typed (`FinishedIsOwn`); while the executor waits, the dispatcher
still holds its request (in `ToolsTypeOK`).

## DaemonSession, Wire and BrowserControl

**DaemonSession**: the daemon's reconnect loop and the service's two kinds of
control connection, with trackers, timers, clean-up scripts and the rows they
write.  When nothing runs, the Bud's status and the last presence event agree
with the routers unless an offline transition overlapped a registration
(`PresenceHonest`); a current tracker has its heartbeat timer (`TimerGuards`);
when the faults stop the daemon ends in a current session (`SessionReturns`).

**Wire**: every frame type with the fields both ends read, as JSON text, as JSON
in a typed payload, and as numbered protobuf fields, and the handshake that
selects the form.  A handled frame has the meaning its sender gave it
(`MeaningKept`); no frame is dropped or tears the session but those of
`KnownGap` (`NothingElseLost`).

**BrowserControl**: the durable resource row, the coordinator, the daemon's
`Authority` and the broker's cells.  The agent's page operations never run while
the row is private, and the daemon lets a person in only while it is
(`PrivacyAgreed`); a recorded stop holds against every late request
(`StopHolds`).

## EdgeStream and ResponseChannel

**EdgeStream** is one browser request served through a Bud: the HTTP edge, its
runtime stream, the carrier-neutral router, the daemon's stream task and the
carrier.  The scripts of five handlers interleave (the request, the frame queue,
the idle and TTL timers, the client going away, the finalization of a carrier,
and frames of a newer one).  Bodies are sequences of unit chunks.

**ResponseChannel** is what a browser may rely on: it is refused, or is sent a
response whose body arrives in order and either ends after its last chunk or is
cut off.  `RefinesChannel` states that `EdgeStream` implements it with
`len <- req.len`, `seen <- rt.read` and `fate <- Fate`.

`StreamInvariant` adds that a body ends cleanly and an operation is recorded as
succeeded only when whole (`WholeBodies`), that flow control bounds what is held
(`BufferBounded`) and that rows settle (`RowSettled`).  `NeverRefused`: the
router never refuses a frame as out of place or over credit.  `Answered`: every
request is answered.

## Runs

| run | module, configuration | question | distinct states |
|---|---|---|---|
| `turns` | `MCInvocationQueue`, `InvocationTurns` | two processes, two inputs of one thread, a tool call and a question: reservations, leases, outcomes, cancellation | 1.0 M |
| `continuations` | `InvocationContinuations` | one input with two calls, claimed up to three times by two tasks of one process (the same worker id, so only the fence keeps a stale one out): handoffs, human control, closing, deleting, a latest start that passes | 1.9 M |
| `capacity` | `InvocationCapacity` | two automations of one Bud, capacity one | 0.6 M |
| `liveness` | `InvocationLiveness` | cancellations, answers and closed workspaces are acted upon | 0.1 M |
| `terminal_is_final` | `TerminalIsFinal` | a statement of the documents that the code does not keep | violation |
| `pump` | `MCWorkerPump`, `WorkerPump` | hints, ticks, settling tasks, rejections, stops and restarts around one drain | 60 k |
| `renewal` | `MCLeaseRenewal`, `LeaseRenewal` | two calls to record or park, a lost lease, a heartbeat that is not answered | 128 k |
| `streams` | `MCEdgeStream`, `EdgeStream` | six requests (both kinds, both carriers, HEAD, a body, over the limit) with one fault | 0.28 M |
| `terminal` | `MCTerminal` | bytes, a viewer's screen, and the agent's tools | 189 k |
| `control` | `MCControl` | connections and clean-up, frames, browser control | 128 k |
| `conversation` | `MCConversation` | rows and replay, control of turns, the browser's feed | 0.9 M |
| `stops_only_its_turn` | `TurnControl`, `StopsOnlyItsTurn` | a statement of the documents that the code does not keep | violation |

`MCTerminal`, `MCControl` and `MCConversation` hold three components each.  A
behaviour is one of one component, named by the variable `part`; the others rest
in an initial state, so nothing is interleaved that does not interact, and the
states of a run are the sum of its parts'.

Bounds.  *Queue*: two invocations and two tasks are the least for which one
process acts on what another has changed, and every property speaks of at most
two of them; `MaxAttempt = 2` allows one claim, a crash or park, and one claim
by somebody else, and `continuations` has one invocation and three claims, so
that a call can be parked twice.  Each run gives the tool kinds, origins, delays
and deadlines its question needs, so that the interleavings stay complete for
these.  *Pump*: two invocations and one slot let the pump be full with work
left; two identities for drains show whether a second could start beside one;
two stops let one overtake a claim and a later start find it still awaited.
*Renewal*: two calls let a park be refused and another follow; four timeouts
cover the one in the variable, an armed one whose handle was overwritten, one in
the chain and a fresh one.  *Streams*: a body of two chunks with credit and high
water one exhausts credit, waits for drain and is over a limit of one.
*Terminal*: four bytes through a ring and a store of two overflow both; two
commands and one upset let a late result meet the next command.  *Control*: two
connections are what a replacement needs; two events of `BrowserControl` are a
takeover and what collides with it.  *Conversation*: two turns, one answer with
tools, one park and one checkpoint; two stops against two turns; a buffer that
prunes and one fault for the feed.  Symmetry is used for processes where no
temporal property is checked.

Deadlock is checked in `pump`.  Elsewhere the system may rest: all invocations
settled, the task done, the request answered, the faults used up.

## Fairness

- *Queue*: the pump polls every second, so a claim that stays possible is
  scanned (weak fairness); a claim that has started may be interrupted by
  crashes but not for ever (strong fairness for its later statements);
  maintenance runs every second; a retry delay ends; a lease that nobody renews
  lapses, and a renewal is refused for a canceled invocation or a deleted thread
  (`lockedLease`), which is what `Unrenewed` says; a task that lost its lease
  stops at its next renewal.  Nothing is assumed of the owner, the model or
  tools: a turn may run for ever.
- *Pump*: callbacks run, the database answers, the timer fires, an executor's
  turn ends, a lease nobody renews lapses.  Nothing promises starts, stops,
  admissions or failures.
- *Renewal*: timers fire, callbacks run, the database answers; the turn itself
  may hang.
- *Streams* (`StreamFairness`): resumed handlers run on, frames are read, timers
  fire, the daemon's task is polled, a browser that stays reads.  Nothing makes a
  connection drop or come back, or a browser leave.
- *Terminal output* (`OutputProgress`): the daemon reconnects, its tasks and the
  service's handlers run, and a client that finds the session suspended asks
  again.
- *Sessions* (`SessionProgress`): the event loop runs what is ready, ended
  connections close, silent ones time out, and the daemon dials again.

## Where the code departs from its documents

Two statements are kept as runs that TLC refutes:

- `terminal_is_final`: `claim`'s update names the row by id only.  A cancellation
  that commits after the second read is overwritten, so a canceled invocation
  becomes leased again.  The stamp `cancel_requested_at` survives, so it never
  runs and recovery cancels it again.
- `stops_only_its_turn`: a stop that read the older invocation aborts the turn
  that became active while its cancellation was committing.

The others are definitions of the modules, refuted by hand with a configuration
like the run's and not kept as runs.  Queue: `CapacityLimit` (a released
reservation is taken without counting; the excess one is always a canceled one,
which is why `CapacityHeld` excepts them), `LeasedBecomes` (a leased invocation
whose preflight throws ends failed or in review).  `LeaseRenewal`:
`ParkNeverAborts` (a heartbeat that waited for the row behind the turn's own
park is answered on its own connection; processed first, its rejection aborts
the controller.  The lease is released all the same and nothing the aborted turn
records is committed).  `TurnControl`: `WaitAnswerable` (a sweep cancels the
question of a turn that parks afterwards).  `ConversationReplay`: `EntriesSeen`,
`RepairsAreTrue`, `ReplayedOnce`, `OneCheckpointPerCutoff`.  `BrowserControl`:
`TakenOverIsAnswered`, `StoppedReopens`.  `Wire`: `ResetsUnderstood`,
`ObserveErrorsArrive`, `ClosesArrive` (the three frames of `KnownGap`).
`TerminalTools`: `OutputFound`, `NeverThrown`.  `EdgeStream`:
`OperationSettled`, `TimeoutsRecorded`.  `TerminalOutput`: `BackfillIsExact`,
`NeverReemitted`.  `TerminalView`: `HandoffIsExact`.  `DaemonSession`:
`StaleCleanupIgnored`.  The comment above each definition quotes the statement
and the code it is about.

`AgentFeed`'s exceptions are of the same kind: a recovery that is overtaken by
another moves the cursor without merging what it read (`astray`), a message
whose POST lost its reply is hidden although it was stored (`removed`), and a
card that the end of its own turn settled keeps itself from being replaced by
the row (`settled`).

## Proofs

Every theorem holds for every value of the constants that satisfies the named
assumptions of the modules, not only for the instances above.  Each inductive
invariant was an invariant of the corresponding runs before it was proved.

### The invocation queue

`ConstantsAssumption` is the only assumption: the maps are functions, `none` is
no worker, thread or call, the enumerations are the code's, the limit is a
natural number.

| module | theorem | statement |
|---|---|---|
| `InvocationQueueProofs` | `TypeCorrect` | `[]TypeOK` |
| `InvocationSafety` | `InvariantHolds` | `[]IInv` |
| | `ThreadExclusion` | `[]ThreadExclusive` |
| | `ExecutorExclusion` | `[]SingleExecutor` |
| | `LeaseDiscipline` | `[]LeaseCheck` |
| | `CancellationWins` | `[]CancelDecides` |
| | `OutcomeFinal` | `CompletedIsFinal` |
| `InvocationOutcomes` | `OutcomeInvariant` | `[]OInv` |
| | `AmbiguousWorkWaits` | `[]NoBlindRetry` |
| | `OutcomeIsHonest` | `[]HonestOutcome` |
| | `DecisionResumes` | `[]ResumedByDecision` |
| | `SentOnce` | `[]DispatchedOnce` |
| | `ReservationMatchesWait` | `[]ReservationFollowsWait` |
| | `ExpiryBeforeStart` | `[]ExpiredNeverRan` |
| | `OldTokenFenced` | `FencedOut` |
| `InvocationCapacityProofs` | `CapacityRespected` | `[]CapacityHeld` |

`ThreadExclusive` is not inductive: `claimLease` reserves the thread some
statements after the claim saw it free.  `IInv` adds what holds while a claim
has the thread row lock: claims hold different threads (`LockExclusive`), nobody
else reserves theirs (`LockedClear`), and the invocation was at most canceled or
expired since it was read (`LockedStatus`).  For executors it adds that a token
is not newer than its row and that no two tasks share one (`TokenBound`,
`TokenUnique`).  The step is proved once for all invariants.  `Steps` shows that
every action is one of three: `Quiet` (each row changes in one of seven ways
that take no reservation, each task keeps or drops what it has), `LockStep` (a
claim gets a thread lock) or `LeaseStep` (a claim becomes a lease).

The properties of calls are about one invocation's calls against its row, and
none is inductive alone: a `finish` looks at the open calls, a claim at the
reservation, a recovery at both.  `OInv` says what a row's status allows its
calls to be (`RowActs`), what one call's record, wait and dispatch count may be
together (`CallOK`), that a claim in progress still finds its row's calls as it
needs them (`LockedActs`), what the calls of the invocation an executor holds
look like at each of its steps (`ExecutorActs`), and that no two executors, stale
ones included, have the same call in hand (`CallOwned`).  Every action is shown to be a step of a
few kinds on rows, calls and tasks, and the kinds preserve `OInv`.

`CapacityHeld` speaks of cardinalities.  `CInv` adds that at most one claim has
the Bud's advisory lock (`GrantExclusive`), that such a claim still has room
(`GrantRoom`), and that a claim which skipped the count has a reservation that
is already counted, or was canceled (`LeaseSlot`).  The last is the argument one
would not guess from the code: a parked invocation loses its reservation only by
a cancellation, because expiry needs a row without calls and the clean-up of
closed workspaces a browser wait, and by `OInv` neither holds a reservation.

### The worker pump

`PumpAssumption`: finitely many invocations, at least one slot.

| module | theorem | statement |
|---|---|---|
| `WorkerPumpProofs` | `PumpInvariant`, `PumpTypes` | `[]IInv`, `[]TypeOK` |
| | `SingleDrain`, `ConcurrencyLimit` | `[]OneDrain`, `[]WithinConcurrency` |
| `WorkerPumpWakes` | `WakeInvariant` | `[]WInv` |
| | `WakesKept` | `[]NoLostWake` |
| | `StopLeavesNothing` | `[]StopQuiesces` |
| | `DrainDisciplineHolds` | `[]DrainDiscipline` |
| | `OvertakenClaim` | `OvertakenClaimDropped` |

The limit is not inductive, because the task is added after the await.  `IInv`
adds that a drain that awaits a claim or holds its answer still has the slot it
tested for (`Slots`); only a drain adds tasks, so this needs `Single`: no other
drain runs.  `NoLostWake` speaks only of a resting pump; `WInv` says what the
pump owes while it works: while a hinted invocation is ready and a slot is free,
a drain runs that will claim again, has failed, or will find `wakePending` set
(`HintsKept`); a drain of an older generation leaves a pending hint to its
successor (`OldDrainOwes`); hints are about admitted invocations
(`HintsAdmitted`); and what a stop knows at each of its awaits (`StopWaits`).

### Lease renewal

`LeaseRenewalProofs`: `RenewalInvariant` (`[]IInv`), `HeartbeatNeverLost`
(`[]HeartbeatKept`), `StaleExecutorStays` (`StaleNeverRevived`) and
`RenewalTypes` (`[]TypeOK`, which needs an unbounded supply of timeouts, since
`heartbeat` is a fresh one each time).  `HeartbeatKept` is broken by an action
that follows a state in which the variable points to a timeout that has been
cleared, so `IInv` relates the places a heartbeat can be: the chain has at most
one link of the turn's own, only at a checkpoint (`MainLink`), until the heartbeat is
switched off the variable's timeout is armed or a timer's renewal is in the chain
(`Beats`), it is off only when the turn has parked or ended or its signal is
aborted (`Running`), and a failed renewal has aborted the signal (`SeenAborts`).

### What is only model-checked, and why

- All liveness (`CancelSettles`, `AnsweredResumes`, `ClosedWorkspaceEnds`,
  `EventuallyRuns`, `LossNoticed`, `Answered`, `CatchesUp`, `SessionReturns`):
  fairness and `ENABLED` are outside the proof system.
- `EdgeStream` and its refinement of `ResponseChannel`: the offsets, the credit and
  the scripts are checked on the six requests of `streams` only.
- `Wire`: its properties are about finite tables, and TLC visits every row of
  them; a proof would enumerate the same tables.
- `ConversationReplay`, `TurnControl`, `AgentFeed`, `TerminalOutput`,
  `TerminalView`, `TerminalTools`, `DaemonSession` and `BrowserControl`: no
  inductive invariant has been written for these yet.

Some properties were checked while modelling and are not in a kept run, because
a kept one is stronger or covers the same code: `LeaseEnds` and `OverdueLeaves`
(queue), `StopReturns` (pump), `HeartbeatsEnd` (renewal), `ViewCatchesUp`
(view), `CallSettles` (tools), `ReplacedEnds` (sessions), `Returned` (browser),
`Released` (streams), `ViewConverges` (feed, for turns that only call a tool).

## What is not modelled

- The push outbox (`notifications/worker.ts`), debounce and budgets of
  automations, proxy and file session rows, device claim and sign-in: short
  handlers over single rows that the modules above do not depend on.
- Model providers and the provider ledger: conversion of data with little state.
- The schema, routes without state, configuration, scripts and rendering.  The
  schema's checks and indexes appear as properties of the modules that use the
  tables.
- WebSocket proxying, viewer media and page contents.
