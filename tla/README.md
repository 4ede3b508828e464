# A verification development of My Claude Code

My Claude Code is a Python proxy between coding agents (Claude Code, Codex and
others) and model providers, with a desktop supervisor and with Telegram and
Discord bots that run agents in chats.  The package is
`src/src/my_claude_code`; `src/src/free_claude_code` re-exports it under its old
name.  This directory models the parts of it whose correctness depends on the
order of things: TLA+ modules, TLC configurations that check them on small
instances, and proofs of the main results for every value of the constants.

Paths below are relative to `src/src/my_claude_code` unless they start with
`src/`.

- [1. The system](#1-the-system)
- [2. The models](#2-the-models)
- [3. The runs](#3-the-runs)
- [4. The proofs](#4-the-proofs)
- [5. Disagreements found](#5-disagreements-found)
- [6. What is not modelled](#6-what-is-not-modelled)
- [7. Plan](#7-plan)
- [8. Running it](#8-running-it)

## 1. The system

Everything runs on one asyncio event loop per process, except the timers of the
session file, the logging writers, the hard-exit watchdog of a stop and the
supervisor.  Code between two awaits that suspend is therefore atomic.  The
models take their granularity from this: an action is the code between two
suspension points, or what one thread lock covers.

### Components

**Message tree aggregate** (`messaging/trees/runtime.py`, `graph.py`, `queue.py`,
`node.py`).  State: the reply graph (per prompt its state, the exact message it
replies to, whether its status message is live, the CLI session it left), the
FIFO of waiting prompts, the one claim that is being executed.  Operations: admit
a reply, admit again, release the claim and claim the next prompt, cancel one or
all prompts, remove the replies below a message, record a session, complete or
fail a claim, snapshot and restore.  Hard: any of these in any order, with the
runner of a cancelled claim still winding down.  Correct when queue, claim and
node states agree, waiting work is never stranded, order is kept, a stop is
final, and every graph it can save can be loaded.

**Tree manager and task processor** (`messaging/trees/manager.py`,
`processor.py`, driven by `node_runner.py`).  State: which trees are published,
and one asyncio task per claim.  It launches the task in the same step as the
claim, cancels it with the node, and lets the task's `finally` release the claim
and launch the successor.  Hard: a task cancelled before its first step never
runs its `finally`; callbacks suspend between the claim and the runner; a tree is
detached while its claim is out.  Correct when claim and task are never parted
and every prompt is served.

**Multi-tree repository** (`messaging/trees/repository.py`).  State: which tree each
message of each chat belongs to, and the tree every root has.  Operations: find a
tree by prompt or by status message, publish a tree, remove what a cleared branch
held, detach all trees of a chat.

**Messaging workflow** (`messaging/workflow.py`, `turn_intake.py`, `commands.py`,
`session/managed_message_log.py`).  State: a stop generation, a clear generation per
chat, the state lock, the log of the bot's own messages; it saves a snapshot of the
tree to the session store after each transition.  A prompt takes a token (both
generations) when it is received, sends its status message, and is admitted only
if the token still counts.  `/stop` and `/clear` of a reply, a chat or everything
draw a new generation, cancel, wait until the cancelled tasks have ended, save what
is left and delete messages.  Hard: a command falls between any two suspensions of
a handler, runners end late and save, the platform refuses, a tree or the file
raises.  Correct when an acknowledged boundary holds for ever, store and
repository agree, and every message the bot has shown can still be cleared.

**Session persistence** (`messaging/session/store.py`, `persistence.py`).  State:
the content in memory, the file, a save generation, the pending timer, two locks
and the store's.  Changes come from the loop; each debounced save has a timer
thread; `flush` and `clear_scope` write at once.  Hard: a thread that took its
snapshot can be overtaken; writes and snapshots fail; the process dies anywhere.
Correct when the file never goes back, a flush or a clear that returned is never
lost, and no change is left unwritten.

**Voice, delivery, rendering** (`messaging/voice.py`, `limiter.py`, `platforms`,
`rendering`, `transcript`).  Pending voice notes, queues towards the chat
platforms, formatting.

**Managed CLI sessions** (`cli/managed`, `cli/process_registry.py`).  Pool of agent
subprocesses; temporary ids are renamed when the agent reports its own.

**Provider generations** (`runtime/provider_manager.py`).  State: the current
generation of provider clients, retired ones with their leases, candidates that
were not published, the background refresh, the replacement lock, cleanup tasks,
the progress of `close`.  Requests lease a generation; `replace` builds, commits
and publishes a new one; the last lease of a retired one closes it; `close`
drains within the stop deadline.  Hard: every await may be cancelled, candidates
and cleanups fail, and close may be tried again.  Correct when nothing in use is
closed, nothing retired is forgotten, and close ends.

**Streamed response** (`api/response_streams.py`) **and stop deadline**
(`core/stop_deadline.py`).  A response owns one cleanup task that closes the body
and then releases the lease; callers shield it from their cancellation, and a
stop bounds both the close and the wait.  Hard: cancellations, and two timers that
one stop bounds at different moments.  Correct when the lease outlives the body, no
cancellation is swallowed, and after a stop everybody returns.

**Credential rotation** (`core/credential_rotation.py`,
`providers/credential_rotation.py`, `providers/runtime/rotating.py`).  State: per
key a health state, two deadlines of which one is live, a bench per model, an
escalating lockout tier.  Requests take a key, report success or failure, and
rotate while nothing was streamed; routing asks for the wait without taking a
turn.  Hard: reports arrive after other requests changed the key, and deadlines go
stale.  Correct when what is handed out is usable, what routing is told is true, a
request gives up only when nothing is left, and keys come back.

**Execution and fallback chain** (`application/execution.py`, `route_health.py`,
`routing.py`).  State of a request: its position in the chain, its time budget, what
the client has read, whether the next model was asked to continue an answer, and a
verdict per model; shared by all requests: the bench registry.  Operations: order
the chain, start an attempt, take a chunk, a heartbeat or a failure, give a wait
up, go on to the next model, promote one after a 429, continue or cut short a
committed answer, probe a sibling, publish the verdicts.  Hard: budgets, pauses,
benches and cooldowns are filtered together; a failure comes before or after the
client has read something.  Correct when the client reads one answer, the verdicts
tell what happened, a paused model is never tried, and silence alone cannot spend
the turns of the models behind.

**Request shaping** (`application/reasoning*`, token budgets): computations over
settings.

**Stream recovery** (`providers/stream_recovery.py`, `providers/openai_chat/provider.py`)
over the **streaming protocol state** (`core/anthropic/streaming/ledger.py`,
`providers/openai_chat/tool_calls.py`).  State of an answer: the ledger of content
blocks and tool calls of the current attempt, and a buffer that holds its frames
back until the reader has something to see.  A failed attempt whose frames are still
held is retried; one the reader has seen is salvaged, continued or closed with
an error.  Hard: blocks are opened by reasoning, text, tool calls and calls found in
text in any mix, and the stream breaks between any two chunks.  Correct when the
reader gets one legal stream of one attempt, nothing at all while the model is
silent, and only whole tool calls.

**Limiters** (`core/rate_limit.py`, `providers/rate_limit.py`).  Sliding window,
reactive block, retries.

**Protocol conversion** (`core/anthropic`, `core/openai_responses`), **provider
adapters** (`providers/*`), **OAuth** (`providers/*_oauth`), **web search pool**
(`websearch`, a second user of the rotation engine with a breaker).

**Supervisor, desktop, launchers** (`cli/commands.py`, `desktop.py`, `launchers`,
`src/desktop-shell`), **runtime application and ASGI shutdown**
(`runtime/application.py`, `asgi.py`), **HTTP API**, **settings** (`config`),
**logs** (`core/request_log.py`), **updates and handoff**, **legacy aliases**,
**smoke tests and scripts**.

### Interactions

    chat platform -> workflow -> tree manager -> message tree   (one lock, no suspension inside)
                        |             +-> task per claim -> node runner -> CLI session
                        +-> session store -> timer threads -> file
    agent -> HTTP API -> executor -> provider manager (lease) -> rotating provider -> upstream
                 |      +-> bench registry (shared by all requests)
                 +-> streamed response (owns the lease until its cleanup releases it)
    rotating provider -> stream recovery -> frames -> executor -> client
    supervisor -> stop deadline -> response cleanup, provider drain, watchdog

The places where these hand work to each other are the models' boundaries: the
claim (tree to processor), the lease (manager to response), the snapshot
(workflow to store), the key (pool to request), the frame (provider to executor).

## 2. The models

| module | models | uses |
| --- | --- | --- |
| `MessageNodeQueue` | the FIFO's operations | `Functions` |
| `MessageTree` | the aggregate of one tree | extends `MessageNodeQueue` |
| `TreeQueueProcessor` | one tree with its manager and its tasks | extends `MessageTree`, implements it |
| `MessagingWorkflow` | the workflow over the trees of several chats, the store in memory, the message log | |
| `DurableStore` | abstract: what a durable store promises | |
| `SessionPersistence` | the session file, its threads and locks | implements `DurableStore` (`INSTANCE ... WITH`) |
| `ProviderGenerations` | the provider manager | |
| `ResponseLifetime` | a streamed response's cleanup | |
| `RotationEngine` | the rotation engine's pure operators | |
| `RotatingProvider` | requests that share a pool | extends `RotationEngine` |
| `RouteHealth` | the registry of benched models | |
| `ProviderExecutor` | a request walking its fallback chain | extends `RouteHealth` |
| `StreamLedger` | the ledger of blocks and tool calls, as operators | |
| `StreamRecovery` | one streamed answer with its attempts | extends `StreamLedger` |
| `*Proofs` | theorems about the module named and those it extends | extend it and `TLAPS` |
| `MC*` | small instances | extend the module named |

**MessageTree.**  A prompt is a model value; `<<prompt, "status">>` stands for the
id of its status message, which the platform makes fresh.  Each method of
`MessageTree` is one action, since it runs under the aggregate's lock without
suspending.  `Descendants` and `ReplySubtree` are least fixed points instead of
the code's worklists.  `CancelAll` and `RemoveMessageSubtree` include the
`ValueError` of `_ui_target` that leaves them half done.  A claim id is a fresh
one: `FinishAndClaimNext` asks for an id unlike the one it ends.

**TreeQueueProcessor** adds `published` and the task of each claim, with the phase
it is in: not entered, dead (cancelled before its first step), in its callbacks,
running, or failed.  A manager transition and the launch or cancellation of the
task are one action, because the manager's lock is never held across a
suspension; the task's own steps are separate.  Every step of it is a step or a
stutter of `MessageTree`: `tree_tasks` checks `Spec` of `MessageTree` as a property
with the aggregate's variables mapped to themselves, and `DrivesTheTree` proves it.
`FinishAndClaimNext` of the aggregate has `RunnerLeft` as its precondition; the
processor meets it.

**MessagingWorkflow.**  A tree is here the set of its prompts, named by its root, and
which waiting prompt is claimed next is left open: queue and tasks are the business
of the two modules above.  A step runs from one real suspension of the code to the
next.  A prompt's token is the pair of generations it read when it was received; a
command is a record that moves through draining its cancelled tasks, handing the
snapshots to the store, deleting the messages and reporting.  `_state_lock` is held
across the drain and appears as `lock`; the manager's never is and does not.
Runners record, complete, fail and leave at any time and save a snapshot each
time.  The rigid `shape` holds what users and platform send.  Simplifications:
`record_message_id` does not raise, the cap of the message log is off, voices are
not joined before the lock, `cli_manager.stop_all` does not raise, and taking the
lock is one step with the transition under it.

**SessionPersistence.**  Content is a version number, so "older" is "less".  A
writer is the loop (0) or the generation whose timer thread it is; it claims,
takes its snapshot, waits for the writer lock, checks its generation, writes,
and decides whether the store is clean, each a step of its own.  `Crash` may
come between any two.  `clear_scope` alone holds the store lock across steps
(`clearing`).  The replacement of the file is atomic (`os.replace`).  The refinement
maps memory, file and the acknowledged version to those of `DurableStore`.

**ProviderGenerations.**  A runtime is named by the order of construction.  Leases,
the background refresh, explicit refreshes and probes, replacement with candidates
that fail to build, to commit or to clean up, cleanup tasks, cancellations at
each await and repeated closes are actions.  `start_model_list_refresh` happens
once, at startup, before anything can replace: that is how the application calls
it and the guard says so.

**ResponseLifetime.**  The clock has four values: before a stop, before its hard
deadline, in the last half second before it (`MIN_TEARDOWN_WAIT_SECONDS`), past it.
A bound set before that half second ends at the deadline, a later one half a second
after it was set (`teardown_remaining`).  So a wait set again after the close was
bounded outlasts it (`"waiting longer"`), and which fires first is open only where both
end at the deadline, or where the wait was set first.

**RotationEngine, RotatingProvider.**  Time is counted in units and a deadline is
the time left; a passed deadline and one never set are both 0, as the code treats
them alike.  The engine's operations are pure operators on a slot; the module of
the provider has one action per step of `_stream_with_rotation`, with the pool's
lock never held across a suspension.  `credits` is all that is kept of
`last_error`.  `least_used` may choose any candidate.

**RouteHealth, ProviderExecutor.**  The registry is a function from models to their
health; a bench that has run out is `"over"` until somebody reads it, since nothing
runs when it ends.  The executor is one request at a time between its waits:
waiting for a chunk, closing a failed stream, probing a sibling.  Time is in ticks
of the request's budget and passes in each of these (`Tick`, `Lingers`).  A tick of a
wait may be one the provider slept, in its backoff or behind its limiter: `slept` counts
them for the wait in progress, which is re-armed by as many, up to the budget of the
request (`GivesUpAt`); a chunk or a heartbeat begins a new wait.  `aside` remembers that
time passed asleep, closing or probing.  `rows` is
the ledger of verdicts, `shown` the models the client has read, `held` those whose
output waits for a commitment, `tracker` where the truncation tracker stands.
Cooldowns, preflights and probes answer what they like.  The code reads the registry
once per request, in `usable_indexes`, so reports of other requests and the ends of
benches are actions only between two requests: what falls inside a request and what
falls after it differ in nothing this request reads, only in the order in which the
registry takes the reports.  The client may leave at any
suspension, the one in which the seam of a continuation is sent included
(`InterruptedAtSeam`); one that leaves while the frames of a truncation are sent is
taken to have left before the failure was handled, which leaves the same row.  The
first-token timeout is off.

**StreamLedger, StreamRecovery.**  A frame is a tuple that names its block; text has
no content, the arguments of a tool call are counted in pieces of which `Whole`
parse.  An operator that goes through several blocks gives all their frames at once,
in the order the blocks were started; the code takes its calls in the order it first
heard of them, which nothing told of a block depends on.  One chunk of the upstream is
one action: between its frames only the reader can suspend.  The byte ceiling of
the hold-back is a number of frames.  `made` (every frame of the attempt) and
`wire` (what the reader got) are history.  At the end of a stream the parser of think tags may
still hold thinking or text, and that of tools a call (`Tails`).  Left out: the
rewriting of request bodies after a refusal, failed continuations' own output (it is never sent), empty deltas,
a reader that closes the generator, the native Anthropic path.

A definition marked "mutant" or "slip" is a plausible bug in the definition after
it; each property is known to fail when its mutant takes the definition's place.

## 3. The runs

All passing runs switch the deadlock check off: the systems may all come to rest
(no more prompts, the file saved, everything closed, every request ended).

| run | instance | what it shows |
| --- | --- | --- |
| `tree_tasks` | 3 prompts, 2 claims, 1 session, symmetric | queue, claim and node states agree (`ScheduleAgrees`); every graph it can save is one a restart accepts (`SnapshotRestorable`); a reply runs after its ancestors have settled (`AncestorsSettled`); every claim has exactly one task and a detached tree has nothing waiting (`NoneStranded`); FIFO (`NoOvertaking`); what settled stays settled and a stopped prompt never completes (`VerdictsStand`); the processor implements `MessageTree` (`Spec`); a task cancelled before its runner began never begins it (`StoppedNeverStarts`) |
| `tree_tasks_live` | 2 prompts, fair | every waiting prompt is served, and a cancelled task ends (`NobodyWaits`) |
| `workflow` | 2 prompts (a root and its reply to the prompt or to the status, or roots in two chats) or 1 prompt and the startup notice; 2 commands | an acknowledged clear or stop is never contradicted by an older prompt (`OlderTurnsGone`); the store holds what the repository holds and no late snapshot revives anything (`StoreAgrees`); every message the bot has shown can still be cleared (`Accountable`) |
| `session_file` | 2 saves, fair | the file implements `DurableStore` (`Durable`); the generation check suffices (`CurrentIsNewest`); what is in memory only has somebody who will write it (`NothingForgotten`), and it is written (`EventuallySaved`); flush and clear never deadlock (`LoopReturns`) |
| `provider_generations` | 2 requests, 3 runtimes, fair | nothing in use is closed and the counts are exact (`LeasesHold`), a retired generation without leases is being closed (`NothingForgotten`), a closed manager has closed everything (`ClosedIsAll`), closed is for good (`ClosedOnce`); `close` returns after a stop and the replacement lock is always left (`NobodyHangs`) |
| `response_lifetime` | 2 callers, fair | the lease outlives the body (`ReleasedAfterBody`); without a stop no caller returns before the release, and cancellations are raised (`ShieldHolds`); after a stop all return (`Returns`) |
| `response_lifetime_stop` | 1 caller | finding 1 |
| `rotation` | 2 keys, round robin, 2 requests on 2 models, waits up to 2, fair | `throttle_remaining` is 0 exactly when a key can serve (`ZeroMeansFree`); a request gives up only when no unspent key is free (`GivesUpLast`); a 429 benches a whole key only when enough models were refused, for the longest of their benches (`EscalatesWhole`, of a key that was healthy); keys come back (`KeyWakes`); requests end (`RequestEnds`) |
| `executor` | 3 models, the first and the last behind one pooled provider, 4 policies, budget up to 3 ticks, 1 report by others, fair | the client reads one answer, or a continuation that was asked for (`OneVoice`); the verdicts account for the chain (`StoryComplete`); a paused model is never tried, not even by the bypass (`PausedNeverTried`); silence alone cannot spend the turns of the models behind (`SilenceKeepsTurns`); a continuation never ends worse than a cut (`ResumeNeverWorse`); requests end (`RequestEnds`) |
| `executor_left_out` | the same | finding 2 |
| `executor_asleep` | the same | finding 3 |
| `stream_recovery` | up to 4 chunks an attempt; a plain, an aliased and a Task tool; arguments in 2 pieces; 4 settings | the reader's stream is legal at all times and closed at the end (`WireLegal`); frames of one attempt only, all of them (`OneAttempt`); nothing while the model has shown nothing (`HeldWhileSilent`); no half tool call is passed off as an answer, and no whole one is dropped (`CallsAreWhole`) |

### Bounds

- Three prompts give a root, a reply and a reply to either or to its status, so a
  middle node can be removed and two prompts can wait.  Two claim ids suffice: one
  is out, and its successor needs another.  The proofs cover any number for every
  safety property of `tree_tasks`.
- In `workflow` two commands let one be overtaken by the other, and two prompts let
  one be admitted while the other is being cleared, in its tree, its chat or
  another chat.  All three invariants are proved for any number of prompts, chats
  and commands.
- Two saves are two timer threads and the loop: one can overtake another, a flush
  can take the work of either, and a crash can fall between.  All safety
  properties of the file are proved for any number.
- Three runtimes are a generation that retires, one that replaces it, and a
  candidate or a further replacement; two requests let one keep what another
  drops.  The safety results are proved for any number.
- Two callers are the ASGI call and `aclose`.
- Two keys and two models reach the escalation threshold (2) on one key while the
  other serves.  The published windows (2, and the default of 1) and the lockout
  (2) differ from each other by the passing of time.  The safety properties are proved
  for any number of keys, models and requests, every policy and every escalation.
- Three models are one that fails, one a promotion jumps over, and one it promotes.
  Three ticks give every model a share.  A failure limit of 1 and a window of 2
  bring benches about within one request, and one report by another request makes
  a bench that this request's order has not seen.  The safety properties are proved
  for every route, every setting and any number of requests and reports.
- Four chunks hold reasoning, text and a tool call with its arguments in two
  pieces, or two calls; a hold-back of 8 frames is reached by that.  The settings
  are with and without a window, with and without a text threshold, with reasoning
  that commits and that does not, with and without early retry and recovery.  All
  four properties are proved for any tools, pieces, settings, buffer and chunks.

### Fairness

- `TreeQueueProcessor`: the event loop runs every ready task (weak fairness of a
  task's own steps), and a CLI run ends with a verdict.  The latter is a promise
  of the managed session, not of this code: a run that never ends holds its tree.
  The release of a claim is one step, since no lock it takes is held across a
  suspension: the loop that would retry it after a cancellation
  (`processor.py:199`) is not exercised, and `NobodyWaits` says nothing of it.
- `SessionPersistence`: started threads are scheduled, and a thread that keeps
  trying to take a lock gets it; locks are released and retaken by others, hence
  strong fairness of a writer's steps.
- `ProviderGenerations`: ready tasks run, cancelled awaits return, and cleanup tasks
  and model-list queries end.  Nothing says that a request releases its lease:
  `CloseReturns` holds because of the stop deadline.
- `ResponseLifetime`: timers fire, ready tasks run, and uvicorn cancels a request at
  its own bound after a stop.  Nothing says that a body ever closes.
- `RotatingProvider`: time passes, the loop runs on, and an upstream answers, fails
  or is cut off by the executor's deadline.
- `ProviderExecutor`: time passes (`Tick`), a wait that is over is given up
  (`TimesOut`), and what the executor runs between two waits ends (`Handles`).  Every
  policy here has a total budget, without which the code waits for ever.
  Nothing says that a provider ever answers.  That the close of a failed stream
  and the probe end is a promise of the provider, not of this code: neither has a
  timeout of its own in the executor.
- `MessagingWorkflow` and `StreamRecovery` state safety only.

## 4. The proofs

Every theorem is of the form `Spec => []Inv`, `Spec => [][A]_vars` or, for a
refinement, `DetailedSpec => AbstractSpec`, without bounds on the constants.  The
assumptions are those the modules name: `RootAssumption` (the root is a prompt),
`NoneAssumption` and `NoTaskAssumption` (the values standing for Python's `None` are
no values of their domain), `BoundAssumption` (the number of saves is a natural
number), `GenerationsAssumption` (requests are finite and differ from the other
lease holders), `ShapesAssumption` (every prompt has a chat, and a reply is in the chat
of the message it replies to), `FreeAssumption` (a free lock is held by no command),
`PoolAssumption` and `RequestsAssumption` (a pool has at least one key, models are
finitely many, a window is a natural number, a request has a model), `RouteAssumption`
(the route is a sequence without repetition), `BenchAssumption` (a model is ejected
after at least one failure in a window that holds one), `ToolAssumption` (every call
is of one of three kinds, with at least one piece of arguments), and the
`PolicyAssumption` and `BoundsAssumption` of the executor and of stream recovery (what
the settings, the budget and the sizes may be).

**TreeQueueProcessorProofs**, first the aggregate of `MessageTree`: `TypeCorrect`,
`ScheduleIsAgreed` (with its parts `QueueIsExact`, `WorkIsConserved`, `OneRunner`),
`Fifo`, `VerdictIsFinal` (with `SettledForGood`, `StoppedIsNotCompleted`).  The properties are not inductive alone: that a completed
report cannot touch a queued node needs to know that a claim which was not
cancelled still has its node out of the queue (`ClaimKeepsNode`).  `ScheduleInv` is
the conjunction of the type invariant, the three agreements and `ClaimKeepsNode`.
The facts about the queue's operations (what `Put`, `Without` and taking a suffix do
to the range of a sequence and to its injectivity, and that they keep the order of
what stays) are lemmas at the head of the module.  `FinishAndClaimNext` is taken
under `RunnerLeft`, that a runner leaves its claim only with its node settled;
`OneRunner` and `AncestorsFirst` rest on it, and the processor meets it.

`SavedIsRestorable` and `AncestorsFirst`, in the same module, speak of the reply graph.  What a
restart accepts and what lies below a prompt are least closed sets, and both arguments are
about those sets instead of about paths.  `GraphInv` says that a closed set with the
root is the whole graph (`Connected`), that no reference dangles and that runnable
prompts have a status; a new reply adds a leaf to every closed set that holds its
parent, and a removal takes a set that is closed itself and, by `RootTakesAll`,
holds the root only when it holds everything.  `OrderInv` adds the queue: of two
waiting prompts on one branch the upper is ahead, and nothing runs below a prompt
that has not settled.  `AncestorsSettled` alone is not inductive, since the head of
the queue could have a waiting ancestor behind it.

Then the tasks, in the same module: `DrivesTheTree` (the processor's specification implies
the aggregate's), `NobodyIsStranded`, `StopsInTime`.  Beside the aggregate's
invariants, `ProcInv` holds `NoneStranded` and `StoppedSettled`: the node of a task that
was cancelled, never ran, or raised has settled.  That is what `RunnerLeft` asks when
such a task ends, so the refinement and the invariant are proved together.  A
branch that is cleared with the root takes the tree out of the repository, and
`GraphInv` says that nothing is left in it.

**SessionPersistenceProofs**: `FileIsDurable` (a refinement: `Spec` implies
`DurableStore`'s specification), `NewestIsCurrent`, `NoChangeIsForgotten`.  The invariant
adds that no writer holds a generation from the future; that a writer whose
generation is current holds the newest content, since newer content draws a newer
generation; that the loop, which draws the generations, is never superseded itself;
that the writer past the check holds the writer lock and content between the file's
and the memory's; and that what the loop will acknowledge is in the file.  `disk <=
copy` of the one writer past the check is what makes a write never go backwards.
For `NoChangeIsForgotten`, `TimersInv` adds that a timer is started once, so that its
thread is at rest while it is armed: the work passes from the timer to its thread
or to the loop, and from there to the file or to a failure, and every other step
leaves whoever has it alone.

**ProviderGenerationsProofs**: `LeasesAreKept` (with `ClientsStayOpen`, `CountIsExact`),
`ClosedMeansAll`, `ClosedForGood`, `RetiredAreClosed`.  `Inv` adds to the types what the
replacement lock guards (`LockInv`), that there is one current generation while the
manager is open (`CurrentInv`), which generation a refresh task may still hold
(`TaskInv`) and what each phase of `close` has already retired (`CloserInv`).  The count
is needed to know that a count of 0 means that no holder is left, and so that a
cleanup closes nothing in use.

**ResponseLifetimeProofs**: `LeaseOutlivesBody`, `ShieldIsKept` (with
`NormalReturnReleases`, `CancellationRaised`).  `Unbounded` is the strengthening: before
a stop no wait and no close is bounded, so no timer can end one.

**MessagingWorkflowProofs**: `OlderTurnsStayGone`, `StoreKeepsUp`, `StaysAccountable`.
The first speaks of commands that are over, so the invariant says what each of their earlier stages has
already achieved.  `GenInv` bounds every token by the generations drawn so far.
`LockInv` says which commands are inside the lock.  `TreesInv` keeps older prompts out
of the trees from the moment the boundary is drawn, and `StoreInv` out of the
store from the moment it is cleared; `SnapInv` is why nothing brings them back: no
snapshot a command is about to hand over holds a prompt that is gone from the trees.  The steps fall into three lemmas, those that take effect
under the lock, those of a prompt that goes on, and those that touch neither trees
nor store.  `StoreAgrees` speaks of a free lock, so `WholeInv` says what is still open
while it is held.  By `HomeInv` a prompt is in the chat of its root and in the tree of
its parent, so a command takes whole trees.  `Covers` is what the command under the
lock is still to take out of the store, and `HandInv` what the snapshot it will hand
over may say: no verdict the trees do not have, no gap where a prompt is left.
`AgreeInv` is the property at every moment: store and trees differ only in what is
covered, or in what a failed clear took out of the store.  `StaysAccountable` is about
the moments when a message the chat shows is not in the log: then somebody who will
record or delete it has it in hand, or a clear that raised has lost it.
`CollectedInv` is what makes emptying the log safe: a clear of a chat that is under
the lock has collected everything its chat's log holds but for the statuses whose
senders still wait for their answer, and these are in the hands of their turns.  By
`MessagesInv` a notice is forgotten only after its chat has stopped showing it.

**RotatingProviderProofs**: `WellTyped`, `FreeIsServed` (`ZeroMeansFree`), `LastResort`
(`GivesUpLast`), `KeyOutOnEvidence` (`EscalatesWhole`).  The types are nearly
inductive: `NoBenches` adds that with an escalation of 1 no model of a key is
benched apart.  The work is in the operators.  Minimum and maximum of a set of times exist
by the least-number principle (`MinFacts`, `MaxFacts`); `LongestBench` and
`RateLimitedFacts` say that a 429 takes a healthy key out only at the escalation, for
as long as its longest bench; `ZeroFacts` says that the promised wait is 0 exactly
when some key has none, for throttled, benched and locked keys and for the forced
single key; and `GivesUpStep` and `EscalatesStep` find the one action that may move
a request or a key that way.

**ProviderExecutorProofs**: `WellTyped`, `OneVoiceHeard`, `StoryIsComplete`,
`PausedStayOut`, `SilenceTakesNoTurn`, `ResumeIsNoWorse`.  The parts of `IInv` say what a
request in flight owes: its order is the route's without the paused models
(`OrderInv`); every model behind the walk has failed, cools or was jumped over, and
no row has a verdict that only the end gives (`LedgerInv`); the reader has read
models that failed behind the walk, and the last of them may be the one in flight
(`VoiceInv`); a continuation was asked for by a Messages client and its tracker is in
a state that can be continued (`ResumeInv`); and until a provider has spoken, or time
has gone by asleep, closing or probing, the shares leave time for whoever is behind,
since without sleep no wait is re-armed (`SilenceInv`).  They are proved together:
what the end of a request makes of the ledger needs all of them.  `usable_indexes`
and the preflights are loops, modelled as recursive functions over the order.
`KeepingExists` and `PrepareFacts` show that such a function exists, by the least
number it could fail at, and `KeptProperties` and `WalkedInOrder` that each model is
met once and in the order of the route.

**StreamRecoveryProofs**: `WireIsLegal`, `OneAttemptOnly`, `SilenceIsHeld`,
`CallsStayWhole`.  While an attempt goes on (`Running`), four things tell the same story.
`Carries` and `Honest` are about the hold-back: it and the reader together have all
frames made, on one side, and if they were let go there was a reason.  `Agrees` says
that the ledger and its stream fit: by `Matches` the stream is legal, starts exactly
the ledger's blocks, stops exactly the closed ones and has as many pieces of each call
as its block; by `Fits` the ledger's pointers to its text, its reasoning and its calls
lead to open blocks of their own.  `Budget` bounds what a call was given, wherever it
waits.  The lemmas go up as the code does: what one frame adds to a legal stream
(`MatchesStart`, `MatchesMove`, and `MatchesMoves` for several that do not concern the same
block), what starting, feeding and stopping a block do to the ledger, then a chunk of
content, a call with its name and arguments in any order, a call found in text, the
flush, the repair and the two ways of closing.  Every end of an answer comes down to
`EndsWell`: the ledger it ends with leaves nothing open (`Shut`), and the envelope
closes the stream.  The sums and pushes over sequences are recursive functions, shown
to exist and to take one step per frame by the least-number principle, as above.

### Only model-checked

Liveness (`tree_tasks_live` and the liveness properties of `session_file`,
`provider_generations`, `response_lifetime`, `rotation` and `executor`) is beyond the
prover, as is `ENABLED`.  Every other property of a passing run is proved.

## 5. Disagreements found

With a run that shows them:

1. `response_lifetime_stop`: a cleanup abandoned at the stop deadline is cancelled,
   and a cancellation is neither a `TimeoutError` nor an `Exception`: the release is
   never reached, although the comment at `response_streams.py:115` says that the
   bound keeps it reachable.  Three orders lead there.  A cleanup begun before the
   stop has no bound on its close, and a wait set after the stop always abandons it.  A
   close and a wait set before the last half second of the stop both end at the hard
   deadline, and the wait may fire first.  And when a stream is closed in that
   half second or later, the wait is set one loop step before the close and ends
   before it: this is TLC's trace.
2. `executor_left_out`: after a 429 for one model, a later model of the same provider
   is promoted, and the walk goes on behind the promoted one.  The models it jumped
   over are never tried, and their rows still read "never reached" when the request
   fails (`execution.py:1282`).
3. `executor_asleep`: a wait is re-armed for the seconds the provider slept, and
   clamped to the budget of the request but not to the attempt's share
   (`execution.py:324`).  A model that sleeps and then stays silent uses up the
   budget, and those behind it are out of time, although the share "guarantees the
   models below this one actually get a turn" (`execution.py:969`).
   `SilenceKeepsTurns` says what is left of that promise: silence without sleep takes
   nobody's turn.

Met while modelling, without a run of their own:

- `MessageTree.cancel_all` says it cancels every runnable node (`runtime.py:227`).
  When the status of the running prompt was cleared and its runner has not wound
  down, `_ui_target` raises before the queue is drained (`runtime.py:247`), and the
  prompts that wait stay runnable.  `CancelAll` models it.
- `shortest_bench_remaining` reads only the slot's own deadlines when the slot is out
  (`core/credential_rotation.py:435`), so a longer bench of the model asked for is
  ignored and `throttle_remaining` promises too short a wait.
- An escalated 429 replaces a longer lockout by a shorter cooldown
  (`core/credential_rotation.py:557`), though the comment above says that the engine
  may not take back time it has promised.
- Workflow: the id of a feedback message that is recorded between the collection of
  the ids (`workflow.py:533`) and the emptying of the log (`:553`) is lost for later
  clears; a stop's snapshot handed over late can leave "in progress" in the store
  for a prompt that has completed; a `/clear` whose trees raised loses the ids it
  collected; `_discard_rejected_messages` forgets an id even when the deletion failed.
- Executor: when the preflight of a retry ends the route, `_prepare_from` returns
  nothing (`execution.py:1250`) and the request walks on to models whose rows already
  read "route ended"; `out_of_time`, `in_cooldown` and `unreachable_after` overwrite the
  rows of models that were tried, and "paused" or "ejected" rows; when the client leaves
  while the seam of a continuation is sent, the model that failed is not charged and its
  row is not written, and the model after it reads "interrupted" (`execution.py:1111`); a
  failure after the commit that is raised to the client is charged to nobody; the rate-based registry records
  no success of a model before its first failure.
- Stream recovery: `_repair_tool_args` repairs aliased arguments under their aliased
  names (`provider.py:1079`); `midstream_recovery_attempts` acts as on or off; pieces
  of a call whose name never comes are dropped.
- `_mark_clean_if_current` decides under the timer lock and clears the dirty flag
  after releasing it, so a newer save that fails in between leaves the flag clean.
  Nothing in the program reads the flag.

## 6. What is not modelled

`PROJECT.json` lists every part.  In short: request parsing, protocol conversion,
rendering, settings, logging and platform adapters are data or I/O without an
ordering problem of their own.  They are most of the source, which is why the map
covers a small part of it.  The parts that have an ordering problem and wait their
turn are in the plan below.  Inside the modelled parts: the JSON form of snapshots,
the legacy loader, the cap of the message log; the runner's streaming and the
wording of the chat's messages; the restore at startup, the repair of restored
statuses and the close of the workflow; the contents of the model catalogue;
prefetching and error frames of a stream; the hard-exit watchdog; the usage
counters, the cap of 64 model benches and the engine's ladder and breaker, which
only the web search tuning reaches; the router that builds a request's plan, output
and reasoning budgets, the first-token timeout; the bodies of recovery requests and
the native Anthropic stream.

## 7. Plan

In the order of what matters most and builds on what is there.

1. Done: the message tree and its tasks, the workflow over several trees, the
   session file, provider generations, the streamed response, rotation, the
   executor with its bench registry, and stream recovery, with the proofs above.
2. `ResponseLifetime` composed with `ProviderGenerations`: the lease a response
   holds is one of the manager's, a stop bounds both, and what an abandoned cleanup
   does to the drain.
3. The web search `KeyPool` on `RotationEngine`, with ladder and breaker; the
   limiter's sliding window and reactive block.
4. Managed CLI sessions, which discharge the assumption that a run ends after a
   cancellation; the supervisor's escalation of requests, the ordered shutdown of
   the application and the watchdog.
5. OAuth's refresh between processes; pending voice notes; the writer of the request
   log.

## 8. Running it

    tlc -workers 2 -config MCTreeQueueProcessor.cfg MCTreeQueueProcessor
    tlapm TreeQueueProcessorProofs.tla

Each run's module and configuration are in `PROJECT.json` under "runs".  With two
workers the longest runs are `tree_tasks`, `workflow`, `executor`, `rotation` and
`stream_recovery`, one to four minutes each.
