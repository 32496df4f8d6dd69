# Formal models of the Synapse runtime

TLA+ specifications, TLC configurations and TLAPS proofs for the core of
Synapse: the runtime that accepts turns for many sessions, runs one turn per
session, streams its events to observers in the process and over the network,
lets sessions hand work to each other and scripts call tools, and lets all of
it be cancelled, steered, resumed, closed and restarted at any moment.

Paths below are relative to `src/synapse/` of the repository unless they start
with `docs/`.

## 1. Inventory

| Component | Source | State | Operations | What is hard |
|---|---|---|---|---|
| Event broker | `runtime/sessions/events.py` | sequence, bounded window, subscribers, delivery queue, drainer flag | emit, subscribe, subscribe_from, forward_to, read_after, recovery_state, close | any thread emits, callbacks re-enter, observers raise, close races the drainer |
| Session runtime | `runtime/sessions/runtime.py` | status, active and latest handle, reservation, approval claim, settling set, binding, close claim | reserve/submit/start, approval resume, cancel_turn, steer_turn, rebind, settlement, close | commands from any thread against a settlement that awaits; turn identity fencing |
| Agent turn | `runtime/agent_loop/` | cancel token, future, outcome | run, cancel | the outcome is fixed before the result is handed over |
| Steer queue | `runtime/steer.py` | guidance of one agent | push, drain, clear | one queue serves successive turns |
| Runtime manager | `runtime/sessions/manager.py` | runtimes, submit and lifecycle locks, queued owners, release tasks, semaphore, closes in flight | open, submit, close, delete, shutdown | coroutines suspended on each other; locks that are popped and recreated |
| Collaboration | `runtime/collaboration/` | durable scopes, requests, messages and deliveries; one worker task per recipient | begin_scope, create_request, post_message, claim, start, link, settle, stop, recovery, sweep | a stop or a crash between two transactions; approvals in the middle of a delivery |
| Goals | `goals/` | goal status, token and time budget | create, account, complete, block | accounting across turns, restarts |
| Program tool calls | `runtime/ptc/` | tickets of the scheduler, tasks of a run, jobs of the thread pool | dispatch, acquire, release, offload, result, timeout, stop | handlers that outlive their run, cancellation at the moment of a grant |
| Runtime service | `runtime/service/` | event streams with ingress, live and replay buffers and a cursor; routed projects | watch (open, drain, iterate, close), commands and queries | the runtime's thread against the service loop; overflow, folding, resumption |
| Transport | `runtime/transport/` | connections, pending requests, subscriptions, a watch with its reader task and queue | requests, watch, reconnect, close | lost connections with frames under way, close against the reader |
| Daemon | `runtime/daemon/` | single-instance lease | start, lease | crash of the owner |
| Session stores | `sessions/`, `runtime/sessions/persistence.py` | SQLite rows, projections, checkpoints | persist, repair, purge, fork | one of several stores fails |
| UI, ACP, web console, models, tool output, memory, Rust crates | various | mostly configuration, rendering, text | | I/O and data rather than control |

How they interact.  The service calls the manager; the manager opens a session
runtime per thread, waits for a permit and starts a turn; the turn runs on a
worker thread with the session's broker as its sink and drains the agent's
steer queue before each model call; the settlement task on the owner loop
persists the result, clears guidance, may start a goal follow-up and publishes
the outcome; the manager's release task then gives permit and submit lock back.
A close of a session ends with the close of its broker.  A watch of the service
subscribes to the broker; the transport pumps that stream to a remote client,
whose own watch reconnects from its cursor.  Collaboration starts turns through
the manager on behalf of other sessions, and a turn's tools may run a script
whose tool calls come back through the bridge.

What makes each part correct:

- broker: a reader knows exactly whether it missed something; delivery to each
  observer is serial, ordered and complete; a close notification comes last and
  comes.
- session: one turn at a time; guidance, cancels and approvals reach only the
  turn they were meant for; the status tells who owns the session; CLOSED is
  final and true.
- manager: permits and locks are neither lost nor duplicated; one runtime per
  thread; a delete excludes everybody; nobody waits for ever.
- collaboration: a message is executed at most once, in order, one at a time per
  recipient, across crashes; what is stopped does not run on; a request is never
  left without something that will resolve it.
- program tool calls: a write excludes everything, also after its run is gone;
  tickets are neither lost nor duplicated; a result tells the truth; runs end.
- event stream and remote watch: the cursor is exactly what the consumer has, so
  that a resume neither skips nor repeats; a clean end is complete; the consumer
  is told.

## 2. Modules

| Module | Models | Granularity |
|---|---|---|
| `EventBroker` | `SessionEventBroker` | one action per section under the broker lock; callbacks and the exception paths of the drainer are steps of their own |
| `EventBroker_proofs` | theorems about `EventBroker`: the window, the drainer, the delivery | |
| `SessionRuntime` | `SessionRuntime`, the turn's thread, the steer queue | loop code between two awaits is one action; commands and threads interleave at every session-lock section |
| `SessionRuntime_proofs` | theorems about `SessionRuntime` | |
| `RuntimeManager`, `MCRuntimeManager` | `RuntimeManager`; symmetry of thread ids | coroutine code between two suspensions is one action |
| `RuntimeManager_proofs` | theorems about `RuntimeManager` | |
| `Mailbox` | what the collaboration mailbox promises (abstract) | |
| `Collaboration`, `MCCollaboration` | store, worker, coordinator and tools of collaboration | one store transaction is one action |
| `Collaboration_proofs` | theorems about `Collaboration`, the refinement of `Mailbox` among them | |
| `ToolCalls`, `MCToolCalls` | PTC scheduler, bridge, thread pool and process session; symmetry of runs and calls | a task runs to its next await; pool threads come between |
| `ToolCalls_proofs` | theorems about `ToolCalls` | |
| `EventStream` | `LocalEventWatch`, `LocalEventStream` | a step on the loop, split where it gives up the ingress lock |
| `EventStream_proofs` | theorems about `EventStream` | |
| `RemoteWatch` | `_RemoteEventWatch`, `_RemoteEventStream`, the server's `pump` | a step from one await to the next |
| `RemoteWatch_proofs` | theorems about `RemoteWatch` | |

The specifications are layers.  `RuntimeManager` keeps of a session runtime only
free, reserved, busy and closed; that a busy session becomes free again is what
`SessionRuntime` shows as `TurnsSettle`, and its fairness assumption cites that.
`SessionRuntime` treats the broker's close as part of publishing CLOSED.
`EventStream` takes from `EventBroker` that a subscriber gets every event after
its replay window once, in order, and its close last (`ResumeContiguous`,
`DeliveredInOrder`, `NoLostDelivery`, `CloseReachesObservers`); `RemoteWatch`
takes from `EventStream` that the server's stream delivers the matching events
in order and that its cursor may have moved past hidden ones
(`CursorIsDelivered`), and lets it fail at any time.  `Collaboration` takes from
`SessionRuntime` that a turn ends, pauses or is cancelled through its token.

### EventBroker

`log[s]` is the envelope with sequence number `s`, so `Len(log)` is
`_sequence`; the deque of retained envelopes is the set `retained` of numbers,
whose order is the deque's order.  `Victims` and `DroppedAfter` are
`_make_room_locked` and `_evict_locked`, `Window` is `_window_locked`.
`delivery` holds each envelope with the snapshot of records taken when it was
accepted.  A thread's `pc` says where it stands in `_dispatch`: `loop` (before
the lock section that takes the next item), `deliver` (calling the records of
one envelope), `notify` (`_notify_closed`), `escape` (an exception on its way
to the outer handler).  A thread in `deliver` or `notify` may call the API: a
re-entrant call.  `replay`, `from`, `upto`, `queued`, `delivered` and `fired`
are history.  A legacy `subscribe` is modelled with its unchecked cursor.
Exceptions other than KeyboardInterrupt and SystemExit do not change the
drainer's control, so `CallbackReturns` covers them.

### SessionRuntime

Turns are numbered in the order they start.  `phase[t]` is the turn's thread
(`running`, `decided` when the outcome is fixed and the workspace is being
read, `done`), `settlePc[t]` its settlement task (`wait`, `persist`, `goal`,
`publish`, `ended`, `settled`).  Handle and context are assigned together in
the code, so `active` stands for both.  STARTING and QUEUED are one status
here: nothing but the manager's own sequence of calls tells them apart, and
every check in the code treats them alike.  `build_approval_resume` and
`take_approval_claim` are one step (`ClaimResume`): the second lock section of
the first repeats its checks and a cancel in between clears the claim.
`orphaned` holds the turns whose future was cancelled by a cancelled waiter
(`AbandonWait`); their thread keeps running.  A turn may also raise after its
outcome is fixed, since the read of the workspace is outside the `try` of the
run (`turn.py:264`, `:282`; `TurnRaises`).  Either way the future ends without a
result (`Resultless`): its settlement task and a close that waits for it end
with that.  `dropped` is history: the turns that were cancelled while paused, or
given up by a close.  `GoalFollowup` is guarded by the
constant `Followups`, the `goal_followup` argument.

### RuntimeManager

A submit is a record whose `pc` follows the coroutine: `open`, `joinClose`,
`submit`, `joinRelease`, `queued`, `granted`, `revoked`, `running`, `settled`,
`freed`, `done`, `failed`, `keyerror`.  A close or delete likewise.  Locks are
objects: `submitLock[ref]` is the number of the lock registered for a thread,
`locked` the numbers held, so a popped and recreated entry is another lock.
Of the modelled calls only a delete that purges holds the lifecycle lock across
a suspension, so it is that delete's number; in the code `fork_session_ref`
(`manager.py:722`) and `session_binding_guard` do too, which can only make the
others wait.  `Grants` is the acquire task's own step, apart
from the resumption of the submit (`Starts`), because a close, a shutdown or a
cancellation can come in between.  `TurnAbandoned` is the manager's side of a
turn whose future ended without a result: the release task ends with that, and a
close that waits for the turn or for the task raises.  `CloseCancelled` cancels
the caller of a close or a delete; a delete that was waiting for its purge gives
the lifecycle lock back, and `PurgeEnds` is the worker thread it left behind
(pc `left`).

### Collaboration and Mailbox

`scope`, `req` and `mail` are the tables of the store, `turn[d]` the turn that
was started for a delivery and `worker[s]` the task that serves a recipient,
with the delivery it holds.  A worker's `pc` is the next transaction it makes:
`claim`, `check`, `start`, `link`, `wait`, `fail`, `settle`, `abandon`, `drop`,
`resolve`.  A stop command is two steps, the fence in the store (`StopScope`,
`StopAssignment`) and the cancellation of the turns (`CancelRuns`).  `Crash`
ends the daemon between any two transactions and loses workers and turns;
`RecoverUncertain` and `SettleInterrupted` are the two steps of the start-up.
A turn is `broken` when its future ended without a result: the wait of its worker
raises, and the worker's task ends with the delivery `running` (`WorkerDies`;
`WaitResumed` when the turn has ended before the cancel of a refused resume).
Optimistic versions are left out: the version a worker holds is current exactly
while the delivery is still claimed.

`Mailbox` is the abstract specification: messages are taken in the order of
posting, one at a time per recipient, and executed at most once.
`Collaboration` implements it (`ImplementsMailbox`) with `box` read off the
delivery's state, `to` its recipient and `runs` the turns started for it.

### ToolCalls

A call has a `task` on the loop (`unslotted`, `created`, `queued` for its
ticket, `running` on the loop, `waiting` for the pool, `draining`), a ticket
(`queue`, `held`, and the counters `reads` and `writer` the code keeps) and, if
its handler blocks, a `job` of the pool.  The script is the environment: the
host may read any frame at any time, also a result frame while calls are in
flight.  A handler need not return, and one on the loop need not react to its
cancellation.  When one on the loop ends, it may leave a private thread behind
(job `adrift`), as `ls`, `glob` and `grep` do when they are cancelled and an
unknown async tool may at any time (`bridge.py:60-65`, `:333-338`); the ticket is
back by then.  A handler may also raise CancelledError itself: its call ends
without an answer (task `quit`).

### EventStream

An event is its session sequence; an item of a buffer is the sequence of events
whose text it carries, so that folding is visible.  `Project` is one event of
the replay, `DrainTake` and `DrainCommit` the two critical sections of `_drain`,
between which the runtime's thread may come in.  `bad` events are those whose
projection raises: a service error ends the stream with it, any other exception
(`Quit`) without one.  `overtaken` is history: a delta was folded while a drain
held a detached batch.  Two things are left out: a service loop that is closed
(nobody iterates then), and events of another kind, turn or message among the
foldable ones, which `other` stands for.

### RemoteWatch

`chan` holds the frames under way; `Lose` keeps any prefix of them.  Opening a
generation is one step, because nothing else can touch the watch meanwhile but
`aclose`, which cancels it wherever it is.  `terminal` carries what set it.
`silent`, `cut` and `mute` are history: the three ways a watch ends without a
word to its consumer (below), the last one on the server, whose pump returns when
an event cannot be put into a wire message (`PumpStops`).

## 3. Runs

All runs switch deadlock checking off: calls are bounded in number, and a
system nobody calls any more rightly stops.

| Run | Bounds | Checks |
|---|---|---|
| `broker_retention` | 1 thread, 2 turns, all kinds, window 2, cap 3, 6 events | `GapExact`, `IntactExact` |
| `broker_delivery` | 2 threads, 2 events, 2 subscriptions, 1 exit | `ResumeContiguous`, `NoLostDelivery`, `QueueNeverStranded`, `DeliveredInOrder`, `CloseReachesObservers` |
| `session` | 2 agents, 2 turns, 2 claims, 1 abandoned waiter, any turn may raise | `OneLiveTurn`, `GuidanceFenced`, `ClosedIsQuietUnlessAbandoned`, `ResumedOnce`, `TurnsSettle`, `CloseCompletes` |
| `manager_safety` | 2 threads, 1 permit, 2 submits, 2 closes, 1 abandoned turn, any caller cancelled | `HoldingsAccounted`, `OneRuntimePerThread`, `CloseLeavesNothing`, `DeleteIsExclusive` |
| `manager_liveness` | the same with 1 close | `SubmitsEnd`, `ClosesEnd` |
| `collab_mailbox` | 2 sessions, 1 of them opens the scope, 2 requests, 3 messages, 1 worker, 1 crash, 1 approval, 1 broken turn, 1 stop | `OwnerAttended`, `ReplyNotLost`, `ImplementsMailbox` |
| `collab_dialog` | 2 sessions, 1 request, 4 messages, otherwise as above | `NoRunaway`, `RequestBacked`, `ReplyHasRoom`, `RequestsMoveOn` |
| `ptc_barrier` | 2 runs, 3 calls, 2 in parallel, 1 pool thread with a queue of 1, 1 thread adrift | `Exclusive`, `TicketsOwned`, `NoLostWakeup`, `OutcomeHonest`, `NoLateStart`, `FairInOrder` |
| `ptc_timeout` | 2 runs, 2 calls, 1 slot | `RunsEnd` |
| `stream` | queue 2, folds of 2, all kinds, 4 events, 2 streams | `CursorIsDelivered`, `PendingExact`, `ErrorThenEof`, `WaitersWoken` |
| `remote_watch` | queue 2, 3 attempts, shown and hidden events, 4 events | `WatchContinuous`, `EndIsHonest`, `WatchEnds` |
| `stream_fold` | queue 2, folds of 2, 4 events, 1 stream | `TextInOrder`: violated |

Two of the larger runs, `manager_safety` and `ptc_barrier`, name a VIEW in their
MC module: what the local variables of a call that is over still hold is read by
no step and by no property of the run, so states that differ there alone count
once.  They check invariants and action properties only, for which this is sound.

Why the bounds are enough.  Retention: with a window of 2 and a cap of 3, six
events fill the window, go beyond the budget with lossless events, reach the
cap, evict from the middle and evict from the front.  Delivery: two threads
give every race for the drainer (a drainer and a caller), and re-entry needs no
third; two subscriptions give an envelope with several records.  Session: two
turns give a turn and its resume or follow-up or successor, the proofs cover
any number; two claims give a repeated answer; two agents give a rebind.
Manager: one permit makes the second submit wait, and two closes give a joined
close and a delete behind a close.  Collaboration: two requests put two messages
into one mailbox while one is owned; four messages are a request, a question,
its supplement and the reply, which is the one the ceiling is reserved for.
The scope is opened by one of the two sessions (`Sources`); the other would only
exchange their names.
Tool calls: three calls give a holder, a waiter and one behind it, of two runs,
and one pool thread with one place makes the third offload refused.  Stream: with
a queue of 2 the third unconsumed event folds or overflows, the fourth comes
after it, and the second stream resumes.  Remote watch: with a queue of 2 the
third event overflows; three attempts give a lost connection, a failed and a
successful reconnect.

Fairness.  `EventBroker!FairSpec`: a thread in the drainer continues.
`SessionRuntime!FairSpec`: turns' threads, settlement tasks and a claimed close
continue; a turn's runner returns, which its model calls' timeouts and the
cancel event provide.  `RuntimeManager!FairSpec`: the loop runs what is ready.
`Collaboration!FairSpec`: dispatcher, workers, the sweep and a fenced stop go
on, turns end or pause, the daemon is restarted; a session is not busy at every
single attempt of the worker's retry loop (strong fairness of `StartOk`).
`ToolCalls!FairSpec`: the loop runs what is ready, pool threads take work, the
timer fires; nothing is assumed of handlers.  `EventStream!FairSpec` and
`RemoteWatch!FairSpec`: the loops run what is scheduled and the consumer
iterates; nothing makes a connection last.  No call of the API, approval or
message is assumed to happen.

### What `stream_fold` shows

`_drain` detaches the ingress and projects it outside the lock.  A text delta
that arrives at the bound meanwhile finds the ingress empty, and
`_coalesce_locked` folds it into `_live[-1]` (`service/local.py:3495`), which is
older than the detached batch.  The consumer gets the text out of order, and the
merged event's sequence carries the cursor past the batch, so that a resume
skips it.  The docstring allows only the newest pending tail as a target.
`CursorIsDelivered` states what holds otherwise.

### Behaviours the models show and the properties except

Each is reachable in a model, and the property named states what holds besides.

- Broker: an observer exits the process, the drainer reads `_closed` without the
  lock (`events.py:365`), and another thread closes before the drainer is
  released.  The close finds the drainer busy and leaves the notification to it,
  the drainer has seen the broker open and goes.  The `on_close` is stranded for
  good: `emit` returns at once when the broker is closed (`:234`), and a second
  close does nothing.  `CloseReachesObservers` excepts a close that comes there.
  The comment on `_dispatching` (`:200-202`) and the docstring of `_dispatch`
  (`:339-341`) say that this cannot be; `CloseNeverStranded` in `EventBroker`
  states their claim, and TLC refutes it with the bounds of `broker_delivery`.
  No run lists it.
- Session: a cancelled waiter of `wait_for_settlement` cancels the turn's future
  (`runtime.py:695`), and a close then publishes CLOSED while the thread runs
  (`ClosedIsQuietUnlessAbandoned`).  A turn that raises after its outcome is fixed
  ends its settlement at its first line (`runtime.py:1159`): the handle stays, the
  status stays busy (`QuietMeansSettled`), its guidance stays in the queue
  (`GuidanceFenced`), and a close that waits for it fails (`CloseCompletes`).  A
  cancel accepted after the outcome is fixed and before the workspace is read
  (`turn.py:276`) leaves the session waiting for an approval.
- Manager: a caller cancelled between the grant of its permit and its own
  resumption loses the permit (`manager.py:872`; `leaked` in
  `HoldingsAccounted`).  A submit that waits for a close finds its lock popped
  and ends with KeyError (`manager.py:305`, `:785`; pc `keyerror`).  A close whose
  turn or release task was cancelled or raised fails and leaves the closed runtime
  registered (`FinishCloseFails`).  A delete that is cancelled while it purges, as
  a disconnect does to the requests in flight (`transport/websocket.py:436`), gives
  the lifecycle lock and its mark in `_deleting` back at once, and the thread can
  be opened and used while the worker still purges its history.
  `DeleteIsExclusive` speaks of a delete that still waits.  The docstring of
  `delete_session_ref` (`manager.py:607-613`) makes no such difference, and that of
  `session_binding_guard` (`:240-251`) names the danger; `PurgeIsExclusive` in
  `RuntimeManager` states the first, and TLC refutes it with the bounds of
  `manager_safety`.  No run lists it.
- Collaboration: a question to the source whose start is overtaken by the
  target's reply stays claimed with no worker, and the recipient's mailbox is
  blocked until a restart (`runtime.py:385-390`; `Refused` in `OwnerAttended`).
  The proof of `OwnerAttended` showed a second way into the same state: a
  receive_only stop of the scope, which fences replies alone, between the start
  and the link of such a question.  `Refused` covers both.  A running delivery
  loses its worker when the wait for its turn raises (`runtime.py:163-185`, `:349`):
  the turn's future was cancelled or raised, or the turn ended before the cancel of
  a refused resume (NoActiveTurnError, `sessions/runtime.py:796`).  It stays
  running, and the mailbox blocked, until a restart (state `broken` in
  `OwnerAttended`, `HeldUp` in `RequestsMoveOn`).  Errors of the store's own I/O
  would do the same and are not modelled.
- Collaboration: a request that waits for its source may do so for ever.  The start
  after a crash closes the question as interrupted and fails requests that are
  pending or working, not this one (`store.py:818-831`); a stop of the scope
  cancels or withholds the question, and it and the sweep cancel pending requests
  alone (`QuestionBacked` in `RequestBacked`).
  A reply whose start failed, or that a crash hit before it ran, is closed by the
  next startup without being given to its source (`ReplyNotLost`).
- Tool calls: the threads that handlers on the loop leave behind hold no ticket.  A
  later write may run beside one (`Exclusive`), a run may succeed while one works
  (`HonestSuccess`), and the warning about background work does not count them
  (`BackgroundWarned`).  The module's docstring says so of unknown async tools
  (`bridge.py:60-65`).  A handler that raises CancelledError itself leaves its call
  unanswered (`process.py:600`; `HonestSuccess`).
- Remote watch: after a failed reconnect within the budget the reader goes on
  without a connection and returns (`client.py:2850`, `:2783`): its consumer
  waits for ever (`silent`).  `aclose` may cancel the reader inside
  `_terminal_error` or `_terminal_eof`, and no marker follows (`cut`).  The
  server's pump returns without a frame when `notify` cannot encode an event
  (`websocket.py:221-225`, `:407-411`: the service allows more nesting and longer
  collections than the wire), and as long as the connection stays up the consumer
  waits, also when the session has ended (`mute`; all three in `WatchEnds`).  With a
  filter, the server's cursor runs ahead of the event's sequence, or of the
  requested cursor at a reconnect, and the client ends the watch with a protocol
  error (`client.py:2768`, `:2871`; `EndIsHonest`).

## 4. Proofs

`EventBroker_proofs` proves, for any threads, turns, budgets and bounds:

| Theorem | States |
|---|---|
| `TypeCorrect` | `Spec => []TypeOK` |
| `GapIsExact` | `Spec => []GapExact` |
| `IntactIsExact` | `Spec => []IntactExact` |
| `WindowIsBounded` | `Spec => []WindowBounded` |
| `PreviewsAreEvictedFirst` | `Spec => PreviewsGoFirst` |
| `OneDrainerAlways` | `Spec => []OneDrainer` |
| `ResumesAreContiguous` | `Spec => []ResumeContiguous` |
| `QueueIsNeverStranded` | `Spec => []QueueNeverStranded` |
| `NoDeliveryIsLost` | `Spec => []NoLostDelivery` |
| `DeliveriesAreInOrder` | `Spec => []DeliveredInOrder` |

The only assumption is `BrokerAssumption` (kinds are known kinds, the preview
budget is positive and not above the hard cap), which the constructor enforces.

The argument for the stream.  `GapExact` is not inductive: that a cursor at or
above `droppedThrough` misses nothing needs that everything above it is
retained, and that it was really evicted.  The inductive invariant `StreamInv`
adds that `droppedThrough` itself is not retained, that every number above it
is, that the last event always is, that `latestTurn` is the turn of the last
event, and that all numbers from `latestTurnStart` on belong to it.  An eviction
keeps it because the victim is the oldest preview or the oldest event: either it
lies above `droppedThrough`, which then moves up to it, or below, and the mark
stays.  Facts about the minimum of a finite set of numbers and about
cardinalities are lemmas.

The argument for the drainer.  `OneDrainer` speaks of a thread that takes or
delivers events, but the same thread is still inside `_dispatch` while it
notifies the close or leaves through the exception handler, and a second thread
that entered then would break the invariant later.  `DrainInv` therefore says
that at most one thread is anywhere in `_dispatch`, and that while it is there
`dispatching` is up or the broker is closed: the two conditions under which
nobody else claims the drainer.

The argument for the delivery.  `QueueNeverStranded` needs `HandoffInv`: until
an observer exits the process nobody is in the exception handler, the flag
`dispatching` always has a thread behind it, and a queue that is not empty has
the flag up; a drainer that finds the queue empty drops the flag in the same
lock section.  Order and completeness are about one record at a time.  What a
record has been given, what a thread has in its hand for it and what waits in
the queue make up `Accepted`; `OrderInv` says that these three follow one
another and come from the stream, `AccountInv` that together they are exactly
what the record is owed: its queued replay and every event from its
subscription up to `Upto`, the event at which it was removed or the newest one.
The two are needed together with `DrainInv`, since a second thread in
`_dispatch` would overtake the first.  `CloseInv` puts `on_close` behind all of
it.

`SessionRuntime_proofs` proves, for any agents and any number of turns, claims
and abandoned waiters:

| Theorem | States |
|---|---|
| `SessionTypeCorrect` | `Spec => []TypeOK` |
| `OneTurnAtATime` | `Spec => []OneLiveTurn` |
| `GuidanceStaysFenced` | `Spec => []GuidanceFenced` |
| `QuietSessionsSettled` | `Spec => []QuietMeansSettled` |
| `StatusTellsOwner` | `Spec => []OwnedMeansBusy` |
| `ClosedMeansQuiet` | `Spec => []ClosedIsQuietUnlessAbandoned` |
| `ClosedStays` | `Spec => ClosedIsFinal` |
| `ApprovalAnsweredOnce` | `Spec => []ResumedOnce` |
| `ResumeBinding` | `Spec => []ResumeKeepsBinding` |

The only assumption is `SessionAssumption` (there is an agent, the bounds are
numbers).

The argument.  None of the properties is inductive, because each relates a
thread to the session's fields and the settlement task is what connects the
two.  The inductive invariant `Inv` has one part for each connection, and one
lemma shows that every action keeps each part:

- `TaskInv`: the settlement task follows the turn's thread, and the fence
  `settling` holds a turn as long as its task works.  A start checks the fence,
  so this is what keeps the next turn out.
- `OwnerInv`: the owner is the newest turn or nobody, a turn owns the session
  until its settlement has cleared it, and only a turn that waits for an
  approval owns it afterwards.
- `StatusInv`: a settlement that has not handed over shows as running or
  cancelling, a reservation as queued with nothing settling, and a busy status
  always has a settlement that will replace it.
- `CloseInv`: a claimed close has revoked the reservation, and CLOSED means that
  every task was joined.
- `GuidanceInv`: queued guidance is for the newest turn, in the queue of its own
  agent, and is gone once its settlement has cleared it, wherever the session
  was rebound to.
- `ApprovalInv`: an authorization of the current generation is for the newest
  turn, which has not been given up, and a resume reservation for that turn carries
  its agent.  Uniqueness of
  the resume follows: a turn can only resume its immediate predecessor.

A thread that runs, and was not orphaned by a cancelled waiter, then has a
settlement that still waits for it (`LiveTurn`), hence is the newest turn, and
the theorems follow.

`RuntimeManager_proofs` proves, for any threads, permits, submits, closes and
abandoned turns:

| Theorem | States |
|---|---|
| `ManagerInvariant` | `Spec => []ManagerInv` |
| `TypesHold` | `Spec => [](Typed /\ Built)` |
| `HoldingsAreAccounted` | `Spec => []HoldingsAccounted` |
| `OneOpenRuntime` | `Spec => []OneRuntimePerThread` |
| `ClosesLeaveNothing` | `Spec => []CloseLeavesNothing` |
| `DeletesAreExclusive` | `Spec => []DeleteIsExclusive` |
| `TurnsAreBounded` | `Spec => []TurnsBounded` |
| `ThreadsTakeTurns` | `Spec => []OneTurnPerThread` |

The assumption is `ManagerAssumption` (there is a thread, and a permit).

The argument.  `HoldingsAccounted` is inductive with the types, since every path
gives back what it takes in the same step.  The others are not: a lock can be
popped and made again, so that "the holder of the lock" does not say whose turn
it is.  The missing facts are in `ManagerInv`: a reservation and a running turn
are those of the runtime and the lock that are registered *now*
(`HoldersKnown`), with the owner record or the release task that belongs to
them; an open runtime is the registered one (`OpenOnesRegistered`); and a close
(`ClosesKnow`) or the shutdown (`ShutdownKnows`) knows at each of its waits what
can be left of the generation it closes: its queued submit, then a turn, then a
release.  The last two theorems state what the semaphore and the submit locks
are for; both follow from `ManagerInv` and no run repeats them.

`Collaboration_proofs` proves, for any sessions and any number of scopes,
requests, messages, stops, crashes and pauses:

| Theorem | States |
|---|---|
| `MailboxInvariant` | `Spec => []MailInv` |
| `TypesHold` | `Spec => []TypeOK` |
| `MailboxesImplemented` | `Spec => ImplementsMailbox`: the refinement of `Mailbox` |
| `NothingRunsAway` | `Spec => []NoRunaway` |
| `NoReplyIsLost` | `Spec => []ReplyNotLost` |
| `RequestsAreBacked` | `Spec => []RequestBacked` |
| `OwnersAreAttended` | `Spec => []OwnerAttended` |
| `RoomIsKept` | `Spec => []ReplyHasRoom` |

The assumption is `CollaborationAssumption` (finitely many sessions, at least
one; a request may carry two messages or more).

The argument goes in layers, each resting on the one before.

- `MailInv`: messages are numbered and addressed as they were posted, a mailbox
  has one owned message, a worker holds the one its session owns, and a message
  that nobody has claimed has no turn.  This alone gives the refinement: a claim
  takes the oldest of a mailbox that owns nothing, and a start is the first one.
  Every step of the store is shown to be a step of `Mailbox` or to leave `box`,
  `to` and `runs` alone.
- `TurnInv`: a turn that nobody has cancelled is one its worker links or waits
  for.
- `RunInv`: a linked turn of a stopped request has a stop on its way that will
  cancel it.  That is the window between the two halves of a stop; `NoRunaway`
  is what remains when the second half has come.
- `ReqInv`: what is queued for the target belongs to a request that waits for
  it, there is one such message at most, a worker past its check still faces the
  request it has checked, and an open request has a message that will move it.
- `QuestionInv`: the last question of a request that waits for its source is on its
  way, was put to it, or is one that a restriction or a startup has closed; a
  running delivery was started, and a worker that is about to drop that question
  knows that the source wants none.
- `AttendInv`: what is owned has its worker, unless its turn broke.  It holds
  while the daemon is up only, so it also says what a worker that is about to
  resolve a claim finds.
- `RoomFor`: an open request has fewer messages than the ceiling, because a
  posting is refused at the last place unless it is the reply, which ends the
  request.

`ToolCalls_proofs` proves, for any runs, calls, slots and pool sizes:

| Theorem | States |
|---|---|
| `Invariance` | `Spec => []IInv` |
| `TypesHold` | `Spec => []Typed` |
| `TicketsAreOwned` | `Spec => []TicketsOwned` |
| `ExclusionHolds` | `Spec => []Exclusive` |
| `WakeupsAreNotLost` | `Spec => []NoLostWakeup` |
| `OutcomesAreHonest` | `Spec => []OutcomeHonest` |
| `NothingStartsLate` | `Spec => NoLateStart` |
| `GrantsAreFair` | `Spec => FairInOrder` |

The assumption is `ToolCallsAssumption` (finitely many runs and calls, positive
limits, and a name for "no writer" that is not a run's).  One field is left out
of `Typed`: the pool's queue `work`, which a cancellation filters; the type of a
filtered sequence needs an induction over sequences.  No proof needs it.  `TypeOK`
has it: no configuration lists that, and TLC finds it true within the bounds of
`ptc_barrier`.

The argument.  `Exclusive` speaks of handlers that execute, the scheduler only
of tickets.  (A thread left behind by a handler on the loop executes without a
ticket, so `Covered` leaves it out; nothing can be proved about what the
scheduler cannot see.)  `IInv` connects them: `SchedulerInv` says that the
granted tickets are those the counters count, that the waiting ones are
different from them, and that the head of the queue cannot start; `OwnerInv`
says for each call which of its task and its job answers for its ticket, in
every one of the combinations that a cancellation, a timeout or a late end of a
handler can produce; `PhaseInv` says what the phase of a run implies for its
calls.  The grants are the longest prefix of the queue that may start, so the
lemmas about prefixes, removals and counts of a queue carry most of the weight.

`EventStream_proofs` proves, for any queue size, fold limit, number of events and
number of streams:

| Theorem | States |
|---|---|
| `TypesHold` | `Spec => []TypeOK` |
| `PendingIsExact` | `Spec => []PendingExact` |
| `ErrorsEndTheStream` | `Spec => ErrorThenEof` |
| `CursorsAreDelivered` | `Spec => []CursorIsDelivered` |

The assumption is `EventStreamAssumption` (positive limits; the kinds are those
the stream treats differently).

The argument.  `PendingExact` is inductive with `Shape`, which says what each
phase of the stream leaves empty and that an error empties the buffers.
`CursorIsDelivered` needs `ScanInv`, under the condition that no fold has
overtaken a drain: the five buffers stand in the order of the session, one
behind the other (`Ordered`); the set of pending matches is what they carry
(`Kept`); what the consumer has and what is pending has been scanned, and the
cursor is just below the first pending match (`Scanned`); nothing up to the scan
is missing (`Covered`); and an end is an end of the session (`Settled`).
Looking for `Covered` showed an exception that had to be in it: when a projection
fails while the stream is being opened, the events behind the failing one are
scanned and thrown away, and only the failing event, which stays pending, keeps
the cursor below them.

`RemoteWatch_proofs` proves, for any queue size, number of attempts and number of
events:

| Theorem | States |
|---|---|
| `TypesHold` | `Spec => []TypeOK` |
| `WatchesAreContinuous` | `Spec => []WatchContinuous` |
| `EndsAreHonest` | `Spec => []EndIsHonest` |

The assumption is `RemoteWatchAssumption` (positive limits; events pass the
filter or do not).

The argument.  The properties are about the client alone, but hold because of
what is under way.  `ChanInv` says that the frames are a chain: each event frame
takes the stream from the cursor before it past exactly one event that passes
the filter, a final frame is the last one, a `complete` comes with nothing left,
and a server that goes on goes on from the last frame.  A loss keeps a prefix of
a chain, and a new generation starts an empty chain at the client's cursor.
`FlowInv` is `WatchContinuous` with the states before the reader's start,
`HonestInv` adds that a complete watch has received all there is and that its
iteration ends with an empty queue; for this the marker must be the last entry
(`Marked`) and the outcome must fit the reader's state (`Phases`).

Some theorems state properties that no run repeats, since the proof covers every
instance: the type invariants, `WindowBounded`, `PreviewsGoFirst`, `OneDrainer`,
`QuietMeansSettled`, `OwnedMeansBusy`, `ClosedIsFinal`, `ResumeKeepsBinding`,
`TurnsBounded` and `OneTurnPerThread`.

To make them provable, some properties over sequences are stated with sets: that
a sequence is increasing and has exactly a given range says the same as that it
is the sorted list of that range.  This concerns `CursorIsDelivered` and
`TextInOrder` of `EventStream`, `WatchContinuous` and `EndIsHonest` of
`RemoteWatch`, and the delivery properties of `EventBroker`.

Only model-checked: liveness, because reasoning with fairness and ENABLED is out
of the prover's reach (`CloseReachesObservers`, `TurnsSettle`, `CloseCompletes`,
`SubmitsEnd`, `ClosesEnd`, `RequestsMoveOn`, `RunsEnd`, `WaitersWoken`,
`WatchEnds`), and, with `TypeOK` under the bounds of `ptc_barrier` and
`manager_safety`, the types of two filtered sequences, `work` of `ToolCalls` and
`waiting` of `RuntimeManager`, which need an induction over sequences.  Every
safety invariant and every action property that a passing run checks is proved.

## 5. Not modelled

See `components` in `PROJECT.json`.  Inside the modelled parts:

- session and manager: the legacy `reserve_turn` and the `*_threadsafe` adapters
  (the same lock sections from another thread), usage totals, last errors and
  timestamps (no decision reads them), status observers, `collect_idle` (no
  caller in the source), `fork_session_ref`, the rebinding commands of the
  manager and `register_session`.  A change of the event loop under the
  semaphore (`_get_semaphore`) is not modelled: one loop owns a manager.
- collaboration: idempotence by operation key, the read surface, database
  errors, prompts, refusals by policy.
- program tool calls: the script's side of the protocol, preflight, output caps,
  tickets of loops that are closed.
- runtime service: everything but the event stream; it forwards to the manager.
- transport: the request path of the client.  Reading it for the watch showed a
  hazard listed in `PROJECT.json`: a generation that fails while a command's send
  is suspended reports the command as not sent (`client.py:1496`), and it is sent
  again.  Negotiation, authentication and codecs are left out.

The large remainder of the repository (terminal UI, web console, contract
registry, codecs, model providers, tool output, memory) is data, rendering and
I/O with little control to check.

## 6. Plan

1. Proofs: the composition of the layers, as far as it is safety: that
   `SessionRuntime` implements what `RuntimeManager` assumes of a session, and
   that the stream of `EventBroker` is what `EventStream` assumes of it.
2. `ClientRequests`: request correlation, generations, retry and cancellation of
   commands in `runtime/transport/client.py` against the server's connection.
3. `GoalLedger`: the goal state machine and its accounting over turns, with
   restarts; composition with `SessionRuntime` through the follow-up.
4. The daemon's lease, and `service/routing.py` over several managers.
