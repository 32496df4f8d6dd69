------------------------------ MODULE ToolCalls -----------------------------
(***************************************************************************)
(* Programmatic tool calls (runtime/ptc): run_code runs a script in a      *)
(* worker process whose tool calls come back to the host as frames.  The   *)
(* host turns each call into a task that takes a ticket from the fair      *)
(* read/write scheduler of the bridge, and runs its handler either on the  *)
(* event loop or, when the handler blocks, on a thread of the shared       *)
(* dispatch pool, which no cancellation can stop.  A handler on the loop   *)
(* may in turn have a thread of its own, which the bridge does not see     *)
(* (ls, glob and grep, and asynchronous tools the bridge does not know).   *)
(*                                                                         *)
(* The worker process is the environment: at any time the host may read a  *)
(* tool call, a result frame or the end of the stream, also one that the   *)
(* script has written past the worker's own bookkeeping.  A step of a task *)
(* runs up to its next await; the pool threads come between any two steps. *)
(***************************************************************************)
EXTENDS Naturals, Sequences, SequencesExt

CONSTANTS
    Runs,          \* run_code invocations of one bridge
    Calls,         \* bound: tool calls of all runs
    MaxCalls,      \* max_calls: call budget of one run
    MaxParallel,   \* max_parallel: tasks of one run, and concurrent reads
    PoolWorkers,   \* _MAX_SYNC_DISPATCH_WORKERS
    PoolPending,   \* _MAX_SYNC_DISPATCH_PENDING: capacity of the pool's queue
    MaxAdrift      \* bound: threads that handlers on the loop have left behind

ASSUME ToolCallsAssumption ==
    /\ IsFiniteSet(Runs) /\ IsFiniteSet(Calls) /\ "none" \notin Runs
    /\ {MaxCalls, MaxParallel, PoolWorkers, PoolPending} \subseteq Nat \ {0}
    /\ MaxAdrift \in Nat

VARIABLES
    run,      \* _Session of each run: phase, outcome, and whether it warned
    info,     \* what a call asks for: its run, ticket kind and handler's place
    task,     \* where the dispatch task of a call stands
    cancel,   \* calls whose task has been cancelled and has yet to see it
    settled,  \* _settled_calls
    queue,    \* _queue of the scheduler
    held,     \* tickets granted and not released
    reads,    \* _active_reads
    writer,   \* _writer_active
    work,     \* _work of the pool
    job,      \* the pool's future of a call; or the thread a handler left behind
    inflight  \* _sync_inflight of the bridge

hostVars == <<run, info>>
taskVars == <<task, cancel, settled>>
ticketVars == <<queue, held, reads, writer>>
poolVars == <<work, job, inflight>>
vars == <<run, info, task, cancel, settled, queue, held, reads, writer, work,
          job, inflight>>

Phases == {"off", "reading", "blocked", "stopping", "closing", "closed"}
Outcomes == {"none", "ok", "error", "timeout", "cancelled"}
Kinds == {"read", "write"}
Places == {"loop", "pool"}
TaskStates == {"none", "unslotted", "created", "queued", "running", "waiting",
               "draining", "quit", "done"}
JobStates == {"none", "queued", "taken", "running", "cancelled", "finished", "adrift"}

NoCall == [run |-> "none", kind |-> "read", place |-> "loop"]

CallsOf(r) == {c \in Calls : info[c].run = r}

\* A task from ensure_future to its done callback, which frees its slot.
Alive(c) == task[c] \in {"created", "queued", "running", "waiting", "draining"}

TasksOf(r) == {c \in CallsOf(r) : Alive(c)}

\* A tool handler is executing, on the loop, on a thread of the pool, or on a
\* thread of its own.
Executing(c) == task[c] = "running" \/ job[c] \in {"running", "adrift"}

(***************************************************************************)
(* FairReadWriteScheduler.                                                 *)
(***************************************************************************)
\* max(0, n - 1)
Less(n) == IF n = 0 THEN 0 ELSE n - 1

CanStart(kind, activeReads, writerActive) ==
    /\ ~writerActive
    /\ IF kind = "write" THEN activeReads = 0 ELSE activeReads < MaxParallel

\* How many of q[1 .. n] have the kind k.
OfKind(q, n, k) == Cardinality({i \in 1 .. n : info[q[i]].kind = k})

\* The head of q, as long as every ticket in it can start after those before it.
Startable(q, a, w) ==
    Max({n \in 0 .. Len(q) : \A i \in 1 .. n :
            CanStart(info[q[i]].kind, a + OfKind(q, i - 1, "read"),
                     w \/ OfKind(q, i - 1, "write") > 0)})

\* _grant_locked: from the queue q, the tickets h held and the counters a, w.
Grant(q, h, a, w) ==
    LET n == Startable(q, a, w) IN
    /\ queue' = SubSeq(q, n + 1, Len(q))
    /\ held' = h \cup {q[i] : i \in 1 .. n}
    /\ reads' = a + OfKind(q, n, "read")
    /\ writer' = (w \/ OfKind(q, n, "write") > 0)

\* _finish_locked and the grants it allows.
Release(c) ==
    IF c \notin held
    THEN UNCHANGED ticketVars
    ELSE IF info[c].kind = "write"
         THEN Grant(queue, held \ {c}, reads, FALSE)
         ELSE Grant(queue, held \ {c}, Less(reads), writer)

\* Faulty: the tickets behind an abandoned one are not looked at.
Abandon_NoGrant(c) ==
    IF c \in held
    THEN Release(c)
    ELSE /\ queue' = RemoveFirst(queue, c)
         /\ UNCHANGED <<held, reads, writer>>

Abandon(c) ==
    IF c \in held
    THEN Release(c)
    ELSE Grant(RemoveFirst(queue, c), held, reads, writer)

(***************************************************************************)
(* The process session: reading frames.                                    *)
(***************************************************************************)
Init ==
    /\ run = [r \in Runs |-> [phase |-> "off", outcome |-> "none",
                              warned |-> FALSE]]
    /\ info = [c \in Calls |-> NoCall]
    /\ task = [c \in Calls |-> "none"]
    /\ cancel = {} /\ settled = {}
    /\ queue = <<>> /\ held = {} /\ reads = 0 /\ writer = FALSE
    /\ work = <<>> /\ job = [c \in Calls |-> "none"] /\ inflight = 0

\* run_code: the worker is spawned and sent its init frame.
Start(r) ==
    /\ run[r].phase = "off"
    /\ run' = [run EXCEPT ![r].phase = "reading"]
    /\ UNCHANGED <<info, taskVars, ticketVars, poolVars>>

\* The worker cannot be spawned.
SpawnFails(r) ==
    /\ run[r].phase = "off"
    /\ run' = [run EXCEPT ![r].phase = "closing", ![r].outcome = "error"]
    /\ UNCHANGED <<info, taskVars, ticketVars, poolVars>>

\* _stop_dispatch: the read loop has ended; every task of the run is cancelled.
\* A call that was still waiting for a slot never gets a task.
Stop(r, outcome) ==
    /\ run' = [run EXCEPT ![r].phase = "stopping", ![r].outcome = outcome]
    /\ cancel' = cancel \cup TasksOf(r)
    /\ task' = [c \in Calls |->
                    IF c \in CallsOf(r) /\ task[c] = "unslotted" THEN "done"
                    ELSE task[c]]

\* _handle_tool_call within the budget: a call to an unknown tool is answered at
\* once, any other needs a free slot before its task.
ReadCall(r, c) ==
    /\ run[r].phase = "reading"
    /\ info[c] = NoCall
    /\ Cardinality(CallsOf(r)) < MaxCalls
    /\ \E k \in Kinds, p \in Places :
          info' = [info EXCEPT ![c] = [run |-> r, kind |-> k, place |-> p]]
    /\ \/ /\ Cardinality(TasksOf(r)) < MaxParallel
          /\ task' = [task EXCEPT ![c] = "created"]
          /\ UNCHANGED <<run, settled>>
       \/ /\ Cardinality(TasksOf(r)) = MaxParallel
          /\ task' = [task EXCEPT ![c] = "unslotted"]
          /\ run' = [run EXCEPT ![r].phase = "blocked"]
          /\ UNCHANGED settled
       \/ /\ task' = [task EXCEPT ![c] = "done"]
          /\ settled' = settled \cup {c}
          /\ UNCHANGED run
    /\ UNCHANGED <<cancel, ticketVars, poolVars>>

\* The call budget is spent: the frame ends the run and leaves no call.
ReadCallOverBudget(r) ==
    /\ run[r].phase = "reading"
    /\ Cardinality(CallsOf(r)) = MaxCalls
    /\ Stop(r, "error")
    /\ UNCHANGED <<info, settled, ticketVars, poolVars>>

\* _on_dispatch_done has released a slot to the waiting read loop.
TakeSlot(r) ==
    /\ run[r].phase = "blocked"
    /\ Cardinality(TasksOf(r)) < MaxParallel
    /\ run' = [run EXCEPT ![r].phase = "reading"]
    /\ task' = [c \in Calls |->
                    IF c \in CallsOf(r) /\ task[c] = "unslotted" THEN "created"
                    ELSE task[c]]
    /\ UNCHANGED <<info, cancel, settled, ticketVars, poolVars>>

\* Faulty: counts only the calls that hold a ticket.
Unfinished_Granted(r) == {c \in TasksOf(r) : c \notin settled /\ c \in held}

Unfinished(r) == {c \in TasksOf(r) : c \notin settled}

\* _handle_result for a success frame.
ReadSuccess(r) ==
    /\ run[r].phase = "reading"
    /\ Stop(r, IF Unfinished(r) = {} THEN "ok" ELSE "error")
    /\ UNCHANGED <<info, settled, ticketVars, poolVars>>

\* An error frame, a malformed one, or the end of the worker's output.
ReadFailure(r) ==
    /\ run[r].phase = "reading"
    /\ Stop(r, "error")
    /\ UNCHANGED <<info, settled, ticketVars, poolVars>>

\* asyncio.wait_for in run_code cancels session.run: while it reads or waits for
\* a slot, or while it waits for the tasks it has cancelled.
Timeout(r) ==
    /\ \/ /\ run[r].phase \in {"reading", "blocked"}
          /\ Stop(r, "timeout")
       \/ /\ run[r].phase = "stopping"
          /\ run[r].outcome \in {"ok", "error"}
          /\ TasksOf(r) # {}
          /\ \A c \in TasksOf(r) : task[c] = "running"
          /\ run' = [run EXCEPT ![r].phase = "closing", ![r].outcome = "timeout"]
          /\ UNCHANGED <<task, cancel>>
    /\ UNCHANGED <<info, settled, ticketVars, poolVars>>

\* The turn that runs the script is cancelled; the CancelledError propagates.
Cancel(r) ==
    /\ run[r].outcome # "cancelled"
    /\ \/ /\ run[r].phase \in {"reading", "blocked"}
          /\ Stop(r, "cancelled")
       \/ /\ run[r].phase = "stopping"
          /\ TasksOf(r) # {}
          /\ \A c \in TasksOf(r) : task[c] = "running"
          /\ run' = [run EXCEPT ![r].phase = "closing",
                                ![r].outcome = "cancelled"]
          /\ UNCHANGED <<task, cancel>>
       \/ /\ run[r].phase = "closing"
          /\ run' = [run EXCEPT ![r].outcome = "cancelled"]
          /\ UNCHANGED <<task, cancel>>
    /\ UNCHANGED <<info, settled, ticketVars, poolVars>>

\* Faulty: waits for the tasks without a deadline.
Stopped_Joins(r) ==
    /\ run[r].phase = "stopping"
    /\ TasksOf(r) = {}
    /\ run' = [run EXCEPT ![r].phase = "closing"]
    /\ UNCHANGED <<info, taskVars, ticketVars, poolVars>>

\* asyncio.wait in _stop_dispatch is over: all tasks are done, or the deadline
\* has passed.  The loop has by then delivered each cancellation, so only a
\* handler that is still unwinding, or has ignored it, keeps its task.
Stopped(r) ==
    /\ run[r].phase = "stopping"
    /\ \A c \in TasksOf(r) : task[c] = "running"
    /\ run' = [run EXCEPT ![r].phase = "closing"]
    /\ UNCHANGED <<info, taskVars, ticketVars, poolVars>>

\* _warn_if_sync_still_running, on a result that is returned and not raised.
Warn(r) == run[r].outcome # "cancelled" /\ inflight > 0

\* aclose has killed the process tree, and invoke returns or raises.
Close(r) ==
    /\ run[r].phase = "closing"
    /\ run' = [run EXCEPT ![r].phase = "closed", ![r].warned = Warn(r)]
    /\ UNCHANGED <<info, taskVars, ticketVars, poolVars>>

(***************************************************************************)
(* A dispatch task: PtcBridge.dispatch under _dispatch_one.                *)
(***************************************************************************)
\* Faulty: a ticket that can start now does not look at the queue.
Dispatch_Barges(c) ==
    /\ task[c] = "created" /\ c \notin cancel
    /\ task' = [task EXCEPT ![c] = "queued"]
    /\ IF CanStart(info[c].kind, reads, writer)
       THEN /\ held' = held \cup {c}
            /\ reads' = IF info[c].kind = "read" THEN reads + 1 ELSE reads
            /\ writer' = (info[c].kind = "write")
            /\ UNCHANGED queue
       ELSE Grant(Append(queue, c), held, reads, writer)
    /\ UNCHANGED <<settled, hostVars, cancel, poolVars>>

\* The call is refused by policy, or it asks the scheduler for a ticket.
Dispatch(c) ==
    /\ task[c] = "created" /\ c \notin cancel
    /\ \/ /\ task' = [task EXCEPT ![c] = "draining"]
          /\ settled' = settled \cup {c}
          /\ UNCHANGED ticketVars
       \/ /\ task' = [task EXCEPT ![c] = "queued"]
          /\ Grant(Append(queue, c), held, reads, writer)
          /\ UNCHANGED settled
    /\ UNCHANGED <<hostVars, cancel, poolVars>>

\* acquire has returned: the handler starts on the loop.
RunOnLoop(c) ==
    /\ task[c] = "queued" /\ c \in held /\ c \notin cancel
    /\ info[c].place = "loop"
    /\ task' = [task EXCEPT ![c] = "running"]
    /\ UNCHANGED <<hostVars, cancel, settled, ticketVars, poolVars>>

\* _drop_cancelled_locked
LiveWork == SelectSeq(work, LAMBDA d : job[d] # "cancelled")

\* acquire has returned: _invoke_offloaded submits the handler to the pool.
Offload(c) ==
    /\ task[c] = "queued" /\ c \in held /\ c \notin cancel
    /\ info[c].place = "pool"
    /\ Len(LiveWork) < PoolPending
    /\ work' = Append(LiveWork, c)
    /\ job' = [job EXCEPT ![c] = "queued"]
    /\ inflight' = inflight + 1
    /\ task' = [task EXCEPT ![c] = "waiting"]
    /\ UNCHANGED <<hostVars, cancel, settled, ticketVars>>

\* Faulty: the refusal keeps the ticket.
OffloadRefused_KeepsTicket(c) ==
    /\ task[c] = "queued" /\ c \in held /\ c \notin cancel
    /\ info[c].place = "pool"
    /\ work' = LiveWork
    /\ task' = [task EXCEPT ![c] = "draining"]
    /\ settled' = settled \cup {c}
    /\ UNCHANGED <<hostVars, cancel, ticketVars, job, inflight>>

\* _DispatchQueueFull: the ticket is given back and the script gets an error.
\* The pool is shared by every bridge of the process, whose work also fills it.
OffloadRefused(c) ==
    /\ task[c] = "queued" /\ c \in held /\ c \notin cancel
    /\ info[c].place = "pool"
    /\ work' = LiveWork
    /\ Release(c)
    /\ task' = [task EXCEPT ![c] = "draining"]
    /\ settled' = settled \cup {c}
    /\ UNCHANGED <<hostVars, cancel, job, inflight>>

\* A call has its outcome; or its handler has raised CancelledError by itself,
\* which ends the task: the call is neither settled nor answered.
Settle(c) ==
    \/ task' = [task EXCEPT ![c] = "draining"] /\ settled' = settled \cup {c}
    \/ task' = [task EXCEPT ![c] = "quit"] /\ UNCHANGED settled

\* The handler on the loop has ended, and may have left a thread behind.
LeaveThread(c) ==
    /\ \/ UNCHANGED job
       \/ /\ Cardinality({d \in Calls : job[d] = "adrift"}) < MaxAdrift
          /\ job' = [job EXCEPT ![c] = "adrift"]
    /\ UNCHANGED <<work, inflight>>

\* The handler on the loop returns or raises, also one that ignored its
\* cancellation.
HandlerEnds(c) ==
    /\ task[c] = "running"
    /\ Release(c)
    /\ Settle(c)
    /\ LeaveThread(c)
    /\ cancel' = cancel \ {c}
    /\ UNCHANGED hostVars

\* The thread has come to its end.
AdriftEnds(c) ==
    /\ job[c] = "adrift"
    /\ job' = [job EXCEPT ![c] = "none"]
    /\ UNCHANGED <<hostVars, taskVars, ticketVars, work, inflight>>

\* _deliver has resolved the future that the task awaits.
Delivered(c) ==
    /\ task[c] = "waiting" /\ job[c] = "finished" /\ c \notin cancel
    /\ Settle(c)
    /\ UNCHANGED <<hostVars, cancel, ticketVars, poolVars>>

\* The response frame is written, or dropped as the pipe is broken or closed.
Drained(c) ==
    /\ task[c] = "draining" /\ c \notin cancel
    /\ task' = [task EXCEPT ![c] = "done"]
    /\ UNCHANGED <<hostVars, cancel, settled, ticketVars, poolVars>>

\* The task sees its cancellation while it waits for its ticket.
CancelAcquire(c) ==
    /\ task[c] = "queued"
    /\ Abandon(c)
    /\ UNCHANGED poolVars

\* Faulty: a cancelled caller gives its ticket back at once.
CancelOffloaded_Releases(c) ==
    /\ task[c] = "waiting"
    /\ IF job[c] \in {"queued", "taken"}
       THEN job' = [job EXCEPT ![c] = "cancelled"] /\ inflight' = Less(inflight)
       ELSE UNCHANGED <<job, inflight>>
    /\ Release(c)
    /\ UNCHANGED work

\* Faulty: queued work is left to the pool.
CancelOffloaded_LeavesWork(c) ==
    /\ task[c] = "waiting"
    /\ UNCHANGED <<poolVars, ticketVars>>

\* future.cancel() in _invoke_offloaded: it succeeds until a worker has started
\* the handler, and then runs _finished; the entry stays in the pool's queue.
CancelOffloaded(c) ==
    /\ task[c] = "waiting"
    /\ IF job[c] \in {"queued", "taken"}
       THEN /\ job' = [job EXCEPT ![c] = "cancelled"]
            /\ inflight' = Less(inflight)
            /\ Release(c)
       ELSE UNCHANGED <<job, inflight, ticketVars>>
    /\ UNCHANGED work

\* CancelledError is thrown into the task.
SeeCancel(c) ==
    /\ c \in cancel
    /\ \/ CancelAcquire(c)
       \/ CancelOffloaded(c)
       \/ /\ task[c] = "running" /\ Release(c) /\ LeaveThread(c)
       \/ /\ task[c] \in {"created", "draining"}
          /\ UNCHANGED <<ticketVars, poolVars>>
    /\ task' = [task EXCEPT ![c] = "done"]
    /\ cancel' = cancel \ {c}
    /\ UNCHANGED <<hostVars, settled>>

(***************************************************************************)
(* A worker thread of _DaemonDispatchPool.                                 *)
(***************************************************************************)
Busy == {c \in Calls : job[c] \in {"taken", "running"}}

\* A free worker takes the first entry of the queue.
PoolTake ==
    /\ work # <<>> /\ Cardinality(Busy) < PoolWorkers
    /\ work' = Tail(work)
    /\ job' = [job EXCEPT ![Head(work)] = IF @ = "queued" THEN "taken" ELSE @]
    /\ UNCHANGED <<hostVars, taskVars, ticketVars, inflight>>

\* set_running_or_notify_cancel
PoolRun(c) ==
    /\ job[c] = "taken"
    /\ job' = [job EXCEPT ![c] = "running"]
    /\ UNCHANGED <<hostVars, taskVars, ticketVars, work, inflight>>

\* The handler has returned or raised: the future is done and runs _finished.
PoolEnd(c) ==
    /\ job[c] = "running"
    /\ job' = [job EXCEPT ![c] = "finished"]
    /\ inflight' = Less(inflight)
    /\ Release(c)
    /\ UNCHANGED <<hostVars, taskVars, work>>

Next ==
    \/ \E r \in Runs :
          \/ Start(r) \/ SpawnFails(r) \/ ReadCallOverBudget(r) \/ TakeSlot(r)
          \/ ReadSuccess(r) \/ ReadFailure(r) \/ Timeout(r) \/ Cancel(r)
          \/ Stopped(r) \/ Close(r)
    \/ \E r \in Runs, c \in Calls : ReadCall(r, c)
    \/ \E c \in Calls :
          \/ Dispatch(c) \/ RunOnLoop(c) \/ Offload(c) \/ OffloadRefused(c)
          \/ HandlerEnds(c) \/ AdriftEnds(c) \/ Delivered(c) \/ Drained(c)
          \/ SeeCancel(c) \/ PoolRun(c) \/ PoolEnd(c)
    \/ PoolTake

Spec == Init /\ [][Next]_vars

\* The event loop runs every step that is ready, threads of the pool take and
\* start what is queued, and the timer of run_code fires.  Nothing is assumed of
\* handlers: one may run for ever, on the loop or on a thread.
FairSpec ==
    /\ Spec
    /\ \A r \in Runs : /\ WF_vars(TakeSlot(r)) /\ WF_vars(Timeout(r))
                       /\ WF_vars(Stopped(r)) /\ WF_vars(Close(r))
    /\ \A c \in Calls :
          /\ WF_vars(Dispatch(c)) /\ WF_vars(RunOnLoop(c)) /\ WF_vars(Offload(c))
          /\ WF_vars(OffloadRefused(c)) /\ WF_vars(Delivered(c))
          /\ WF_vars(Drained(c)) /\ WF_vars(PoolRun(c))
          /\ WF_vars(task[c] # "running" /\ SeeCancel(c))
    /\ WF_vars(PoolTake)

(***************************************************************************)
(* Properties.                                                             *)
(***************************************************************************)
\* Type correctness of the process session, the scheduler and the pool.
TypeOK ==
    /\ run \in [Runs -> [phase : Phases, outcome : Outcomes, warned : BOOLEAN]]
    /\ info \in [Calls -> {NoCall} \cup
                          [run : Runs, kind : Kinds, place : Places]]
    /\ task \in [Calls -> TaskStates]
    /\ cancel \subseteq Calls /\ settled \subseteq Calls /\ held \subseteq Calls
    /\ queue \in Seq(Calls) /\ work \in Seq(Calls)
    /\ reads \in Nat /\ writer \in BOOLEAN /\ inflight \in Nat
    /\ job \in [Calls -> JobStates]

\* What a ticket covers: a handler that executes, but not the thread that a
\* handler on the loop has left behind, whose ticket is back.
Covered(c) == Executing(c) /\ job[c] # "adrift"

\* While a handler with a write ticket executes, on the loop or in the background
\* after its run has timed out and returned, no other handler of the bridge does;
\* and no more than max_parallel handlers execute together.  Threads left behind
\* are the exception: one may go on beside any handler, a later write included.
Exclusive ==
    /\ \A c, d \in Calls :
          Covered(c) /\ Covered(d) /\ info[c].kind = "write" => c = d
    /\ Cardinality({c \in Calls : Covered(c)}) <= MaxParallel

\* The counters of the scheduler match the tickets that are out, and each of
\* these belongs to a task or a future that has yet to release it: no path
\* through cancellation, refusal or late completion leaks or returns one twice.
TicketsOwned ==
    /\ reads = Cardinality({c \in held : info[c].kind = "read"})
    /\ writer <=> \E c \in held : info[c].kind = "write"
    /\ \A c \in held : \/ task[c] \in {"queued", "running"}
                       \/ job[c] \in {"queued", "taken", "running"}

\* The first waiting ticket waits for a reason: every change that lets it start
\* has also granted it.
NoLostWakeup ==
    queue # <<>> => ~CanStart(info[Head(queue)].kind, reads, writer)

\* A run that reports success has no tool call in flight: each one was answered,
\* but for those whose handler raised CancelledError, and none executes any more,
\* but for threads left behind.
HonestSuccess ==
    \A r \in Runs : run[r].outcome = "ok" =>
        \A c \in CallsOf(r) : (c \in settled \/ task[c] = "quit") /\ ~Covered(c)

\* A result that leaves a blocking handler of its run behind in the pool says so.
\* (It does not count the threads that handlers on the loop have left behind.)
BackgroundWarned ==
    \A r \in Runs, c \in Calls :
        /\ run[r].phase = "closed" /\ run[r].outcome # "cancelled"
        /\ info[c].run = r /\ job[c] = "running"
        => run[r].warned

\* What the result of a run says about its calls is true.
OutcomeHonest == HonestSuccess /\ BackgroundWarned

\* No handler starts for a run that has ended: cancelled calls leave neither a
\* waiting ticket nor queued work that would still be executed.
NoLateStart ==
    [][\A c \in Calls : Executing(c)' /\ ~Executing(c) =>
           run[info[c].run].phase \notin {"closing", "closed"}]_vars

\* Tickets are granted in the order in which they were asked for: none is granted
\* while an earlier one goes on waiting.
FairInOrder ==
    [][\A c \in held' \ held, d \in Range(queue) \cap Range(queue') :
           \E i, j \in DOMAIN queue : i < j /\ queue[i] = c /\ queue[j] = d]_vars

\* Every run ends, also when a handler never returns or ignores its cancellation.
RunsEnd ==
    \A r \in Runs : run[r].phase = "reading" ~> run[r].phase = "closed"

=============================================================================
