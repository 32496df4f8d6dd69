----------------------------- MODULE EventStream ----------------------------
(***************************************************************************)
(* LocalEventStream (runtime/service/local.py): the bounded replay and     *)
(* live stream behind a watch of the runtime service.  The broker's        *)
(* callback runs on the runtime's thread and hands events over an ingress  *)
(* to the service loop, where a drain projects them and the consumer takes *)
(* them.  At the bound a text delta is folded into the newest backlog tail *)
(* instead of ending the stream.  A consumer that goes away resumes with a *)
(* new stream from the cursor that the old one reported.                   *)
(*                                                                         *)
(* A step on the loop is atomic for the consumer but not for the runtime's *)
(* thread, which may come in wherever the loop does not hold the ingress   *)
(* lock: between two replayed events of open, and while a drain projects.  *)
(* An event is named by its session sequence; an item of a buffer is the   *)
(* sequence of the events whose text it carries, its own one last.         *)
(***************************************************************************)
EXTENDS Naturals, Sequences, SequencesExt

CONSTANTS
    QueueSize,    \* queue_size: bound on the unconsumed live events
    MergeLimit,   \* _merge_budget, as the number of deltas in one folded event
    EventKinds,   \* of text, other, hidden (by the filter), bad (its projection
                  \* raises)
    MaxSeq,       \* bound: events of the session
    MaxOpens      \* bound: streams opened one after the other

ASSUME EventStreamAssumption ==
    /\ {QueueSize, MergeLimit} \subseteq Nat \ {0}
    /\ {MaxSeq, MaxOpens} \subseteq Nat
    /\ EventKinds \subseteq {"text", "other", "hidden", "bad"}

VARIABLES
    log,           \* kinds of the events the broker has delivered so far
    ended,         \* the session's broker is closed
    subscribed,    \* the broker holds the subscription of the stream
    phase,         \* the lease: idle, opening, open
    after,         \* _after
    todo,          \* opening: events of the replay window yet to be projected
    captured,      \* opening: replay projected so far
    ingress, live, replay, pending,
    batch,         \* a drain's detached ingress
    draining,      \* a drain is between its two critical sections
    drainScheduled,
    available,     \* the asyncio.Event a waiting consumer waits for
    error,         \* _error
    raised,        \* _raised_error
    closed, brokerClosed,
    cursor, scanned, matches,   \* _cursor, _scanned_cursor, _pending_matches
    consumer,      \* ready, waiting, or what the last __anext__ raised
    got,           \* events whose text the consumer has, in that order
    opens,         \* streams opened so far
    overtaken      \* a delta was folded ahead of a detached batch

sourceVars == <<log, ended>>
openVars == <<phase, after, todo, captured, opens>>
bufferVars == <<ingress, live, replay, pending, batch>>
drainVars == <<draining, drainScheduled, available>>
endVars == <<error, raised, closed, brokerClosed>>
cursorVars == <<cursor, scanned, matches>>
consumerVars == <<consumer, got>>
vars == <<log, ended, subscribed, phase, after, todo, captured, opens, ingress,
          live, replay, pending, batch, draining, drainScheduled, available,
          error, raised, closed, brokerClosed, cursor, scanned, matches,
          consumer, got, overtaken>>

\* matches_event
Matches(k) == k # "hidden"

LoopFree == phase # "opening" /\ ~draining

(***************************************************************************)
(* The cursor.                                                             *)
(***************************************************************************)
\* _advance_cursor_locked, from the pending matches ms.
Advance(seq, ms) ==
    /\ matches' = ms
    /\ scanned' = Max({scanned, seq})
    /\ cursor' = IF ms = {} THEN scanned' ELSE Min(ms) - 1

\* _record_scan_locked
RecordScan(seq, k) ==
    Advance(seq, IF Matches(k) THEN matches \cup {seq} ELSE matches)

\* Faulty: only the delivered event itself is released.
MarkDelivered_OneOnly(seq) == Advance(seq, matches \ {seq})

\* _mark_delivered_locked
MarkDelivered(seq) == Advance(seq, {m \in matches : m > seq})

(***************************************************************************)
(* LocalEventWatch.__aenter__ and LocalEventStream.open, on the loop.      *)
(***************************************************************************)
Init ==
    /\ log = <<>> /\ ended = FALSE /\ subscribed = FALSE
    /\ phase = "idle" /\ after = 0 /\ todo = <<>> /\ captured = <<>>
    /\ opens = 0
    /\ ingress = <<>> /\ live = <<>> /\ replay = <<>> /\ pending = 0
    /\ batch = <<>>
    /\ draining = FALSE /\ drainScheduled = FALSE /\ available = FALSE
    /\ error = "none" /\ raised = FALSE /\ closed = FALSE
    /\ brokerClosed = FALSE
    /\ cursor = 0 /\ scanned = 0 /\ matches = {}
    /\ consumer = "ready" /\ got = <<>> /\ overtaken = FALSE

\* A new stream subscribes from the cursor: the broker hands it the window of
\* what it missed and from now on calls it back.  It refuses a closed session,
\* and a cursor whose events are no longer retained.
Open ==
    /\ phase = "idle" /\ opens < MaxOpens
    /\ opens' = opens + 1
    /\ \/ /\ ~ended
          /\ phase' = "opening" /\ subscribed' = TRUE
          /\ after' = cursor
          /\ todo' = [i \in 1 .. Len(log) - cursor |-> cursor + i]
          /\ ingress' = <<>> /\ live' = <<>> /\ replay' = <<>>
          /\ pending' = 0 /\ captured' = <<>>
          /\ drainScheduled' = FALSE /\ available' = FALSE
          /\ error' = "none" /\ raised' = FALSE
          /\ closed' = FALSE /\ brokerClosed' = FALSE
          /\ scanned' = cursor /\ matches' = {} /\ UNCHANGED cursor
          /\ consumer' = "ready"
       \/ /\ ended \/ cursor < Len(log)
          /\ UNCHANGED <<phase, subscribed, after, todo, captured, ingress, live,
                         replay, pending, drainScheduled, available, endVars,
                         cursorVars, consumer>>
    /\ UNCHANGED <<sourceVars, batch, draining, got, overtaken>>

\* _fail_locked: the first terminal error wins, and no buffer survives it.
Fail(e) ==
    /\ error' = IF error = "none" THEN e ELSE error
    /\ closed' = TRUE
    /\ ingress' = <<>> /\ live' = <<>> /\ replay' = <<>> /\ pending' = 0

\* The producer's projection code raises something that is not a service error:
\* the stream ends without an error, and without a tail.
Quit ==
    /\ closed' = TRUE /\ brokerClosed' = TRUE
    /\ ingress' = <<>> /\ live' = <<>> /\ replay' = <<>> /\ pending' = 0
    /\ UNCHANGED error

\* The enter fails, and its owner is where it was.
EnterFails ==
    /\ phase' = "idle"
    /\ cursor' = after /\ scanned' = after /\ matches' = {}

\* One event of the replay window: skipped, recorded and projected, or recorded
\* and found unfit, which ends the enter unless another error came first.
Project ==
    /\ phase = "opening" /\ todo # <<>>
    /\ LET s == Head(todo)  k == log[s] IN
       \/ /\ k # "bad"
          /\ RecordScan(s, k)
          /\ todo' = Tail(todo)
          /\ captured' = IF Matches(k) THEN Append(captured, <<s>>) ELSE captured
          /\ UNCHANGED <<phase, ingress, live, replay, pending, error, closed,
                         brokerClosed, subscribed>>
       \/ /\ k = "bad"
          /\ subscribed' = FALSE
          /\ todo' = <<>> /\ captured' = <<>>
          /\ \/ Quit /\ EnterFails
             \/ /\ error = "none"
                /\ Fail("projection") /\ EnterFails
                /\ UNCHANGED brokerClosed
             \/ /\ error # "none"
                /\ RecordScan(s, k)
                /\ UNCHANGED <<phase, ingress, live, replay, pending, error,
                               closed, brokerClosed>>
    /\ UNCHANGED <<sourceVars, opens, after, batch, raised, drainVars,
                   consumerVars, overtaken>>

\* The end of open: the captured replay is published unless an error came first.
Opened ==
    /\ phase = "opening" /\ todo = <<>>
    /\ phase' = "open"
    /\ replay' = IF closed \/ error # "none" THEN <<>> ELSE captured
    /\ captured' = <<>>
    /\ UNCHANGED <<sourceVars, subscribed, after, todo, opens, ingress, live,
                   pending, batch, drainVars, endVars, cursorVars, consumerVars,
                   overtaken>>

(***************************************************************************)
(* The runtime's thread.                                                   *)
(***************************************************************************)
\* _fold_text_deltas: the delta s can join the text of the item t.
Folds(t, s, k) ==
    k = "text" /\ log[Last(t)] = "text" /\ Len(t) < MergeLimit

\* item t with the text of s at its end
Fold(buffer, s) == [buffer EXCEPT ![Len(buffer)] = Append(@, s)]

\* _ingest at the bound: fold the delta into the newest tail, or overflow.
AtBound(s, k) ==
    \/ /\ ingress # <<>> /\ Folds(Last(ingress), s, k)
       /\ ingress' = Fold(ingress, s)
       /\ UNCHANGED <<live, replay, pending, error, closed, overtaken>>
    \/ /\ ingress = <<>> /\ live # <<>> /\ Folds(Last(live), s, k)
       /\ live' = Fold(live, s)
       /\ overtaken' = (overtaken \/ batch # <<>>)
       /\ UNCHANGED <<ingress, replay, pending, error, closed>>
    \/ /\ ~ \/ ingress # <<>> /\ Folds(Last(ingress), s, k)
            \/ ingress = <<>> /\ live # <<>> /\ Folds(Last(live), s, k)
       /\ Fail("overflow")
       /\ UNCHANGED overtaken

\* _ingest of the event s
Ingest(s, k) ==
    IF closed \/ brokerClosed
    THEN UNCHANGED <<bufferVars, drainScheduled, error, closed, cursorVars,
                     overtaken>>
    ELSE /\ RecordScan(s, k)
         /\ IF ~Matches(k)
            THEN UNCHANGED <<bufferVars, drainScheduled, error, closed, overtaken>>
            ELSE /\ IF pending >= QueueSize
                    THEN AtBound(s, k)
                    ELSE /\ ingress' = Append(ingress, <<s>>)
                         /\ pending' = pending + 1
                         /\ UNCHANGED <<live, replay, error, closed, overtaken>>
                 /\ drainScheduled' = TRUE
                 /\ UNCHANGED batch

\* The broker delivers the next event of the session.
Emit(k) ==
    /\ ~ended /\ Len(log) < MaxSeq
    /\ log' = Append(log, k)
    /\ IF subscribed
       THEN Ingest(Len(log) + 1, k)
       ELSE UNCHANGED <<bufferVars, drainScheduled, error, closed, cursorVars,
                        overtaken>>
    /\ UNCHANGED <<ended, subscribed, openVars, draining, available, raised,
                   brokerClosed, consumerVars>>

\* The session closes: the broker drops its subscribers after telling each one
\* (_on_broker_close).
BrokerClose ==
    /\ ~ended
    /\ ended' = TRUE /\ subscribed' = FALSE
    /\ IF subscribed
       THEN brokerClosed' = TRUE /\ drainScheduled' = TRUE
       ELSE UNCHANGED <<brokerClosed, drainScheduled>>
    /\ UNCHANGED <<log, openVars, bufferVars, draining, available, error, raised,
                   closed, cursorVars, consumerVars, overtaken>>

(***************************************************************************)
(* The drain, on the loop.                                                 *)
(***************************************************************************)
\* First critical section of _drain: nothing to project, or a batch.
DrainTake ==
    /\ LoopFree /\ drainScheduled
    /\ drainScheduled' = FALSE
    /\ IF error = "none" /\ ingress # <<>>
       THEN /\ batch' = ingress /\ ingress' = <<>> /\ draining' = TRUE
            /\ UNCHANGED <<live, replay, pending, subscribed, available>>
       ELSE /\ available' = TRUE
            /\ IF error # "none"
               THEN /\ ingress' = <<>> /\ live' = <<>> /\ replay' = <<>>
                    /\ pending' = 0 /\ subscribed' = FALSE
               ELSE UNCHANGED <<ingress, live, replay, pending, subscribed>>
            /\ UNCHANGED <<batch, draining>>
    /\ UNCHANGED <<sourceVars, openVars, endVars, cursorVars, consumerVars,
                   overtaken>>

\* Faulty: the batch is committed without looking at the error again.
DrainCommit_Blind ==
    /\ draining
    /\ live' = live \o batch /\ batch' = <<>> /\ draining' = FALSE
    /\ available' = TRUE
    /\ UNCHANGED <<sourceVars, subscribed, openVars, ingress, replay, pending,
                   drainScheduled, endVars, cursorVars, consumerVars, overtaken>>

\* Faulty: moving a batch takes it off the counter.
DrainCommit_Uncounts ==
    /\ draining
    /\ live' = IF error = "none" THEN live \o batch ELSE live
    /\ pending' = pending - Min({pending, Len(batch)})
    /\ batch' = <<>> /\ draining' = FALSE /\ available' = TRUE
    /\ UNCHANGED <<sourceVars, subscribed, openVars, ingress, replay,
                   drainScheduled, endVars, cursorVars, consumerVars, overtaken>>

\* Faulty: the drain that projects a batch wakes no one.
DrainCommit_NoWake ==
    /\ draining
    /\ live' = IF error = "none" THEN live \o batch ELSE live
    /\ batch' = <<>> /\ draining' = FALSE
    /\ UNCHANGED <<sourceVars, subscribed, openVars, ingress, replay, pending,
                   drainScheduled, available, endVars, cursorVars, consumerVars,
                   overtaken>>

\* Second critical section: the batch is projected, or cannot be, or an overflow
\* came first.
DrainCommit ==
    /\ draining
    /\ draining' = FALSE /\ batch' = <<>> /\ available' = TRUE
    /\ IF \E i \in DOMAIN batch : log[Last(batch[i])] = "bad"
       THEN /\ subscribed' = FALSE
            /\ \/ Fail("projection") /\ UNCHANGED brokerClosed
               \/ Quit
       ELSE /\ live' = IF error = "none" THEN live \o batch ELSE live
            /\ subscribed' = (subscribed /\ error = "none")
            /\ UNCHANGED <<ingress, replay, pending, error, closed, brokerClosed>>
    /\ UNCHANGED <<sourceVars, openVars, drainScheduled, raised, cursorVars,
                   consumerVars, overtaken>>

(***************************************************************************)
(* The consumer, on the loop.                                              *)
(***************************************************************************)
\* _terminated
Terminated ==
    /\ closed \/ brokerClosed
    /\ ~drainScheduled /\ ingress = <<>> /\ live = <<>>

\* __anext__ raises the error, once.
RaiseError ==
    /\ error # "none" /\ ~raised
    /\ raised' = TRUE /\ subscribed' = FALSE /\ consumer' = "error"
    /\ UNCHANGED <<live, replay, pending, available, cursorVars, got>>

\* __anext__ returns an event of the replay or, after it, a live one.
Deliver ==
    /\ error = "none" \/ raised
    /\ \/ /\ replay # <<>>
          /\ replay' = Tail(replay)
          /\ got' = got \o Head(replay)
          /\ MarkDelivered(Last(Head(replay)))
          /\ UNCHANGED <<live, pending>>
       \/ /\ replay = <<>> /\ live # <<>>
          /\ live' = Tail(live) /\ pending' = pending - 1
          /\ got' = got \o Head(live)
          /\ MarkDelivered(Last(Head(live)))
          /\ UNCHANGED replay
    /\ consumer' = "ready"
    /\ UNCHANGED <<raised, subscribed, available>>

\* __anext__ ends the iteration, or clears the event and waits for it.
EndOrWait ==
    /\ error = "none" \/ raised
    /\ replay = <<>> /\ live = <<>>
    /\ IF Terminated
       THEN consumer' = "eof" /\ UNCHANGED available
       ELSE consumer' = "waiting" /\ available' = FALSE
    /\ UNCHANGED <<raised, subscribed, live, replay, pending, cursorVars, got>>

\* One pass of the loop in __anext__.
Anext ==
    /\ phase = "open" /\ ~draining
    /\ consumer = "waiting" => available
    /\ consumer # "eof"
    /\ RaiseError \/ Deliver \/ EndOrWait
    /\ UNCHANGED <<sourceVars, openVars, ingress, batch, draining,
                   drainScheduled, error, closed, brokerClosed, overtaken>>

\* close, by the lease's exit or a consumer that is cancelled while it waits.
Close ==
    /\ phase = "open" /\ ~draining /\ ~closed
    /\ closed' = TRUE /\ subscribed' = FALSE /\ drainScheduled' = TRUE
    /\ consumer' = IF consumer = "waiting" THEN "ready" ELSE consumer
    /\ UNCHANGED <<sourceVars, openVars, bufferVars, draining, available, error,
                   raised, brokerClosed, cursorVars, got, overtaken>>

\* The lease of an ended stream is given up; its owner may watch again from the
\* cursor, without the events that were accepted and not consumed.
Leave ==
    /\ phase = "open" /\ ~draining /\ ~drainScheduled /\ closed
    /\ consumer # "waiting"
    /\ phase' = "idle"
    /\ ingress' = <<>> /\ live' = <<>> /\ replay' = <<>> /\ pending' = 0
    /\ UNCHANGED <<sourceVars, subscribed, after, todo, captured, opens, batch,
                   drainVars, endVars, cursorVars, consumerVars, overtaken>>

Next ==
    \/ Open \/ Project \/ Opened
    \/ \E k \in EventKinds : Emit(k)
    \/ BrokerClose \/ DrainTake \/ DrainCommit \/ Anext \/ Close \/ Leave

Spec == Init /\ [][Next]_vars

\* The loop runs what is scheduled on it, and the consumer keeps iterating.
FairSpec ==
    /\ Spec
    /\ WF_vars(Project) /\ WF_vars(Opened)
    /\ WF_vars(DrainTake) /\ WF_vars(DrainCommit) /\ WF_vars(Anext)

(***************************************************************************)
(* Properties.                                                             *)
(***************************************************************************)
\* Type correctness of the stream.
TypeOK ==
    /\ log \in Seq(EventKinds)
    /\ {ended, subscribed, draining, drainScheduled, available, raised, closed,
        brokerClosed, overtaken} \subseteq BOOLEAN
    /\ phase \in {"idle", "opening", "open"}
    /\ {after, pending, cursor, scanned, opens} \subseteq Nat
    /\ {todo, got} \subseteq Seq(1 .. MaxSeq)
    /\ {captured, ingress, live, replay, batch} \subseteq Seq(Seq(1 .. MaxSeq))
    /\ error \in {"none", "overflow", "projection"}
    /\ matches \subseteq 1 .. MaxSeq
    /\ consumer \in {"ready", "waiting", "error", "eof"}

\* The events up to n that pass the filter.
MatchedUpTo(n) == {i \in 1 .. n : Matches(log[i])}

Increasing(q) == \A i, j \in DOMAIN q : i < j => q[i] < q[j]

\* The cursor that a stream reports is exactly what the consumer has: the text of
\* every matching event up to it, once and in order, and nothing after it.  This
\* holds through folding, overflow, failed projections and resumption from that
\* cursor, unless a delta overtook the batch of a running drain.  An iteration
\* that ends without an error, and that its owner has not closed, has delivered
\* every matching event of the session.
CursorIsDelivered ==
    ~overtaken =>
        /\ phase # "opening" => Increasing(got) /\ Range(got) = MatchedUpTo(cursor)
        /\ consumer = "eof" /\ error = "none" /\ ~closed => cursor = Len(log)

\* The text a consumer receives is in the order of the session.
TextInOrder == Increasing(got)

\* The pending counter is the number of accepted events that the consumer has not
\* taken, also those a drain has detached, and stays within the bound.
PendingExact ==
    error = "none" =>
        /\ pending = Len(ingress) + Len(batch) + Len(live)
        /\ pending <= QueueSize

\* After its error a stream yields nothing more, and only ends.
ErrorThenEof ==
    [][consumer = "error" /\ phase = "open" =>
           consumer' \in {"error", "waiting", "eof"} /\ got' = got]_vars

\* What is waiting to be told is told: a consumer that waits while there is an
\* event, an error or an end to report does not wait for ever.
WaitersWoken ==
    (consumer = "waiting" /\
        (live # <<>> \/ ingress # <<>> \/ closed \/ brokerClosed))
    ~> consumer # "waiting"
=============================================================================
