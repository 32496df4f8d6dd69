----------------------------- MODULE RemoteWatch ----------------------------
(***************************************************************************)
(* A watch of a session's events over the WebSocket transport: the client's *)
(* lease _RemoteEventWatch with its reader task, its bounded queue and the  *)
(* iterator that consumes it (runtime/transport/client.py), and the pump of *)
(* the server's subscription (runtime/transport/websocket.py).              *)
(*                                                                         *)
(* The connection may be lost at any time, with any tail of the frames that *)
(* are under way.  The reader then opens another one from the last cursor   *)
(* it has queued, at most max_attempts times in the life of the watch.  The *)
(* client runs on one event loop: a step goes from one await to the next.   *)
(***************************************************************************)
EXTENDS Naturals, Sequences, SequencesExt

CONSTANTS
    QueueSize,     \* queue_size of the watch
    MaxAttempts,   \* max_attempts of the client
    EventKinds,    \* of shown, hidden (by the filter of the watch)
    MaxSeq         \* bound: events of the session

ASSUME RemoteWatchAssumption ==
    /\ {QueueSize, MaxAttempts} \subseteq Nat \ {0} /\ MaxSeq \in Nat
    /\ EventKinds \subseteq {"shown", "hidden"}

VARIABLES
    log,         \* kinds of the session's events
    ended,       \* the session is closed: its event stream ends
    up,          \* the connection of the current generation works
    chan,        \* frames under way to the client
    sent,        \* server: cursor of the subscription's stream
    final,       \* server: the pump of the subscription has ended
    mute,        \* server: it has ended without a frame that says so
    reader,      \* where the task of _run stands
    attempts,
    cursor,      \* _last_cursor
    queue,       \* _queue; End is its marker None
    terminal,    \* _terminal, with what set it: none, complete, error, closed
    failure,     \* _terminal_error_value
    lease,       \* new, entered, closing (aclose has cancelled the reader), closed
    consumer,    \* ready, waiting, or what the last __anext__ raised
    got,         \* events the consumer has received
    silent,      \* the reader returned after a failed reconnect
    cut          \* aclose cancelled the reader in the middle of its last steps

serverVars == <<log, ended, up, chan, sent, final, mute>>
readerVars == <<reader, attempts, cursor, queue, terminal, failure>>
vars == <<log, ended, up, chan, sent, final, mute, reader, attempts, cursor,
          queue, terminal, failure, lease, consumer, got, silent, cut>>

End == 0
Failures == {"overflow", "protocol", "gap", "subscription", "refused", "lost"}

\* The frames of a subscription.
Event(s, c) == [type |-> "event", seq |-> s, cursor |-> c]
Complete == [type |-> "complete", seq |-> 0, cursor |-> 0]
Gone == [type |-> "error", seq |-> 0, cursor |-> 0]

Init ==
    /\ log = <<>> /\ ended = FALSE
    /\ up = FALSE /\ chan = <<>> /\ sent = 0
    /\ final = FALSE /\ mute = FALSE
    /\ reader = "none" /\ attempts = 0 /\ cursor = 0 /\ queue = <<>>
    /\ terminal = "none" /\ failure = "none"
    /\ lease = "new" /\ consumer = "ready" /\ got = <<>>
    /\ silent = FALSE /\ cut = FALSE

(***************************************************************************)
(* The session and the server's side of the subscription.                  *)
(***************************************************************************)
Emit(k) ==
    /\ ~ended /\ Len(log) < MaxSeq
    /\ log' = Append(log, k)
    /\ UNCHANGED <<ended, up, chan, sent, final, mute, readerVars, lease, consumer,
                   got, silent, cut>>

SessionEnds ==
    /\ ~ended /\ ended' = TRUE
    /\ UNCHANGED <<log, up, chan, sent, final, mute, readerVars, lease, consumer, got,
                   silent, cut>>

\* The first event after s that passes the filter, or one past the last event.
NextShown(s) ==
    Min({i \in s + 1 .. Len(log) : log[i] = "shown"} \cup {Len(log) + 1})

\* pump: the next event with the cursor of the stream, which has moved past the
\* hidden events the stream has scanned meanwhile.
PumpEvent ==
    /\ up /\ ~final
    /\ NextShown(sent) <= Len(log)
    /\ \E c \in NextShown(sent) .. NextShown(NextShown(sent)) - 1 :
          /\ chan' = Append(chan, Event(NextShown(sent), c))
          /\ sent' = c
    /\ UNCHANGED <<log, ended, up, final, mute, readerVars, lease, consumer, got,
                   silent, cut>>

\* pump: the stream has ended.
PumpComplete ==
    /\ up /\ ~final
    /\ ended /\ NextShown(sent) > Len(log)
    /\ chan' = Append(chan, Complete) /\ final' = TRUE
    /\ UNCHANGED <<log, ended, up, sent, mute, readerVars, lease, consumer, got,
                   silent, cut>>

\* pump: the stream has raised (its own queue has overflowed, or the service cannot
\* project an event).
PumpError ==
    /\ up /\ ~final
    /\ chan' = Append(chan, Gone) /\ final' = TRUE
    /\ UNCHANGED <<log, ended, up, sent, mute, readerVars, lease, consumer, got,
                   silent, cut>>

\* pump: notify cannot put the next event into a wire message (it is nested too
\* deep, or has a collection too long) and returns False.  The pump returns and
\* the subscription goes, without a frame and with the connection up.  (A later
\* generation may carry the event here, which allows more than the code does.)
PumpStops ==
    /\ up /\ ~final
    /\ NextShown(sent) <= Len(log)
    /\ final' = TRUE /\ mute' = TRUE
    /\ UNCHANGED <<log, ended, up, chan, sent, readerVars, lease, consumer, got,
                   silent, cut>>

\* The connection is lost: closed by the server (1013 when its writer's queue is
\* full), or by the network.
Lose ==
    /\ up /\ up' = FALSE
    /\ \E n \in 0 .. Len(chan) : chan' = SubSeq(chan, 1, n)
    /\ UNCHANGED <<log, ended, sent, final, mute, readerVars, lease, consumer, got,
                   silent, cut>>

(***************************************************************************)
(* Opening a generation.                                                   *)
(***************************************************************************)
\* The server answers with the cursor of its new stream, which is already past the
\* hidden events that follow the last queued one; the client takes no other cursor
\* than its own.
CursorConfirmed == NextShown(cursor) = cursor + 1

\* _open_generation succeeds: a subscription from the last queued cursor.
Opens ==
    /\ ~ended /\ CursorConfirmed
    /\ up' = TRUE /\ chan' = <<>> /\ sent' = cursor
    /\ final' = FALSE /\ mute' = FALSE
    /\ reader' = "reading"

\* __aenter__; a failed enter closes the lease.
Enter ==
    /\ lease = "new"
    /\ \/ Opens /\ lease' = "entered"
       \/ lease' = "closed" /\ UNCHANGED <<up, chan, sent, final, mute, reader>>
    /\ UNCHANGED <<log, ended, attempts, cursor, queue, terminal, failure,
                   consumer, got, silent, cut>>

(***************************************************************************)
(* The reader task: _run and _notification.                                *)
(***************************************************************************)
\* _terminal_error up to the await of _close_connection.
Fail(f) ==
    /\ terminal' = "error" /\ failure' = f
    /\ reader' = "failing"
    /\ up' = FALSE /\ chan' = <<>>

\* Faulty: the cursor is not committed.
ReceiveEvent_NoCommit(m) ==
    /\ m.type = "event"
    /\ m.seq = m.cursor /\ m.cursor > cursor /\ Len(queue) < QueueSize
    /\ queue' = Append(queue, m.seq)
    /\ chan' = Tail(chan)
    /\ UNCHANGED <<cursor, terminal, failure, reader, up>>

\* runtime.event: the cursor is committed once the event is in the queue.
ReceiveEvent(m) ==
    /\ m.type = "event"
    /\ IF m.cursor <= cursor \/ m.seq # m.cursor
       THEN Fail("protocol") /\ UNCHANGED <<queue, cursor>>
       ELSE IF Len(queue) >= QueueSize
            THEN Fail("overflow") /\ UNCHANGED <<queue, cursor>>
            ELSE /\ queue' = Append(queue, m.seq)
                 /\ cursor' = m.cursor
                 /\ chan' = Tail(chan)
                 /\ UNCHANGED <<terminal, failure, reader, up>>

\* runtime.subscription.complete: _terminal_eof up to its await.
ReceiveComplete(m) ==
    /\ m.type = "complete"
    /\ terminal' = "complete" /\ reader' = "completing"
    /\ up' = FALSE /\ chan' = <<>>
    /\ UNCHANGED <<queue, cursor, failure>>

\* runtime.subscription.error
ReceiveError(m) ==
    /\ m.type = "error"
    /\ Fail("subscription")
    /\ UNCHANGED <<queue, cursor>>

Receive ==
    /\ reader = "reading" /\ chan # <<>>
    /\ \/ ReceiveEvent(Head(chan))
       \/ ReceiveComplete(Head(chan))
       \/ ReceiveError(Head(chan))
    /\ UNCHANGED <<log, ended, sent, final, mute, attempts, lease, consumer, got,
                   silent, cut>>

\* recv raises: the connection is closed and another one is tried, within the
\* budget of the watch.
ReceiveFails ==
    /\ reader = "reading" /\ chan = <<>> /\ ~up
    /\ attempts' = attempts + 1
    /\ IF attempts' >= MaxAttempts
       THEN Fail("lost")
       ELSE reader' = "backoff" /\ UNCHANGED <<terminal, failure, up, chan>>
    /\ UNCHANGED <<log, ended, sent, final, mute, cursor, queue, lease, consumer, got,
                   silent, cut>>

\* After the backoff another generation is opened.  It works, or is refused for
\* good, or fails: that uses up an attempt too, and the loop goes on without a
\* connection, at whose top it returns.
Reconnect ==
    /\ reader = "backoff"
    /\ \/ /\ Opens
          /\ UNCHANGED <<attempts, terminal, failure, silent>>
       \/ /\ \E f \in {"refused", "gap", "subscription", "protocol"} :
                 /\ f = "protocol" => ~CursorConfirmed
                 /\ Fail(f)
          /\ UNCHANGED <<sent, final, mute, attempts, silent>>
       \/ /\ attempts' = attempts + 1
          /\ IF attempts' >= MaxAttempts
             THEN Fail("lost") /\ UNCHANGED <<sent, final, mute, silent>>
             ELSE /\ reader' = "done" /\ silent' = TRUE
                  /\ UNCHANGED <<up, chan, sent, final, mute, terminal, failure>>
    /\ UNCHANGED <<log, ended, cursor, queue, lease, consumer, got, cut>>

\* Faulty: the tail is dropped as it is for an error.
Completed_DropsTail ==
    /\ reader = "completing" /\ reader' = "done"
    /\ queue' = <<End>>
    /\ UNCHANGED <<serverVars, attempts, cursor, terminal, failure, lease,
                   consumer, got, silent, cut>>

\* Faulty: the marker is left to the consumer's own check of the state.
Completed_NoMarker ==
    /\ reader = "completing" /\ reader' = "done"
    /\ UNCHANGED <<serverVars, attempts, cursor, queue, terminal, failure, lease,
                   consumer, got, silent, cut>>

\* _terminal_eof after its await: the tail stays, an empty queue gets the marker.
Completed ==
    /\ reader = "completing" /\ reader' = "done"
    /\ queue' = IF queue = <<>> THEN <<End>> ELSE queue
    /\ UNCHANGED <<serverVars, attempts, cursor, terminal, failure, lease,
                   consumer, got, silent, cut>>

\* _terminal_error after its await: the tail is dropped for the marker.
Failed ==
    /\ reader = "failing" /\ reader' = "done"
    /\ queue' = <<End>>
    /\ UNCHANGED <<serverVars, attempts, cursor, terminal, failure, lease,
                   consumer, got, silent, cut>>

(***************************************************************************)
(* The consumer: _RemoteEventStream.__anext__.                             *)
(***************************************************************************)
\* The error once, and the end of the iteration from then on.
Finish ==
    /\ consumer' = IF failure # "none" THEN "error" ELSE "eof"
    /\ failure' = "none"
    /\ UNCHANGED got

Anext ==
    /\ lease # "new" /\ reader # "none" /\ consumer # "eof"
    /\ IF queue = <<>>
       THEN /\ consumer # "waiting"
            /\ IF terminal # "none" THEN Finish
               ELSE consumer' = "waiting" /\ UNCHANGED <<failure, got>>
            /\ UNCHANGED queue
       ELSE /\ queue' = Tail(queue)
            /\ IF Head(queue) = End THEN Finish
               ELSE /\ got' = Append(got, Head(queue))
                    /\ consumer' = "ready"
                    /\ UNCHANGED failure
    /\ UNCHANGED <<serverVars, reader, attempts, cursor, terminal, lease, silent,
                   cut>>

\* A consumer that is cancelled while it waits leaves the lease as it is.
CancelAnext ==
    /\ consumer = "waiting" /\ consumer' = "ready"
    /\ UNCHANGED <<serverVars, readerVars, lease, got, silent, cut>>

(***************************************************************************)
(* aclose, by the lease's exit or by the close of the client.              *)
(***************************************************************************)
\* The reader is cancelled wherever it stands.
AClose ==
    /\ lease \in {"new", "entered"}
    /\ lease' = IF lease = "new" THEN "closed" ELSE "closing"
    /\ cut' = (cut \/ reader \in {"completing", "failing"})
    /\ reader' = IF reader = "none" THEN "none" ELSE "done"
    /\ UNCHANGED <<serverVars, attempts, cursor, queue, terminal, failure,
                   consumer, got, silent>>

\* The connection is closed after a last unwatch, and a watch that has no outcome
\* yet gets its end.
AClosed ==
    /\ lease = "closing" /\ lease' = "closed"
    /\ up' = FALSE /\ chan' = <<>>
    /\ terminal' = IF terminal = "none" THEN "closed" ELSE terminal
    /\ queue' = IF terminal # "none" \/ Len(queue) >= QueueSize THEN queue
                ELSE Append(queue, End)
    /\ UNCHANGED <<log, ended, sent, final, mute, reader, attempts, cursor, failure,
                   consumer, got, silent, cut>>

Next ==
    \/ \E k \in EventKinds : Emit(k)
    \/ SessionEnds \/ PumpEvent \/ PumpComplete \/ PumpError \/ PumpStops \/ Lose
    \/ Enter \/ Receive \/ ReceiveFails \/ Reconnect \/ Completed \/ Failed
    \/ Anext \/ CancelAnext \/ AClose \/ AClosed

Spec == Init /\ [][Next]_vars

\* The server's pump and the client's loop go on, and the consumer takes what it
\* is given.  Nothing makes a connection last.
FairSpec ==
    /\ Spec
    /\ WF_vars(PumpEvent) /\ WF_vars(PumpComplete)
    /\ WF_vars(Receive) /\ WF_vars(ReceiveFails) /\ WF_vars(Reconnect)
    /\ WF_vars(Completed) /\ WF_vars(Failed) /\ WF_vars(AClosed)
    /\ WF_vars((queue # <<>> \/ terminal # "none") /\ Anext)

(***************************************************************************)
(* Properties.                                                             *)
(***************************************************************************)
\* Type correctness of the watch.
TypeOK ==
    /\ log \in Seq(EventKinds)
    /\ {ended, up, final, mute, silent, cut} \subseteq BOOLEAN
    /\ terminal \in {"none", "complete", "error", "closed"}
    /\ chan \in Seq([type : {"event", "complete", "error"},
                     seq : 0 .. MaxSeq, cursor : 0 .. MaxSeq])
    /\ {sent, cursor} \subseteq 0 .. MaxSeq /\ attempts \in 0 .. MaxAttempts
    /\ reader \in {"none", "reading", "backoff", "completing", "failing", "done"}
    /\ queue \in Seq(0 .. MaxSeq) /\ got \in Seq(1 .. MaxSeq)
    /\ failure \in Failures \cup {"none"}
    /\ lease \in {"new", "entered", "closing", "closed"}
    /\ consumer \in {"ready", "waiting", "error", "eof"}

\* The events up to n that pass the filter.
ShownUpTo(n) == {i \in 1 .. n : log[i] = "shown"}

\* What waits for the consumer, without the marker; and what it has or will get.
Waiting == Range(queue) \ {End}
Received == Range(got) \cup Waiting

\* Each event of q is behind the ones before it.
InOrder(q) == \A i, j \in DOMAIN q : i < j /\ q[j] # End => q[i] < q[j]

\* However often the connection is replaced, what the consumer has received and
\* what waits in its queue is the session's stream up to the cursor from which
\* the next generation resumes: nothing is lost, repeated or reordered.  After a
\* terminal error the consumer has a prefix of it.
WatchContinuous ==
    /\ InOrder(got) /\ InOrder(queue)
    /\ \A x \in Range(got), y \in Waiting : x < y
    /\ Received \subseteq ShownUpTo(cursor)
    /\ \A x \in ShownUpTo(cursor), y \in Received : x < y => x \in Received
    /\ reader \in {"reading", "backoff", "completing"} => Received = ShownUpTo(cursor)

\* An iteration that ends without an error, and that its owner has not closed, has
\* delivered the whole stream of a session that has ended.  A watch without a
\* filter is not ended by a protocol error.
EndIsHonest ==
    /\ consumer = "eof" /\ terminal = "complete" =>
          ended /\ Range(got) = ShownUpTo(Len(log))
    /\ failure = "protocol" => \E i \in DOMAIN log : log[i] = "hidden"

\* A watch whose session has ended, or that is closed, ends for its consumer, and
\* so does one that keeps losing its connection.  Three consumers are left waiting:
\* that of a reader which returned after a failed reconnect, that of a reader which
\* aclose cancelled in its last steps, and, as long as the connection stays up, that
\* of a subscription whose pump has returned without a word.
WatchEnds ==
    (lease # "new" /\ reader # "none" /\ (ended \/ lease = "closed"))
        ~> (consumer \in {"error", "eof"} \/ silent \/ cut \/ (mute /\ up))
=============================================================================
