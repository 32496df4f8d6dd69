---------------------------- MODULE EventBroker ----------------------------
(***************************************************************************)
(* SessionEventBroker (runtime/sessions/events.py): assigns the cross-turn *)
(* sequence of one session's stream, retains a bounded window of it, and   *)
(* delivers every event to the subscribers through one serial drainer.     *)
(*                                                                         *)
(* Every section under the broker lock is one action; what the code does   *)
(* outside the lock (callbacks, the exception paths) is a step of its own, *)
(* so other threads interleave there.  The deque of retained envelopes is  *)
(* kept as the set of their sequence numbers (its order is the order of    *)
(* the numbers); log[s] is the envelope that got number s, so Len(log) is  *)
(* the broker's _sequence.                                                 *)
(***************************************************************************)
EXTENDS Integers, Sequences, FiniteSetsExt

CONSTANTS
    Threads,     \* threads that call the broker
    TurnIds,     \* turn ids carried by events
    Kinds,       \* event classes used: a subset of KindClasses
    MaxEvents,   \* max_events, the preview budget
    HardCap,     \* _hard_cap, the absolute ceiling
    MaxSeq,      \* bound: events emitted in one behaviour
    MaxSubs,     \* bound: subscriptions made in one behaviour
    MaxExits     \* bound: KeyboardInterrupt/SystemExit raised by observers

\* _PREVIEW, _LOSSLESS, and the kinds that are in neither set.
KindClasses == {"preview", "lossless", "other"}
NoTurn == "no turn"

ASSUME BrokerAssumption ==
    /\ Kinds \subseteq KindClasses
    /\ NoTurn \notin TurnIds
    /\ MaxEvents \in Nat \ {0}
    /\ HardCap \in Nat /\ HardCap >= MaxEvents
    /\ MaxSeq \in Nat /\ MaxSubs \in Nat /\ MaxExits \in Nat

VARIABLES
    log,             \* every envelope ever assigned a sequence number
    retained,        \* _events, as sequence numbers
    droppedThrough,  \* _dropped_through
    latestTurn,      \* _latest_turn_id
    latestTurnStart, \* _latest_turn_start, 0 for None
    closed,          \* _closed
    subs,            \* subscriber records, indexed by subscription id
    delivery,        \* _delivery: envelopes with their subscriber snapshot
    dispatching,     \* _dispatching
    closeNotified,   \* _close_notified
    pendingClose,    \* _pending_close
    pc,              \* where each thread stands in _dispatch
    cur,             \* the envelope a draining thread delivers
    left,            \* the records it has not called yet
    exits,           \* process-level exits raised so far
    delivered,       \* history: sequence numbers each callback received
    fired            \* history: on_close calls of each record

streamVars == <<log, retained, droppedThrough, latestTurn, latestTurnStart>>
queueVars == <<closed, subs, delivery, dispatching, closeNotified, pendingClose>>
drainVars == <<pc, cur, left, exits, delivered, fired>>
vars == <<log, retained, droppedThrough, latestTurn, latestTurnStart,
          closed, subs, delivery, dispatching, closeNotified, pendingClose,
          pc, cur, left, exits, delivered, fired>>

sequence == Len(log)
SubIds == 1 .. MaxSubs
Registered == {i \in DOMAIN subs : subs[i].open}

Init ==
    /\ log = <<>> /\ retained = {} /\ droppedThrough = 0
    /\ latestTurn = NoTurn /\ latestTurnStart = 0
    /\ closed = FALSE /\ subs = <<>> /\ delivery = <<>>
    /\ dispatching = FALSE /\ closeNotified = FALSE /\ pendingClose = {}
    /\ pc = [t \in Threads |-> "idle"]
    /\ cur = [t \in Threads |-> 0] /\ left = [t \in Threads |-> {}]
    /\ exits = 0
    /\ delivered = [i \in SubIds |-> <<>>] /\ fired = [i \in SubIds |-> 0]
-----------------------------------------------------------------------------
(* Retention *)

Previews == {s \in retained : log[s].kind = "preview"}

\* _make_room_locked: the sequence numbers evicted to admit an event of this
\* class (none or one).
Victims(kind) ==
    IF Cardinality(retained) < MaxEvents THEN {}
    ELSE IF Previews # {} THEN {Min(Previews)}
    ELSE IF Cardinality(retained) >= HardCap \/ kind # "lossless"
         THEN {Min(retained)}
         ELSE {}

\* Faulty: the last number evicted instead of the highest.
DroppedAfter_Last(victims) ==
    IF victims = {} THEN droppedThrough ELSE Min(victims)

\* _evict_locked: the highest number ever evicted.
DroppedAfter(victims) ==
    IF \E v \in victims : v > droppedThrough
    THEN CHOOSE v \in victims : v > droppedThrough
    ELSE droppedThrough

\* _window_locked: what a reader with this cursor gets.
Window(cursor) ==
    [events |-> {s \in retained : s > cursor},
     gap |-> cursor < droppedThrough]

\* Faulty: the turn's first event may be the last one evicted.
LatestTurnIntact_OffByOne ==
    /\ latestTurnStart # 0
    /\ \E s \in retained : log[s].turn = latestTurn
    /\ droppedThrough <= latestTurnStart

\* recovery_state().latest_turn_intact
LatestTurnIntact ==
    /\ latestTurnStart # 0
    /\ \E s \in retained : log[s].turn = latestTurn
    /\ droppedThrough < latestTurnStart
-----------------------------------------------------------------------------
(* Calls of the broker API.  A thread calls from outside, or re-enters from *)
(* a callback while it drains.                                              *)

CanCall(t) == pc[t] \in {"idle", "deliver", "notify"}

\* Faulty: the flag is set but not tested.
ClaimDrainer_Unchecked(t) ==
    /\ dispatching' = TRUE
    /\ pc' = [pc EXCEPT ![t] = "loop"]

\* The False -> True claim of _dispatching; the claimant goes on to _dispatch.
ClaimDrainer(t) ==
    /\ dispatching' = TRUE
    /\ pc' = IF dispatching THEN pc ELSE [pc EXCEPT ![t] = "loop"]

\* The first event of a new turn id becomes the replay boundary.
TurnStart(turn) == IF turn = latestTurn THEN latestTurnStart ELSE sequence + 1

Emit(t, turn, kind) ==
    /\ CanCall(t)
    /\ ~closed
    /\ sequence < MaxSeq
    /\ log' = Append(log, [turn |-> turn, kind |-> kind])
    /\ LET out == Victims(kind)
       IN /\ retained' = (retained \ out) \cup {sequence + 1}
          /\ droppedThrough' = DroppedAfter(out)
    /\ latestTurn' = turn
    /\ latestTurnStart' = TurnStart(turn)
    /\ IF Registered = {}
       THEN UNCHANGED <<delivery, dispatching, pc>>
       ELSE /\ delivery' = Append(delivery, [seq |-> sequence + 1, recs |-> Registered])
            /\ ClaimDrainer(t)
    /\ UNCHANGED <<closed, subs, closeNotified, pendingClose,
                   cur, left, exits, delivered, fired>>

\* A subscriber record.  from, upto and replay are history: the sequence at
\* registration, the sequence when the record left the registry, and what the
\* subscription was handed as replay.
Record(cursor, checked, onClose, queued) ==
    [open |-> TRUE, onClose |-> onClose, checked |-> checked, cursor |-> cursor,
     replay |-> Window(cursor).events, queued |-> queued,
     from |-> sequence, upto |-> sequence]

Register(record) ==
    /\ ~closed
    /\ Len(subs) < MaxSubs
    /\ subs' = Append(subs, record)

\* The legacy subscribe: the cursor is neither range-checked nor gap-checked,
\* and the record has no on_close.
Subscribe(t, cursor) ==
    /\ CanCall(t)
    /\ Register(Record(cursor, FALSE, FALSE, <<>>))
    /\ UNCHANGED <<closed, delivery, dispatching, closeNotified, pendingClose>>
    /\ UNCHANGED streamVars /\ UNCHANGED drainVars

\* Faulty: registers on a stale cursor.
SubscribeFrom_Stale(t, cursor, onClose) ==
    /\ CanCall(t)
    /\ cursor \in 0 .. sequence
    /\ Register(Record(cursor, TRUE, onClose, <<>>))
    /\ UNCHANGED <<closed, delivery, dispatching, closeNotified, pendingClose>>
    /\ UNCHANGED streamVars /\ UNCHANGED drainVars

\* subscribe_from registers only on a cursor in range with no gap; in the other
\* cases it raises or returns a closed subscription and changes nothing.
SubscribeFrom(t, cursor, onClose) ==
    /\ CanCall(t)
    /\ cursor \in 0 .. sequence
    /\ ~Window(cursor).gap
    /\ Register(Record(cursor, TRUE, onClose, <<>>))
    /\ UNCHANGED <<closed, delivery, dispatching, closeNotified, pendingClose>>
    /\ UNCHANGED streamVars /\ UNCHANGED drainVars

\* The sequences that list a set of numbers in increasing order (there is one).
Listings(S) ==
    {q \in [1 .. Cardinality(S) -> S] :
        \A i, j \in 1 .. Cardinality(S) : i < j => q[i] < q[j]}

\* Replay envelopes, addressed to one record only.
Addressed(replay, id) == [k \in DOMAIN replay |-> [seq |-> replay[k], recs |-> {id}]]

\* Faulty: queues the replay and leaves it to the next emitter.
ForwardTo_NoClaim(t, cursor) ==
    \E replay \in Listings(Window(cursor).events) :
        /\ CanCall(t)
        /\ Register(Record(cursor, FALSE, FALSE, replay))
        /\ delivery' = delivery \o Addressed(replay, Len(subs) + 1)
        /\ UNCHANGED <<closed, dispatching, closeNotified, pendingClose>>
        /\ UNCHANGED streamVars /\ UNCHANGED drainVars

\* forward_to: replay rides the delivery queue, in the same critical section as
\* the registration.
ForwardTo(t, cursor) ==
    \E replay \in Listings(Window(cursor).events) :
        /\ CanCall(t)
        /\ Register(Record(cursor, FALSE, FALSE, replay))
        /\ delivery' = delivery \o Addressed(replay, Len(subs) + 1)
        /\ IF replay = <<>> THEN UNCHANGED <<dispatching, pc>> ELSE ClaimDrainer(t)
        /\ UNCHANGED <<closed, closeNotified, pendingClose>>
        /\ UNCHANGED <<cur, left, exits, delivered, fired>>
        /\ UNCHANGED streamVars

\* Faulty: drops what was accepted for the record.
CloseSubscription_Purge(t, i) ==
    /\ CanCall(t)
    /\ i \in Registered
    /\ subs' = [subs EXCEPT ![i].open = FALSE, ![i].upto = sequence]
    /\ delivery' = SelectSeq(delivery, LAMBDA d : i \notin d.recs)
    /\ UNCHANGED <<closed, dispatching, closeNotified, pendingClose>>
    /\ UNCHANGED streamVars /\ UNCHANGED drainVars

\* _close_subscription: events already accepted for the record stay queued.
CloseSubscription(t, i) ==
    /\ CanCall(t)
    /\ i \in Registered
    /\ subs' = [subs EXCEPT ![i].open = FALSE, ![i].upto = sequence]
    /\ UNCHANGED <<closed, delivery, dispatching, closeNotified, pendingClose>>
    /\ UNCHANGED streamVars /\ UNCHANGED drainVars

Close(t) ==
    /\ CanCall(t)
    /\ ~closed
    /\ closed' = TRUE
    /\ pendingClose' = Registered
    /\ subs' = [i \in DOMAIN subs |->
                  IF subs[i].open
                  THEN [subs[i] EXCEPT !.open = FALSE, !.upto = sequence]
                  ELSE subs[i]]
    /\ ClaimDrainer(t)
    /\ UNCHANGED <<delivery, closeNotified, cur, left, exits, delivered, fired>>
    /\ UNCHANGED streamVars
-----------------------------------------------------------------------------
(* _dispatch, the serial drainer *)

\* The lock section of the loop takes the next delivery, or the close
\* notification, or stops.
TakeDelivery(t) ==
    /\ pc[t] = "loop"
    /\ delivery # <<>>
    /\ delivery' = Tail(delivery)
    /\ pc' = [pc EXCEPT ![t] = "deliver"]
    /\ cur' = [cur EXCEPT ![t] = Head(delivery).seq]
    /\ left' = [left EXCEPT ![t] = Head(delivery).recs]
    /\ UNCHANGED <<closed, subs, dispatching, closeNotified, pendingClose>>
    /\ UNCHANGED <<exits, delivered, fired>>
    /\ UNCHANGED streamVars

TakeClose(t) ==
    /\ pc[t] = "loop"
    /\ delivery = <<>>
    /\ closed /\ ~closeNotified
    /\ closeNotified' = TRUE
    /\ pendingClose' = {}
    /\ dispatching' = FALSE
    /\ pc' = [pc EXCEPT ![t] = "notify"]
    /\ left' = [left EXCEPT ![t] = {i \in pendingClose : subs[i].onClose}]
    /\ UNCHANGED <<closed, subs, delivery, cur, exits, delivered, fired>>
    /\ UNCHANGED streamVars

\* Faulty: stops on an empty queue without looking at the close.
StopDraining_IgnoresClose(t) ==
    /\ pc[t] = "loop"
    /\ delivery = <<>>
    /\ dispatching' = FALSE
    /\ pc' = [pc EXCEPT ![t] = "idle"]
    /\ UNCHANGED <<closed, subs, delivery, closeNotified, pendingClose>>
    /\ UNCHANGED <<cur, left, exits, delivered, fired>>
    /\ UNCHANGED streamVars

StopDraining(t) ==
    /\ pc[t] = "loop"
    /\ delivery = <<>>
    /\ ~(closed /\ ~closeNotified)
    /\ dispatching' = FALSE
    /\ pc' = [pc EXCEPT ![t] = "idle"]
    /\ UNCHANGED <<closed, subs, delivery, closeNotified, pendingClose>>
    /\ UNCHANGED <<cur, left, exits, delivered, fired>>
    /\ UNCHANGED streamVars

\* Records of one envelope are called in registration order.  The callback
\* returns, or raises something that does not stop the drainer (an Exception, a
\* non-process BaseException, kept to be re-raised at the end).
Called(t) ==
    /\ pc[t] = "deliver"
    /\ left[t] # {}
    /\ delivered' = [delivered EXCEPT ![Min(left[t])] = Append(@, cur[t])]

CallbackReturns(t) ==
    /\ Called(t)
    /\ left' = [left EXCEPT ![t] = @ \ {Min(left[t])}]
    /\ pc' = IF left'[t] = {} THEN [pc EXCEPT ![t] = "loop"] ELSE pc
    /\ UNCHANGED <<cur, exits, fired>>
    /\ UNCHANGED streamVars /\ UNCHANGED queueVars

\* Faulty: a closed broker is left with the exception as well.
CallbackExits_AlwaysEscapes(t) ==
    /\ exits < MaxExits
    /\ Called(t)
    /\ exits' = exits + 1
    /\ left' = [left EXCEPT ![t] = {}]
    /\ pc' = [pc EXCEPT ![t] = "escape"]
    /\ UNCHANGED <<cur, fired>>
    /\ UNCHANGED streamVars /\ UNCHANGED queueVars

\* The callback raises KeyboardInterrupt or SystemExit.  _closed is read without
\* the lock: a closed broker abandons only this envelope, an open one is left
\* with the exception, and the flag is restored in a later lock section.
CallbackExits(t) ==
    /\ exits < MaxExits
    /\ Called(t)
    /\ exits' = exits + 1
    /\ left' = [left EXCEPT ![t] = {}]
    /\ pc' = [pc EXCEPT ![t] = IF closed THEN "loop" ELSE "escape"]
    /\ UNCHANGED <<cur, fired>>
    /\ UNCHANGED streamVars /\ UNCHANGED queueVars

\* The outer except BaseException: restore _dispatching and re-raise.
Escape(t) ==
    /\ pc[t] = "escape"
    /\ dispatching' = FALSE
    /\ pc' = [pc EXCEPT ![t] = "idle"]
    /\ UNCHANGED <<cur, left, exits, delivered, fired>>
    /\ UNCHANGED <<closed, subs, delivery, closeNotified, pendingClose>>
    /\ UNCHANGED streamVars

\* _notify_closed: the next on_close returns, or exits the process and abandons
\* the rest.
NotifyClosed(t) ==
    /\ pc[t] = "notify"
    /\ \/ /\ left[t] = {}
          /\ pc' = [pc EXCEPT ![t] = "idle"]
          /\ UNCHANGED <<left, fired, exits>>
       \/ /\ left[t] # {}
          /\ fired' = [fired EXCEPT ![Min(left[t])] = @ + 1]
          /\ \/ /\ left' = [left EXCEPT ![t] = @ \ {Min(left[t])}]
                /\ UNCHANGED <<pc, exits>>
             \/ /\ exits < MaxExits
                /\ exits' = exits + 1
                /\ left' = [left EXCEPT ![t] = {}]
                /\ pc' = [pc EXCEPT ![t] = "escape"]
    /\ UNCHANGED <<cur, delivered>>
    /\ UNCHANGED streamVars /\ UNCHANGED queueVars

Dispatch(t) ==
    \/ TakeDelivery(t)
    \/ TakeClose(t)
    \/ StopDraining(t)
    \/ CallbackReturns(t)
    \/ CallbackExits(t)
    \/ Escape(t)
    \/ NotifyClosed(t)

Next ==
    \E t \in Threads :
        \/ \E turn \in TurnIds, kind \in Kinds : Emit(t, turn, kind)
        \/ \E cursor \in 0 .. MaxSeq : Subscribe(t, cursor)
        \/ \E cursor \in 0 .. MaxSeq, onClose \in BOOLEAN : SubscribeFrom(t, cursor, onClose)
        \/ \E cursor \in 0 .. MaxSeq : ForwardTo(t, cursor)
        \/ \E i \in SubIds : CloseSubscription(t, i)
        \/ Close(t)
        \/ Dispatch(t)

Spec == Init /\ [][Next]_vars

\* A drainer keeps running: nothing but the callbacks it calls can block it, and
\* those return or raise.
FairSpec == Spec /\ \A t \in Threads : WF_vars(Dispatch(t))
-----------------------------------------------------------------------------
(* Properties of the stream *)

Envelopes == [turn : TurnIds, kind : Kinds]
PcLabels == {"idle", "loop", "deliver", "notify", "escape"}
SubRecords == [open : BOOLEAN, onClose : BOOLEAN, checked : BOOLEAN,
               cursor : 0 .. MaxSeq, replay : SUBSET (1 .. MaxSeq),
               queued : Seq(1 .. MaxSeq), from : 0 .. MaxSeq, upto : 0 .. MaxSeq]
Deliveries == [seq : 1 .. MaxSeq, recs : SUBSET SubIds]

\* The type of every field of the broker.
TypeOK ==
    /\ log \in Seq(Envelopes) /\ sequence <= MaxSeq
    /\ retained \subseteq 1 .. sequence
    /\ droppedThrough \in 0 .. sequence
    /\ latestTurn \in TurnIds \cup {NoTurn}
    /\ latestTurnStart \in 0 .. sequence
    /\ closed \in BOOLEAN /\ dispatching \in BOOLEAN /\ closeNotified \in BOOLEAN
    /\ subs \in Seq(SubRecords) /\ Len(subs) <= MaxSubs
    /\ delivery \in Seq(Deliveries)
    /\ pendingClose \subseteq SubIds
    /\ pc \in [Threads -> PcLabels]
    /\ cur \in [Threads -> 0 .. MaxSeq] /\ left \in [Threads -> SUBSET SubIds]
    /\ exits \in 0 .. MaxExits
    /\ delivered \in [SubIds -> Seq(1 .. MaxSeq)] /\ fired \in [SubIds -> Nat]

\* A cursor's gap flag is exact: read_after and subscribe_from report a gap
\* exactly when an event after the cursor has been evicted, although previews
\* are evicted from the middle of the window and only the highest evicted
\* number is remembered.  A window without a gap misses nothing.
GapExact ==
    \A c \in 0 .. sequence :
        Window(c).gap <=> ~(c + 1 .. sequence \subseteq Window(c).events)

\* recovery_state reports the newest turn as intact exactly when each of its
\* events, from its recorded start to the end of the stream, can be replayed.
IntactExact ==
    latestTurnStart # 0 =>
        /\ \A s \in latestTurnStart .. sequence : log[s].turn = latestTurn
        /\ LatestTurnIntact <=> (latestTurnStart .. sequence \subseteq retained)

\* The hard cap bounds the window, even for a stream of lossless events only.
WindowBounded == Cardinality(retained) <= HardCap

\* _make_room_locked never gives up a tool, usage or terminal event while a
\* preview event could be dropped instead.
PreviewsGoFirst ==
    [][\A s \in retained \ retained' : log[s].kind = "preview" \/ Previews = {}]_vars
-----------------------------------------------------------------------------
(* Properties of delivery *)

\* What a drainer is about to hand a record, and what is still queued for it.
InFlight(i) == {cur[t] : t \in {u \in Threads : pc[u] = "deliver" /\ i \in left[u]}}
Queued(i) == {k \in DOMAIN delivery : i \in delivery[k].recs}
Pending(i) == {delivery[k].seq : k \in Queued(i)}
Accepted(i) == Range(delivered[i]) \cup InFlight(i) \cup Pending(i)
Upto(i) == IF subs[i].open THEN sequence ELSE subs[i].upto

Increasing(q) == \A j, k \in DOMAIN q : j < k => q[j] < q[k]

\* What a record has received, is being handed and has queued, one after the
\* other, is in the order of the stream, nothing in it twice.
InOrder(i) ==
    /\ Increasing(delivered[i])
    /\ \A s \in Range(delivered[i]), u \in InFlight(i) \cup Pending(i) : s < u
    /\ \A s \in InFlight(i), u \in Pending(i) : s < u
    /\ \A j, k \in Queued(i) : j < k => delivery[j].seq < delivery[k].seq

\* At most one thread runs the drainer, whoever emits, closes or re-enters.
OneDrainer ==
    \A t, u \in Threads :
        (pc[t] \in {"loop", "deliver"} /\ pc[u] \in {"loop", "deliver"}) => t = u

\* A subscription made with subscribe_from resumes the stream: its replay is
\* everything between its cursor and the first event delivered live to it.
ResumeContiguous ==
    \A i \in DOMAIN subs :
        subs[i].checked => subs[i].replay = (subs[i].cursor + 1) .. subs[i].from

\* No observer sees an event out of order or twice, whichever threads emit:
\* forward_to's replay comes before what is live, and on_close comes once, after
\* every event the record is owed.
DeliveredInOrder ==
    \A i \in DOMAIN subs :
        /\ InOrder(i)
        /\ fired[i] <= 1
        /\ fired[i] > 0 => Pending(i) = {} /\ InFlight(i) = {}

\* No event accepted for a record is lost or duplicated on its way: what it has
\* received, what is being handed to it and what is queued are together the
\* forwarded replay followed by every event emitted while it was registered,
\* even when its subscription was closed since.  Only a process-level exit of an
\* observer abandons what the rest of one envelope was owed.
NoLostDelivery ==
    exits = 0 =>
        \A i \in DOMAIN subs :
            /\ InOrder(i)
            /\ Accepted(i) = Range(subs[i].queued) \cup (subs[i].from + 1 .. Upto(i))

\* The handoff of _dispatching loses no wake-up: accepted deliveries always have
\* a drainer, except after a process-level exit, which leaves them to the next
\* caller.
QueueNeverStranded ==
    (exits = 0 /\ delivery # <<>>) => \E t \in Threads : pc[t] \in {"loop", "deliver"}

\* An observer's process-level exit is on its way out of the drainer.
Leaving == \E t \in Threads : pc[t] = "escape"

\* Every observer registered when the broker closes gets its on_close, whatever
\* the observers of the queued events raise after the close: only an exit that an
\* on_close itself raises abandons the rest (_notify_closed).  A close that comes
\* when the drainer has read _closed (without the lock) and lets an exit out is
\* excepted: its notification is stranded for good, since emit returns at once
\* and a second close does nothing.
CloseReachesObservers ==
    \A i \in SubIds :
        (i \in pendingClose /\ subs[i].onClose /\ dispatching /\ ~Leaving)
            ~> (fired[i] = 1 \/ (Leaving /\ closeNotified))

\* What the comment on _dispatching claims of a pending close notification: it
\* always has a drainer.  Not so after the close excepted above; no configuration
\* lists it, and TLC refutes it with the bounds of broker_delivery.cfg.
CloseNeverStranded == (closed /\ ~closeNotified) => dispatching
=============================================================================
