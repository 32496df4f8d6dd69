------------------------ MODULE EventBroker_proofs ------------------------
(***************************************************************************)
(* Theorems about the session event broker, for every number of threads,   *)
(* subscriptions, events and process-level exits, and for every window     *)
(* size.                                                                   *)
(***************************************************************************)
EXTENDS EventBroker, FiniteSetTheorems, SequenceTheorems,
        WellFoundedInduction, TLAPS

USE BrokerAssumption

\* Min picks an element of a nonempty set of naturals.
LEMMA MinIsElement ==
    ASSUME NEW S, S \subseteq Nat, S # {}
    PROVE  Min(S) \in S /\ \A s \in S : Min(S) <= s
<1> DEFINE Less == {ss \in Nat \X Nat : ss[1] < ss[2]}
<1>1. IsWellFoundedOn(Less, Nat)
  BY NatLessThanWellFounded, Zenon DEF OpToRel
<1> HIDE DEF Less
<1>2. PICK n \in S : \A s \in S : ~(<<s, n>> \in Less)
  BY <1>1, WFMin
<1>3. ASSUME NEW s \in S PROVE n <= s
  <2>1. s < n => <<s, n>> \in Less
    BY DEF Less
  <2>2. ~(s < n)
    BY <1>2, <2>1
  <2> QED BY <2>2
<1> QED BY <1>2, <1>3 DEF Min
-----------------------------------------------------------------------------
(* The stream: what emit does to the window, and nothing else does *)

\* The part of Emit that numbers and retains an event.
Retain(turn, kind) ==
    /\ sequence < MaxSeq
    /\ log' = Append(log, [turn |-> turn, kind |-> kind])
    /\ retained' = (retained \ Victims(kind)) \cup {sequence + 1}
    /\ droppedThrough' = DroppedAfter(Victims(kind))
    /\ latestTurn' = turn
    /\ latestTurnStart' = TurnStart(turn)

\* The strengthening of the stream properties: everything above the highest
\* evicted number is retained, the number itself is not, and the newest turn is
\* a suffix of the log.
StreamInv ==
    /\ log \in Seq(Envelopes)
    /\ sequence <= MaxSeq
    /\ retained \subseteq 1 .. sequence
    /\ droppedThrough \in 0 .. sequence
    /\ droppedThrough \notin retained
    /\ \A s \in 1 .. sequence : s > droppedThrough => s \in retained
    /\ sequence > 0 => droppedThrough < sequence
    /\ latestTurnStart \in 0 .. sequence
    /\ latestTurnStart = 0 <=> sequence = 0
    /\ latestTurn = IF sequence = 0 THEN NoTurn ELSE log[sequence].turn
    /\ \A s \in 1 .. sequence : s >= latestTurnStart => log[s].turn = latestTurn

\* Only emit touches the stream.
LEMMA OnlyEmitRetains ==
    ASSUME Next
    PROVE  \/ UNCHANGED streamVars
           \/ \E turn \in TurnIds, kind \in Kinds : Retain(turn, kind)
<1>1. PICK t \in Threads :
        \/ \E turn \in TurnIds, kind \in Kinds : Emit(t, turn, kind)
        \/ \E cursor \in 0 .. MaxSeq : Subscribe(t, cursor)
        \/ \E cursor \in 0 .. MaxSeq, onClose \in BOOLEAN : SubscribeFrom(t, cursor, onClose)
        \/ \E cursor \in 0 .. MaxSeq : ForwardTo(t, cursor)
        \/ \E i \in SubIds : CloseSubscription(t, i)
        \/ Close(t)
        \/ Dispatch(t)
  BY DEF Next
<1>2. ASSUME NEW turn \in TurnIds, NEW kind \in Kinds, Emit(t, turn, kind)
      PROVE  Retain(turn, kind)
  BY <1>2, Zenon DEF Emit, Retain
<1>3. ASSUME NEW cursor, Subscribe(t, cursor)
      PROVE  UNCHANGED streamVars
  BY <1>3, Zenon DEF Subscribe
<1>4. ASSUME NEW cursor, NEW onClose, SubscribeFrom(t, cursor, onClose)
      PROVE  UNCHANGED streamVars
  BY <1>4, Zenon DEF SubscribeFrom
<1>5. ASSUME NEW cursor, ForwardTo(t, cursor)
      PROVE  UNCHANGED streamVars
  BY <1>5, Zenon DEF ForwardTo
<1>6. ASSUME NEW i, CloseSubscription(t, i)
      PROVE  UNCHANGED streamVars
  BY <1>6, Zenon DEF CloseSubscription
<1>7. Close(t) => UNCHANGED streamVars
  BY Zenon DEF Close
<1>8. Dispatch(t) => UNCHANGED streamVars
  BY Zenon DEF Dispatch, TakeDelivery, TakeClose, StopDraining, CallbackReturns,
               CallbackExits, Escape, NotifyClosed
<1> QED BY <1>1, <1>2, <1>3, <1>4, <1>5, <1>6, <1>7, <1>8, Zenon

\* The window is finite, whatever its bound.
LEMMA WindowIsFinite ==
    ASSUME StreamInv
    PROVE  /\ retained \subseteq Nat
           /\ IsFiniteSet(retained)
           /\ Cardinality(retained) \in Nat
<1>1. sequence \in Nat /\ retained \in SUBSET (1 .. sequence)
  BY DEF StreamInv, sequence
<1>2. IsFiniteSet(1 .. sequence)
  BY <1>1, FS_Interval
<1>3. IsFiniteSet(retained)
  BY <1>1, <1>2, FS_Subset
<1> QED BY <1>1, <1>3, FS_CardinalityType

\* _make_room_locked evicts at most one event, and only a retained one.
LEMMA VictimIsRetained ==
    ASSUME StreamInv, NEW kind
    PROVE  \/ Victims(kind) = {}
           \/ \E v \in retained : Victims(kind) = {v}
<1>1. Previews # {} => Min(Previews) \in retained
  BY WindowIsFinite, MinIsElement DEF Previews
<1>2. retained # {} => Min(retained) \in retained
  BY WindowIsFinite, MinIsElement
<1>3. ~(Cardinality(retained) < MaxEvents) => retained # {}
  BY FS_EmptySet
<1> QED BY <1>1, <1>2, <1>3 DEF Victims

\* Every step keeps what emit knows about its window: the evicted prefix, the
\* retained rest, and the newest turn as a suffix of the stream.
LEMMA StreamStep ==
    ASSUME StreamInv, NEW turn \in TurnIds, NEW kind \in Kinds, Retain(turn, kind)
    PROVE  StreamInv'
<1> DEFINE n == Len(log)
           e == [turn |-> turn, kind |-> kind]
<1>1. /\ n \in Nat /\ n < MaxSeq /\ e \in Envelopes
      /\ log' \in Seq(Envelopes) /\ Len(log') = n + 1
      /\ \A s \in 1 .. n : log'[s] = log[s]
      /\ log'[n + 1] = e
  BY DEF StreamInv, Retain, sequence, Envelopes
<1>2. PICK out : /\ \/ out = {} \/ \E v \in retained : out = {v}
                 /\ retained' = (retained \ out) \cup {n + 1}
                 /\ droppedThrough' = DroppedAfter(out)
  BY VictimIsRetained DEF Retain, sequence
<1>5. /\ n \in Nat /\ retained \subseteq 1 .. n /\ droppedThrough \in 0 .. n
      /\ droppedThrough \notin retained
      /\ \A s \in 1 .. n : s > droppedThrough => s \in retained
  BY <1>1 DEF StreamInv, sequence
<1>3. /\ retained' \subseteq 1 .. (n + 1)
      /\ droppedThrough' \in 0 .. n
      /\ droppedThrough' \notin retained'
      /\ \A s \in 1 .. (n + 1) : s > droppedThrough' => s \in retained'
  <2>1. CASE out = {}
    <3>1. droppedThrough' = droppedThrough /\ retained' = retained \cup {n + 1}
      BY <1>2, <2>1 DEF DroppedAfter
    <3> HIDE DEF n
    <3> QED BY <1>5, <3>1
  <2>2. ASSUME NEW v \in retained, out = {v} PROVE <1>3!:
    <3>1. droppedThrough' = IF v > droppedThrough THEN v ELSE droppedThrough
      BY <1>2, <2>2 DEF DroppedAfter
    <3>2. retained' = (retained \ {v}) \cup {n + 1}
      BY <1>2, <2>2
    <3> HIDE DEF n
    <3> QED BY <1>5, <3>1, <3>2
  <2> QED BY <1>2, <2>1, <2>2
<1>4. /\ latestTurnStart' \in 1 .. (n + 1)
      /\ latestTurn' = turn
      /\ \A s \in 1 .. (n + 1) : s >= latestTurnStart' => log'[s].turn = turn
  <2>1. latestTurn' = turn /\ latestTurnStart' = TurnStart(turn)
    BY DEF Retain
  <2>2. CASE turn = latestTurn
    BY <1>1, <2>1, <2>2 DEF StreamInv, sequence, TurnStart
  <2>3. CASE turn # latestTurn
    BY <1>1, <2>1, <2>3 DEF StreamInv, sequence, TurnStart
  <2> QED BY <2>2, <2>3
<1> QED BY <1>1, <1>3, <1>4 DEF StreamInv, sequence

\* Every step keeps the window within the hard cap.
LEMMA SizeStep ==
    ASSUME StreamInv, Cardinality(retained) <= HardCap,
           NEW turn \in TurnIds, NEW kind \in Kinds, Retain(turn, kind)
    PROVE  Cardinality(retained') <= HardCap
<1> DEFINE n == sequence + 1
           kept == retained \ Victims(kind)
<1>1. retained' = kept \cup {n}
  BY DEF Retain
<1>2. IsFiniteSet(retained) /\ Cardinality(retained) \in Nat
  BY WindowIsFinite
<1>3. CASE Victims(kind) = {}
  <2>1. Cardinality(retained) < HardCap
    BY <1>2, <1>3 DEF Victims
  <2>2. kept = retained
    BY <1>3
  <2>3. retained' = retained \cup {n}
    BY <1>1, <2>2
  <2>4. Cardinality(retained') \in {Cardinality(retained), Cardinality(retained) + 1}
    BY <1>2, <2>3, FS_AddElement
  <2> QED BY <1>2, <2>1, <2>4
<1>4. ASSUME NEW v \in retained, Victims(kind) = {v}
      PROVE  Cardinality(retained') <= HardCap
  <2>1. kept = retained \ {v}
    BY <1>4
  <2>2. IsFiniteSet(kept) /\ Cardinality(kept) = Cardinality(retained) - 1
    BY <1>2, <2>1, FS_RemoveElement
  <2>3. Cardinality(retained') \in {Cardinality(kept), Cardinality(kept) + 1}
    BY <1>1, <2>2, FS_AddElement
  <2> QED BY <1>2, <2>2, <2>3
<1> QED BY <1>3, <1>4, VictimIsRetained

\* Init and every step keep the strengthening.
LEMMA StreamInvariant == Spec => [](StreamInv /\ Cardinality(retained) <= HardCap)
<1> DEFINE I == StreamInv /\ Cardinality(retained) <= HardCap
<1>1. Init => I
  <2> SUFFICES ASSUME Init PROVE I
    OBVIOUS
  <2>1. log = <<>> /\ retained = {} /\ droppedThrough = 0
        /\ latestTurn = NoTurn /\ latestTurnStart = 0
    BY DEF Init
  <2>2. Cardinality(retained) <= HardCap
    BY <2>1, FS_EmptySet
  <2>3. StreamInv
    BY <2>1 DEF StreamInv, sequence
  <2> QED BY <2>2, <2>3
<1>2. I /\ [Next]_vars => I'
  <2> SUFFICES ASSUME I, [Next]_vars PROVE I'
    OBVIOUS
  <2>1. CASE UNCHANGED streamVars
    BY <2>1 DEF streamVars, StreamInv, sequence
  <2>2. CASE UNCHANGED vars
    BY <2>2 DEF vars, StreamInv, sequence
  <2>3. ASSUME NEW turn \in TurnIds, NEW kind \in Kinds, Retain(turn, kind)
        PROVE  I'
    BY <2>3, StreamStep, SizeStep
  <2> QED BY <2>1, <2>2, <2>3, OnlyEmitRetains
<1> QED BY <1>1, <1>2, PTL DEF Spec

\* read_after and subscribe_from report a gap exactly when an event after the
\* cursor is gone, for every window size and every mix of event classes.
THEOREM GapIsExact == Spec => []GapExact
<1>1. StreamInv => GapExact
  <2> SUFFICES ASSUME StreamInv, NEW c \in 0 .. sequence
               PROVE  Window(c).gap <=> ~(c + 1 .. sequence \subseteq Window(c).events)
    BY DEF GapExact
  <2>1. /\ sequence \in Nat /\ retained \subseteq 1 .. sequence
        /\ droppedThrough \in 0 .. sequence /\ droppedThrough \notin retained
        /\ \A s \in 1 .. sequence : s > droppedThrough => s \in retained
    BY DEF StreamInv, sequence
  <2>2. Window(c).gap = (c < droppedThrough)
        /\ Window(c).events = {s \in retained : s > c}
    BY DEF Window
  <2>3. c < droppedThrough => droppedThrough \in c + 1 .. sequence
    BY <2>1
  <2>4. c < droppedThrough => ~(c + 1 .. sequence \subseteq Window(c).events)
    BY <2>1, <2>2, <2>3
  <2>5. ASSUME ~(c < droppedThrough), NEW s \in c + 1 .. sequence
        PROVE  s \in Window(c).events
    BY <2>1, <2>2, <2>5
  <2> QED BY <2>2, <2>4, <2>5
<1> QED BY <1>1, StreamInvariant, PTL

\* recovery_state's latest_turn_intact is exact.
THEOREM IntactIsExact == Spec => []IntactExact
<1>1. StreamInv => IntactExact
  <2> SUFFICES ASSUME StreamInv, latestTurnStart # 0
               PROVE  /\ \A s \in latestTurnStart .. sequence : log[s].turn = latestTurn
                      /\ LatestTurnIntact <=> (latestTurnStart .. sequence \subseteq retained)
    BY DEF IntactExact
  <2>1. /\ sequence \in Nat \ {0} /\ retained \subseteq 1 .. sequence
        /\ latestTurnStart \in 1 .. sequence
        /\ droppedThrough \in 0 .. sequence /\ droppedThrough \notin retained
        /\ droppedThrough < sequence
        /\ \A s \in 1 .. sequence : s > droppedThrough => s \in retained
        /\ \A s \in 1 .. sequence : s >= latestTurnStart => log[s].turn = latestTurn
    BY DEF StreamInv, sequence
  <2>2. \A s \in latestTurnStart .. sequence : log[s].turn = latestTurn
    BY <2>1
  <2>3. sequence \in retained /\ log[sequence].turn = latestTurn
    BY <2>1
  <2>4. LatestTurnIntact <=> droppedThrough < latestTurnStart
    BY <2>3 DEF LatestTurnIntact
  <2>5. droppedThrough >= latestTurnStart => droppedThrough \in latestTurnStart .. sequence
    BY <2>1
  <2>6. droppedThrough < latestTurnStart => latestTurnStart .. sequence \subseteq retained
    BY <2>1
  <2> QED BY <2>1, <2>2, <2>4, <2>5, <2>6
<1> QED BY <1>1, StreamInvariant, PTL

\* The retained window never exceeds the hard cap.
THEOREM WindowIsBounded == Spec => []WindowBounded
BY StreamInvariant, PTL DEF WindowBounded

\* Nothing but a preview is evicted while a preview is retained.
THEOREM PreviewsAreEvictedFirst == Spec => PreviewsGoFirst
<1> DEFINE A == \A s \in retained \ retained' : log[s].kind = "preview" \/ Previews = {}
<1>1. StreamInv /\ [Next]_vars => [A]_vars
  <2> SUFFICES ASSUME StreamInv, Next PROVE A
    BY Zenon
  <2>1. CASE UNCHANGED streamVars
    BY <2>1 DEF streamVars
  <2>2. ASSUME NEW turn \in TurnIds, NEW kind \in Kinds, Retain(turn, kind)
        PROVE  A
    <3>1. retained \ retained' \subseteq Victims(kind)
      BY <2>2 DEF Retain
    <3>2. Previews # {} => Min(Previews) \in Previews
      BY WindowIsFinite, MinIsElement DEF Previews
    <3>3. Previews # {} => Victims(kind) \subseteq Previews
      BY <3>2 DEF Victims
    <3> QED BY <3>1, <3>3 DEF Previews
  <2> QED BY <2>1, <2>2, OnlyEmitRetains
<1> QED BY <1>1, StreamInvariant, PTL DEF Spec, PreviewsGoFirst
-----------------------------------------------------------------------------
(* The drainer *)

\* The strengthening of OneDrainer: at most one thread is anywhere in _dispatch,
\* the close notification and the exit path included, and while it is there the
\* flag is up or the broker closed, so that nobody can claim the drainer.
DrainInv ==
    /\ pc \in [Threads -> PcLabels]
    /\ \A t, u \in Threads : pc[t] # "idle" /\ pc[u] # "idle" => t = u
    /\ \A t \in Threads : pc[t] # "idle" => dispatching \/ closed

\* Claiming the drainer while the broker is open keeps the invariant.
LEMMA ClaimKeepsDrainInv ==
    ASSUME DrainInv, NEW t \in Threads, CanCall(t), ~closed, ClaimDrainer(t)
    PROVE  DrainInv'
BY DEF DrainInv, ClaimDrainer, PcLabels

\* Every step keeps at most one thread inside _dispatch's loop.
LEMMA DrainStep ==
    ASSUME DrainInv, [Next]_vars
    PROVE  DrainInv'
<1>1. CASE UNCHANGED <<pc, dispatching, closed>>
  BY <1>1 DEF DrainInv
<1>2. ASSUME NEW t \in Threads, NEW turn \in TurnIds, NEW kind \in Kinds, Emit(t, turn, kind)
      PROVE  DrainInv'
  <2>1. CASE Registered = {}
    BY <1>1, <1>2, <2>1 DEF Emit
  <2>2. CASE Registered # {}
    BY <1>2, <2>2, ClaimKeepsDrainInv DEF Emit
  <2> QED BY <2>1, <2>2
<1>3. ASSUME NEW t \in Threads, NEW cursor, Subscribe(t, cursor)
      PROVE  DrainInv'
  BY <1>1, <1>3 DEF Subscribe, drainVars
<1>4. ASSUME NEW t \in Threads, NEW cursor, NEW onClose, SubscribeFrom(t, cursor, onClose)
      PROVE  DrainInv'
  BY <1>1, <1>4 DEF SubscribeFrom, drainVars
<1>5. ASSUME NEW t \in Threads, NEW cursor, ForwardTo(t, cursor)
      PROVE  DrainInv'
  <2>1. PICK replay \in Listings(Window(cursor).events) :
            /\ CanCall(t) /\ ~closed /\ UNCHANGED closed
            /\ IF replay = <<>> THEN UNCHANGED <<dispatching, pc>> ELSE ClaimDrainer(t)
    BY <1>5, Zenon DEF ForwardTo, Register
  <2>2. CASE replay = <<>>
    BY <1>1, <2>1, <2>2
  <2>3. CASE replay # <<>>
    BY <2>1, <2>3, ClaimKeepsDrainInv
  <2> QED BY <2>2, <2>3
<1>6. ASSUME NEW t \in Threads, NEW i, CloseSubscription(t, i)
      PROVE  DrainInv'
  BY <1>1, <1>6 DEF CloseSubscription, drainVars
<1>7. ASSUME NEW t \in Threads, Close(t)
      PROVE  DrainInv'
  BY <1>7, ClaimKeepsDrainInv DEF Close
<1>8. ASSUME NEW t \in Threads, TakeDelivery(t)
      PROVE  DrainInv'
  BY <1>8 DEF TakeDelivery, DrainInv, PcLabels
<1>9. ASSUME NEW t \in Threads, TakeClose(t)
      PROVE  DrainInv'
  BY <1>9 DEF TakeClose, DrainInv, PcLabels
<1>10. ASSUME NEW t \in Threads, StopDraining(t)
       PROVE  DrainInv'
  BY <1>10 DEF StopDraining, DrainInv, PcLabels
<1>11. ASSUME NEW t \in Threads, CallbackReturns(t)
       PROVE  DrainInv'
  BY <1>11 DEF CallbackReturns, Called, queueVars, DrainInv, PcLabels
<1>12. ASSUME NEW t \in Threads, CallbackExits(t)
       PROVE  DrainInv'
  BY <1>12 DEF CallbackExits, Called, queueVars, DrainInv, PcLabels
<1>13. ASSUME NEW t \in Threads, Escape(t)
       PROVE  DrainInv'
  BY <1>13 DEF Escape, DrainInv, PcLabels
<1>14. ASSUME NEW t \in Threads, NotifyClosed(t)
       PROVE  DrainInv'
  BY <1>14 DEF NotifyClosed, queueVars, DrainInv, PcLabels
<1>15. CASE UNCHANGED vars
  BY <1>1, <1>15 DEF vars
<1> QED
  BY <1>2, <1>3, <1>4, <1>5, <1>6, <1>7, <1>8, <1>9, <1>10, <1>11, <1>12, <1>13,
     <1>14, <1>15, Zenon DEF Next, Dispatch

\* At most one thread delivers, whatever the callers and the observers do.
THEOREM OneDrainerAlways == Spec => []OneDrainer
<1>1. Init => DrainInv
  BY DEF Init, DrainInv, PcLabels
<1>2. DrainInv => OneDrainer
  BY DEF DrainInv, OneDrainer
<1> QED BY <1>1, <1>2, DrainStep, PTL DEF Spec
-----------------------------------------------------------------------------
(* Types *)

\* The types of the fields that are not the stream's, and that a draining thread
\* holds an event.
QueueTypes ==
    /\ closed \in BOOLEAN /\ dispatching \in BOOLEAN /\ closeNotified \in BOOLEAN
    /\ subs \in Seq(SubRecords) /\ Len(subs) <= MaxSubs
    /\ delivery \in Seq(Deliveries)
    /\ pendingClose \subseteq SubIds
DrainTypes ==
    /\ pc \in [Threads -> PcLabels]
    /\ cur \in [Threads -> 0 .. MaxSeq]
    /\ \A t \in Threads : pc[t] = "deliver" => cur[t] # 0
    /\ left \in [Threads -> SUBSET SubIds]
    /\ exits \in 0 .. MaxExits
    /\ delivered \in [SubIds -> Seq(1 .. MaxSeq)] /\ fired \in [SubIds -> Nat]

\* A window holds sequence numbers of the stream only.
LEMMA WindowTypes ==
    ASSUME StreamInv, NEW cursor \in 0 .. MaxSeq
    PROVE  /\ sequence \in 0 .. MaxSeq
           /\ Window(cursor).events \in SUBSET retained
           /\ Window(cursor).events \in SUBSET (1 .. MaxSeq)
<1>1. sequence \in 0 .. MaxSeq
  BY DEF StreamInv, sequence
<1>2. retained \subseteq 1 .. sequence
  BY DEF StreamInv
<1>3. retained \subseteq 1 .. MaxSeq
  BY <1>1, <1>2
<1> QED BY <1>1, <1>3 DEF Window

\* Closing a record keeps it a record.
LEMMA ClosedRecordType ==
    ASSUME StreamInv, NEW rec \in SubRecords
    PROVE  [rec EXCEPT !.open = FALSE, !.upto = sequence] \in SubRecords
<1>1. sequence \in 0 .. MaxSeq
  BY DEF StreamInv, sequence
<1> QED BY <1>1 DEF SubRecords

\* A new record, whatever kind of subscription it is for.
LEMMA RegisterTypes ==
    ASSUME StreamInv, QueueTypes, NEW cursor \in 0 .. MaxSeq, NEW checked \in BOOLEAN,
           NEW onClose \in BOOLEAN, NEW queued \in Seq(1 .. MaxSeq),
           Register(Record(cursor, checked, onClose, queued))
    PROVE  subs' \in Seq(SubRecords) /\ Len(subs') <= MaxSubs /\ Len(subs) + 1 \in SubIds
<1>1. Record(cursor, checked, onClose, queued) \in SubRecords
  BY WindowTypes DEF Record, SubRecords
<1> QED BY <1>1 DEF Register, QueueTypes, SubIds

\* The registry names existing records only.
LEMMA RegisteredTypes ==
    ASSUME QueueTypes
    PROVE  Registered \subseteq SubIds
BY DEF QueueTypes, Registered, SubIds

\* A claim changes pc from anything to "loop" only.
LEMMA ClaimTypes ==
    ASSUME DrainTypes, NEW t \in Threads, UNCHANGED cur,
           ClaimDrainer(t) \/ UNCHANGED <<dispatching, pc>>, dispatching \in BOOLEAN
    PROVE  /\ pc' \in [Threads -> PcLabels] /\ dispatching' \in BOOLEAN
           /\ \A u \in Threads : pc'[u] = "deliver" => cur'[u] # 0
BY DEF DrainTypes, ClaimDrainer, PcLabels

\* Every step keeps the types of the queue and of the drainer.
LEMMA TypesStep ==
    ASSUME StreamInv, StreamInv', QueueTypes, DrainTypes, [Next]_vars
    PROVE  QueueTypes' /\ DrainTypes'
<1>1. CASE UNCHANGED vars
  BY <1>1 DEF vars, QueueTypes, DrainTypes
<1>2. ASSUME NEW t \in Threads, NEW turn \in TurnIds, NEW kind \in Kinds, Emit(t, turn, kind)
      PROVE  QueueTypes' /\ DrainTypes'
  <2>1. [seq |-> sequence + 1, recs |-> Registered] \in Deliveries
    BY <1>2, RegisteredTypes DEF Emit, StreamInv, sequence, Deliveries
  <2>2. delivery' \in Seq(Deliveries)
    <3>1. delivery' = delivery
          \/ delivery' = Append(delivery, [seq |-> sequence + 1, recs |-> Registered])
      BY <1>2, Zenon DEF Emit
    <3> QED BY <2>1, <3>1, SMTT(40) DEF QueueTypes
  <2>3. ClaimDrainer(t) \/ UNCHANGED <<dispatching, pc>>
    BY <1>2 DEF Emit
  <2> QED BY <1>2, <2>2, <2>3, ClaimTypes DEF Emit, QueueTypes, DrainTypes
<1>3. ASSUME NEW t \in Threads, NEW cursor \in 0 .. MaxSeq, Subscribe(t, cursor)
      PROVE  QueueTypes' /\ DrainTypes'
  <2>1. subs' \in Seq(SubRecords) /\ Len(subs') <= MaxSubs
    BY <1>3, RegisterTypes, <<>> \in Seq(1 .. MaxSeq) DEF Subscribe
  <2> QED BY <1>3, <2>1 DEF Subscribe, drainVars, QueueTypes, DrainTypes
<1>4. ASSUME NEW t \in Threads, NEW cursor \in 0 .. MaxSeq, NEW onClose \in BOOLEAN,
             SubscribeFrom(t, cursor, onClose)
      PROVE  QueueTypes' /\ DrainTypes'
  <2>1. subs' \in Seq(SubRecords) /\ Len(subs') <= MaxSubs
    BY <1>4, RegisterTypes, <<>> \in Seq(1 .. MaxSeq) DEF SubscribeFrom
  <2> QED BY <1>4, <2>1 DEF SubscribeFrom, drainVars, QueueTypes, DrainTypes
<1>5. ASSUME NEW t \in Threads, NEW cursor \in 0 .. MaxSeq, ForwardTo(t, cursor)
      PROVE  QueueTypes' /\ DrainTypes'
  <2>1. PICK replay \in Listings(Window(cursor).events) :
            /\ Register(Record(cursor, FALSE, FALSE, replay))
            /\ delivery' = delivery \o Addressed(replay, Len(subs) + 1)
            /\ ClaimDrainer(t) \/ UNCHANGED <<dispatching, pc>>
            /\ UNCHANGED <<closed, closeNotified, pendingClose>>
            /\ UNCHANGED <<cur, left, exits, delivered, fired>>
    BY <1>5, Zenon DEF ForwardTo
  <2>2. replay \in Seq(1 .. MaxSeq)
    <3>1. /\ Window(cursor).events \in SUBSET retained
          /\ Window(cursor).events \in SUBSET (1 .. MaxSeq)
      BY WindowTypes
    <3>2. Cardinality(Window(cursor).events) \in Nat
      BY <3>1, WindowIsFinite, FS_Subset, FS_CardinalityType
    <3> QED BY <3>1, <3>2 DEF Listings
  <2>3. subs' \in Seq(SubRecords) /\ Len(subs') <= MaxSubs /\ Len(subs) + 1 \in SubIds
    BY <2>1, <2>2, RegisterTypes
  <2>4. Addressed(replay, Len(subs) + 1) \in Seq(Deliveries)
    <3>1. \A k \in DOMAIN replay :
             [seq |-> replay[k], recs |-> {Len(subs) + 1}] \in Deliveries
      BY <2>2, <2>3 DEF Deliveries
    <3>2. DOMAIN replay = 1 .. Len(replay) /\ Len(replay) \in Nat
      BY <2>2
    <3> QED BY <3>1, <3>2 DEF Addressed
  <2> QED BY <2>1, <2>3, <2>4, ClaimTypes, SMTT(40) DEF QueueTypes, DrainTypes
<1>6. ASSUME NEW t \in Threads, NEW i \in SubIds, CloseSubscription(t, i)
      PROVE  QueueTypes' /\ DrainTypes'
  <2>1. subs' \in Seq(SubRecords) /\ Len(subs') = Len(subs)
    <3>1. i \in DOMAIN subs /\ subs' = [subs EXCEPT ![i].open = FALSE, ![i].upto = sequence]
      BY <1>6 DEF CloseSubscription, Registered
    <3>2. subs \in Seq(SubRecords)
      BY DEF QueueTypes
    <3>3. i \in 1 .. Len(subs)
      BY <3>1, <3>2, LenProperties
    <3> DEFINE rec == [subs[i] EXCEPT !.open = FALSE, !.upto = sequence]
    <3>4. rec \in SubRecords
      BY <3>2, <3>3, ElementOfSeq, ClosedRecordType
    <3>5. subs' = [subs EXCEPT ![i] = rec]
      BY <3>1, <3>2
    <3> HIDE DEF rec
    <3> QED BY <3>2, <3>3, <3>4, <3>5, ExceptSeq
  <2> QED BY <1>6, <2>1 DEF CloseSubscription, drainVars, QueueTypes, DrainTypes
<1>7. ASSUME NEW t \in Threads, Close(t)
      PROVE  QueueTypes' /\ DrainTypes'
  <2>1. subs' \in Seq(SubRecords) /\ Len(subs') = Len(subs)
    <3>1. /\ subs \in Seq(SubRecords)
          /\ Len(subs) \in Nat /\ DOMAIN subs = 1 .. Len(subs)
      BY LenProperties DEF QueueTypes
    <3>2. ASSUME NEW i \in 1 .. Len(subs)
          PROVE  /\ subs[i] \in SubRecords
                 /\ [subs[i] EXCEPT !.open = FALSE, !.upto = sequence] \in SubRecords
      BY <3>1, ElementOfSeq, ClosedRecordType
    <3>3. subs' = [i \in DOMAIN subs |->
                     IF subs[i].open
                     THEN [subs[i] EXCEPT !.open = FALSE, !.upto = sequence]
                     ELSE subs[i]]
      BY <1>7 DEF Close
    <3>4. subs' \in [1 .. Len(subs) -> SubRecords]
      BY <3>1, <3>2, <3>3, Zenon
    <3> QED BY <3>1, <3>4
  <2> QED BY <1>7, <2>1, ClaimTypes, RegisteredTypes DEF Close, QueueTypes, DrainTypes
<1>8. ASSUME NEW t \in Threads, TakeDelivery(t)
      PROVE  QueueTypes' /\ DrainTypes'
  <2>1. Head(delivery) \in Deliveries /\ Tail(delivery) \in Seq(Deliveries)
    BY <1>8 DEF TakeDelivery, QueueTypes
  <2> QED BY <1>8, <2>1 DEF TakeDelivery, QueueTypes, DrainTypes, Deliveries, PcLabels
<1>9. ASSUME NEW t \in Threads, TakeClose(t)
      PROVE  QueueTypes' /\ DrainTypes'
  BY <1>9 DEF TakeClose, QueueTypes, DrainTypes, PcLabels
<1>10. ASSUME NEW t \in Threads, StopDraining(t)
       PROVE  QueueTypes' /\ DrainTypes'
  BY <1>10 DEF StopDraining, QueueTypes, DrainTypes, PcLabels
<1>11. ASSUME NEW t \in Threads, Called(t), DrainTypes
       PROVE  delivered' \in [SubIds -> Seq(1 .. MaxSeq)]
  <2>1. Min(left[t]) \in SubIds /\ cur[t] \in 1 .. MaxSeq
    <3>1. left[t] \subseteq SubIds /\ left[t] # {} /\ left[t] \subseteq Nat
      BY <1>11 DEF Called, DrainTypes, SubIds
    <3>2. cur[t] \in 1 .. MaxSeq
      BY <1>11 DEF Called, DrainTypes
    <3> QED BY <3>1, <3>2, MinIsElement
  <2> QED BY <1>11, <2>1 DEF Called, DrainTypes
<1>12. ASSUME NEW t \in Threads, CallbackReturns(t)
       PROVE  QueueTypes' /\ DrainTypes'
  <2>1. delivered' \in [SubIds -> Seq(1 .. MaxSeq)]
    BY <1>11, <1>12 DEF CallbackReturns
  <2> QED BY <1>12, <2>1 DEF CallbackReturns, queueVars, QueueTypes, DrainTypes, PcLabels
<1>13. ASSUME NEW t \in Threads, CallbackExits(t)
       PROVE  QueueTypes' /\ DrainTypes'
  <2>1. delivered' \in [SubIds -> Seq(1 .. MaxSeq)]
    BY <1>11, <1>13 DEF CallbackExits
  <2> QED BY <1>13, <2>1 DEF CallbackExits, queueVars, QueueTypes, DrainTypes, PcLabels
<1>14. ASSUME NEW t \in Threads, Escape(t)
       PROVE  QueueTypes' /\ DrainTypes'
  BY <1>14 DEF Escape, QueueTypes, DrainTypes, PcLabels
<1>15. ASSUME NEW t \in Threads, NotifyClosed(t)
       PROVE  QueueTypes' /\ DrainTypes'
  <2>1. fired' \in [SubIds -> Nat]
    <3>1. fired' = fired \/ \E m : fired' = [fired EXCEPT ![m] = @ + 1]
      BY <1>15, Zenon DEF NotifyClosed
    <3> QED BY <3>1 DEF DrainTypes
  <2>2. /\ left' \in [Threads -> SUBSET SubIds]
        /\ exits' \in 0 .. MaxExits
    <3>1. \/ left' = left
          \/ left' = [left EXCEPT ![t] = left[t] \ {Min(left[t])}]
          \/ left' = [left EXCEPT ![t] = {}]
      BY <1>15 DEF NotifyClosed
    <3>2. exits' = exits \/ (exits < MaxExits /\ exits' = exits + 1)
      BY <1>15, Zenon DEF NotifyClosed
    <3>3. left \in [Threads -> SUBSET SubIds] /\ exits \in 0 .. MaxExits
      BY DEF DrainTypes
    <3>4. left' \in [Threads -> SUBSET SubIds]
      BY <3>1, <3>3
    <3> QED BY <3>2, <3>3, <3>4
  <2>3. /\ pc' \in [Threads -> PcLabels]
        /\ \A u \in Threads : pc'[u] = "deliver" => pc[u] = "deliver"
    <3>1. pc' = pc \/ \E l \in {"idle", "escape"} : pc' = [pc EXCEPT ![t] = l]
      BY <1>15, Zenon DEF NotifyClosed
    <3> QED BY <3>1 DEF DrainTypes, PcLabels
  <2> QED BY <1>15, <2>1, <2>2, <2>3 DEF NotifyClosed, queueVars, QueueTypes, DrainTypes
<1> QED
  BY <1>1, <1>2, <1>3, <1>4, <1>5, <1>6, <1>7, <1>8, <1>9, <1>10, <1>12, <1>13,
     <1>14, <1>15, Zenon DEF Next, Dispatch

\* The types of the queue and of the drainer hold initially.
LEMMA TypesInit == Init => QueueTypes /\ DrainTypes
<1> SUFFICES ASSUME Init PROVE QueueTypes /\ DrainTypes
  OBVIOUS
<1>1. QueueTypes
  <2>1. subs = <<>> /\ delivery = <<>> /\ pendingClose = {}
        /\ closed = FALSE /\ dispatching = FALSE /\ closeNotified = FALSE
    BY DEF Init
  <2>2. subs \in Seq(SubRecords) /\ Len(subs) <= MaxSubs /\ delivery \in Seq(Deliveries)
    BY <2>1, EmptySeq
  <2> QED BY <2>1, <2>2 DEF QueueTypes
<1>2. delivered \in [SubIds -> Seq(1 .. MaxSeq)] /\ fired \in [SubIds -> Nat]
  BY DEF Init
<1>3. DrainTypes
  BY <1>2 DEF Init, DrainTypes, PcLabels
<1> QED BY <1>1, <1>3

\* Every field keeps its type.
THEOREM TypeCorrect == Spec => []TypeOK
<1>1. StreamInv /\ QueueTypes /\ DrainTypes => TypeOK
  <2> SUFFICES ASSUME StreamInv, QueueTypes, DrainTypes PROVE TypeOK
    OBVIOUS
  <2>1. latestTurn \in TurnIds \cup {NoTurn}
    <3>1. CASE sequence = 0
      BY <3>1 DEF StreamInv
    <3>2. CASE sequence # 0
      <4>1. log \in Seq(Envelopes) /\ sequence \in 1 .. Len(log)
        BY <3>2 DEF StreamInv, sequence
      <4>2. log[sequence] \in Envelopes
        BY <4>1, ElementOfSeq
      <4>3. log[sequence].turn \in TurnIds
        BY <4>2 DEF Envelopes
      <4> QED BY <3>2, <4>3 DEF StreamInv
    <3> QED BY <3>1, <3>2
  <2> QED BY <2>1 DEF StreamInv, QueueTypes, DrainTypes, TypeOK
<1>2. StreamInv /\ StreamInv' /\ QueueTypes /\ DrainTypes /\ [Next]_vars
        => QueueTypes' /\ DrainTypes'
  BY TypesStep
<1> QED BY <1>1, <1>2, TypesInit, StreamInvariant, PTL DEF Spec
-----------------------------------------------------------------------------
(* The handoff of the drainer.                                             *)

Draining == \E t \in Threads : pc[t] \in {"loop", "deliver"}

\* The strengthening of QueueNeverStranded: as long as no observer has exited, the
\* flag of an open broker, and a queue that is not empty, have their drainer.
HandoffInv ==
    /\ pc \in [Threads -> PcLabels] /\ exits \in Nat
    /\ exits = 0 =>
          /\ \A t \in Threads : pc[t] # "escape"
          /\ dispatching => Draining
          /\ delivery # <<>> => dispatching

\* A claim leaves a drainer.
LEMMA ClaimDrains ==
    ASSUME HandoffInv, NEW t \in Threads, CanCall(t), ClaimDrainer(t), exits = 0
    PROVE  /\ pc' \in [Threads -> PcLabels] /\ \A u \in Threads : pc'[u] # "escape"
           /\ dispatching' /\ Draining'
BY DEF HandoffInv, ClaimDrainer, Draining, PcLabels

\* Every step hands the queue on.
LEMMA HandoffStep ==
    ASSUME HandoffInv, delivery \in Seq(Deliveries), [Next]_vars
    PROVE  HandoffInv'
<1>1. CASE UNCHANGED <<pc, dispatching, delivery, exits>>
  BY <1>1 DEF HandoffInv, Draining
<1>2. ASSUME NEW t \in Threads, CanCall(t), ClaimDrainer(t), UNCHANGED exits
      PROVE  HandoffInv'
  <2>1. CASE exits = 0
    BY <1>2, <2>1, ClaimDrains DEF HandoffInv
  <2>2. CASE exits # 0
    BY <1>2, <2>2 DEF HandoffInv, ClaimDrainer, PcLabels
  <2> QED BY <2>1, <2>2
<1>3. ASSUME NEW t \in Threads, NEW turn \in TurnIds, NEW kind \in Kinds, Emit(t, turn, kind)
      PROVE  HandoffInv'
  BY <1>1, <1>2, <1>3 DEF Emit
<1>4. ASSUME NEW t \in Threads, NEW cursor, Subscribe(t, cursor)
      PROVE  HandoffInv'
  BY <1>1, <1>4 DEF Subscribe, drainVars
<1>5. ASSUME NEW t \in Threads, NEW cursor, NEW onClose, SubscribeFrom(t, cursor, onClose)
      PROVE  HandoffInv'
  BY <1>1, <1>5 DEF SubscribeFrom, drainVars
<1>6. ASSUME NEW t \in Threads, NEW cursor, ForwardTo(t, cursor)
      PROVE  HandoffInv'
  <2>1. PICK replay \in Listings(Window(cursor).events) :
            /\ CanCall(t) /\ UNCHANGED exits
            /\ delivery' = delivery \o Addressed(replay, Len(subs) + 1)
            /\ IF replay = <<>> THEN UNCHANGED <<dispatching, pc>> ELSE ClaimDrainer(t)
    BY <1>6, Zenon DEF ForwardTo
  <2>2. CASE replay = <<>>
    <3>1. Addressed(replay, Len(subs) + 1) = <<>>
      BY <2>2 DEF Addressed
    <3> QED BY <1>1, <1>6, <2>1, <2>2, <3>1
  <2>3. CASE replay # <<>>
    BY <1>2, <2>1, <2>3
  <2> QED BY <2>2, <2>3
<1>7. ASSUME NEW t \in Threads, NEW i, CloseSubscription(t, i)
      PROVE  HandoffInv'
  BY <1>1, <1>7 DEF CloseSubscription, drainVars
<1>8. ASSUME NEW t \in Threads, Close(t)
      PROVE  HandoffInv'
  BY <1>2, <1>8 DEF Close
<1>9. ASSUME NEW t \in Threads, TakeDelivery(t)
      PROVE  HandoffInv'
  BY <1>9 DEF TakeDelivery, HandoffInv, Draining, PcLabels
<1>10. ASSUME NEW t \in Threads, TakeClose(t) \/ StopDraining(t)
       PROVE  HandoffInv'
  BY <1>10 DEF TakeClose, StopDraining, HandoffInv, Draining, PcLabels
<1>11. ASSUME NEW t \in Threads, CallbackReturns(t)
       PROVE  HandoffInv'
  BY <1>11 DEF CallbackReturns, Called, queueVars, HandoffInv, Draining, PcLabels
<1>12. ASSUME NEW t \in Threads, CallbackExits(t)
       PROVE  HandoffInv'
  BY <1>12 DEF CallbackExits, Called, queueVars, HandoffInv, PcLabels
<1>13. ASSUME NEW t \in Threads, Escape(t)
       PROVE  HandoffInv'
  BY <1>13 DEF Escape, HandoffInv, PcLabels
<1>14. ASSUME NEW t \in Threads, NotifyClosed(t)
       PROVE  HandoffInv'
  <2>1. pc[t] = "notify" /\ UNCHANGED <<dispatching, delivery>>
    BY <1>14 DEF NotifyClosed, queueVars
  <2>2. \/ exits' = exits /\ (pc' = pc \/ pc' = [pc EXCEPT ![t] = "idle"])
        \/ exits' = exits + 1 /\ pc' = [pc EXCEPT ![t] = "escape"]
    BY <1>14, Zenon DEF NotifyClosed
  <2> QED BY <2>1, <2>2 DEF HandoffInv, Draining, PcLabels
<1>15. CASE UNCHANGED vars
  BY <1>1, <1>15 DEF vars
<1> QED
  BY <1>3, <1>4, <1>5, <1>6, <1>7, <1>8, <1>9, <1>10, <1>11, <1>12, <1>13,
     <1>14, <1>15, Zenon DEF Next, Dispatch

\* Accepted deliveries have a drainer until an observer exits: the claim and the
\* release of _dispatching in emit, forward_to, close and _dispatch lose no wake-up.
THEOREM QueueIsNeverStranded == Spec => []QueueNeverStranded
<1>1. Init => HandoffInv
  BY DEF Init, HandoffInv, PcLabels
<1>2. HandoffInv => QueueNeverStranded
  BY DEF HandoffInv, Draining, QueueNeverStranded
<1>3. TypeOK => delivery \in Seq(Deliveries)
  BY DEF TypeOK
<1>4. HandoffInv /\ TypeOK /\ [Next]_vars => HandoffInv'
  BY <1>3, HandoffStep
<1> QED BY <1>1, <1>2, <1>4, TypeCorrect, PTL DEF Spec
-----------------------------------------------------------------------------
(* The subscriptions.                                                      *)

\* What a subscription is made with does not change.
SubsGrow ==
    \/ subs' = subs
    \/ \E cursor \in 0 .. MaxSeq, checked \in BOOLEAN, onClose \in BOOLEAN,
          queued \in Seq(1 .. MaxSeq) :
          /\ subs' = Append(subs, Record(cursor, checked, onClose, queued))
          /\ checked => cursor <= sequence /\ ~Window(cursor).gap
    \/ /\ DOMAIN subs' = DOMAIN subs
       /\ \A i \in DOMAIN subs : /\ subs'[i].checked = subs[i].checked
                                 /\ subs'[i].cursor = subs[i].cursor
                                 /\ subs'[i].replay = subs[i].replay
                                 /\ subs'[i].from = subs[i].from

\* What forward_to queues is a sequence.
LEMMA ReplayTypes ==
    ASSUME StreamInv, NEW cursor \in 0 .. MaxSeq, NEW replay \in Listings(Window(cursor).events)
    PROVE  replay \in Seq(1 .. MaxSeq)
<1>1. /\ Window(cursor).events \in SUBSET retained
      /\ Window(cursor).events \in SUBSET (1 .. MaxSeq)
  BY WindowTypes
<1>2. Cardinality(Window(cursor).events) \in Nat
  BY <1>1, WindowIsFinite, FS_Subset, FS_CardinalityType
<1> QED BY <1>1, <1>2 DEF Listings

\* No step changes what a subscription was made with.
LEMMA SubsOnlyGrow ==
    ASSUME StreamInv, QueueTypes, Next
    PROVE  SubsGrow
<1>0. subs \in Seq(SubRecords) /\ \A i \in DOMAIN subs : subs[i] \in SubRecords
  BY ElementOfSeq, LenProperties DEF QueueTypes
<1>1. PICK t \in Threads :
        \/ \E turn \in TurnIds, kind \in Kinds : Emit(t, turn, kind)
        \/ \E cursor \in 0 .. MaxSeq : Subscribe(t, cursor)
        \/ \E cursor \in 0 .. MaxSeq, onClose \in BOOLEAN : SubscribeFrom(t, cursor, onClose)
        \/ \E cursor \in 0 .. MaxSeq : ForwardTo(t, cursor)
        \/ \E i \in SubIds : CloseSubscription(t, i)
        \/ Close(t)
        \/ Dispatch(t)
  BY DEF Next
<1>2. ASSUME NEW turn \in TurnIds, NEW kind \in Kinds, Emit(t, turn, kind) PROVE SubsGrow
  BY <1>2, Zenon DEF Emit, SubsGrow
<1>3. ASSUME NEW cursor \in 0 .. MaxSeq, Subscribe(t, cursor) PROVE SubsGrow
  <2>1. subs' = Append(subs, Record(cursor, FALSE, FALSE, <<>>)) /\ <<>> \in Seq(1 .. MaxSeq)
    BY <1>3 DEF Subscribe, Register
  <2> QED BY <2>1, Zenon DEF SubsGrow
<1>4. ASSUME NEW cursor \in 0 .. MaxSeq, NEW onClose \in BOOLEAN,
             SubscribeFrom(t, cursor, onClose)
      PROVE  SubsGrow
  <2>1. subs' = Append(subs, Record(cursor, TRUE, onClose, <<>>)) /\ <<>> \in Seq(1 .. MaxSeq)
    BY <1>4 DEF SubscribeFrom, Register
  <2>2. cursor <= sequence /\ ~Window(cursor).gap
    BY <1>4 DEF SubscribeFrom, StreamInv, sequence
  <2> QED BY <2>1, <2>2, Zenon DEF SubsGrow
<1>5. ASSUME NEW cursor \in 0 .. MaxSeq, ForwardTo(t, cursor) PROVE SubsGrow
  <2>1. PICK replay \in Listings(Window(cursor).events) :
            Register(Record(cursor, FALSE, FALSE, replay))
    BY <1>5, Zenon DEF ForwardTo
  <2>2. replay \in Seq(1 .. MaxSeq)
    BY ReplayTypes
  <2> QED BY <2>1, <2>2, Zenon DEF SubsGrow, Register
<1>6. ASSUME NEW i \in SubIds, CloseSubscription(t, i) PROVE SubsGrow
  <2>1. i \in DOMAIN subs /\ subs' = [subs EXCEPT ![i].open = FALSE, ![i].upto = sequence]
    BY <1>6 DEF CloseSubscription, Registered
  <2>2. DOMAIN subs' = DOMAIN subs
    BY <2>1
  <2>3. \A j \in DOMAIN subs :
          subs'[j] = IF j = i THEN [subs[j] EXCEPT !.open = FALSE, !.upto = sequence] ELSE subs[j]
    BY <2>1
  <2> QED BY <1>0, <2>2, <2>3 DEF SubsGrow, SubRecords
<1>7. ASSUME Close(t) PROVE SubsGrow
  <2>1. subs' = [i \in DOMAIN subs |->
                   IF subs[i].open
                   THEN [subs[i] EXCEPT !.open = FALSE, !.upto = sequence]
                   ELSE subs[i]]
    BY <1>7 DEF Close
  <2> QED BY <1>0, <2>1 DEF SubsGrow, SubRecords
<1>8. ASSUME Dispatch(t) PROVE SubsGrow
  BY <1>8, Zenon DEF Dispatch, TakeDelivery, TakeClose, StopDraining, CallbackReturns,
                     CallbackExits, Escape, NotifyClosed, queueVars, SubsGrow
<1> QED BY <1>1, <1>2, <1>3, <1>4, <1>5, <1>6, <1>7, <1>8

\* The replay of subscribe_from is contiguous with what comes live, although the
\* window drops previews from its middle: the gap check is exact for that.
THEOREM ResumesAreContiguous == Spec => []ResumeContiguous
<1>1. Init => ResumeContiguous
  BY DEF Init, ResumeContiguous
<1>2. ASSUME StreamInv, QueueTypes, ResumeContiguous, Next PROVE ResumeContiguous'
  <2>1. CASE subs' = subs
    BY <1>2, <2>1 DEF ResumeContiguous
  <2>2. ASSUME NEW cursor \in 0 .. MaxSeq, NEW checked \in BOOLEAN, NEW onClose \in BOOLEAN,
               NEW queued \in Seq(1 .. MaxSeq),
               subs' = Append(subs, Record(cursor, checked, onClose, queued)),
               checked => cursor <= sequence /\ ~Window(cursor).gap
        PROVE  ResumeContiguous'
    <3> DEFINE rec == Record(cursor, checked, onClose, queued)
    <3>1. rec.checked = checked /\ rec.cursor = cursor /\ rec.from = sequence
          /\ rec.replay = {s \in retained : s > cursor}
      BY DEF Record, Window
    <3>2. checked => rec.replay = cursor + 1 .. sequence
      <4>1. sequence \in Nat /\ droppedThrough \in Nat /\ retained \subseteq 1 .. sequence
        BY <1>2 DEF StreamInv, sequence
      <4>2. checked => ~(cursor < droppedThrough)
        BY <2>2 DEF Window
      <4>3. ASSUME checked, NEW s \in 1 .. sequence, s > cursor PROVE s \in retained
        BY <1>2, <4>1, <4>2, <4>3 DEF StreamInv
      <4>4. checked => {s \in retained : s > cursor} = cursor + 1 .. sequence
        <5>1. ASSUME checked, NEW s \in retained, s > cursor PROVE s \in cursor + 1 .. sequence
          BY <4>1, <5>1
        <5>2. ASSUME checked, NEW s \in cursor + 1 .. sequence
              PROVE  s \in retained /\ s > cursor
          <6>1. s \in 1 .. sequence /\ s > cursor
            BY <4>1
          <6> QED BY <4>3, <5>2, <6>1
        <5> QED BY <5>1, <5>2
      <4> HIDE DEF rec
      <4> QED BY <3>1, <4>4
    <3> HIDE DEF rec
    <3>3. /\ \A i \in DOMAIN subs : subs'[i] = subs[i]
          /\ \A i \in DOMAIN subs' : i \in DOMAIN subs \/ subs'[i] = rec
      <4>1. subs \in Seq(SubRecords) /\ Len(subs) \in Nat /\ DOMAIN subs = 1 .. Len(subs)
        BY <1>2, LenProperties DEF QueueTypes
      <4>2. subs' = Append(subs, rec)
        BY <2>2 DEF rec
      <4> QED BY <4>1, <4>2
    <3> QED BY <1>2, <3>1, <3>2, <3>3 DEF ResumeContiguous
  <2>3. CASE /\ DOMAIN subs' = DOMAIN subs
             /\ \A i \in DOMAIN subs : /\ subs'[i].checked = subs[i].checked
                                       /\ subs'[i].cursor = subs[i].cursor
                                       /\ subs'[i].replay = subs[i].replay
                                       /\ subs'[i].from = subs[i].from
    BY <1>2, <2>3 DEF ResumeContiguous
  <2>4. SubsGrow
    BY <1>2, SubsOnlyGrow
  <2> QED BY <2>1, <2>2, <2>3, <2>4 DEF SubsGrow
<1>3. ResumeContiguous /\ UNCHANGED vars => ResumeContiguous'
  BY DEF ResumeContiguous, vars
<1>4. TypeOK => QueueTypes
  BY DEF TypeOK, QueueTypes
<1>5. StreamInv /\ TypeOK /\ ResumeContiguous /\ [Next]_vars => ResumeContiguous'
  BY <1>2, <1>3, <1>4
<1> QED BY <1>1, <1>5, StreamInvariant, TypeCorrect, PTL DEF Spec
-----------------------------------------------------------------------------
(* Delivery, in the order of the stream and without loss.                  *)

\* The strengthening of the order: a record has accepted numbers of the stream
\* only, and one that is not made yet none.
OrderInv ==
    \A i \in SubIds :
        /\ InOrder(i)
        /\ Accepted(i) \subseteq 1 .. sequence
        /\ i > Len(subs) => Accepted(i) = {}

\* At most one thread hands an event to a record.
LEMMA FlightOf ==
    ASSUME DrainInv, NEW t \in Threads, pc[t] # "idle", NEW i
    PROVE  InFlight(i) = IF pc[t] = "deliver" /\ i \in left[t] THEN {cur[t]} ELSE {}
BY DEF DrainInv, InFlight

\* A record that nothing reaches keeps its order and what it has accepted.
LEMMA QuietStays ==
    ASSUME NEW i, InOrder(i), UNCHANGED <<delivery, delivered>>, InFlight(i)' = InFlight(i)
    PROVE  InOrder(i)' /\ Accepted(i)' = Accepted(i)
<1>1. Pending(i)' = Pending(i) /\ Queued(i)' = Queued(i)
  BY DEF Pending, Queued
<1> QED BY <1>1 DEF InOrder, Accepted

\* Envelopes that join the queue behind everything that a record has accepted.
LEMMA JoinQueue ==
    ASSUME NEW i, InOrder(i), delivery \in Seq(Deliveries), NEW new \in Seq(Deliveries),
           Accepted(i) \subseteq Nat,
           delivery' = delivery \o new, UNCHANGED delivered, InFlight(i)' = InFlight(i),
           \A j \in DOMAIN new : i \in new[j].recs => \A s \in Accepted(i) : s < new[j].seq,
           \A j, k \in DOMAIN new :
              i \in new[j].recs /\ i \in new[k].recs /\ j < k => new[j].seq < new[k].seq
    PROVE  /\ InOrder(i)'
           /\ Accepted(i)' = Accepted(i) \cup
                 {new[j].seq : j \in {k \in DOMAIN new : i \in new[k].recs}}
<1> DEFINE n == Len(delivery)
           joined == {new[j].seq : j \in {k \in DOMAIN new : i \in new[k].recs}}
<1>1. /\ n \in Nat /\ DOMAIN delivery = 1 .. n
      /\ Len(new) \in Nat /\ DOMAIN new = 1 .. Len(new)
      /\ DOMAIN delivery' = 1 .. n + Len(new)
      /\ \A k \in 1 .. n : delivery'[k] = delivery[k]
      /\ \A k \in 1 .. Len(new) : delivery'[n + k] = new[k]
  BY ConcatProperties, LenProperties
<1>2. \A k \in DOMAIN delivery' :
        \/ k \in 1 .. n
        \/ k - n \in 1 .. Len(new) /\ delivery'[k] = new[k - n]
  <2> TAKE k \in DOMAIN delivery'
  <2>1. k \in 1 .. n \/ k - n \in 1 .. Len(new)
    BY <1>1
  <2>2. k - n \in 1 .. Len(new) => delivery'[n + (k - n)] = new[k - n] /\ n + (k - n) = k
    BY <1>1
  <2> QED BY <2>1, <2>2
<1> HIDE DEF n
<1>3. Pending(i)' = Pending(i) \cup joined
  <2>1. ASSUME NEW k \in DOMAIN delivery', i \in delivery'[k].recs
        PROVE  delivery'[k].seq \in Pending(i) \cup joined
    BY <1>1, <1>2, <2>1 DEF Pending, Queued
  <2>2. ASSUME NEW k \in DOMAIN delivery, i \in delivery[k].recs
        PROVE  delivery[k].seq \in Pending(i)'
    <3>1. k \in DOMAIN delivery' /\ delivery'[k] = delivery[k]
      BY <1>1
    <3> QED BY <2>2, <3>1 DEF Pending, Queued
  <2>3. ASSUME NEW k \in DOMAIN new, i \in new[k].recs
        PROVE  new[k].seq \in Pending(i)'
    <3>1. n + k \in DOMAIN delivery' /\ delivery'[n + k] = new[k]
      BY <1>1
    <3> QED BY <2>3, <3>1 DEF Pending, Queued
  <2>4. joined \subseteq Pending(i)'
    BY <2>3
  <2> HIDE DEF joined
  <2>5. Pending(i)' \subseteq Pending(i) \cup joined
    <3> SUFFICES ASSUME NEW x \in Pending(i)' PROVE x \in Pending(i) \cup joined
      OBVIOUS
    <3>1. PICK k \in DOMAIN delivery' : i \in delivery'[k].recs /\ x = delivery'[k].seq
      BY DEF Pending, Queued
    <3> QED BY <2>1, <3>1
  <2>6. Pending(i) \subseteq Pending(i)'
    <3> SUFFICES ASSUME NEW x \in Pending(i) PROVE x \in Pending(i)'
      OBVIOUS
    <3>1. PICK k \in DOMAIN delivery : i \in delivery[k].recs /\ x = delivery[k].seq
      BY DEF Pending, Queued
    <3> QED BY <2>2, <3>1
  <2> QED BY <2>4, <2>5, <2>6
<1>4. Accepted(i)' = Accepted(i) \cup joined
  BY <1>3 DEF Accepted
<1>5. \A s \in Accepted(i), u \in joined : s < u
  OBVIOUS
<1>6. ASSUME NEW j \in Queued(i)', NEW k \in Queued(i)', j < k
      PROVE  delivery'[j].seq < delivery'[k].seq
  <2>1. /\ j \in DOMAIN delivery' /\ i \in delivery'[j].recs
        /\ k \in DOMAIN delivery' /\ i \in delivery'[k].recs
    BY DEF Queued
  <2>2. CASE j \in 1 .. n /\ k \in 1 .. n
    BY <1>1, <1>6, <2>1, <2>2 DEF InOrder, Queued
  <2>3. CASE j \in 1 .. n /\ k - n \in 1 .. Len(new)
    <3>1. delivery'[k] = new[k - n] /\ k - n \in DOMAIN new
      BY <1>1, <1>2, <2>1, <2>3
    <3>2. delivery'[j].seq \in Accepted(i)
      BY <1>1, <2>1, <2>3 DEF Accepted, Pending, Queued
    <3> QED BY <2>1, <3>1, <3>2
  <2>4. CASE j - n \in 1 .. Len(new) /\ k - n \in 1 .. Len(new)
    <3>1. /\ delivery'[j] = new[j - n] /\ j - n \in DOMAIN new
          /\ delivery'[k] = new[k - n] /\ k - n \in DOMAIN new
      BY <1>1, <1>2, <2>1, <2>4
    <3>2. j - n < k - n
      BY <1>1, <1>6, <2>1
    <3> QED BY <2>1, <3>1, <3>2
  <2>5. ~(j - n \in 1 .. Len(new) /\ k \in 1 .. n)
    BY <1>1, <1>6, <2>1
  <2> QED BY <1>2, <2>1, <2>2, <2>3, <2>4, <2>5
<1> HIDE DEF joined
<1>7. InOrder(i)'
  BY <1>3, <1>5, <1>6 DEF InOrder, Accepted
<1> QED BY <1>4, <1>7 DEF joined

\* The drainer takes the first envelope of the queue.
LEMMA TakeKeepsOrder ==
    ASSUME DrainInv, NEW t \in Threads, TakeDelivery(t), delivery \in Seq(Deliveries),
           left \in [Threads -> SUBSET SubIds], cur \in [Threads -> 0 .. MaxSeq],
           NEW i \in SubIds, InOrder(i)
    PROVE  InOrder(i)' /\ Accepted(i)' = Accepted(i)
<1> DEFINE h == Head(delivery)
<1>1. /\ delivery # <<>> /\ h = delivery[1] /\ 1 \in DOMAIN delivery
      /\ Len(delivery) \in Nat /\ DOMAIN delivery = 1 .. Len(delivery)
      /\ DOMAIN delivery' = 1 .. Len(delivery) - 1
      /\ \A k \in 1 .. Len(delivery) - 1 : delivery'[k] = delivery[k + 1]
  BY HeadTailProperties, LenProperties DEF TakeDelivery
<1>2. InFlight(i) = {}
  BY FlightOf DEF TakeDelivery
<1>3. InFlight(i)' = IF i \in h.recs THEN {h.seq} ELSE {}
  <2>1. pc' = [pc EXCEPT ![t] = "deliver"] /\ pc[t] = "loop"
        /\ cur'[t] = h.seq /\ left'[t] = h.recs
    BY DEF TakeDelivery
  <2>2. pc'[t] = "deliver" /\ \A u \in Threads : u # t => pc'[u] = "idle"
    BY <2>1 DEF DrainInv
  <2> QED BY <2>1, <2>2 DEF InFlight
<1> HIDE DEF h
<1>4. Queued(i)' = {k \in 1 .. Len(delivery) - 1 : k + 1 \in Queued(i)}
  BY <1>1 DEF Queued
<1>5. Pending(i) = Pending(i)' \cup IF i \in h.recs THEN {h.seq} ELSE {}
  <2>1. ASSUME NEW k \in Queued(i) PROVE delivery[k].seq \in Pending(i)' \/
                                         (i \in h.recs /\ delivery[k].seq = h.seq)
    <3>1. CASE k = 1
      BY <1>1, <2>1, <3>1 DEF Queued
    <3>2. CASE k # 1
      <4>1. k - 1 \in 1 .. Len(delivery) - 1 /\ (k - 1) + 1 = k
        BY <1>1, <3>2 DEF Queued
      <4>2. k - 1 \in Queued(i)' /\ delivery'[k - 1].seq = delivery[k].seq
        BY <1>1, <1>4, <2>1, <4>1
      <4> QED BY <4>2 DEF Pending
    <3> QED BY <3>1, <3>2
  <2>2. ASSUME NEW k \in Queued(i)' PROVE delivery'[k].seq \in Pending(i)
    BY <1>1, <1>4 DEF Pending
  <2>3. i \in h.recs => h.seq \in Pending(i)
    BY <1>1 DEF Pending, Queued
  <2> QED BY <2>1, <2>2, <2>3 DEF Pending
<1>6. i \in h.recs => \A u \in Pending(i)' : h.seq < u
  <2>1. ASSUME NEW k \in Queued(i)', i \in h.recs PROVE h.seq < delivery'[k].seq
    <3>1. k + 1 \in Queued(i) /\ 1 \in Queued(i) /\ 1 < k + 1
          /\ delivery'[k] = delivery[k + 1]
      BY <1>1, <1>4, <2>1 DEF Queued
    <3> QED BY <1>1, <3>1 DEF InOrder
  <2> QED BY <2>1 DEF Pending
<1>7. \A j, k \in Queued(i)' : j < k => delivery'[j].seq < delivery'[k].seq
  <2> SUFFICES ASSUME NEW j \in Queued(i)', NEW k \in Queued(i)', j < k
               PROVE  delivery'[j].seq < delivery'[k].seq
    OBVIOUS
  <2>1. j + 1 \in Queued(i) /\ k + 1 \in Queued(i) /\ j + 1 < k + 1
        /\ delivery'[j] = delivery[j + 1] /\ delivery'[k] = delivery[k + 1]
    BY <1>1, <1>4
  <2> QED BY <2>1 DEF InOrder
<1>8. UNCHANGED delivered
  BY DEF TakeDelivery
<1>9. Accepted(i)' = Accepted(i)
  BY <1>2, <1>3, <1>5, <1>8 DEF Accepted
<1>10. InOrder(i)'
  <2>1. \A s \in Range(delivered[i]), u \in Pending(i) : s < u
    BY DEF InOrder
  <2>2. Range(delivered'[i]) = Range(delivered[i]) /\ Increasing(delivered[i])'
    BY <1>8 DEF InOrder, Increasing
  <2>3. \A s \in Range(delivered'[i]), u \in InFlight(i)' \cup Pending(i)' : s < u
    BY <1>3, <1>5, <2>1, <2>2
  <2>4. \A s \in InFlight(i)', u \in Pending(i)' : s < u
    BY <1>3, <1>6
  <2> QED BY <1>7, <2>2, <2>3, <2>4 DEF InOrder
<1> QED BY <1>9, <1>10

\* An event joins what a record has received.
LEMMA Receives ==
    ASSUME NEW q \in Seq(Nat), NEW e \in Nat, Increasing(q), \A s \in Range(q) : s < e
    PROVE  Increasing(Append(q, e)) /\ Range(Append(q, e)) = Range(q) \cup {e}
<1> DEFINE r == Append(q, e)
           n == Len(q)
<1>1. /\ n \in Nat /\ DOMAIN q = 1 .. n /\ DOMAIN r = 1 .. n + 1
      /\ r[n + 1] = e /\ \A k \in 1 .. n : r[k] = q[k]
  BY AppendProperties, LenProperties
<1> HIDE DEF r, n
<1>2. Range(r) = Range(q) \cup {e}
  <2>1. ASSUME NEW k \in DOMAIN r PROVE r[k] \in Range(q) \cup {e}
    BY <1>1 DEF Range
  <2>2. ASSUME NEW k \in DOMAIN q PROVE q[k] \in Range(r)
    <3>1. k \in DOMAIN r /\ r[k] = q[k]
      BY <1>1
    <3> QED BY <3>1 DEF Range
  <2>3. e \in Range(r)
    <3>1. n + 1 \in DOMAIN r /\ r[n + 1] = e
      BY <1>1
    <3> QED BY <3>1 DEF Range
  <2> QED BY <2>1, <2>2, <2>3 DEF Range
<1>3. Increasing(r)
  <2> SUFFICES ASSUME NEW j \in DOMAIN r, NEW k \in DOMAIN r, j < k PROVE r[j] < r[k]
    BY DEF Increasing
  <2>1. j \in 1 .. n /\ r[j] = q[j] /\ q[j] \in Range(q)
    BY <1>1 DEF Range
  <2>2. CASE k \in 1 .. n
    BY <1>1, <2>1, <2>2 DEF Increasing
  <2>3. CASE k = n + 1
    BY <1>1, <2>1, <2>3
  <2> QED BY <1>1, <2>2, <2>3
<1> QED BY <1>2, <1>3 DEF r

\* The drainer calls the first record of its envelope.
LEMMA CallKeepsOrder ==
    ASSUME DrainInv, DrainTypes, NEW t \in Threads, CallbackReturns(t) \/ CallbackExits(t),
           NEW i \in SubIds, InOrder(i)
    PROVE  /\ InOrder(i)' /\ Accepted(i)' \subseteq Accepted(i)
           /\ CallbackReturns(t) => Accepted(i)' = Accepted(i)
<1> DEFINE m == Min(left[t])
<1>1. /\ pc[t] = "deliver" /\ left[t] # {} /\ left[t] \subseteq SubIds
      /\ delivered' = [delivered EXCEPT ![m] = Append(@, cur[t])]
      /\ UNCHANGED <<delivery, cur>>
  BY DEF CallbackReturns, CallbackExits, Called, DrainTypes, queueVars
<1>2. m \in left[t] /\ m \in SubIds
  <2>1. left[t] \subseteq Nat
    BY <1>1 DEF SubIds
  <2> QED BY <1>1, <2>1, MinIsElement
<1>3. InFlight(i) = IF i \in left[t] THEN {cur[t]} ELSE {}
  BY <1>1, FlightOf
<1>4. /\ left'[t] \subseteq left[t] \ {m}
      /\ CallbackReturns(t) => left'[t] = left[t] \ {m}
  BY <1>1 DEF CallbackReturns, CallbackExits, DrainTypes
<1>5. /\ \A u \in Threads : u # t => pc'[u] = "idle" /\ left'[u] = left[u]
      /\ CallbackReturns(t) => (pc'[t] = "deliver" \/ left'[t] = {})
  BY <1>1 DEF CallbackReturns, CallbackExits, DrainInv, DrainTypes
<1> HIDE DEF m
<1>6. InFlight(i)' = IF pc'[t] = "deliver" /\ i \in left'[t] THEN {cur[t]} ELSE {}
  BY <1>1, <1>5 DEF InFlight
<1>7. Pending(i)' = Pending(i) /\ Queued(i)' = Queued(i)
  BY <1>1 DEF Pending, Queued
<1>8. CASE i = m
  <2>1. delivered'[i] = Append(delivered[i], cur[t]) /\ delivered[i] \in Seq(Nat) /\ cur[t] \in Nat
    BY <1>1, <1>2, <1>8 DEF DrainTypes
  <2>2. InFlight(i) = {cur[t]} /\ InFlight(i)' = {}
    BY <1>2, <1>3, <1>4, <1>6, <1>8
  <2>3. Increasing(delivered'[i]) /\ Range(delivered'[i]) = Range(delivered[i]) \cup {cur[t]}
    BY <2>1, <2>2, Receives DEF InOrder
  <2>4. Accepted(i)' = Accepted(i)
    BY <1>7, <2>2, <2>3 DEF Accepted
  <2>5. InOrder(i)'
    BY <1>1, <1>7, <2>2, <2>3 DEF InOrder
  <2> QED BY <2>4, <2>5
<1>9. CASE i # m
  <2>1. delivered'[i] = delivered[i]
    BY <1>1, <1>9 DEF DrainTypes
  <2>2. InFlight(i)' \subseteq InFlight(i)
    BY <1>3, <1>4, <1>6
  <2>3. CallbackReturns(t) => InFlight(i)' = InFlight(i)
    BY <1>3, <1>4, <1>5, <1>6, <1>9
  <2>4. InOrder(i)'
    BY <1>1, <1>7, <2>1, <2>2 DEF InOrder
  <2> QED BY <1>7, <2>1, <2>2, <2>3, <2>4 DEF Accepted
<1> QED BY <1>8, <1>9

\* Nothing that a record is owed is missing, and nothing else is there.
Account(i) == Accepted(i) = Range(subs[i].queued) \cup (subs[i].from + 1 .. Upto(i))

AccountInv ==
    \A i \in DOMAIN subs :
        /\ subs[i].from <= sequence
        /\ exits = 0 => Account(i)

SubsTyped == subs \in Seq(SubRecords) /\ Len(subs) <= MaxSubs

\* The records are numbered from one.
LEMMA SubsAre ==
    ASSUME SubsTyped
    PROVE  /\ Len(subs) \in Nat /\ DOMAIN subs = 1 .. Len(subs) /\ DOMAIN subs \subseteq SubIds
           /\ \A i \in DOMAIN subs : /\ subs[i] \in SubRecords /\ i <= Len(subs)
                                     /\ subs[i].from \in Nat /\ subs[i].upto \in Nat
<1>1. Len(subs) \in Nat /\ DOMAIN subs = 1 .. Len(subs) /\ Len(subs) <= MaxSubs
  BY LenProperties DEF SubsTyped
<1>2. \A i \in DOMAIN subs : subs[i] \in SubRecords
  BY <1>1, ElementOfSeq DEF SubsTyped
<1>3. \A i \in DOMAIN subs : subs[i].from \in Nat /\ subs[i].upto \in Nat
  BY <1>2 DEF SubRecords
<1> QED BY <1>1, <1>2, <1>3 DEF SubIds

\* A step of the drainer.
LEMMA DrainAccounts ==
    ASSUME SubsTyped, OrderInv, AccountInv, UNCHANGED <<subs, log>>, exits \in Nat, exits' \in Nat,
           \A i \in SubIds : /\ InOrder(i)' /\ Accepted(i)' \subseteq Accepted(i)
                             /\ exits' = 0 => exits = 0 /\ Accepted(i)' = Accepted(i)
    PROVE  OrderInv' /\ AccountInv'
<1>1. OrderInv'
  <2>1. sequence' = sequence
    BY DEF sequence
  <2> QED BY <2>1 DEF OrderInv
<1>2. ASSUME NEW i \in DOMAIN subs', exits' = 0 PROVE Account(i)'
  <2>1. i \in SubIds /\ i \in DOMAIN subs
    BY SubsAre
  <2>2. Account(i) /\ Accepted(i)' = Accepted(i)
    BY <1>2, <2>1 DEF AccountInv
  <2> QED BY <2>2 DEF Account, Upto, sequence
<1> QED BY <1>1, <1>2 DEF AccountInv, sequence

\* A record is made.
LEMMA NewRecordAccounts ==
    ASSUME SubsTyped, SubsTyped', StreamInv, OrderInv, AccountInv, UNCHANGED <<log, exits>>,
           NEW cursor, NEW checked, NEW onClose, NEW queued,
           subs' = Append(subs, Record(cursor, checked, onClose, queued)),
           Range(queued) \subseteq 1 .. sequence,
           \A i \in SubIds : /\ InOrder(i)'
                             /\ i # Len(subs) + 1 => Accepted(i)' = Accepted(i)
                             /\ i = Len(subs) + 1 => Accepted(i)' = Range(queued)
    PROVE  OrderInv' /\ AccountInv'
<1> DEFINE rec == Record(cursor, checked, onClose, queued)
<1>1. /\ Len(subs) \in Nat /\ Len(subs') = Len(subs) + 1
      /\ DOMAIN subs = 1 .. Len(subs) /\ DOMAIN subs' = 1 .. Len(subs) + 1
      /\ subs'[Len(subs) + 1] = rec /\ \A i \in DOMAIN subs : subs'[i] = subs[i]
  BY AppendProperties, SubsAre DEF SubsTyped
<1>2. /\ rec.open /\ rec.queued = queued /\ rec.from = sequence
  BY DEF Record
<1> HIDE DEF rec
<1>3. sequence' = sequence /\ sequence \in Nat
  BY DEF sequence, StreamInv
<1>4. DOMAIN subs' \subseteq SubIds /\ SubIds \subseteq Nat
  <2>1. SubIds \subseteq Nat
    BY DEF SubIds
  <2>2. \A i \in DOMAIN subs' : i \in SubIds
    BY <1>1 DEF SubsTyped, SubIds
  <2> QED BY <2>1, <2>2
<1>5. OrderInv'
  <2> SUFFICES ASSUME NEW i \in SubIds
               PROVE  /\ Accepted(i)' \subseteq 1 .. sequence
                      /\ i > Len(subs) + 1 => Accepted(i)' = {}
    BY <1>1, <1>3 DEF OrderInv
  <2>1. Accepted(i) \subseteq 1 .. sequence /\ (i > Len(subs) => Accepted(i) = {})
    BY DEF OrderInv
  <2>2. i > Len(subs) + 1 => i > Len(subs) /\ i # Len(subs) + 1
    BY <1>1, <1>4
  <2> QED BY <2>1, <2>2
<1>6. ASSUME NEW i \in DOMAIN subs PROVE subs'[i].from <= sequence /\ (exits = 0 => Account(i)')
  <2>1. i # Len(subs) + 1 /\ subs'[i] = subs[i] /\ i \in SubIds
    BY <1>1, SubsAre
  <2>2. exits = 0 => Account(i)
    BY DEF AccountInv
  <2>3. exits = 0 => Account(i)'
    BY <1>3, <2>1, <2>2 DEF Account, Upto
  <2> QED BY <2>1, <2>3 DEF AccountInv
<1>7. PICK n \in Nat : n = Len(subs) + 1
  BY <1>1
<1>8. n \in SubIds /\ n \in DOMAIN subs' /\ subs'[n] = rec
  BY <1>1, <1>4, <1>7
<1>9. Account(n)'
  <2>1. Accepted(n)' = Range(queued)
    BY <1>7, <1>8
  <2>2. sequence + 1 .. sequence = {}
    BY <1>3
  <2>3. Upto(n)' = sequence
    BY <1>2, <1>3, <1>8 DEF Upto
  <2> QED BY <1>2, <1>3, <1>8, <2>1, <2>2, <2>3 DEF Account
<1>10. \A i \in DOMAIN subs' : i \in DOMAIN subs \/ i = n
  BY <1>1, <1>7
<1>11. subs'[n].from <= sequence'
  BY <1>2, <1>3, <1>8
<1>12. ASSUME NEW i \in DOMAIN subs'
       PROVE  subs'[i].from <= sequence' /\ (exits' = 0 => Account(i)')
  <2>1. CASE i = n
    BY <1>9, <1>11, <2>1
  <2>2. CASE i \in DOMAIN subs
    BY <1>3, <1>6, <2>2
  <2> QED BY <1>10, <2>1, <2>2
<1> QED BY <1>5, <1>12 DEF AccountInv

\* Records leave the registry, and keep what they have accepted.
LEMMA ClosedRecordsAccount ==
    ASSUME SubsTyped, OrderInv, AccountInv, UNCHANGED <<log, exits>>,
           DOMAIN subs' = DOMAIN subs, Len(subs') = Len(subs),
           \A i \in DOMAIN subs : /\ subs'[i].from = subs[i].from
                                  /\ subs'[i].queued = subs[i].queued
                                  /\ Upto(i)' = Upto(i),
           \A i \in SubIds : InOrder(i)' /\ Accepted(i)' = Accepted(i)
    PROVE  OrderInv' /\ AccountInv'
<1>1. sequence' = sequence
  BY DEF sequence
<1>2. OrderInv'
  BY <1>1 DEF OrderInv
<1>3. \A i \in DOMAIN subs : i \in SubIds
  BY SubsAre
<1>4. ASSUME NEW i \in DOMAIN subs, exits = 0 PROVE Account(i)'
  BY <1>3, <1>4 DEF Account, AccountInv
<1> QED BY <1>1, <1>2, <1>4 DEF AccountInv

\* An event is accepted for every registered record.
LEMMA EmitAccounts ==
    ASSUME SubsTyped, StreamInv, OrderInv, AccountInv, UNCHANGED <<subs, exits>>,
           sequence' = sequence + 1,
           \A i \in SubIds : /\ InOrder(i)'
                             /\ Accepted(i)' = Accepted(i) \cup
                                   IF i \in Registered THEN {sequence + 1} ELSE {}
    PROVE  OrderInv' /\ AccountInv'
<1>1. sequence \in Nat
  BY DEF StreamInv, sequence
<1>2. Registered \subseteq DOMAIN subs /\ \A i \in Registered : i <= Len(subs)
  BY SubsAre DEF Registered
<1>3. OrderInv'
  <2> SUFFICES ASSUME NEW i \in SubIds
               PROVE  /\ Accepted(i)' \subseteq 1 .. sequence + 1
                      /\ i > Len(subs) => Accepted(i)' = {}
    BY DEF OrderInv
  <2>1. Accepted(i) \subseteq 1 .. sequence /\ (i > Len(subs) => Accepted(i) = {})
    BY DEF OrderInv
  <2>2. i > Len(subs) => i \notin Registered
    BY <1>2, SubsAre DEF SubIds
  <2> QED BY <1>1, <2>1, <2>2
<1>4. ASSUME NEW i \in DOMAIN subs, exits = 0 PROVE Account(i)'
  <2>1. i \in SubIds /\ subs[i].from \in Nat /\ subs[i].from <= sequence /\ Account(i)
    BY <1>4, SubsAre DEF AccountInv
  <2>2. CASE i \in Registered
    <3>1. Upto(i) = sequence /\ Upto(i)' = sequence + 1
      BY <2>2 DEF Registered, Upto
    <3>2. subs[i].from + 1 .. sequence + 1 = (subs[i].from + 1 .. sequence) \cup {sequence + 1}
      BY <1>1, <2>1
    <3> QED BY <2>1, <2>2, <3>1, <3>2 DEF Account
  <2>3. CASE i \notin Registered
    <3>1. Upto(i)' = Upto(i)
      BY <1>4, <2>3 DEF Registered, Upto
    <3> QED BY <2>1, <2>3, <3>1 DEF Account
  <2> QED BY <2>2, <2>3
<1>5. \A i \in DOMAIN subs : subs[i].from <= sequence + 1
  BY <1>1, SubsAre DEF AccountInv
<1> QED BY <1>3, <1>4, <1>5 DEF AccountInv
\* What a step knows of the broker.
BrokerTyped == StreamInv /\ QueueTypes /\ DrainTypes /\ DrainInv

\* A listing of a set of numbers holds all of them.
LEMMA ListingsCover ==
    ASSUME NEW S, IsFiniteSet(S), S \subseteq Nat, NEW q \in Listings(S)
    PROVE  /\ DOMAIN q = 1 .. Cardinality(S) /\ Cardinality(S) \in Nat
           /\ Range(q) = S /\ q \in Seq(S)
           /\ \A j, k \in DOMAIN q : j < k => q[j] < q[k]
<1> DEFINE n == Cardinality(S)
<1>1. n \in Nat
  BY FS_CardinalityType
<1>2. q \in [1 .. n -> S] /\ \A j, k \in 1 .. n : j < k => q[j] < q[k]
  BY DEF Listings
<1>3. q \in Seq(S)
  BY <1>1, <1>2
<1>4. IsFiniteSet(1 .. n) /\ Cardinality(1 .. n) = n
  BY <1>1, FS_Interval
<1> HIDE DEF n
<1>5. ASSUME NEW j \in 1 .. n, NEW k \in 1 .. n, q[j] = q[k] PROVE j = k
  <2>1. q[j] \in Nat /\ q[k] \in Nat
    BY <1>2
  <2>2. j \in Int /\ k \in Int
    BY <1>1
  <2> QED BY <1>2, <1>5, <2>1, <2>2
<1>6. q \in Injection(1 .. n, S)
  BY <1>2, <1>5 DEF Injection, IsInjective
<1>7. Cardinality(1 .. n) = Cardinality(S)
  BY <1>4 DEF n
<1>8. q \in Surjection(1 .. n, S)
  BY <1>6, <1>7, FS_Injection
<1>9. Range(q) = S
  <2>1. \A s \in S : \E k \in 1 .. n : q[k] = s
    BY <1>8 DEF Surjection
  <2> QED BY <1>2, <2>1 DEF Range
<1> QED BY <1>1, <1>2, <1>3, <1>9 DEF n

\* Claiming the drainer hands nothing over.
LEMMA ClaimKeepsFlight ==
    ASSUME DrainInv, NEW t \in Threads, ~closed, ClaimDrainer(t), UNCHANGED <<cur, left>>, NEW i
    PROVE  InFlight(i)' = InFlight(i)
<1>1. ~dispatching => pc[t] = "idle"
  BY DEF DrainInv
<1>2. \A u \in Threads : pc'[u] = "deliver" <=> pc[u] = "deliver"
  BY <1>1 DEF DrainInv, ClaimDrainer
<1> QED BY <1>2 DEF InFlight

\* Steps that leave deliveries, handovers and subscriptions alone.
LEMMA QuietAccounts ==
    ASSUME BrokerTyped, OrderInv, AccountInv, exits' \in Nat, exits' = 0 => exits = 0,
           UNCHANGED <<log, subs, delivery, delivered>>,
           \A i \in SubIds : InFlight(i)' = InFlight(i)
    PROVE  OrderInv' /\ AccountInv'
<1>1. ASSUME NEW i \in SubIds PROVE InOrder(i)' /\ Accepted(i)' = Accepted(i)
  <2>1. InOrder(i)
    BY DEF OrderInv
  <2> QED BY <2>1, QuietStays
<1>2. SubsTyped /\ exits \in Nat
  BY DEF BrokerTyped, QueueTypes, DrainTypes, SubsTyped
<1> QED BY <1>1, <1>2, DrainAccounts

\* emit.
LEMMA EmitKeepsAccount ==
    ASSUME BrokerTyped, OrderInv, AccountInv, sequence' \in 0 .. MaxSeq,
           NEW t \in Threads, NEW turn, NEW kind, Emit(t, turn, kind)
    PROVE  OrderInv' /\ AccountInv'
<1>1. /\ SubsTyped /\ StreamInv /\ UNCHANGED <<subs, exits, delivered>>
      /\ sequence \in Nat
  BY DEF BrokerTyped, QueueTypes, SubsTyped, Emit, StreamInv, sequence
<1>2. sequence' = sequence + 1
  BY DEF Emit, sequence, BrokerTyped, StreamInv
<1>3. ASSUME NEW i \in SubIds PROVE InFlight(i)' = InFlight(i)
  <2>1. CASE Registered = {}
    BY <2>1 DEF Emit, InFlight
  <2>2. CASE Registered # {}
    BY <2>2, ClaimKeepsFlight DEF Emit, BrokerTyped
  <2> QED BY <2>1, <2>2
<1>4. ASSUME NEW i \in SubIds
      PROVE  /\ InOrder(i)'
             /\ Accepted(i)' = Accepted(i) \cup IF i \in Registered THEN {sequence + 1} ELSE {}
  <2>1. InOrder(i) /\ Accepted(i) \subseteq 1 .. sequence
    BY DEF OrderInv
  <2>2. CASE Registered = {}
    <3>1. UNCHANGED delivery
      BY <2>2 DEF Emit
    <3> QED BY <1>1, <1>3, <2>1, <2>2, <3>1, QuietStays
  <2>3. CASE Registered # {}
    <3> DEFINE d == [seq |-> sequence + 1, recs |-> Registered]
               new == <<d>>
    <3>1. delivery' = Append(delivery, d) /\ delivery \in Seq(Deliveries)
      BY <2>3 DEF Emit, BrokerTyped, QueueTypes
    <3>2. d \in Deliveries
      <4>1. Registered \subseteq SubIds
        BY RegisteredTypes DEF BrokerTyped
      <4>2. sequence + 1 \in 1 .. MaxSeq
        BY <1>1, <1>2
      <4> QED BY <4>1, <4>2 DEF Deliveries
    <3>3. d.seq = sequence + 1 /\ d.recs = Registered
      OBVIOUS
    <3> HIDE DEF d
    <3>4. new \in Seq(Deliveries) /\ DOMAIN new = {1} /\ new[1] = d
      BY <3>2
    <3>5. delivery' = delivery \o new
      BY <3>1, <3>2
    <3> HIDE DEF new
    <3>6. \A s \in Accepted(i) : s \in Nat /\ s < sequence + 1
      BY <1>1, <2>1
    <3>7. \A j \in DOMAIN new : i \in new[j].recs => \A s \in Accepted(i) : s < new[j].seq
      BY <3>3, <3>4, <3>6
    <3>8. \A j, k \in DOMAIN new :
            i \in new[j].recs /\ i \in new[k].recs /\ j < k => new[j].seq < new[k].seq
      BY <3>4
    <3>9. Accepted(i) \subseteq Nat
      BY <3>6
    <3>10. /\ InOrder(i)'
           /\ Accepted(i)' = Accepted(i) \cup
                {new[j].seq : j \in {k \in DOMAIN new : i \in new[k].recs}}
      BY <1>1, <1>3, <2>1, <3>1, <3>4, <3>5, <3>7, <3>8, <3>9, JoinQueue
    <3>11. {new[j].seq : j \in {k \in DOMAIN new : i \in new[k].recs}}
             = IF i \in Registered THEN {sequence + 1} ELSE {}
      BY <3>3, <3>4
    <3> QED BY <3>10, <3>11
  <2> QED BY <2>2, <2>3
<1> QED BY <1>1, <1>2, <1>4, EmitAccounts
\* subscribe and subscribe_from: a record that is handed its replay at once has
\* nothing queued.
LEMMA SubscribeKeepsAccount ==
    ASSUME BrokerTyped, OrderInv, AccountInv, SubsTyped',
           NEW cursor, NEW checked, NEW onClose,
           Register(Record(cursor, checked, onClose, <<>>)),
           UNCHANGED <<log, exits, delivery, delivered, pc, cur, left>>
    PROVE  OrderInv' /\ AccountInv'
<1>1. /\ SubsTyped /\ StreamInv
      /\ subs' = Append(subs, Record(cursor, checked, onClose, <<>>))
      /\ UNCHANGED <<log, exits>>
  BY DEF BrokerTyped, QueueTypes, SubsTyped, Register
<1>2. ASSUME NEW i \in SubIds PROVE InOrder(i)' /\ Accepted(i)' = Accepted(i)
  <2>1. InFlight(i)' = InFlight(i)
    BY DEF InFlight
  <2> QED BY <2>1, QuietStays DEF OrderInv
<1>3. Range(<<>>) = {}
  BY DEF Range
<1>4. ASSUME NEW i \in SubIds, i = Len(subs) + 1 PROVE Accepted(i)' = Range(<<>>)
  <2>1. i > Len(subs)
    BY <1>1, <1>4, SubsAre
  <2> QED BY <1>2, <1>3, <2>1 DEF OrderInv
<1>5. Range(<<>>) \subseteq 1 .. sequence
  BY <1>3
<1> QED BY <1>1, <1>2, <1>4, <1>5, NewRecordAccounts

\* forward_to: the replay is queued for the new record, in order, in the step
\* that registers it.
LEMMA ForwardKeepsAccount ==
    ASSUME BrokerTyped, OrderInv, AccountInv, SubsTyped',
           NEW t \in Threads, NEW cursor \in 0 .. MaxSeq, ForwardTo(t, cursor)
    PROVE  OrderInv' /\ AccountInv'
<1>1. PICK replay \in Listings(Window(cursor).events) :
          /\ Register(Record(cursor, FALSE, FALSE, replay))
          /\ delivery' = delivery \o Addressed(replay, Len(subs) + 1)
          /\ IF replay = <<>> THEN UNCHANGED <<dispatching, pc>> ELSE ClaimDrainer(t)
          /\ UNCHANGED <<log, cur, left, exits, delivered>>
  BY Zenon DEF ForwardTo, streamVars
<1>2. /\ SubsTyped /\ StreamInv /\ delivery \in Seq(Deliveries) /\ ~closed
      /\ subs' = Append(subs, Record(cursor, FALSE, FALSE, replay))
      /\ UNCHANGED <<log, exits>> /\ sequence \in Nat
  BY <1>1 DEF BrokerTyped, QueueTypes, SubsTyped, Register, StreamInv, sequence
<1>3. PICK n \in Nat : n = Len(subs) + 1
  BY <1>2, SubsAre
<1> DEFINE S == Window(cursor).events
           new == Addressed(replay, n)
<1>4. S \subseteq 1 .. sequence /\ S \subseteq Nat /\ IsFiniteSet(S) /\ S \subseteq 1 .. MaxSeq
  <2>1. S \in SUBSET retained /\ S \in SUBSET (1 .. MaxSeq) /\ retained \subseteq 1 .. sequence
    BY <1>2, WindowTypes DEF StreamInv
  <2>2. IsFiniteSet(S)
    BY <1>2, <2>1, WindowIsFinite, FS_Subset
  <2>3. S \subseteq Nat
    BY <2>1
  <2> QED BY <2>1, <2>2, <2>3
<1> HIDE DEF S
<1>5. /\ DOMAIN replay = 1 .. Cardinality(S) /\ Cardinality(S) \in Nat
      /\ Range(replay) = S
      /\ \A j, k \in DOMAIN replay : j < k => replay[j] < replay[k]
  BY <1>4, ListingsCover DEF S
<1>6. n \in SubIds
  BY <1>2, <1>3, SubsAre DEF Register, SubIds, SubsTyped
<1>7. /\ DOMAIN new = DOMAIN replay
      /\ \A k \in DOMAIN replay : new[k] = [seq |-> replay[k], recs |-> {n}]
  BY DEF Addressed
<1>8. \A k \in DOMAIN replay : replay[k] \in S
  BY <1>5 DEF Range
<1>9. new \in Seq(Deliveries)
  <2>1. ASSUME NEW k \in DOMAIN replay PROVE new[k] \in Deliveries
    <3>1. replay[k] \in 1 .. MaxSeq /\ {n} \in SUBSET SubIds
      BY <1>4, <1>6, <1>8
    <3>2. [seq |-> replay[k], recs |-> {n}] \in Deliveries
      BY <3>1 DEF Deliveries
    <3> HIDE DEF new
    <3> QED BY <1>7, <3>2
  <2>2. new = [k \in 1 .. Cardinality(S) |-> [seq |-> replay[k], recs |-> {n}]]
    BY <1>5 DEF Addressed
  <2>3. \A k \in 1 .. Cardinality(S) : [seq |-> replay[k], recs |-> {n}] \in Deliveries
    BY <1>5, <1>7, <2>1
  <2>4. new \in [1 .. Cardinality(S) -> Deliveries]
    BY <2>2, <2>3
  <2> HIDE DEF new
  <2> QED BY <1>5, <2>4
<1>10. delivery' = delivery \o new
  BY <1>1, <1>3
<1> HIDE DEF new
<1>11. ASSUME NEW i \in SubIds PROVE InFlight(i)' = InFlight(i)
  <2>1. CASE replay = <<>>
    BY <1>1, <2>1 DEF InFlight
  <2>2. CASE replay # <<>>
    BY <1>1, <1>2, <2>2, ClaimKeepsFlight DEF BrokerTyped
  <2> QED BY <2>1, <2>2
<1>12. Accepted(n) = {}
  <2>1. n > Len(subs)
    BY <1>2, <1>3, SubsAre
  <2> QED BY <1>6, <2>1 DEF OrderInv
<1>13. ASSUME NEW i \in SubIds
       PROVE  /\ InOrder(i)'
              /\ Accepted(i)' = Accepted(i) \cup
                   {new[j].seq : j \in {k \in DOMAIN new : i \in new[k].recs}}
  <2>1. InOrder(i) /\ Accepted(i) \subseteq Nat
    BY <1>2 DEF OrderInv
  <2>2. \A j \in DOMAIN new : i \in new[j].recs => i = n
    BY <1>7
  <2>3. \A j \in DOMAIN new : i \in new[j].recs => \A s \in Accepted(i) : s < new[j].seq
    BY <1>12, <2>2
  <2>4. \A j, k \in DOMAIN new :
          i \in new[j].recs /\ i \in new[k].recs /\ j < k => new[j].seq < new[k].seq
    BY <1>5, <1>7
  <2> QED BY <1>1, <1>2, <1>9, <1>10, <1>11, <2>1, <2>3, <2>4, JoinQueue
<1>14. ASSUME NEW i \in SubIds, i # n PROVE Accepted(i)' = Accepted(i)
  <2>1. {k \in DOMAIN new : i \in new[k].recs} = {}
    BY <1>7, <1>14
  <2> QED BY <1>13, <2>1
<1>15. Accepted(n)' = Range(replay)
  <2>1. {k \in DOMAIN new : n \in new[k].recs} = DOMAIN replay
    BY <1>7
  <2>2. {new[j].seq : j \in DOMAIN replay} = {replay[j] : j \in DOMAIN replay}
    BY <1>7
  <2>3. Accepted(n)' = Accepted(n) \cup {new[j].seq : j \in DOMAIN replay}
    BY <1>6, <1>13, <2>1
  <2> QED BY <1>12, <2>2, <2>3 DEF Range
<1>16. \A i \in SubIds : /\ InOrder(i)'
                         /\ i # Len(subs) + 1 => Accepted(i)' = Accepted(i)
                         /\ i = Len(subs) + 1 => Accepted(i)' = Range(replay)
  BY <1>3, <1>13, <1>14, <1>15
<1>17. Range(replay) \subseteq 1 .. sequence
  BY <1>4, <1>5
<1> QED BY <1>2, <1>16, <1>17, NewRecordAccounts

\* An interval tells its length.
LEMMA SameInterval ==
    ASSUME NEW a \in Nat, NEW b \in Nat, 1 .. a = 1 .. b
    PROVE  a = b
<1>1. ASSUME a > b PROVE FALSE
  <2>1. a \in 1 .. a
    BY <1>1
  <2> QED BY <1>1, <2>1
<1>2. ASSUME b > a PROVE FALSE
  <2>1. b \in 1 .. b
    BY <1>2
  <2> QED BY <1>2, <2>1
<1> QED BY <1>1, <1>2

\* _close_subscription and close: what was accepted stays queued.
LEMMA ClosingKeepsAccount ==
    ASSUME BrokerTyped, OrderInv, AccountInv, SubsTyped', NEW t \in Threads,
           \/ \E i \in SubIds : CloseSubscription(t, i)
           \/ Close(t)
    PROVE  OrderInv' /\ AccountInv'
<1>1. /\ SubsTyped /\ UNCHANGED <<log, exits, delivery, delivered>> /\ sequence' = sequence
  BY DEF BrokerTyped, QueueTypes, SubsTyped, CloseSubscription, Close, streamVars, drainVars,
         sequence
<1>2. ASSUME NEW i \in SubIds PROVE InOrder(i)' /\ Accepted(i)' = Accepted(i)
  <2>1. InFlight(i)' = InFlight(i)
    <3>1. CASE Close(t)
      BY <3>1, ClaimKeepsFlight DEF Close, BrokerTyped
    <3>2. CASE \E j \in SubIds : CloseSubscription(t, j)
      BY <3>2 DEF CloseSubscription, drainVars, InFlight
    <3> QED BY <3>1, <3>2
  <2> QED BY <1>1, <2>1, QuietStays DEF OrderInv
<1>3. \A i \in DOMAIN subs : subs[i] \in SubRecords
  BY <1>1, SubsAre
<1>4. /\ DOMAIN subs' = DOMAIN subs
      /\ \A i \in DOMAIN subs : \/ subs'[i] = subs[i]
                                \/ /\ subs[i].open
                                   /\ subs'[i] = [subs[i] EXCEPT !.open = FALSE, !.upto = sequence]
  <2>1. CASE Close(t)
    BY <2>1 DEF Close
  <2>2. ASSUME NEW j \in SubIds, CloseSubscription(t, j)
        PROVE  /\ DOMAIN subs' = DOMAIN subs
               /\ \A i \in DOMAIN subs :
                     \/ subs'[i] = subs[i]
                     \/ /\ subs[i].open
                        /\ subs'[i] = [subs[i] EXCEPT !.open = FALSE, !.upto = sequence]
    <3>1. j \in DOMAIN subs /\ subs[j].open
          /\ subs' = [subs EXCEPT ![j].open = FALSE, ![j].upto = sequence]
      BY <2>2 DEF CloseSubscription, Registered
    <3> QED BY <3>1
  <2> QED BY <2>1, <2>2
<1>5. \A i \in DOMAIN subs : /\ subs'[i].from = subs[i].from
                             /\ subs'[i].queued = subs[i].queued
                             /\ Upto(i)' = Upto(i)
  <2> SUFFICES ASSUME NEW i \in DOMAIN subs
               PROVE  /\ subs'[i].from = subs[i].from
                      /\ subs'[i].queued = subs[i].queued
                      /\ Upto(i)' = Upto(i)
    OBVIOUS
  <2>1. CASE subs'[i] = subs[i]
    BY <1>1, <2>1 DEF Upto
  <2>2. CASE /\ subs[i].open
             /\ subs'[i] = [subs[i] EXCEPT !.open = FALSE, !.upto = sequence]
    <3>1. subs'[i].from = subs[i].from /\ subs'[i].queued = subs[i].queued
          /\ subs'[i].open = FALSE /\ subs'[i].upto = sequence
      BY <1>3, <2>2 DEF SubRecords
    <3> QED BY <1>1, <2>2, <3>1 DEF Upto
  <2> QED BY <1>4, <2>1, <2>2
<1>6. Len(subs') = Len(subs)
  <2>1. /\ DOMAIN subs = 1 .. Len(subs) /\ Len(subs) \in Nat
        /\ DOMAIN subs' = 1 .. Len(subs') /\ Len(subs') \in Nat
    BY <1>1, LenProperties DEF SubsTyped
  <2>2. 1 .. Len(subs') = 1 .. Len(subs)
    BY <1>4, <2>1
  <2> QED BY <2>1, <2>2, SameInterval
<1> QED BY <1>1, <1>2, <1>4, <1>5, <1>6, ClosedRecordsAccount

\* The drainer's own steps.
LEMMA DrainingKeepsAccount ==
    ASSUME BrokerTyped, OrderInv, AccountInv, exits' \in Nat, NEW t \in Threads, Dispatch(t)
    PROVE  OrderInv' /\ AccountInv'
<1>1. SubsTyped /\ exits \in Nat /\ delivery \in Seq(Deliveries)
      /\ left \in [Threads -> SUBSET SubIds] /\ cur \in [Threads -> 0 .. MaxSeq]
      /\ DrainInv /\ DrainTypes
  BY DEF BrokerTyped, QueueTypes, DrainTypes, SubsTyped
<1>2. UNCHANGED <<subs, log>>
  BY Zenon DEF Dispatch, TakeDelivery, TakeClose, StopDraining, CallbackReturns, CallbackExits,
               Escape, NotifyClosed, streamVars, queueVars
<1>3. \A i \in SubIds : InOrder(i)
  BY DEF OrderInv
<1>4. CASE TakeDelivery(t)
  <2>1. exits' = exits
    BY <1>4 DEF TakeDelivery
  <2>2. \A i \in SubIds : InOrder(i)' /\ Accepted(i)' = Accepted(i)
    BY <1>1, <1>3, <1>4, TakeKeepsOrder
  <2> QED BY <1>1, <1>2, <2>1, <2>2, DrainAccounts
<1>5. CASE CallbackReturns(t)
  <2>1. exits' = exits
    BY <1>5 DEF CallbackReturns
  <2>2. \A i \in SubIds : InOrder(i)' /\ Accepted(i)' = Accepted(i)
    BY <1>1, <1>3, <1>5, CallKeepsOrder
  <2> QED BY <1>1, <1>2, <2>1, <2>2, DrainAccounts
<1>6. CASE CallbackExits(t)
  <2>1. exits' = exits + 1
    BY <1>6 DEF CallbackExits
  <2>2. \A i \in SubIds : InOrder(i)' /\ Accepted(i)' \subseteq Accepted(i)
    BY <1>1, <1>3, <1>6, CallKeepsOrder
  <2>3. exits' # 0
    BY <1>1, <2>1
  <2> QED BY <1>1, <1>2, <2>2, <2>3, DrainAccounts
<1>7. CASE TakeClose(t) \/ StopDraining(t) \/ Escape(t) \/ NotifyClosed(t)
  <2>1. /\ UNCHANGED <<delivery, delivered, cur>>
        /\ pc[t] \in {"loop", "escape", "notify"}
        /\ \E l \in {"idle", "notify", "escape"} : pc' = [pc EXCEPT ![t] = l] \/ pc' = pc
    BY <1>7, Zenon DEF TakeClose, StopDraining, Escape, NotifyClosed, queueVars
  <2>2. \A u \in Threads : u # t => left'[u] = left[u]
    BY <1>1, <1>7 DEF TakeClose, StopDraining, Escape, NotifyClosed
  <2>3. exits' = exits \/ exits' = exits + 1
    BY <1>7, Zenon DEF TakeClose, StopDraining, Escape, NotifyClosed
  <2>4. exits' = 0 => exits = 0
    BY <1>1, <2>3
  <2>5. pc[t] # "deliver" /\ pc'[t] # "deliver"
        /\ \A u \in Threads : u # t => pc'[u] = pc[u]
    BY <1>1, <2>1 DEF DrainTypes
  <2>6. \A i \in SubIds : InFlight(i)' = InFlight(i)
    <3> SUFFICES ASSUME NEW i PROVE InFlight(i)' = InFlight(i)
      OBVIOUS
    <3>1. {u \in Threads : pc'[u] = "deliver" /\ i \in left'[u]}
            = {u \in Threads : pc[u] = "deliver" /\ i \in left[u]}
      BY <2>2, <2>5
    <3> QED BY <2>1, <3>1 DEF InFlight
  <2> QED BY <1>2, <2>1, <2>4, <2>6, QuietAccounts
<1> QED BY <1>4, <1>5, <1>6, <1>7 DEF Dispatch
\* Every step keeps the order and the account of every record.
LEMMA AccountStep ==
    ASSUME BrokerTyped, BrokerTyped', OrderInv, AccountInv, [Next]_vars
    PROVE  OrderInv' /\ AccountInv'
<1>1. /\ SubsTyped' /\ exits \in Nat /\ exits' \in Nat /\ sequence' \in 0 .. MaxSeq
  BY DEF BrokerTyped, QueueTypes, DrainTypes, StreamInv, SubsTyped, sequence
<1>2. CASE UNCHANGED vars
  <2>1. \A i \in SubIds : InFlight(i)' = InFlight(i)
    BY <1>2 DEF vars, InFlight
  <2> QED BY <1>1, <1>2, <2>1, QuietAccounts DEF vars
<1>3. ASSUME NEW t \in Threads, NEW turn \in TurnIds, NEW kind \in Kinds, Emit(t, turn, kind)
      PROVE  OrderInv' /\ AccountInv'
  BY <1>1, <1>3, EmitKeepsAccount
<1>4. ASSUME NEW t \in Threads, NEW cursor \in 0 .. MaxSeq, Subscribe(t, cursor)
      PROVE  OrderInv' /\ AccountInv'
  <2>1. /\ Register(Record(cursor, FALSE, FALSE, <<>>))
        /\ UNCHANGED <<log, exits, delivery, delivered, pc, cur, left>>
    BY <1>4 DEF Subscribe, streamVars, drainVars
  <2> QED BY <1>1, <2>1, SubscribeKeepsAccount
<1>5. ASSUME NEW t \in Threads, NEW cursor \in 0 .. MaxSeq, NEW onClose \in BOOLEAN,
             SubscribeFrom(t, cursor, onClose)
      PROVE  OrderInv' /\ AccountInv'
  <2>1. /\ Register(Record(cursor, TRUE, onClose, <<>>))
        /\ UNCHANGED <<log, exits, delivery, delivered, pc, cur, left>>
    BY <1>5 DEF SubscribeFrom, streamVars, drainVars
  <2> QED BY <1>1, <2>1, SubscribeKeepsAccount
<1>6. ASSUME NEW t \in Threads, NEW cursor \in 0 .. MaxSeq, ForwardTo(t, cursor)
      PROVE  OrderInv' /\ AccountInv'
  BY <1>1, <1>6, ForwardKeepsAccount
<1>7. ASSUME NEW t \in Threads, NEW i \in SubIds, CloseSubscription(t, i)
      PROVE  OrderInv' /\ AccountInv'
  BY <1>1, <1>7, ClosingKeepsAccount
<1>8. ASSUME NEW t \in Threads, Close(t)
      PROVE  OrderInv' /\ AccountInv'
  BY <1>1, <1>8, ClosingKeepsAccount
<1>9. ASSUME NEW t \in Threads, Dispatch(t)
      PROVE  OrderInv' /\ AccountInv'
  BY <1>1, <1>9, DrainingKeepsAccount
<1> QED BY <1>2, <1>3, <1>4, <1>5, <1>6, <1>7, <1>8, <1>9 DEF Next

\* What is known of the broker holds throughout.
LEMMA BrokerTypedAlways == Spec => [](BrokerTyped /\ SubsTyped)
<1>1. Init => DrainInv
  BY DEF Init, DrainInv, PcLabels
<1>2. StreamInv /\ StreamInv' /\ QueueTypes /\ DrainTypes /\ [Next]_vars
        => QueueTypes' /\ DrainTypes'
  BY TypesStep
<1>3. StreamInv /\ QueueTypes /\ DrainTypes /\ DrainInv => BrokerTyped /\ SubsTyped
  BY DEF BrokerTyped, SubsTyped, QueueTypes
<1> QED BY <1>1, <1>2, <1>3, TypesInit, DrainStep, StreamInvariant, PTL DEF Spec

\* Every record starts with nothing.
LEMMA AccountInit == Init => OrderInv /\ AccountInv
<1> SUFFICES ASSUME Init PROVE OrderInv /\ AccountInv
  OBVIOUS
<1>1. /\ delivery = <<>> /\ subs = <<>> /\ sequence = 0
      /\ \A t \in Threads : pc[t] = "idle"
      /\ \A i \in SubIds : delivered[i] = <<>>
  BY DEF Init, sequence
<1>2. \A i \in SubIds : Queued(i) = {} /\ Pending(i) = {} /\ InFlight(i) = {}
                        /\ Range(delivered[i]) = {} /\ Increasing(delivered[i])
  BY <1>1 DEF Queued, Pending, InFlight, Range, Increasing
<1>3. OrderInv
  BY <1>2 DEF OrderInv, InOrder, Accepted
<1>4. AccountInv
  BY <1>1 DEF AccountInv
<1> QED BY <1>3, <1>4

\* The order and the account hold throughout.
LEMMA AccountInvariant == Spec => [](BrokerTyped /\ SubsTyped /\ OrderInv /\ AccountInv)
BY AccountInit, AccountStep, BrokerTypedAlways, PTL DEF Spec

\* What the drainer, the queue and the registry owe a record is accounted for at
\* every moment, whoever subscribes, closes or re-enters in between.
THEOREM NoDeliveryIsLost == Spec => []NoLostDelivery
<1>1. SubsTyped /\ OrderInv /\ AccountInv => NoLostDelivery
  BY SubsAre DEF OrderInv, AccountInv, Account, NoLostDelivery
<1> QED BY <1>1, AccountInvariant, PTL
-----------------------------------------------------------------------------
(* on_close, after everything else and once.                               *)

\* The strengthening of the last part of DeliveredInOrder: the notification of
\* the close is taken once, from an empty queue and by the only drainer, and a
\* record it has still to reach has not been called.
CloseInv ==
    /\ closeNotified => /\ closed /\ delivery = <<>>
                        /\ \A t \in Threads : pc[t] \notin {"loop", "deliver"}
    /\ \A t \in Threads : pc[t] = "notify" => closeNotified
    /\ \A i \in SubIds : fired[i] <= 1 /\ (fired[i] > 0 => closeNotified)
    /\ \A t \in Threads : pc[t] = "notify" => \A i \in left[t] : fired[i] = 0

\* Before the close is taken, no call can disturb what is known of it.
LEMMA OpenKeepsClose ==
    ASSUME BrokerTyped, CloseInv, ~closed, NEW t \in Threads,
           \/ UNCHANGED pc
           \/ pc' = [pc EXCEPT ![t] = "loop"],
           UNCHANGED <<closeNotified, fired, left>>
    PROVE  CloseInv'
<1>1. ~closeNotified /\ ~closeNotified'
  BY DEF CloseInv
<1>2. \A u \in Threads : pc'[u] = "notify" => pc[u] = "notify"
  BY DEF BrokerTyped, DrainTypes
<1> QED BY <1>1, <1>2 DEF CloseInv

\* The drainer goes on, or stops, without a notification.
LEMMA DrainKeepsClose ==
    ASSUME BrokerTyped, CloseInv, NEW t \in Threads, NEW l \in PcLabels, pc[t] # "idle",
           pc' \in {[pc EXCEPT ![t] = l], pc},
           closeNotified => delivery' = delivery /\ l \in {"idle", "escape"},
           l # "notify", UNCHANGED <<closed, closeNotified, fired>>,
           \A u \in Threads : u # t => left'[u] = left[u], left'[t] \subseteq left[t] \/ pc[t] = "loop"
    PROVE  CloseInv'
<1>1. \A u \in Threads : pc'[u] = pc[u] \/ (u = t /\ pc'[u] = l)
  BY DEF BrokerTyped, DrainTypes
<1>2. \A u \in Threads : pc'[u] = "notify" => pc[u] = "notify" /\ left'[u] \subseteq left[u]
  BY <1>1
<1>3. closeNotified' => closed' /\ delivery' = <<>>
  BY DEF CloseInv
<1>4. closeNotified' => \A u \in Threads : pc'[u] \notin {"loop", "deliver"}
  BY <1>1 DEF CloseInv
<1> QED BY <1>2, <1>3, <1>4 DEF CloseInv

\* Every step keeps what is known of the close.
LEMMA CloseStep ==
    ASSUME BrokerTyped, CloseInv, [Next]_vars
    PROVE  CloseInv'
<1>1. CASE UNCHANGED vars
  BY <1>1 DEF vars, CloseInv
<1>2. ASSUME NEW t \in Threads, NEW turn, NEW kind, Emit(t, turn, kind) PROVE CloseInv'
  BY <1>2, OpenKeepsClose DEF Emit, ClaimDrainer
<1>3. ASSUME NEW t \in Threads, NEW cursor, Subscribe(t, cursor) PROVE CloseInv'
  BY <1>3, OpenKeepsClose DEF Subscribe, Register, drainVars
<1>4. ASSUME NEW t \in Threads, NEW cursor, NEW onClose, SubscribeFrom(t, cursor, onClose)
      PROVE  CloseInv'
  BY <1>4, OpenKeepsClose DEF SubscribeFrom, Register, drainVars
<1>5. ASSUME NEW t \in Threads, NEW cursor, ForwardTo(t, cursor) PROVE CloseInv'
  <2>1. PICK replay \in Listings(Window(cursor).events) :
            /\ ~closed /\ UNCHANGED <<closeNotified, fired, left>>
            /\ IF replay = <<>> THEN UNCHANGED <<dispatching, pc>> ELSE ClaimDrainer(t)
    BY <1>5, Zenon DEF ForwardTo, Register
  <2>2. UNCHANGED pc \/ pc' = [pc EXCEPT ![t] = "loop"]
    BY <2>1 DEF ClaimDrainer
  <2> QED BY <2>1, <2>2, OpenKeepsClose
<1>6. ASSUME NEW t \in Threads, NEW i, CloseSubscription(t, i) PROVE CloseInv'
  BY <1>6 DEF CloseSubscription, drainVars, CloseInv
<1>7. ASSUME NEW t \in Threads, Close(t) PROVE CloseInv'
  BY <1>7, OpenKeepsClose DEF Close, ClaimDrainer
<1>8. ASSUME NEW t \in Threads, TakeDelivery(t) PROVE CloseInv'
  <2>1. ~closeNotified
    BY <1>8 DEF TakeDelivery, CloseInv
  <2>2. /\ pc[t] = "loop" /\ pc' = [pc EXCEPT ![t] = "deliver"]
        /\ UNCHANGED <<closed, closeNotified, fired>>
        /\ \A u \in Threads : u # t => left'[u] = left[u]
    BY <1>8 DEF TakeDelivery, BrokerTyped, DrainTypes
  <2> QED BY <2>1, <2>2, DrainKeepsClose DEF PcLabels
<1>9. ASSUME NEW t \in Threads, TakeClose(t) PROVE CloseInv'
  <2>1. /\ pc[t] = "loop" /\ pc' = [pc EXCEPT ![t] = "notify"]
        /\ ~closeNotified /\ closeNotified' /\ closed' /\ delivery' = <<>>
        /\ fired' = fired
    BY <1>9 DEF TakeClose
  <2>2. \A u \in Threads : u # t => pc'[u] = "idle"
    BY <2>1 DEF BrokerTyped, DrainInv
  <2>3. pc'[t] = "notify"
    BY <2>1 DEF BrokerTyped, DrainInv
  <2>4. left'[t] \subseteq SubIds
    <3>1. left'[t] = {i \in pendingClose : subs[i].onClose}
      BY <1>9 DEF TakeClose, BrokerTyped, DrainTypes
    <3> QED BY <3>1 DEF BrokerTyped, QueueTypes
  <2>5. \A i \in SubIds : fired[i] = 0
    BY <2>1 DEF CloseInv, BrokerTyped, DrainTypes
  <2> QED BY <2>1, <2>2, <2>3, <2>4, <2>5 DEF CloseInv
<1>10. ASSUME NEW t \in Threads, StopDraining(t) PROVE CloseInv'
  BY <1>10, DrainKeepsClose DEF StopDraining, PcLabels
<1>11. ASSUME NEW t \in Threads, CallbackReturns(t) \/ CallbackExits(t) PROVE CloseInv'
  <2>1. ~closeNotified
    BY <1>11 DEF CallbackReturns, CallbackExits, Called, CloseInv
  <2>2. \E l \in {"loop", "escape"} : pc' \in {[pc EXCEPT ![t] = l], pc}
    BY <1>11 DEF CallbackReturns, CallbackExits
  <2>3. /\ pc[t] = "deliver" /\ UNCHANGED <<closed, closeNotified, fired>>
        /\ \A u \in Threads : u # t => left'[u] = left[u]
        /\ left'[t] \subseteq left[t]
    BY <1>11 DEF CallbackReturns, CallbackExits, Called, queueVars, BrokerTyped, DrainTypes
  <2> QED BY <2>1, <2>2, <2>3, DrainKeepsClose DEF PcLabels
<1>12. ASSUME NEW t \in Threads, Escape(t) PROVE CloseInv'
  BY <1>12, DrainKeepsClose DEF Escape, PcLabels
<1>13. ASSUME NEW t \in Threads, NotifyClosed(t) PROVE CloseInv'
  <2>1. pc[t] = "notify" /\ UNCHANGED <<closed, closeNotified, delivery>> /\ closeNotified
    BY <1>13 DEF NotifyClosed, queueVars, CloseInv
  <2>2. \A u \in Threads : u # t => pc[u] = "idle"
    BY <2>1 DEF BrokerTyped, DrainInv
  <2>3. CASE left[t] = {}
    <3>1. pc' = [pc EXCEPT ![t] = "idle"] /\ UNCHANGED <<left, fired>>
      BY <1>13, <2>3 DEF NotifyClosed
    <3> QED BY <2>1, <3>1, DrainKeepsClose DEF PcLabels
  <2>4. CASE left[t] # {}
    <3>1. PICK m \in left[t] : m = Min(left[t])
      <4>1. left[t] \subseteq Nat
        BY DEF BrokerTyped, DrainTypes, SubIds
      <4> QED BY <2>4, <4>1, MinIsElement
    <3>2. /\ fired' = [fired EXCEPT ![m] = @ + 1]
          /\ \/ left' = [left EXCEPT ![t] = @ \ {m}] /\ pc' = pc
             \/ left' = [left EXCEPT ![t] = {}] /\ pc' = [pc EXCEPT ![t] = "escape"]
      BY <1>13, <2>4, <3>1, Zenon DEF NotifyClosed
    <3>3. /\ m \in SubIds /\ fired[m] = 0 /\ left[t] \subseteq SubIds
          /\ fired \in [SubIds -> Nat]
      BY <2>1, <3>1 DEF BrokerTyped, DrainTypes, CloseInv
    <3>4. left'[t] \subseteq left[t] \ {m} /\ pc'[t] \in {"notify", "escape"}
          /\ \A u \in Threads : u # t => pc'[u] = "idle"
      BY <2>1, <2>2, <3>2 DEF BrokerTyped, DrainTypes
    <3>5. \A i \in SubIds : fired'[i] = IF i = m THEN 1 ELSE fired[i]
      BY <3>2, <3>3
    <3>6. \A u \in Threads : pc'[u] = "notify" => \A i \in left'[u] : fired'[i] = 0
      <4>1. \A i \in left'[t] : fired'[i] = 0
        BY <2>1, <3>3, <3>4, <3>5 DEF CloseInv
      <4> QED BY <3>4, <4>1
    <3>7. \A u \in Threads : pc'[u] \notin {"loop", "deliver"}
      BY <3>4
    <3>8. \A i \in SubIds : fired'[i] <= 1
      BY <3>5 DEF CloseInv
    <3> QED BY <2>1, <3>6, <3>7, <3>8 DEF CloseInv
  <2> QED BY <2>3, <2>4
<1> QED
  BY <1>1, <1>2, <1>3, <1>4, <1>5, <1>6, <1>7, <1>8, <1>9, <1>10, <1>11, <1>12,
     <1>13, Zenon DEF Next, Dispatch

\* Every observer sees the stream in its order, the replay before what is live,
\* and its on_close once, behind everything it was owed.
THEOREM DeliveriesAreInOrder == Spec => []DeliveredInOrder
<1>1. Init => CloseInv
  BY DEF Init, CloseInv
<1>2. ASSUME SubsTyped, OrderInv, CloseInv, NEW i \in DOMAIN subs
      PROVE  InOrder(i) /\ fired[i] <= 1
             /\ (fired[i] > 0 => Pending(i) = {} /\ InFlight(i) = {})
  <2>1. i \in SubIds
    BY <1>2, SubsAre
  <2>2. InOrder(i) /\ fired[i] <= 1
    BY <1>2, <2>1 DEF OrderInv, CloseInv
  <2>3. CASE fired[i] > 0
    <3>1. delivery = <<>> /\ \A t \in Threads : pc[t] # "deliver"
      BY <1>2, <2>1, <2>3 DEF CloseInv
    <3> QED BY <2>2, <3>1 DEF Pending, Queued, InFlight
  <2> QED BY <2>2, <2>3
<1>3. SubsTyped /\ OrderInv /\ CloseInv => DeliveredInOrder
  BY <1>2 DEF DeliveredInOrder
<1> QED BY <1>1, <1>3, CloseStep, AccountInvariant, PTL DEF Spec
=============================================================================
