------------------------ MODULE EventStream_proofs ------------------------
(***************************************************************************)
(* Theorems about the event stream of the runtime service, for every queue *)
(* size, merge limit, number of events and number of streams.              *)
(***************************************************************************)
EXTENDS EventStream, Integers, SequenceTheorems, WellFoundedInduction, TLAPS

USE EventStreamAssumption
-----------------------------------------------------------------------------
(* Numbers and buffers.                                                    *)

\* Min picks an element of a nonempty set of naturals.
LEMMA MinIsElement ==
    ASSUME NEW S, S \subseteq Nat, S # {}
    PROVE  Min(S) \in S /\ \A s \in S : Min(S) <= s
<1> DEFINE Less == {ss \in Nat \X Nat : ss[1] < ss[2]}
<1>1. IsWellFoundedOn(Less, Nat)
  BY NatLessThanWellFounded, Zenon DEF OpToRel
<1> HIDE DEF Less
<1>2. PICK n \in S : \A s \in S : ~(<<s, n>> \in Less)
  BY <1>1, WFMin
<1>3. ASSUME NEW s \in S PROVE n <= s
  <2>1. s < n => <<s, n>> \in Less
    BY DEF Less
  <2>2. ~(s < n)
    BY <1>2, <2>1
  <2> QED BY <2>2
<1> QED BY <1>2, <1>3 DEF Min

\* Max of two numbers.
LEMMA MaxOfTwo ==
    ASSUME NEW a \in Nat, NEW b \in Nat
    PROVE  Max({a, b}) = IF b > a THEN b ELSE a
<1>1. PICK m \in {a, b} : m = IF b > a THEN b ELSE a
  OBVIOUS
<1>2. \A x \in {a, b} : (\A y \in {a, b} : x >= y) <=> x = m
  BY <1>1
<1>3. Max({a, b}) = CHOOSE x \in {a, b} : \A y \in {a, b} : x >= y
  BY DEF Max
<1>4. Max({a, b}) = m
  BY <1>2, <1>3
<1> QED BY <1>1, <1>4

\* An item of a buffer: the events whose text it carries.
Items == {q \in Seq(1 .. MaxSeq) : q # <<>>}

\* The item of one event, and the last event of an item.
LEMMA ItemsAre ==
    /\ \A s \in 1 .. MaxSeq : <<s>> \in Items
    /\ \A q \in Items : /\ q \in Seq(1 .. MaxSeq) /\ Len(q) \in DOMAIN q /\ Len(q) \in Nat
                         /\ DOMAIN q = 1 .. Len(q)
                         /\ Last(q) = q[Len(q)] /\ Last(q) \in 1 .. MaxSeq
<1>1. ASSUME NEW q \in Items
      PROVE  /\ q \in Seq(1 .. MaxSeq) /\ Len(q) \in DOMAIN q /\ Len(q) \in Nat
             /\ DOMAIN q = 1 .. Len(q)
             /\ Last(q) = q[Len(q)] /\ Last(q) \in 1 .. MaxSeq
  <2>1. q \in Seq(1 .. MaxSeq) /\ q # <<>>
    BY DEF Items
  <2>2. Len(q) \in Nat /\ DOMAIN q = 1 .. Len(q) /\ Len(q) # 0
    BY <2>1, LenProperties, EmptySeq
  <2>3. Len(q) \in DOMAIN q
    BY <2>2
  <2> QED BY <2>1, <2>2, <2>3, ElementOfSeq DEF Last
<1>2. \A s \in 1 .. MaxSeq : <<s>> \in Items
  BY DEF Items
<1> QED BY <1>1, <1>2

\* An item with one more event is an item.
LEMMA AppendItem ==
    ASSUME NEW q \in Items, NEW s \in 1 .. MaxSeq
    PROVE  Append(q, s) \in Items
<1>1. q \in Seq(1 .. MaxSeq)
  BY DEF Items
<1>2. Append(q, s) \in Seq(1 .. MaxSeq) /\ Len(Append(q, s)) = Len(q) + 1 /\ Len(q) \in Nat
  BY <1>1, AppendProperties, LenProperties
<1>3. Append(q, s) # <<>>
  BY <1>2, EmptySeq
<1> QED BY <1>2, <1>3 DEF Items

\* Folding lengthens the last item of a buffer and leaves the others.
LEMMA FoldDoes ==
    ASSUME NEW b \in Seq(Items), b # <<>>, NEW s \in 1 .. MaxSeq
    PROVE  /\ Fold(b, s) \in Seq(Items) /\ Len(Fold(b, s)) = Len(b)
           /\ Len(b) \in DOMAIN b /\ DOMAIN Fold(b, s) = DOMAIN b
           /\ \A j \in DOMAIN b : Fold(b, s)[j] = IF j = Len(b) THEN Append(b[j], s) ELSE b[j]
<1> DEFINE f == Fold(b, s)
<1>1. Len(b) \in Nat /\ DOMAIN b = 1 .. Len(b) /\ Len(b) # 0
  BY LenProperties, EmptySeq
<1>2. Len(b) \in DOMAIN b /\ b[Len(b)] \in Items
  BY <1>1, ElementOfSeq
<1>3. Append(b[Len(b)], s) \in Items
  BY <1>2, AppendItem
<1>4. f = [b EXCEPT ![Len(b)] = Append(b[Len(b)], s)]
  BY DEF Fold
<1>5. f \in Seq(Items) /\ Len(f) = Len(b)
  BY <1>2, <1>3, <1>4, ExceptSeq
<1>6. DOMAIN f = DOMAIN b /\ \A j \in DOMAIN b : f[j] = IF j = Len(b) THEN Append(b[j], s) ELSE b[j]
  BY <1>2, <1>4
<1> QED BY <1>2, <1>5, <1>6

\* _advance_cursor_locked: the cursor is before the first match that has not been
\* delivered, and else at the end of what has been scanned.
LEMMA AdvanceDoes ==
    ASSUME scanned \in Nat, NEW ms, ms \subseteq Nat, 0 \notin ms, NEW seq \in Nat, Advance(seq, ms)
    PROVE  /\ matches' = ms /\ scanned' = IF seq > scanned THEN seq ELSE scanned
           /\ cursor' = IF ms = {} THEN scanned' ELSE Min(ms) - 1
           /\ scanned' \in Nat /\ cursor' \in Nat
<1>1. matches' = ms /\ scanned' = Max({scanned, seq})
      /\ cursor' = IF ms = {} THEN scanned' ELSE Min(ms) - 1
  BY DEF Advance
<1>2. scanned' = IF seq > scanned THEN seq ELSE scanned
  BY <1>1, MaxOfTwo
<1>3. ms # {} => Min(ms) \in Nat /\ Min(ms) # 0
  BY MinIsElement
<1> QED BY <1>1, <1>2, <1>3
-----------------------------------------------------------------------------
(* Types.                                                                  *)

SourceTypes ==
    /\ log \in Seq(EventKinds) /\ Len(log) <= MaxSeq
    /\ ended \in BOOLEAN /\ subscribed \in BOOLEAN
OpenTypes ==
    /\ phase \in {"idle", "opening", "open"} /\ after \in Nat /\ opens \in Nat
    /\ todo \in Seq(1 .. MaxSeq) /\ captured \in Seq(Items)
BufferTypes ==
    /\ ingress \in Seq(Items) /\ live \in Seq(Items) /\ replay \in Seq(Items)
    /\ pending \in Nat
DrainTypes ==
    /\ batch \in Seq(Items)
    /\ draining \in BOOLEAN /\ drainScheduled \in BOOLEAN /\ available \in BOOLEAN
EndTypes ==
    /\ error \in {"none", "overflow", "projection"}
    /\ raised \in BOOLEAN /\ closed \in BOOLEAN /\ brokerClosed \in BOOLEAN
    /\ overtaken \in BOOLEAN
CursorTypes == cursor \in Nat /\ scanned \in Nat /\ matches \subseteq 1 .. MaxSeq
ConsumerTypes ==
    consumer \in {"ready", "waiting", "error", "eof"} /\ got \in Seq(1 .. MaxSeq)

Typed ==
    /\ SourceTypes /\ OpenTypes /\ BufferTypes /\ DrainTypes /\ EndTypes
    /\ CursorTypes /\ ConsumerTypes

\* The scan of an event keeps the cursor's types.
LEMMA AdvanceTypes ==
    ASSUME CursorTypes, NEW ms \in SUBSET (1 .. MaxSeq), NEW seq \in 1 .. MaxSeq, Advance(seq, ms)
    PROVE  CursorTypes'
<1>1. ms \subseteq Nat /\ 0 \notin ms /\ seq \in Nat
  OBVIOUS
<1> QED BY <1>1, AdvanceDoes DEF CursorTypes

\* What a scan records keeps its type.
LEMMA RecordTypes ==
    ASSUME CursorTypes, NEW seq \in 1 .. MaxSeq, NEW k, RecordScan(seq, k)
    PROVE  CursorTypes'
<1> DEFINE ms == IF Matches(k) THEN matches \cup {seq} ELSE matches
<1>1. ms \in SUBSET (1 .. MaxSeq) /\ Advance(seq, ms)
  BY DEF CursorTypes, RecordScan
<1> HIDE DEF ms
<1> QED BY <1>1, AdvanceTypes

\* What an event that the broker delivers does to the buffers.
LEMMA IngestTypes ==
    ASSUME Typed, NEW s \in 1 .. MaxSeq, NEW k, Ingest(s, k)
    PROVE  /\ BufferTypes' /\ batch' = batch /\ drainScheduled' \in BOOLEAN
           /\ error' \in {"none", "overflow", "projection"} /\ closed' \in BOOLEAN
           /\ overtaken' \in BOOLEAN /\ CursorTypes'
<1>1. CursorTypes'
  <2>1. UNCHANGED cursorVars \/ RecordScan(s, k)
    BY DEF Ingest
  <2>2. CASE UNCHANGED cursorVars
    BY <2>2 DEF cursorVars, Typed, CursorTypes
  <2>3. CASE RecordScan(s, k)
    BY <2>3, RecordTypes DEF Typed
  <2> QED BY <2>1, <2>2, <2>3
<1>2. BufferTypes /\ batch \in Seq(Items) /\ drainScheduled \in BOOLEAN /\ EndTypes
  BY DEF Typed, DrainTypes
<1>3. CASE UNCHANGED <<bufferVars, drainScheduled, error, closed, overtaken>>
  <2>1. UNCHANGED <<ingress, live, replay, pending, batch>>
    BY <1>3 DEF bufferVars
  <2>2. BufferTypes'
    BY <1>2, <2>1 DEF BufferTypes
  <2> QED BY <1>1, <1>2, <1>3, <2>1, <2>2 DEF EndTypes
<1>4. CASE /\ ~(closed \/ brokerClosed) /\ Matches(k) /\ pending < QueueSize
  <2>1. /\ ingress' = Append(ingress, <<s>>) /\ pending' = pending + 1
        /\ UNCHANGED <<live, replay, error, closed, overtaken, batch>>
        /\ drainScheduled' = TRUE
    BY <1>2, <1>4 DEF Ingest, BufferTypes
  <2>2. <<s>> \in Items
    BY ItemsAre
  <2> QED BY <1>1, <1>2, <2>1, <2>2, AppendProperties DEF BufferTypes, EndTypes
<1>5. CASE AtBound(s, k) /\ drainScheduled' = TRUE /\ batch' = batch
  <2>1. CASE /\ ingress # <<>> /\ ingress' = Fold(ingress, s)
             /\ UNCHANGED <<live, replay, pending, error, closed, overtaken>>
    <3>1. ingress' \in Seq(Items)
      BY <1>2, <2>1, FoldDoes DEF BufferTypes
    <3> QED BY <1>1, <1>2, <1>5, <2>1, <3>1 DEF BufferTypes, EndTypes
  <2>2. CASE /\ live # <<>> /\ live' = Fold(live, s)
             /\ overtaken' = (overtaken \/ batch # <<>>)
             /\ UNCHANGED <<ingress, replay, pending, error, closed>>
    <3>1. live' \in Seq(Items)
      BY <1>2, <2>2, FoldDoes DEF BufferTypes
    <3> QED BY <1>1, <1>2, <1>5, <2>2, <3>1 DEF BufferTypes, EndTypes
  <2>3. CASE Fail("overflow") /\ UNCHANGED overtaken
    <3>1. BufferTypes' /\ closed' = TRUE /\ error' \in {error, "overflow"}
      BY <2>3, EmptySeq DEF Fail, BufferTypes
    <3> QED BY <1>1, <1>2, <1>5, <2>3, <3>1 DEF EndTypes
  <2> QED BY <1>5, <2>1, <2>2, <2>3 DEF AtBound
<1>6. CASE closed \/ brokerClosed
  BY <1>3, <1>6 DEF Ingest
<1>7. CASE ~(closed \/ brokerClosed) /\ ~Matches(k)
  BY <1>3, <1>7 DEF Ingest
<1>8. CASE ~(closed \/ brokerClosed) /\ Matches(k)
  <2>1. pending \in Nat /\ QueueSize \in Nat
    BY <1>2 DEF BufferTypes
  <2>2. CASE pending < QueueSize
    BY <1>4, <1>8, <2>2
  <2>3. CASE pending >= QueueSize
    BY <1>5, <1>8, <2>3, Zenon DEF Ingest
  <2> QED BY <2>1, <2>2, <2>3
<1> QED BY <1>6, <1>7, <1>8

\* How the buffers, the lease and the ends go together: a stream that has ended
\* with an error holds nothing, a drain runs on an open stream only, and a stream
\* that is closed while the broker still calls it has its drain scheduled.
Shape ==
    /\ draining => phase = "open"
    /\ ~draining => batch = <<>>
    /\ phase = "idle" => ~subscribed /\ ingress = <<>>
    /\ phase # "opening" => captured = <<>> /\ todo = <<>>
    /\ phase # "open" => replay = <<>> /\ live = <<>>
    /\ closed /\ subscribed => error # "none" /\ drainScheduled
    /\ error # "none" => closed /\ ingress = <<>> /\ live = <<>> /\ replay = <<>>
    /\ phase = "opening" => consumer = "ready"
    /\ consumer = "error" /\ phase = "open" => raised /\ error # "none"
    /\ brokerClosed /\ ~closed => ended
    /\ consumer = "eof" /\ ~closed => ended /\ phase = "open"

\* What a step leaves alone keeps its type.
LEMMA FrameTypes ==
    ASSUME Typed
    PROVE  /\ UNCHANGED <<sourceVars, subscribed>> => SourceTypes'
           /\ UNCHANGED openVars => OpenTypes'
           /\ UNCHANGED <<ingress, live, replay, pending>> => BufferTypes'
           /\ UNCHANGED <<batch, drainVars>> => DrainTypes'
           /\ UNCHANGED <<endVars, overtaken>> => EndTypes'
           /\ UNCHANGED cursorVars => CursorTypes'
           /\ UNCHANGED consumerVars => ConsumerTypes'
<1>1. UNCHANGED <<sourceVars, subscribed>> => SourceTypes'
  BY DEF Typed, SourceTypes, sourceVars
<1>2. UNCHANGED openVars => OpenTypes'
  BY DEF Typed, OpenTypes, openVars
<1>3. UNCHANGED <<ingress, live, replay, pending>> => BufferTypes'
  BY DEF Typed, BufferTypes
<1>4. UNCHANGED <<batch, drainVars>> => DrainTypes'
  BY DEF Typed, DrainTypes, drainVars
<1>5. UNCHANGED <<endVars, overtaken>> => EndTypes'
  BY DEF Typed, EndTypes, endVars
<1>6. UNCHANGED cursorVars => CursorTypes'
  BY DEF Typed, CursorTypes, cursorVars
<1>7. UNCHANGED consumerVars => ConsumerTypes'
  BY DEF Typed, ConsumerTypes, consumerVars
<1> QED BY <1>1, <1>2, <1>3, <1>4, <1>5, <1>6, <1>7

\* Every step keeps the types.
LEMMA TypesStep ==
    ASSUME Typed, Shape, PendingExact, [Next]_vars
    PROVE  Typed'
<1> USE DEF sourceVars, openVars, bufferVars, drainVars, endVars, cursorVars, consumerVars
<1>0. /\ SourceTypes /\ OpenTypes /\ BufferTypes /\ DrainTypes /\ EndTypes
      /\ CursorTypes /\ ConsumerTypes /\ Len(log) \in Nat
  BY LenProperties DEF Typed, SourceTypes
<1>1. CASE UNCHANGED vars
  BY <1>0, <1>1 DEF vars, Typed, SourceTypes, OpenTypes, BufferTypes, DrainTypes, EndTypes,
                    CursorTypes, ConsumerTypes
<1>2. CASE Open
  <2>1. UNCHANGED <<log, ended, batch, draining, got, overtaken, cursor, opens>>
        \/ UNCHANGED <<log, ended, batch, draining, got, overtaken, cursor>>
    BY <1>2 DEF Open
  <2>2. opens' \in Nat /\ UNCHANGED <<log, ended, batch, draining, got, overtaken, cursor>>
    BY <1>0, <1>2 DEF Open, OpenTypes
  <2>3. CASE UNCHANGED <<phase, subscribed, after, todo, captured, ingress, live,
                         replay, pending, drainScheduled, available, endVars,
                         cursorVars, consumer>>
    BY <1>0, <2>2, <2>3 DEF Typed, SourceTypes, OpenTypes, BufferTypes, DrainTypes, EndTypes,
                    CursorTypes, ConsumerTypes
  <2>4. CASE phase' = "opening"
    <3>1. /\ subscribed' = TRUE /\ after' = cursor
          /\ todo' = [i \in 1 .. Len(log) - cursor |-> cursor + i]
          /\ ingress' = <<>> /\ live' = <<>> /\ replay' = <<>>
          /\ pending' = 0 /\ captured' = <<>>
          /\ drainScheduled' = FALSE /\ available' = FALSE
          /\ error' = "none" /\ raised' = FALSE
          /\ closed' = FALSE /\ brokerClosed' = FALSE
          /\ scanned' = cursor /\ matches' = {} /\ UNCHANGED cursor
          /\ consumer' = "ready"
      BY <1>2, <2>4 DEF Open
    <3>2. todo' \in Seq(1 .. MaxSeq)
      <4>1. \A i \in 1 .. Len(log) - cursor : cursor + i \in 1 .. MaxSeq
        BY <1>0 DEF SourceTypes, CursorTypes
      <4>2. CASE Len(log) - cursor \in Nat
        BY <3>1, <4>1, <4>2, IsASeq
      <4>3. CASE ~(Len(log) - cursor \in Nat)
        <5>1. 1 .. Len(log) - cursor = 1 .. 0
          BY <1>0, <4>3 DEF CursorTypes
        <5>2. todo' = [i \in 1 .. 0 |-> cursor + i]
          BY <3>1, <5>1
        <5>3. \A i \in 1 .. 0 : cursor + i \in 1 .. MaxSeq
          OBVIOUS
        <5> QED BY <5>2, <5>3, IsASeq
      <4> QED BY <4>2, <4>3
    <3> QED BY <1>0, <2>2, <2>4, <3>1, <3>2, EmptySeq
            DEF Typed, SourceTypes, OpenTypes, BufferTypes, DrainTypes, EndTypes,
                CursorTypes, ConsumerTypes
  <2> QED BY <1>2, <2>3, <2>4 DEF Open
<1>3. CASE Project
  <2> DEFINE s == Head(todo)
  <2>1. s \in 1 .. MaxSeq /\ Tail(todo) \in Seq(1 .. MaxSeq)
    BY <1>0, <1>3, HeadTailProperties DEF Project, OpenTypes
  <2>2. UNCHANGED <<sourceVars, opens, after, batch, raised, drainVars, consumerVars, overtaken>>
    BY <1>3 DEF Project
  <2> HIDE DEF s
  <2>3. CASE /\ RecordScan(s, log[s])
             /\ todo' = Tail(todo)
             /\ captured' = IF Matches(log[s]) THEN Append(captured, <<s>>) ELSE captured
             /\ UNCHANGED <<phase, ingress, live, replay, pending, error, closed,
                            brokerClosed, subscribed>>
    <3>1. captured' \in Seq(Items)
      <4>1. <<s>> \in Items
        BY <2>1, ItemsAre
      <4> QED BY <1>0, <2>3, <4>1, AppendProperties DEF OpenTypes
    <3>2. CursorTypes'
      BY <1>0, <2>1, <2>3, RecordTypes
    <3> QED BY <1>0, <2>1, <2>2, <2>3, <3>1, <3>2
            DEF Typed, SourceTypes, OpenTypes, BufferTypes, DrainTypes, EndTypes, ConsumerTypes
  <2>4. CASE /\ subscribed' = FALSE /\ todo' = <<>> /\ captured' = <<>>
             /\ \/ Quit /\ EnterFails
                \/ Fail("projection") /\ EnterFails /\ UNCHANGED brokerClosed
                \/ /\ RecordScan(s, log[s])
                   /\ UNCHANGED <<phase, ingress, live, replay, pending, error,
                                  closed, brokerClosed>>
    <3>1. CursorTypes' /\ phase' \in {"idle", "opening", "open"}
      <4>1. CASE EnterFails
        BY <1>0, <4>1 DEF EnterFails, CursorTypes, OpenTypes
      <4>2. CASE RecordScan(s, log[s]) /\ UNCHANGED phase
        BY <1>0, <2>1, <4>2, RecordTypes DEF OpenTypes
      <4> QED BY <2>4, <4>1, <4>2
    <3>2. \/ /\ ingress' = <<>> /\ live' = <<>> /\ replay' = <<>> /\ pending' = 0
             /\ closed' = TRUE /\ error' \in {error, "projection"}
             /\ brokerClosed' \in {brokerClosed, TRUE}
          \/ UNCHANGED <<ingress, live, replay, pending, error, closed, brokerClosed>>
      BY <2>4, Zenon DEF Quit, Fail
    <3>3. BufferTypes'
      <4>1. <<>> \in Seq(Items) /\ 0 \in Nat
        BY EmptySeq
      <4> QED BY <1>0, <3>2, <4>1, Zenon DEF BufferTypes
    <3>4. EndTypes'
      BY <1>0, <2>2, <3>2 DEF EndTypes
    <3>5. OpenTypes' /\ SourceTypes'
      BY <1>0, <2>2, <2>4, <3>1, EmptySeq DEF OpenTypes, SourceTypes
    <3> QED BY <1>0, <2>2, <2>4, <3>1, <3>3, <3>4, <3>5, FrameTypes DEF Typed
  <2> QED BY <1>3, <2>3, <2>4, Zenon DEF Project, s
<1>4. CASE Opened
  <2>1. OpenTypes' /\ replay' \in Seq(Items) /\ UNCHANGED <<ingress, live, pending>>
    BY <1>0, <1>4, EmptySeq DEF Opened, OpenTypes
  <2>2. BufferTypes'
    BY <1>0, <2>1 DEF BufferTypes
  <2> QED BY <1>4, <2>1, <2>2, FrameTypes DEF Opened, Typed
<1>5. ASSUME NEW k \in EventKinds, Emit(k) PROVE Typed'
  <2>1. /\ log' = Append(log, k) /\ Len(log) < MaxSeq
        /\ UNCHANGED <<ended, subscribed, openVars, draining, available, raised,
                       brokerClosed, consumerVars>>
    BY <1>5 DEF Emit
  <2>2. SourceTypes'
    BY <1>0, <2>1, AppendProperties DEF SourceTypes
  <2>3. /\ BufferTypes' /\ batch' = batch /\ drainScheduled' \in BOOLEAN
        /\ error' \in {"none", "overflow", "projection"} /\ closed' \in BOOLEAN
        /\ overtaken' \in BOOLEAN /\ CursorTypes'
    <3>1. CASE subscribed
      <4>1. Len(log) + 1 \in 1 .. MaxSeq
        BY <1>0, <2>1
      <4>2. Ingest(Len(log) + 1, k)
        BY <1>5, <3>1 DEF Emit
      <4> QED BY <4>1, <4>2, IngestTypes
    <3>2. CASE ~subscribed
      BY <1>0, <1>5, <3>2 DEF Emit, BufferTypes, DrainTypes, EndTypes, CursorTypes
    <3> QED BY <3>1, <3>2
  <2>4. DrainTypes' /\ EndTypes'
    BY <1>0, <2>1, <2>3 DEF DrainTypes, EndTypes
  <2> QED BY <2>1, <2>2, <2>3, <2>4, FrameTypes DEF Typed
<1>6. CASE BrokerClose
  <2>1. SourceTypes'
    BY <1>0, <1>6 DEF BrokerClose, SourceTypes
  <2>2. brokerClosed' \in BOOLEAN /\ drainScheduled' \in BOOLEAN
    BY <1>0, <1>6 DEF BrokerClose, EndTypes, DrainTypes
  <2>3. UNCHANGED <<batch, draining, available, error, raised, closed, overtaken>>
    BY <1>6 DEF BrokerClose
  <2>4. EndTypes' /\ DrainTypes'
    BY <1>0, <2>2, <2>3 DEF EndTypes, DrainTypes
  <2> QED BY <1>6, <2>1, <2>4, FrameTypes DEF BrokerClose, Typed
<1>7. CASE DrainTake
  <2>1. subscribed' \in BOOLEAN /\ UNCHANGED sourceVars
    BY <1>0, <1>7 DEF DrainTake, SourceTypes
  <2>2. SourceTypes'
    BY <1>0, <2>1 DEF SourceTypes
  <2>3. batch' \in Seq(Items) /\ draining' \in BOOLEAN /\ drainScheduled' = FALSE
        /\ available' \in BOOLEAN
    BY <1>0, <1>7 DEF DrainTake, DrainTypes, BufferTypes
  <2>4. DrainTypes'
    BY <2>3 DEF DrainTypes
  <2>5. BufferTypes'
    <3>1. <<>> \in Seq(Items) /\ 0 \in Nat
      BY EmptySeq
    <3>2. /\ ingress' \in {ingress, <<>>} /\ live' \in {live, <<>>} /\ replay' \in {replay, <<>>}
          /\ pending' \in {pending, 0}
      BY <1>7 DEF DrainTake
    <3> QED BY <1>0, <3>1, <3>2, Zenon DEF BufferTypes
  <2> QED BY <1>7, <2>2, <2>4, <2>5, FrameTypes DEF DrainTake, Typed
<1>8. CASE DrainCommit
  <2>1. live \o batch \in Seq(Items)
    BY <1>0, ConcatProperties DEF BufferTypes, DrainTypes
  <2>0. <<>> \in Seq(Items) /\ 0 \in Nat
    BY EmptySeq
  <2>2. \/ /\ live' \in {live, live \o batch} /\ UNCHANGED <<ingress, replay, pending>>
           /\ UNCHANGED <<error, closed, brokerClosed>>
        \/ /\ ingress' = <<>> /\ live' = <<>> /\ replay' = <<>> /\ pending' = 0
           /\ closed' = TRUE /\ error' \in {error, "projection"}
           /\ brokerClosed' \in {brokerClosed, TRUE}
    BY <1>8 DEF DrainCommit, Fail, Quit
  <2>3. BufferTypes'
    BY <1>0, <2>0, <2>1, <2>2, Zenon DEF BufferTypes
  <2>4. EndTypes'
    BY <1>0, <1>8, <2>2 DEF DrainCommit, EndTypes
  <2>5. subscribed' \in BOOLEAN /\ UNCHANGED sourceVars
    BY <1>0, <1>8 DEF DrainCommit, SourceTypes
  <2>6. SourceTypes'
    BY <1>0, <2>5 DEF SourceTypes
  <2>7. DrainTypes'
    BY <1>0, <1>8, EmptySeq DEF DrainCommit, DrainTypes
  <2> QED BY <1>8, <2>3, <2>4, <2>6, <2>7, FrameTypes DEF DrainCommit, Typed
<1>9. CASE Anext
  <2>1. UNCHANGED <<sourceVars, openVars, ingress, batch, draining,
                    drainScheduled, error, closed, brokerClosed, overtaken>>
    BY <1>9 DEF Anext
  <2>2. CASE RaiseError
    <3>1. SourceTypes' /\ EndTypes' /\ ConsumerTypes'
      BY <1>0, <2>1, <2>2 DEF RaiseError, SourceTypes, EndTypes, ConsumerTypes
    <3> QED BY <2>1, <2>2, <3>1, FrameTypes DEF RaiseError, Typed
  <2>3. CASE EndOrWait
    <3>1. DrainTypes' /\ ConsumerTypes'
      BY <1>0, <2>1, <2>3 DEF EndOrWait, DrainTypes, ConsumerTypes
    <3> QED BY <2>1, <2>3, <3>1, FrameTypes DEF EndOrWait, Typed
  <2>4. CASE Deliver
    <3>1. \E b \in {replay, live} : b # <<>> /\ got' = got \o Head(b) /\ MarkDelivered(Last(Head(b)))
      BY <2>4, Zenon DEF Deliver
    <3>2. PICK b \in Seq(Items) : b # <<>> /\ got' = got \o Head(b) /\ MarkDelivered(Last(Head(b)))
      BY <1>0, <3>1 DEF BufferTypes
    <3> DEFINE item == Head(b)
               s == Last(item)
    <3>3. item \in Seq(1 .. MaxSeq) /\ s \in 1 .. MaxSeq
      <4>1. item \in Items
        BY <3>2, HeadTailProperties
      <4> HIDE DEF item
      <4> QED BY <4>1, ItemsAre
    <3>4. CursorTypes'
      <4> DEFINE ms == {m \in matches : m > s}
      <4>1. ms \in SUBSET (1 .. MaxSeq) /\ Advance(s, ms)
        BY <1>0, <3>2 DEF MarkDelivered, CursorTypes
      <4> HIDE DEF ms, s
      <4> QED BY <1>0, <3>3, <4>1, AdvanceTypes
    <3>5. got' \in Seq(1 .. MaxSeq) /\ consumer' = "ready"
      BY <1>0, <2>4, <3>2, <3>3, ConcatProperties DEF Deliver, ConsumerTypes
    <3>6. BufferTypes'
      <4>1. ingress' = ingress /\ replay' \in Seq(Items) /\ live' \in Seq(Items)
        BY <1>0, <2>1, <2>4, HeadTailProperties DEF Deliver, BufferTypes
      <4>2. pending' \in Nat
        <5>1. CASE pending' = pending
          BY <1>0, <5>1 DEF BufferTypes
        <5>2. CASE live # <<>> /\ pending' = pending - 1
          <6>1. pending = Len(ingress) + Len(batch) + Len(live)
            BY <5>2 DEF Shape, PendingExact
          <6>2. Len(ingress) \in Nat /\ Len(batch) \in Nat /\ Len(live) \in Nat /\ Len(live) # 0
            BY <1>0, <5>2, LenProperties, EmptySeq DEF BufferTypes, DrainTypes
          <6> QED BY <5>2, <6>1, <6>2
        <5> QED BY <2>4, <5>1, <5>2 DEF Deliver
      <4> QED BY <1>0, <4>1, <4>2 DEF BufferTypes
    <3> QED BY <2>1, <2>4, <3>4, <3>5, <3>6, FrameTypes DEF Deliver, Typed, ConsumerTypes
  <2> QED BY <1>9, <2>2, <2>3, <2>4 DEF Anext
<1>10. CASE Close
  <2>1. subscribed' = FALSE /\ closed' = TRUE /\ drainScheduled' = TRUE
        /\ consumer' \in {"ready", consumer}
        /\ UNCHANGED <<sourceVars, openVars, bufferVars, draining, available, error,
                       raised, brokerClosed, cursorVars, got, overtaken>>
    BY <1>10 DEF Close
  <2>2. SourceTypes' /\ DrainTypes' /\ EndTypes' /\ ConsumerTypes'
    BY <1>0, <2>1 DEF SourceTypes, DrainTypes, EndTypes, ConsumerTypes
  <2> QED BY <2>1, <2>2, FrameTypes DEF Typed
<1>11. CASE Leave
  <2>1. OpenTypes'
    BY <1>0, <1>11 DEF Leave, OpenTypes
  <2>2. BufferTypes'
    BY <1>11, EmptySeq DEF Leave, BufferTypes
  <2> QED BY <1>11, <2>1, <2>2, FrameTypes DEF Leave, Typed
<1> QED
  BY <1>1, <1>2, <1>3, <1>4, <1>5, <1>6, <1>7, <1>8, <1>9, <1>10, <1>11 DEF Next
-----------------------------------------------------------------------------
(* The shape of a stream, and its counter.                                 *)

\* How a matching event finds its place: behind the others, in the text of the
\* newest one, or nowhere.
Takes(s) ==
    \/ /\ pending < QueueSize
       /\ ingress' = Append(ingress, <<s>>) /\ pending' = pending + 1
       /\ UNCHANGED <<live, replay, error, closed, overtaken>>
    \/ /\ ingress # <<>> /\ ingress' = Fold(ingress, s)
       /\ UNCHANGED <<live, replay, pending, error, closed, overtaken>>
    \/ /\ ingress = <<>> /\ live # <<>> /\ live' = Fold(live, s)
       /\ overtaken' = (overtaken \/ batch # <<>>)
       /\ UNCHANGED <<ingress, replay, pending, error, closed>>
    \/ Fail("overflow") /\ UNCHANGED overtaken

\* The cases of _ingest: not wanted, filtered, or taken.
LEMMA IngestIs ==
    ASSUME pending \in Nat, NEW s, NEW k, Ingest(s, k)
    PROVE  \/ /\ closed \/ brokerClosed
              /\ UNCHANGED <<bufferVars, drainScheduled, error, closed, overtaken, cursorVars>>
           \/ /\ ~closed /\ ~brokerClosed /\ ~Matches(k) /\ RecordScan(s, k)
              /\ UNCHANGED <<bufferVars, drainScheduled, error, closed, overtaken>>
           \/ /\ ~closed /\ ~brokerClosed /\ Matches(k) /\ RecordScan(s, k)
              /\ drainScheduled' = TRUE /\ batch' = batch /\ Takes(s)
<1>1. CASE closed \/ brokerClosed
  BY <1>1 DEF Ingest
<1>2. CASE ~(closed \/ brokerClosed) /\ ~Matches(k)
  BY <1>2 DEF Ingest
<1>3. CASE ~(closed \/ brokerClosed) /\ Matches(k)
  <2>1. RecordScan(s, k) /\ drainScheduled' = TRUE /\ batch' = batch
    BY <1>3, Zenon DEF Ingest
  <2>2. CASE pending < QueueSize
    <3>1. ~(pending >= QueueSize)
      BY <2>2
    <3> QED BY <1>3, <2>1, <2>2, <3>1, Zenon DEF Ingest, Takes
  <2>3. CASE pending >= QueueSize
    BY <1>3, <2>1, <2>3, Zenon DEF Ingest, AtBound, Takes
  <2>4. pending < QueueSize \/ pending >= QueueSize
    OBVIOUS
  <2> QED BY <2>2, <2>3, <2>4, Zenon
<1> QED BY <1>1, <1>2, <1>3

\* The lengths of the buffers.
LEMMA BufferLengths ==
    ASSUME Typed
    PROVE  /\ Len(ingress) \in Nat /\ Len(batch) \in Nat /\ Len(live) \in Nat /\ pending \in Nat
           /\ Len(<<>>) = 0 /\ QueueSize \in Nat \ {0}
           /\ \A s : Len(Append(ingress, <<s>>)) = Len(ingress) + 1
           /\ Len(live \o batch) = Len(live) + Len(batch)
           /\ live # <<>> => Len(Tail(live)) = Len(live) - 1 /\ Len(live) # 0
BY LenProperties, EmptySeq DEF Typed, BufferTypes, DrainTypes

\* Every step keeps the shape and the counter.
LEMMA ShapeStep ==
    ASSUME Typed, Shape, PendingExact, [Next]_vars
    PROVE  Shape' /\ PendingExact'
<1> USE DEF sourceVars, openVars, bufferVars, drainVars, endVars, cursorVars, consumerVars
<1>1. CASE UNCHANGED vars
  BY <1>1 DEF vars, Shape, PendingExact
<1>2. CASE Open
  <2>1. CASE phase' = "opening"
    <3>1. /\ batch' = <<>> /\ ingress' = <<>> /\ live' = <<>> /\ replay' = <<>> /\ pending' = 0
          /\ error' = "none" /\ closed' = FALSE /\ brokerClosed' = FALSE /\ consumer' = "ready"
          /\ draining' = FALSE
      BY <1>2, <2>1 DEF Open, Shape, Typed, DrainTypes
    <3> QED BY <2>1, <3>1, BufferLengths DEF Shape, PendingExact
  <2>2. CASE UNCHANGED <<phase, subscribed, after, todo, captured, ingress, live,
                         replay, pending, drainScheduled, available, endVars,
                         cursorVars, consumer>>
    BY <1>2, <2>2 DEF Open, Shape, PendingExact
  <2> QED BY <1>2, <2>1, <2>2 DEF Open
<1>3. CASE Project
  <2>1. /\ UNCHANGED <<log, ended, batch, raised, drainVars, consumerVars, overtaken>>
        /\ phase = "opening"
    BY <1>3 DEF Project
  <2>2. CASE UNCHANGED <<phase, ingress, live, replay, pending, error, closed,
                         brokerClosed, subscribed>>
    BY <2>1, <2>2 DEF Shape, PendingExact
  <2>3. CASE /\ subscribed' = FALSE /\ todo' = <<>> /\ captured' = <<>>
             /\ UNCHANGED <<phase, ingress, live, replay, pending, error, closed, brokerClosed>>
    BY <2>1, <2>3 DEF Shape, PendingExact
  <2>4. CASE /\ subscribed' = FALSE /\ todo' = <<>> /\ captured' = <<>>
             /\ phase' = "idle" /\ closed' = TRUE
             /\ ingress' = <<>> /\ live' = <<>> /\ replay' = <<>> /\ pending' = 0
    BY <2>1, <2>4, BufferLengths DEF Shape, PendingExact
  <2> QED BY <1>3, <2>2, <2>3, <2>4, Zenon DEF Project, Quit, Fail, EnterFails
<1>4. CASE Opened
  <2>1. /\ phase = "opening" /\ phase' = "open" /\ todo' = todo /\ todo = <<>> /\ captured' = <<>>
        /\ (closed \/ error # "none" => replay' = <<>>)
        /\ UNCHANGED <<subscribed, ended, ingress, live, pending, batch, drainVars, endVars,
                       consumerVars>>
    BY <1>4 DEF Opened
  <2> QED BY <2>1 DEF Shape, PendingExact
<1>5. ASSUME NEW k \in EventKinds, Emit(k) PROVE Shape' /\ PendingExact'
  <2>1. UNCHANGED <<ended, subscribed, openVars, draining, available, raised,
                    brokerClosed, consumerVars>> /\ ~ended
    BY <1>5 DEF Emit
  <2>2. CASE ~subscribed
    BY <1>5, <2>1, <2>2 DEF Emit, Shape, PendingExact
  <2>3. CASE subscribed
    <3> DEFINE s == Len(log) + 1
    <3>1. Ingest(s, k)
      BY <1>5, <2>3 DEF Emit
    <3> HIDE DEF s
    <3>2. CASE UNCHANGED <<bufferVars, drainScheduled, error, closed, overtaken>>
      BY <2>1, <3>2 DEF Shape, PendingExact
    <3>3. CASE /\ ~closed /\ drainScheduled' = TRUE /\ batch' = batch /\ Takes(s)
      <4>1. error = "none" /\ phase # "idle"
        BY <2>3, <3>3 DEF Shape, Typed, EndTypes
      <4>2. CASE Fail("overflow")
        <5>1. error' # "none" /\ closed' = TRUE
              /\ ingress' = <<>> /\ live' = <<>> /\ replay' = <<>> /\ pending' = 0
          BY <4>1, <4>2 DEF Fail
        <5> QED BY <2>1, <3>3, <4>1, <5>1 DEF Shape, PendingExact
      <4>3. CASE /\ pending < QueueSize
                 /\ ingress' = Append(ingress, <<s>>) /\ pending' = pending + 1
                 /\ UNCHANGED <<live, replay, error, closed>>
        <5>1. Len(ingress') = Len(ingress) + 1
          BY <4>3, BufferLengths
        <5>2. PendingExact'
          BY <3>3, <4>1, <4>3, <5>1, BufferLengths DEF PendingExact
        <5>3. Shape'
          BY <2>1, <3>3, <4>1, <4>3 DEF Shape
        <5> QED BY <5>2, <5>3
      <4>4. CASE /\ ingress # <<>> /\ ingress' = Fold(ingress, s)
                 /\ UNCHANGED <<live, replay, pending, error, closed>>
        <5>1. Len(ingress') = Len(ingress)
          BY <4>4 DEF Fold, Typed, BufferTypes
        <5>2. PendingExact'
          BY <3>3, <4>4, <5>1 DEF PendingExact
        <5>3. Shape'
          BY <2>1, <3>3, <4>1, <4>4 DEF Shape
        <5> QED BY <5>2, <5>3
      <4>5. CASE /\ live # <<>> /\ live' = Fold(live, s)
                 /\ UNCHANGED <<ingress, replay, pending, error, closed>>
        <5>1. Len(live') = Len(live)
          BY <4>5 DEF Fold, Typed, BufferTypes
        <5>2. PendingExact'
          BY <3>3, <4>5, <5>1 DEF PendingExact
        <5>3. Shape'
          BY <2>1, <3>3, <4>1, <4>5 DEF Shape
        <5> QED BY <5>2, <5>3
      <4> QED BY <3>3, <4>2, <4>3, <4>4, <4>5 DEF Takes
    <3>4. pending \in Nat
      BY BufferLengths
    <3> QED BY <3>1, <3>2, <3>3, <3>4, IngestIs
  <2> QED BY <2>2, <2>3
<1>6. CASE BrokerClose
  BY <1>6 DEF BrokerClose, Shape, PendingExact
<1>7. CASE DrainTake
  <2>1. /\ LoopFree /\ drainScheduled' = FALSE
        /\ UNCHANGED <<sourceVars, openVars, endVars, cursorVars, consumerVars, overtaken>>
    BY <1>7 DEF DrainTake
  <2>2. phase # "opening" /\ ~draining /\ batch = <<>>
    BY <2>1 DEF LoopFree, Shape
  <2>3. CASE error = "none" /\ ingress # <<>>
    <3>1. /\ batch' = ingress /\ ingress' = <<>> /\ draining' = TRUE
          /\ UNCHANGED <<live, replay, pending, subscribed, available>>
      BY <1>7, <2>3 DEF DrainTake
    <3>2. Shape'
      BY <2>1, <2>2, <2>3, <3>1 DEF Shape, Typed, OpenTypes
    <3>3. PendingExact'
      BY <2>1, <2>2, <3>1, BufferLengths DEF PendingExact
    <3> QED BY <3>2, <3>3
  <2>4. CASE error # "none"
    <3>1. /\ ingress' = <<>> /\ live' = <<>> /\ replay' = <<>>
          /\ pending' = 0 /\ subscribed' = FALSE /\ UNCHANGED <<batch, draining>>
      BY <1>7, <2>4 DEF DrainTake
    <3> QED BY <2>1, <2>4, <3>1 DEF Shape, PendingExact
  <2>5. CASE error = "none" /\ ingress = <<>>
    <3>1. UNCHANGED <<ingress, live, replay, pending, subscribed, batch, draining>>
      BY <1>7, <2>5 DEF DrainTake
    <3> QED BY <2>1, <2>5, <3>1 DEF Shape, PendingExact
  <2> QED BY <2>3, <2>4, <2>5
<1>8. CASE DrainCommit
  <2>1. /\ draining' = FALSE /\ batch' = <<>> /\ phase = "open"
        /\ UNCHANGED <<sourceVars, openVars, drainScheduled, raised, consumerVars>>
    BY <1>8 DEF DrainCommit, Shape
  <2>2. CASE /\ subscribed' = FALSE /\ closed' = TRUE
             /\ ingress' = <<>> /\ live' = <<>> /\ replay' = <<>> /\ pending' = 0
             /\ error # "none" => error' # "none"
    BY <2>1, <2>2, BufferLengths DEF Shape, PendingExact
  <2>3. CASE /\ live' = IF error = "none" THEN live \o batch ELSE live
             /\ subscribed' = (subscribed /\ error = "none")
             /\ UNCHANGED <<ingress, replay, pending, error, closed, brokerClosed>>
    <3>1. CASE error = "none"
      <4>1. Len(live') = Len(live) + Len(batch) /\ Len(batch') = 0
        BY <2>1, <2>3, <3>1, BufferLengths
      <4>2. PendingExact'
        BY <2>3, <3>1, <4>1, BufferLengths DEF PendingExact
      <4>3. Shape'
        BY <2>1, <2>3, <3>1 DEF Shape
      <4> QED BY <4>2, <4>3
    <3>2. CASE error # "none"
      BY <2>1, <2>3, <3>2 DEF Shape, PendingExact
    <3> QED BY <3>1, <3>2
  <2>4. CASE \E i \in DOMAIN batch : log[Last(batch[i])] = "bad"
    BY <1>8, <2>2, <2>4 DEF DrainCommit, Fail, Quit
  <2>5. CASE ~(\E i \in DOMAIN batch : log[Last(batch[i])] = "bad")
    BY <1>8, <2>3, <2>5, Zenon DEF DrainCommit
  <2> QED BY <2>4, <2>5
<1>9. CASE Anext
  <2>1. UNCHANGED <<sourceVars, openVars, ingress, batch, draining,
                    drainScheduled, error, closed, brokerClosed, overtaken>> /\ phase = "open"
    BY <1>9 DEF Anext
  <2>2. CASE RaiseError
    BY <2>1, <2>2 DEF RaiseError, Shape, PendingExact
  <2>3. CASE EndOrWait
    <3>1. consumer' = "eof" /\ ~closed => ended
      BY <2>3 DEF EndOrWait, Terminated, Shape
    <3>2. consumer' \in {"eof", "waiting"} /\ UNCHANGED <<raised, subscribed, live, replay, pending>>
      BY <2>3 DEF EndOrWait
    <3> QED BY <2>1, <3>1, <3>2 DEF Shape, PendingExact
  <2>4. CASE Deliver
    <3>1. error = "none" /\ consumer' = "ready" /\ UNCHANGED <<raised, subscribed>>
      BY <2>4 DEF Deliver, Shape
    <3>2. CASE UNCHANGED <<live, pending>>
      BY <2>1, <3>1, <3>2 DEF Shape, PendingExact
    <3>3. CASE live # <<>> /\ live' = Tail(live) /\ pending' = pending - 1 /\ UNCHANGED replay
      <4>1. Len(live') = Len(live) - 1
        BY <3>3, BufferLengths
      <4>2. PendingExact'
        BY <2>1, <3>1, <3>3, <4>1, BufferLengths DEF PendingExact
      <4>3. Shape'
        BY <2>1, <3>1, <3>3 DEF Shape
      <4> QED BY <4>2, <4>3
    <3> QED BY <2>4, <3>2, <3>3, Zenon DEF Deliver
  <2> QED BY <1>9, <2>2, <2>3, <2>4 DEF Anext
<1>10. CASE Close
  BY <1>10 DEF Close, Shape, PendingExact
<1>11. CASE Leave
  <2>1. ~subscribed
    BY <1>11 DEF Leave, Shape
  <2> QED BY <1>11, <2>1, BufferLengths DEF Leave, Shape, PendingExact
<1> QED
  BY <1>1, <1>2, <1>3, <1>4, <1>5, <1>6, <1>7, <1>8, <1>9, <1>10, <1>11 DEF Next
\* The first three facts of a stream.
LEMMA ShapeInit == Init => Typed /\ Shape /\ PendingExact
<1> SUFFICES ASSUME Init PROVE Typed /\ Shape /\ PendingExact
  OBVIOUS
<1>1. /\ log = <<>> /\ ended = FALSE /\ subscribed = FALSE
      /\ phase = "idle" /\ after = 0 /\ todo = <<>> /\ captured = <<>> /\ opens = 0
      /\ ingress = <<>> /\ live = <<>> /\ replay = <<>> /\ pending = 0 /\ batch = <<>>
      /\ draining = FALSE /\ drainScheduled = FALSE /\ available = FALSE
      /\ error = "none" /\ raised = FALSE /\ closed = FALSE /\ brokerClosed = FALSE
      /\ cursor = 0 /\ scanned = 0 /\ matches = {}
      /\ consumer = "ready" /\ got = <<>> /\ overtaken = FALSE
  BY DEF Init
<1>2. /\ <<>> \in Seq(EventKinds) /\ <<>> \in Seq(1 .. MaxSeq) /\ <<>> \in Seq(Items)
      /\ Len(<<>>) = 0
  BY EmptySeq
<1>3. SourceTypes /\ OpenTypes
  <2>1. Len(log) <= MaxSeq
    BY <1>1, <1>2
  <2>2. SourceTypes
    BY <1>1, <1>2, <2>1 DEF SourceTypes
  <2>3. OpenTypes
    BY <1>1, <1>2 DEF OpenTypes
  <2> QED BY <2>2, <2>3
<1>4. BufferTypes /\ DrainTypes
  BY <1>1, <1>2 DEF BufferTypes, DrainTypes
<1>5. EndTypes /\ CursorTypes /\ ConsumerTypes
  BY <1>1, <1>2 DEF EndTypes, CursorTypes, ConsumerTypes
<1>6. Shape
  BY <1>1 DEF Shape
<1>7. PendingExact
  BY <1>1, <1>2 DEF PendingExact
<1> QED BY <1>3, <1>4, <1>5, <1>6, <1>7 DEF Typed

\* The types, the shape and the counter hold throughout.
LEMMA ShapeInvariant == Spec => [](Typed /\ Shape /\ PendingExact)
BY ShapeInit, TypesStep, ShapeStep, PTL DEF Spec

\* Every field of the stream keeps its type; what the buffers hold are items that
\* carry at least one event.
THEOREM TypesHold == Spec => []TypeOK
<1>1. Seq(Items) \subseteq Seq(Seq(1 .. MaxSeq))
  <2>1. Items \subseteq Seq(1 .. MaxSeq)
    BY DEF Items
  <2> QED BY <2>1, SeqMonotonic
<1>2. Typed => TypeOK
  <2> SUFFICES ASSUME Typed PROVE TypeOK
    OBVIOUS
  <2>1. /\ log \in Seq(EventKinds)
        /\ {ended, subscribed, draining, drainScheduled, available, raised, closed,
            brokerClosed, overtaken} \subseteq BOOLEAN
    BY DEF Typed, SourceTypes, DrainTypes, EndTypes
  <2>2. /\ phase \in {"idle", "opening", "open"} /\ {todo, got} \subseteq Seq(1 .. MaxSeq)
        /\ consumer \in {"ready", "waiting", "error", "eof"}
    BY DEF Typed, OpenTypes, ConsumerTypes
  <2>3. {after, pending, cursor, scanned, opens} \subseteq Nat
    BY DEF Typed, OpenTypes, BufferTypes, CursorTypes
  <2>4. {captured, ingress, live, replay, batch} \subseteq Seq(Seq(1 .. MaxSeq))
    BY <1>1 DEF Typed, OpenTypes, BufferTypes, DrainTypes
  <2>5. error \in {"none", "overflow", "projection"} /\ matches \subseteq 1 .. MaxSeq
    BY DEF Typed, EndTypes, CursorTypes
  <2> QED BY <2>1, <2>2, <2>3, <2>4, <2>5 DEF TypeOK
<1> QED BY <1>2, ShapeInvariant, PTL

\* The pending counter is the number of events that are accepted and not taken, in
\* whichever buffer they are, and the stream never holds more than its bound: a
\* drain that detaches a batch and an overflow in between do not upset it.
THEOREM PendingIsExact == Spec => []PendingExact
BY ShapeInvariant, PTL

\* An error is the last thing that a stream has to say: whatever the broker and
\* the drain do after it, the iterator gives out no event.
THEOREM ErrorsEndTheStream == Spec => ErrorThenEof
<1> DEFINE A == consumer = "error" /\ phase = "open" =>
                  consumer' \in {"error", "waiting", "eof"} /\ got' = got
<1>1. ASSUME Typed, Shape, [Next]_vars PROVE A
  <2> USE DEF sourceVars, openVars, bufferVars, drainVars, endVars, cursorVars, consumerVars
  <2> SUFFICES ASSUME consumer = "error", phase = "open"
               PROVE  consumer' \in {"error", "waiting", "eof"} /\ got' = got
    OBVIOUS
  <2>1. raised /\ error # "none" /\ live = <<>> /\ replay = <<>>
    BY <1>1 DEF Shape
  <2>2. CASE UNCHANGED <<consumer, got>>
    BY <2>2
  <2>3. CASE Anext
    <3>1. ~RaiseError /\ ~Deliver
      BY <2>1 DEF RaiseError, Deliver
    <3>2. EndOrWait
      BY <2>3, <3>1 DEF Anext
    <3> QED BY <3>2 DEF EndOrWait
  <2>4. CASE Close
    BY <2>4 DEF Close
  <2>5. ~Open
    BY DEF Open
  <2> QED BY <1>1, <2>2, <2>3, <2>4, <2>5, Zenon
          DEF Next, vars, Project, Opened, Emit, BrokerClose, DrainTake, DrainCommit, Leave
<1> QED BY <1>1, ShapeInvariant, PTL DEF Spec, ErrorThenEof
-----------------------------------------------------------------------------
(* What the buffers carry, and in which order.                             *)

Carried(b) == UNION {Range(b[j]) : j \in DOMAIN b}

Before(A, B) == \A x \in A, y \in B : x < y

Sorted(b) ==
    /\ \A j \in DOMAIN b : Increasing(b[j])
    /\ \A j, k \in DOMAIN b : j < k => Before(Range(b[j]), Range(b[k]))

\* An empty buffer carries nothing.
LEMMA CarriedNone == Carried(<<>>) = {} /\ Sorted(<<>>)
BY DEF Carried, Sorted

\* What is carried is carried by an item.
LEMMA CarriedBy ==
    ASSUME NEW b \in Seq(Items)
    PROVE  /\ Len(b) \in Nat /\ DOMAIN b = 1 .. Len(b)
           /\ \A j \in DOMAIN b : b[j] \in Items /\ Range(b[j]) \subseteq Carried(b)
           /\ \A x \in Carried(b) : \E j \in DOMAIN b : x \in Range(b[j])
           /\ Carried(b) \subseteq 1 .. MaxSeq
<1>1. Len(b) \in Nat /\ DOMAIN b = 1 .. Len(b) /\ \A j \in DOMAIN b : b[j] \in Items
  BY LenProperties, ElementOfSeq
<1>2. \A j \in DOMAIN b : Range(b[j]) \subseteq Carried(b)
  BY DEF Carried
<1>3. \A x \in Carried(b) : \E j \in DOMAIN b : x \in Range(b[j])
  BY DEF Carried
<1>4. \A q \in Items : Range(q) \subseteq 1 .. MaxSeq
  BY ItemsAre, ElementOfSeq DEF Range
<1> QED BY <1>1, <1>2, <1>3, <1>4

\* The last event of an item is its greatest.
LEMMA LastIsGreatest ==
    ASSUME NEW q \in Items, Increasing(q)
    PROVE  Last(q) \in Range(q) /\ Range(q) \subseteq Nat /\ \A x \in Range(q) : x <= Last(q)
<1>1. /\ Len(q) \in DOMAIN q /\ Len(q) \in Nat /\ DOMAIN q = 1 .. Len(q)
      /\ Last(q) = q[Len(q)] /\ q \in Seq(1 .. MaxSeq)
  BY ItemsAre
<1>2. \A j \in DOMAIN q : q[j] \in Nat
  BY <1>1, ElementOfSeq
<1>3. ASSUME NEW j \in DOMAIN q PROVE q[j] <= q[Len(q)]
  BY <1>1, <1>2 DEF Increasing
<1> QED BY <1>1, <1>2, <1>3 DEF Range

\* Two runs of events, the second behind the first.
LEMMA ConcatIncreases ==
    ASSUME NEW p \in Seq(1 .. MaxSeq), NEW q \in Seq(1 .. MaxSeq), Increasing(p), Increasing(q),
           Before(Range(p), Range(q))
    PROVE  Increasing(p \o q) /\ Range(p \o q) = Range(p) \cup Range(q)
<1> DEFINE r == p \o q
           n == Len(p)
           m == Len(q)
<1>1. /\ n \in Nat /\ m \in Nat /\ DOMAIN p = 1 .. n /\ DOMAIN q = 1 .. m
      /\ DOMAIN r = 1 .. n + m
      /\ \A i \in 1 .. n : r[i] = p[i]
      /\ \A i \in 1 .. n + m : i > n => r[i] = q[i - n]
      /\ \A i \in 1 .. m : r[n + i] = q[i]
  BY LenProperties, ConcatProperties
<1> HIDE DEF r, n, m
<1>2. \A i \in DOMAIN r : \/ i \in DOMAIN p /\ r[i] = p[i]
                          \/ i > n /\ i - n \in DOMAIN q /\ r[i] = q[i - n]
  BY <1>1
<1>3. Increasing(r)
  <2> SUFFICES ASSUME NEW i \in DOMAIN r, NEW j \in DOMAIN r, i < j PROVE r[i] < r[j]
    BY DEF Increasing
  <2>1. CASE i \in DOMAIN p /\ r[i] = p[i] /\ j \in DOMAIN p /\ r[j] = p[j]
    BY <2>1 DEF Increasing
  <2>2. CASE /\ i \in DOMAIN p /\ r[i] = p[i]
             /\ j - n \in DOMAIN q /\ r[j] = q[j - n]
    BY <2>2 DEF Before, Range
  <2>3. CASE /\ i - n \in DOMAIN q /\ r[i] = q[i - n]
             /\ j - n \in DOMAIN q /\ r[j] = q[j - n]
    <3>1. i - n < j - n
      BY <1>1
    <3> QED BY <2>3, <3>1 DEF Increasing
  <2>4. ~(i > n /\ j \in DOMAIN p)
    BY <1>1
  <2> QED BY <1>2, <2>1, <2>2, <2>3, <2>4
<1>4. Range(r) = Range(p) \cup Range(q)
  <2>1. \A i \in DOMAIN r : r[i] \in Range(p) \cup Range(q)
    BY <1>2 DEF Range
  <2>2. ASSUME NEW i \in DOMAIN p PROVE p[i] \in Range(r)
    <3>1. i \in DOMAIN r /\ r[i] = p[i]
      BY <1>1
    <3> QED BY <3>1 DEF Range
  <2>3. ASSUME NEW i \in DOMAIN q PROVE q[i] \in Range(r)
    <3>1. n + i \in DOMAIN r /\ r[n + i] = q[i]
      BY <1>1
    <3> QED BY <3>1 DEF Range
  <2> QED BY <2>1, <2>2, <2>3 DEF Range
<1> QED BY <1>3, <1>4 DEF r

\* The item of one event.
LEMMA OneEvent ==
    ASSUME NEW s \in 1 .. MaxSeq
    PROVE  <<s>> \in Items /\ Increasing(<<s>>) /\ Range(<<s>>) = {s}
BY ItemsAre DEF Increasing, Range

\* Two buffers, the second behind the first.
LEMMA ConcatCarries ==
    ASSUME NEW b \in Seq(Items), NEW c \in Seq(Items), Sorted(b), Sorted(c),
           Before(Carried(b), Carried(c))
    PROVE  Sorted(b \o c) /\ Carried(b \o c) = Carried(b) \cup Carried(c)
<1> DEFINE r == b \o c
           n == Len(b)
           m == Len(c)
<1>1. /\ n \in Nat /\ m \in Nat /\ DOMAIN b = 1 .. n /\ DOMAIN c = 1 .. m
      /\ DOMAIN r = 1 .. n + m
      /\ \A i \in 1 .. n : r[i] = b[i]
      /\ \A i \in 1 .. n + m : i > n => r[i] = c[i - n]
      /\ \A i \in 1 .. m : r[n + i] = c[i]
  BY LenProperties, ConcatProperties
<1> HIDE DEF r, n, m
<1>2. \A i \in DOMAIN r : \/ i \in DOMAIN b /\ r[i] = b[i]
                          \/ i > n /\ i - n \in DOMAIN c /\ r[i] = c[i - n]
  BY <1>1
<1>3. Sorted(r)
  <2>1. \A i \in DOMAIN r : Increasing(r[i])
    BY <1>2 DEF Sorted
  <2>2. ASSUME NEW i \in DOMAIN r, NEW j \in DOMAIN r, i < j PROVE Before(Range(r[i]), Range(r[j]))
    <3>1. CASE i \in DOMAIN b /\ r[i] = b[i] /\ j \in DOMAIN b /\ r[j] = b[j]
      BY <2>2, <3>1 DEF Sorted
    <3>2. CASE /\ i \in DOMAIN b /\ r[i] = b[i]
               /\ j - n \in DOMAIN c /\ r[j] = c[j - n]
      <4>1. Range(r[i]) \subseteq Carried(b) /\ Range(r[j]) \subseteq Carried(c)
        BY <3>2, CarriedBy
      <4> QED BY <4>1 DEF Before
    <3>3. CASE /\ i - n \in DOMAIN c /\ r[i] = c[i - n]
               /\ j - n \in DOMAIN c /\ r[j] = c[j - n]
      <4>1. i - n < j - n
        BY <1>1, <2>2
      <4> QED BY <3>3, <4>1 DEF Sorted
    <3>4. ~(i > n /\ j \in DOMAIN b)
      BY <1>1, <2>2
    <3> QED BY <1>2, <3>1, <3>2, <3>3, <3>4
  <2> QED BY <2>1, <2>2 DEF Sorted
<1>4. Carried(r) = Carried(b) \cup Carried(c)
  <2>1. \A i \in DOMAIN r : Range(r[i]) \subseteq Carried(b) \cup Carried(c)
    BY <1>2, CarriedBy
  <2>2. ASSUME NEW i \in DOMAIN b PROVE Range(b[i]) \subseteq Carried(r)
    <3>1. i \in DOMAIN r /\ r[i] = b[i]
      BY <1>1
    <3> QED BY <3>1 DEF Carried
  <2>3. ASSUME NEW i \in DOMAIN c PROVE Range(c[i]) \subseteq Carried(r)
    <3>1. n + i \in DOMAIN r /\ r[n + i] = c[i]
      BY <1>1
    <3> QED BY <3>1 DEF Carried
  <2>4. Carried(r) \subseteq Carried(b) \cup Carried(c)
    BY <2>1 DEF Carried
  <2>5. Carried(b) \subseteq Carried(r) /\ Carried(c) \subseteq Carried(r)
    BY <2>2, <2>3 DEF Carried
  <2> QED BY <2>4, <2>5
<1> QED BY <1>3, <1>4 DEF r

\* One more event, behind the others.
LEMMA AppendCarries ==
    ASSUME NEW b \in Seq(Items), NEW s \in 1 .. MaxSeq, Sorted(b), Before(Carried(b), {s})
    PROVE  Sorted(Append(b, <<s>>)) /\ Carried(Append(b, <<s>>)) = Carried(b) \cup {s}
<1> DEFINE c == <<<<s>>>>
<1>1. c \in Seq(Items) /\ DOMAIN c = {1} /\ c[1] = <<s>>
  BY OneEvent
<1>2. Append(b, <<s>>) = b \o c
  BY OneEvent, AppendIsConcat
<1> HIDE DEF c
<1>3. Sorted(c) /\ Carried(c) = {s}
  <2>1. Increasing(c[1]) /\ Range(c[1]) = {s}
    BY <1>1, OneEvent
  <2> QED BY <1>1, <2>1 DEF Sorted, Carried
<1>4. Before(Carried(b), Carried(c))
  BY <1>3
<1>5. Sorted(b \o c) /\ Carried(b \o c) = Carried(b) \cup Carried(c)
  BY <1>1, <1>3, <1>4, ConcatCarries
<1> QED BY <1>2, <1>3, <1>5

\* The newest item grows.
LEMMA FoldCarries ==
    ASSUME NEW b \in Seq(Items), b # <<>>, NEW s \in 1 .. MaxSeq, Sorted(b),
           Before(Carried(b), {s})
    PROVE  Sorted(Fold(b, s)) /\ Carried(Fold(b, s)) = Carried(b) \cup {s}
<1> DEFINE f == Fold(b, s)
           n == Len(b)
<1>1. /\ f \in Seq(Items) /\ n \in DOMAIN b /\ DOMAIN f = DOMAIN b
      /\ \A j \in DOMAIN b : f[j] = IF j = n THEN Append(b[j], s) ELSE b[j]
      /\ DOMAIN b = 1 .. n /\ n \in Nat
  BY FoldDoes, LenProperties
<1> HIDE DEF f, n
<1>2. /\ b[n] \in Items /\ Increasing(b[n]) /\ Range(b[n]) \subseteq Carried(b)
      /\ \A j \in DOMAIN b : Range(b[j]) \subseteq Carried(b)
  BY <1>1, CarriedBy DEF Sorted
<1>3. Increasing(f[n]) /\ Range(f[n]) = Range(b[n]) \cup {s}
  <2>1. b[n] \in Seq(1 .. MaxSeq) /\ <<s>> \in Seq(1 .. MaxSeq)
    BY <1>2, ItemsAre, OneEvent
  <2>2. f[n] = b[n] \o <<s>>
    BY <1>1, <2>1, AppendIsConcat
  <2>3. Before(Range(b[n]), Range(<<s>>))
    BY <1>2, OneEvent DEF Before
  <2> QED BY <1>2, <2>1, <2>2, <2>3, OneEvent, ConcatIncreases, ZenonT(40)
<1>4. Sorted(f)
  <2>1. \A j \in DOMAIN f : Increasing(f[j])
    BY <1>1, <1>3 DEF Sorted
  <2>2. ASSUME NEW j \in DOMAIN f, NEW k \in DOMAIN f, j < k PROVE Before(Range(f[j]), Range(f[k]))
    <3>1. j # n /\ f[j] = b[j]
      BY <1>1, <2>2
    <3>2. Before(Range(b[j]), Range(b[k])) /\ Before(Range(b[j]), {s})
      BY <1>1, <1>2, <2>2 DEF Sorted, Before
    <3>3. Range(f[k]) \subseteq Range(b[k]) \cup {s}
      BY <1>1, <1>3, <2>2
    <3> QED BY <3>1, <3>2, <3>3 DEF Before
  <2> QED BY <2>1, <2>2 DEF Sorted
<1>5. Carried(f) = Carried(b) \cup {s}
  <2>1. \A j \in DOMAIN f : Range(f[j]) \subseteq Carried(b) \cup {s}
    BY <1>1, <1>2, <1>3
  <2>2. \A j \in DOMAIN b : Range(b[j]) \subseteq Range(f[j])
    BY <1>1, <1>3
  <2>3. s \in Carried(f)
    BY <1>1, <1>3 DEF Carried
  <2>4. Carried(f) \subseteq Carried(b) \cup {s}
    BY <2>1 DEF Carried
  <2>5. Carried(b) \subseteq Carried(f)
    BY <1>1, <2>2 DEF Carried
  <2> QED BY <2>3, <2>4, <2>5
<1> QED BY <1>4, <1>5 DEF f

\* The first item is taken.
LEMMA TailCarries ==
    ASSUME NEW b \in Seq(Items), b # <<>>, Sorted(b)
    PROVE  /\ Head(b) \in Items /\ Increasing(Head(b))
           /\ Carried(b) = Range(Head(b)) \cup Carried(Tail(b))
           /\ Sorted(Tail(b)) /\ Before(Range(Head(b)), Carried(Tail(b)))
<1> DEFINE h == Head(b)
           r == Tail(b)
           n == Len(b)
<1>1. /\ n \in Nat /\ n # 0 /\ DOMAIN b = 1 .. n /\ 1 \in DOMAIN b /\ h = b[1]
      /\ r \in Seq(Items) /\ DOMAIN r = 1 .. n - 1 /\ \A j \in 1 .. n - 1 : r[j] = b[j + 1]
  BY HeadTailProperties, LenProperties, EmptySeq
<1>2. h \in Items /\ Increasing(h)
  BY <1>1, CarriedBy DEF Sorted
<1> HIDE DEF h, r, n
<1>3. \A j \in DOMAIN r : j + 1 \in DOMAIN b /\ r[j] = b[j + 1] /\ 1 < j + 1
  BY <1>1
<1>4. Sorted(r)
  <2>1. \A j \in DOMAIN r : Increasing(r[j])
    BY <1>3 DEF Sorted
  <2>2. ASSUME NEW j \in DOMAIN r, NEW k \in DOMAIN r, j < k PROVE Before(Range(r[j]), Range(r[k]))
    <3>1. j + 1 < k + 1
      BY <1>1, <2>2
    <3> QED BY <1>3, <3>1 DEF Sorted
  <2> QED BY <2>1, <2>2 DEF Sorted
<1>5. Before(Range(h), Carried(r))
  <2>1. \A j \in DOMAIN r : Before(Range(h), Range(r[j]))
    BY <1>1, <1>3 DEF Sorted
  <2> QED BY <1>1, <2>1, CarriedBy DEF Before
<1>6. Carried(b) = Range(h) \cup Carried(r)
  <2>1. ASSUME NEW j \in DOMAIN b PROVE Range(b[j]) \subseteq Range(h) \cup Carried(r)
    <3>1. CASE j = 1
      BY <1>1, <3>1
    <3>2. CASE j # 1
      <4>1. j - 1 \in DOMAIN r /\ r[j - 1] = b[j]
        <5>1. j - 1 \in 1 .. n - 1 /\ (j - 1) + 1 = j
          BY <1>1, <3>2
        <5> QED BY <1>1, <5>1
      <4> QED BY <1>1, <4>1, CarriedBy
    <3> QED BY <3>1, <3>2
  <2>2. Carried(b) \subseteq Range(h) \cup Carried(r)
    BY <2>1 DEF Carried
  <2>3. Range(h) \subseteq Carried(b)
    BY <1>1 DEF Carried
  <2>4. Carried(r) \subseteq Carried(b)
    BY <1>3 DEF Carried
  <2> QED BY <2>2, <2>3, <2>4
<1> QED BY <1>2, <1>4, <1>5, <1>6 DEF h, r
-----------------------------------------------------------------------------
(* The cursor and what the consumer has.                                   *)

\* What is on its way to the consumer, in the order in which it gets there.
OnLoop == Carried(captured) \cup Carried(replay)
Buffered == OnLoop \cup Carried(live) \cup Carried(batch) \cup Carried(ingress)

\* Each of five runs of events is behind the ones before it.
InLine(R, D, L, B, I) ==
    /\ Before(R, D) /\ Before(R, L) /\ Before(R, B) /\ Before(R, I)
    /\ Before(D, L) /\ Before(D, B) /\ Before(D, I)
    /\ Before(L, B) /\ Before(L, I) /\ Before(B, I)

\* Buffers are in the order of the session, each one and one behind the other.
Lined == InLine(OnLoop, Range(todo), Carried(live), Carried(batch), Carried(ingress))
Ordered ==
    /\ Increasing(got) /\ Increasing(todo)
    /\ Sorted(captured) /\ Sorted(replay) /\ Sorted(live) /\ Sorted(batch) /\ Sorted(ingress)
    /\ Lined

\* What is pending is what the buffers carry, unless a failure threw it away.
Dropped ==
    /\ closed /\ ingress = <<>> /\ live = <<>> /\ replay = <<>>
    /\ error = "none" => batch = <<>>
Kept ==
    /\ matches = Buffered \/ Dropped
    /\ phase = "opening" /\ closed => error # "none"

\* The events of q up to n that pass the filter.
MatchedIn(q, n) == {i \in 1 .. n : Matches(q[i])}

\* What the consumer has and what is pending has been scanned, in this order.
Scanned ==
    /\ scanned <= Len(log) /\ Range(todo) \subseteq 1 .. Len(log)
    /\ Range(got) \cup matches \subseteq MatchedIn(log, scanned)
    /\ Before(Range(got), matches \cup Range(todo))
    /\ cursor = IF matches = {} THEN scanned ELSE Min(matches) - 1

\* Nothing is missing from it up to the scan, but what was behind the event that
\* ended the enter of a failed stream; and the scan of a stream that the broker
\* still calls is complete.
Covered ==
    /\ \A x \in {scanned} \cup Range(todo) : \A y \in MatchedIn(log, x) :
           \/ y \in Range(got) \cup matches \cup Range(todo)
           \/ error # "none" /\ \E m \in matches : m < y
    /\ ~closed /\ phase # "idle" /\ (subscribed \/ brokerClosed) =>
           Len(log) \in {scanned} \cup Range(todo)

\* An enter that fails goes back to where the consumer was; an iteration that ends
\* is complete.
Settled ==
    /\ phase = "opening" => after <= Len(log) /\ Range(got) = MatchedIn(log, after)
    /\ consumer = "eof" /\ error = "none" /\ ~closed => cursor = Len(log)

ScanInv == Ordered /\ Kept /\ Scanned /\ Covered /\ Settled

\* The events up to n pass the filter or not whatever comes after them.
LEMMA MatchedStays ==
    ASSUME Typed, NEW k, log' = Append(log, k), NEW n \in Nat
    PROVE  /\ Len(log) \in Nat /\ Len(log') = Len(log) + 1
           /\ n <= Len(log) => MatchedIn(log', n) = MatchedIn(log, n)
           /\ n = Len(log) + 1 =>
                  MatchedIn(log', n) =
                      MatchedIn(log, Len(log)) \cup IF Matches(k) THEN {n} ELSE {}
<1>1. log \in Seq(EventKinds) /\ Len(log) \in Nat
  BY LenProperties DEF Typed, SourceTypes
<1>2. /\ Len(log') = Len(log) + 1 /\ \A i \in 1 .. Len(log) : log'[i] = log[i]
      /\ log'[Len(log) + 1] = k
  BY <1>1, AppendProperties
<1>3. ASSUME n <= Len(log) PROVE MatchedIn(log', n) = MatchedIn(log, n)
  <2>1. \A i \in 1 .. n : log'[i] = log[i]
    BY <1>1, <1>2, <1>3
  <2> QED BY <2>1 DEF MatchedIn
<1>4. ASSUME n = Len(log) + 1
      PROVE  MatchedIn(log', n) =
                 MatchedIn(log, Len(log)) \cup IF Matches(k) THEN {n} ELSE {}
  <2>1. 1 .. n = 1 .. Len(log) \cup {n}
    BY <1>1, <1>4
  <2>2. log'[n] = k /\ \A i \in 1 .. Len(log) : log'[i] = log[i]
    BY <1>2, <1>4
  <2> QED BY <2>1, <2>2 DEF MatchedIn
<1> QED BY <1>1, <1>2, <1>3, <1>4

\* Who has the events up to n has those up to a smaller one.
LEMMA MatchedNested ==
    ASSUME NEW q, NEW n \in Nat, NEW m \in Nat, n <= m
    PROVE  /\ MatchedIn(q, n) \subseteq MatchedIn(q, m)
           /\ MatchedIn(q, m) \subseteq 1 .. m
           /\ \A x \in MatchedIn(q, m) : x <= n => x \in MatchedIn(q, n)
BY DEF MatchedIn

\* The cursor is what the consumer has.
LEMMA CursorIs ==
    ASSUME Typed, Shape, ScanInv
    PROVE  /\ phase # "opening" => Increasing(got) /\ Range(got) = MatchedIn(log, cursor)
           /\ cursor <= scanned /\ cursor <= Len(log)
           /\ matches # {} => Min(matches) \in matches /\ \A m \in matches : cursor < m
<1>1. /\ cursor \in Nat /\ scanned \in Nat /\ matches \subseteq 1 .. MaxSeq /\ Len(log) \in Nat
      /\ scanned <= Len(log) /\ Range(got) \cup matches \subseteq MatchedIn(log, scanned)
      /\ Before(Range(got), matches \cup Range(todo))
      /\ cursor = IF matches = {} THEN scanned ELSE Min(matches) - 1
      /\ \A y \in MatchedIn(log, scanned) : \/ y \in Range(got) \cup matches \cup Range(todo)
                                            \/ \E m \in matches : m < y
      /\ Increasing(got)
  BY LenProperties DEF Typed, CursorTypes, SourceTypes, ScanInv, Scanned, Covered, Ordered
<1>2. matches # {} => Min(matches) \in matches /\ Min(matches) \in Nat
                      /\ \A m \in matches : Min(matches) <= m
  <2>1. matches \subseteq Nat
    BY <1>1
  <2> QED BY <2>1, MinIsElement
<1>3. MatchedIn(log, scanned) \subseteq 1 .. scanned
  BY DEF MatchedIn
<1>4. cursor <= scanned /\ (matches # {} => \A m \in matches : cursor < m /\ m \in Nat)
  BY <1>1, <1>2, <1>3, SMTT(40)
<1>5. ASSUME phase # "opening" PROVE Range(got) = MatchedIn(log, cursor)
  <2>1. Range(todo) = {}
    BY <1>5 DEF Shape, Range
  <2>2. ASSUME NEW x \in Range(got) PROVE x \in MatchedIn(log, cursor)
    <3>1. x \in MatchedIn(log, scanned) /\ x \in 1 .. scanned
      BY <1>1, <1>3
    <3>2. x <= cursor
      <4>1. matches # {} => x < Min(matches)
        BY <1>1, <1>2 DEF Before
      <4> QED BY <1>1, <1>2, <3>1, <4>1
    <3> QED BY <1>1, <1>4, <3>1, <3>2, MatchedNested
  <2>3. ASSUME NEW x \in MatchedIn(log, cursor) PROVE x \in Range(got)
    <3>1. x \in MatchedIn(log, scanned) /\ x \in 1 .. cursor
      BY <1>1, <1>4, MatchedNested
    <3>2. ASSUME NEW m \in matches PROVE m # x /\ ~(m < x)
      <4>1. cursor < m /\ m \in Nat
        BY <1>4
      <4>2. x \in 1 .. cursor
        BY <3>1
      <4> QED BY <1>1, <4>1, <4>2
    <3> QED BY <1>1, <2>1, <3>1, <3>2
  <2> QED BY <2>2, <2>3
<1> QED BY <1>1, <1>2, <1>4, <1>5, SMTT(40)
\* A stream that starts: nothing is buffered, and the window is what the consumer
\* has not seen.
LEMMA OpenScans ==
    ASSUME Typed, Shape, ScanInv, Open
    PROVE  ScanInv'
<1> USE DEF sourceVars, openVars, bufferVars, drainVars, endVars, cursorVars, consumerVars
<1>1. /\ phase = "idle" /\ UNCHANGED <<log, ended, batch, draining, got, overtaken>>
      /\ batch = <<>> /\ captured = <<>>
  BY DEF Open, Shape, Typed, DrainTypes
<1>2. CASE UNCHANGED <<phase, subscribed, after, todo, captured, ingress, live, replay,
                       pending, drainScheduled, available, endVars, cursorVars, consumer>>
  BY <1>1, <1>2 DEF ScanInv, Ordered, Lined, OnLoop, Kept, Buffered, Dropped, Scanned, Covered, Settled
<1>3. CASE phase' = "opening"
  <2>1. /\ subscribed' = TRUE /\ after' = cursor
        /\ todo' = [i \in 1 .. Len(log) - cursor |-> cursor + i]
        /\ ingress' = <<>> /\ live' = <<>> /\ replay' = <<>> /\ captured' = <<>>
        /\ error' = "none" /\ closed' = FALSE
        /\ scanned' = cursor /\ matches' = {} /\ cursor' = cursor /\ consumer' = "ready"
    BY <1>1, <1>3 DEF Open
  <2>2. /\ Range(got) = MatchedIn(log, cursor) /\ Increasing(got)
        /\ cursor \in Nat /\ Len(log) \in Nat /\ cursor <= Len(log)
    BY <1>1, CursorIs, LenProperties DEF Typed, CursorTypes, SourceTypes
  <2>3. /\ \A x \in Range(todo') : cursor < x /\ x \in 1 .. Len(log)
        /\ \A x \in 1 .. Len(log) : cursor < x => x \in Range(todo')
        /\ Increasing(todo')
    <3>1. DOMAIN todo' = 1 .. Len(log) - cursor /\ \A i \in DOMAIN todo' : todo'[i] = cursor + i
      BY <2>1
    <3>2. \A x \in Range(todo') : cursor < x /\ x \in 1 .. Len(log)
      BY <2>2, <3>1 DEF Range
    <3>3. ASSUME NEW x \in 1 .. Len(log), cursor < x PROVE x \in Range(todo')
      <4>1. x - cursor \in DOMAIN todo' /\ todo'[x - cursor] = x
        BY <2>2, <3>1, <3>3
      <4> QED BY <4>1 DEF Range
    <3>4. Increasing(todo')
      BY <2>2, <3>1 DEF Increasing
    <3> QED BY <3>2, <3>3, <3>4
  <2>4. Carried(captured') = {} /\ Carried(replay') = {} /\ Carried(live') = {}
        /\ Carried(batch') = {} /\ Carried(ingress') = {}
        /\ Sorted(<<>>)
    BY <1>1, <2>1, CarriedNone
  <2>5. Ordered'
    BY <1>1, <2>1, <2>2, <2>3, <2>4 DEF Ordered, Lined, InLine, OnLoop, Before
  <2>6. Kept'
    BY <2>1, <2>4 DEF Kept, Buffered, OnLoop
  <2>7. Scanned'
    <3>1. \A x \in Range(got) : x <= cursor
      BY <2>2 DEF MatchedIn
    <3>2. Before(Range(got), Range(todo'))
      BY <2>2, <2>3, <3>1 DEF Before, MatchedIn
    <3> QED BY <1>1, <2>1, <2>2, <2>3, <3>2 DEF Scanned
  <2>8. Covered'
    <3>1. ASSUME NEW x \in Range(todo') PROVE MatchedIn(log, x) \subseteq Range(got) \cup Range(todo')
      <4>1. x \in 1 .. Len(log) /\ cursor < x
        BY <2>3, <3>1
      <4>2. \A y \in MatchedIn(log, x) : y <= cursor => y \in MatchedIn(log, cursor)
        BY <2>2, <4>1, MatchedNested
      <4>3. \A y \in MatchedIn(log, x) : y \in 1 .. Len(log)
        BY <2>2, <4>1 DEF MatchedIn
      <4> QED BY <2>2, <2>3, <4>2, <4>3
    <3>2. Len(log) \in {cursor} \cup Range(todo')
      BY <2>2, <2>3
    <3> QED BY <1>1, <2>1, <2>2, <3>1, <3>2 DEF Covered
  <2>9. Settled'
    BY <1>1, <2>1, <2>2 DEF Settled
  <2> QED BY <2>5, <2>6, <2>7, <2>8, <2>9 DEF ScanInv
<1> QED BY <1>2, <1>3 DEF Open

\* The buffers of a stream carry nothing.
LEMMA EmptyBuffers ==
    ASSUME NEW b, b = <<>>
    PROVE  Carried(b) = {} /\ Sorted(b)
BY CarriedNone

\* An enter that fails leaves the consumer with what it had.
LEMMA EnterFailsScans ==
    ASSUME Typed, Shape, ScanInv, phase = "opening", EnterFails,
           todo' = <<>>, captured' = <<>>, live' = <<>>, replay' = <<>>, ingress' = <<>>,
           batch' = batch, closed' = TRUE, UNCHANGED <<log, got, consumer>>
    PROVE  ScanInv'
<1>1. phase' = "idle" /\ cursor' = after /\ scanned' = after /\ matches' = {}
  BY DEF EnterFails
<1>2. after <= Len(log) /\ after \in Nat /\ Len(log) \in Nat /\ Range(got) = MatchedIn(log, after)
  BY LenProperties DEF ScanInv, Settled, Typed, OpenTypes, SourceTypes
<1>3. batch = <<>> /\ Range(todo') = {} /\ Increasing(todo')
  BY DEF Shape, Typed, DrainTypes, Range, Increasing
<1>4. /\ Carried(captured') = {} /\ Carried(replay') = {} /\ Carried(live') = {}
      /\ Carried(batch') = {} /\ Carried(ingress') = {} /\ Sorted(<<>>)
  BY <1>3, CarriedNone
<1>5. Ordered'
  BY <1>3, <1>4 DEF ScanInv, Ordered, Lined, InLine, OnLoop, Before
<1>6. Kept'
  BY <1>1, <1>4 DEF Kept, Buffered, OnLoop
<1>7. Scanned'
  BY <1>1, <1>2, <1>3 DEF Scanned, Before
<1>8. Covered'
  BY <1>1, <1>2, <1>3 DEF Covered
<1>9. Settled'
  BY <1>1 DEF Settled
<1> QED BY <1>5, <1>6, <1>7, <1>8, <1>9 DEF ScanInv
\* _record_scan_locked, of an event that the filter passes and of one that it does not.
LEMMA RecordDoes ==
    ASSUME Typed, NEW s \in 1 .. MaxSeq, NEW k, RecordScan(s, k)
    PROVE  /\ matches' = IF Matches(k) THEN matches \cup {s} ELSE matches
           /\ scanned' = IF s > scanned THEN s ELSE scanned
           /\ cursor' = IF matches' = {} THEN scanned' ELSE Min(matches') - 1
           /\ scanned' \in Nat /\ cursor' \in Nat
<1> DEFINE ms == IF Matches(k) THEN matches \cup {s} ELSE matches
<1>1. ms \subseteq Nat /\ 0 \notin ms /\ s \in Nat /\ scanned \in Nat /\ Advance(s, ms)
  BY DEF Typed, CursorTypes, RecordScan
<1> HIDE DEF ms
<1>2. /\ matches' = ms /\ scanned' = IF s > scanned THEN s ELSE scanned
      /\ cursor' = IF ms = {} THEN scanned' ELSE Min(ms) - 1
      /\ scanned' \in Nat /\ cursor' \in Nat
  BY <1>1, AdvanceDoes
<1> QED BY <1>2 DEF ms

\* The first event of the window, and what is left of it.
LEMMA WindowHead ==
    ASSUME Typed, ScanInv, todo # <<>>
    PROVE  /\ Head(todo) \in Range(todo) /\ Head(todo) \in 1 .. MaxSeq
           /\ Range(todo) = {Head(todo)} \cup Range(Tail(todo))
           /\ Before({Head(todo)}, Range(Tail(todo))) /\ Increasing(Tail(todo))
<1> DEFINE n == Len(todo)
           r == Tail(todo)
<1>1. /\ todo \in Seq(1 .. MaxSeq) /\ n \in Nat /\ n # 0 /\ DOMAIN todo = 1 .. n /\ 1 \in DOMAIN todo
      /\ Head(todo) = todo[1] /\ todo[1] \in 1 .. MaxSeq
      /\ DOMAIN r = 1 .. n - 1 /\ \A j \in 1 .. n - 1 : r[j] = todo[j + 1]
  BY HeadTailProperties, LenProperties, EmptySeq DEF Typed, OpenTypes
<1>2. Increasing(todo)
  BY DEF ScanInv, Ordered
<1> HIDE DEF r, n
<1>3. ASSUME NEW j \in DOMAIN r PROVE j + 1 \in DOMAIN todo /\ r[j] = todo[j + 1] /\ 1 < j + 1
  <2>1. j \in 1 .. n - 1 /\ r[j] = todo[j + 1]
    BY <1>1
  <2>2. j + 1 \in 1 .. n /\ 1 < j + 1
    BY <1>1, <2>1
  <2> QED BY <1>1, <2>1, <2>2
<1>4. Range(todo) = {todo[1]} \cup Range(r)
  <2>1. ASSUME NEW j \in DOMAIN todo, j # 1 PROVE todo[j] \in Range(r)
    <3>1. j - 1 \in DOMAIN r /\ r[j - 1] = todo[(j - 1) + 1] /\ (j - 1) + 1 = j
      BY <1>1, <2>1
    <3> QED BY <3>1 DEF Range
  <2>2. \A j \in DOMAIN r : r[j] \in Range(todo)
    BY <1>3 DEF Range
  <2>3. todo[1] \in Range(todo)
    BY <1>1 DEF Range
  <2> QED BY <2>1, <2>2, <2>3 DEF Range
<1>5. Before({todo[1]}, Range(r))
  BY <1>1, <1>2, <1>3 DEF Before, Range, Increasing
<1>6. Increasing(r)
  <2> SUFFICES ASSUME NEW i \in DOMAIN r, NEW j \in DOMAIN r, i < j PROVE r[i] < r[j]
    BY DEF Increasing
  <2>1. i + 1 < j + 1
    BY <1>1
  <2> QED BY <1>2, <1>3, <2>1 DEF Increasing
<1> QED BY <1>1, <1>4, <1>5, <1>6 DEF r

\* One event of the window: it joins the replay behind the others, is skipped, or
\* ends the enter.
LEMMA ProjectScans ==
    ASSUME Typed, Shape, ScanInv, Project
    PROVE  ScanInv'
<1> DEFINE s == Head(todo)
           k == log[s]
           ms == IF Matches(k) THEN {s} ELSE {}
           rest == Range(Tail(todo))
<1>1. /\ phase = "opening" /\ todo # <<>>
      /\ UNCHANGED <<log, ended, opens, after, batch, raised, drainScheduled, draining, available,
                     consumer, got, overtaken>>
  BY DEF Project, sourceVars, drainVars, consumerVars
<1>2. /\ s \in 1 .. MaxSeq /\ s \in Range(todo) /\ Range(todo) = {s} \cup rest
      /\ Before({s}, rest) /\ Increasing(Tail(todo))
  BY <1>1, WindowHead
<1>3. /\ live = <<>> /\ replay = <<>> /\ batch = <<>> /\ (closed => error # "none")
      /\ Carried(live) = {} /\ Carried(replay) = {} /\ Carried(batch) = {}
  <2>1. live = <<>> /\ replay = <<>> /\ batch = <<>>
    BY <1>1 DEF Shape, Typed, DrainTypes
  <2>2. closed => error # "none"
    BY <1>1 DEF ScanInv, Kept
  <2> QED BY <2>1, <2>2, CarriedNone
<1>4. /\ scanned \in Nat /\ Len(log) \in Nat /\ matches \subseteq Nat
      /\ Range(todo) \subseteq 1 .. Len(log) /\ scanned <= Len(log)
      /\ Range(got) \cup matches \subseteq MatchedIn(log, scanned)
      /\ Before(Range(got), matches \cup Range(todo))
      /\ \A x \in {scanned} \cup Range(todo) : \A y \in MatchedIn(log, x) :
           \/ y \in Range(got) \cup matches \cup Range(todo)
           \/ error # "none" /\ \E m \in matches : m < y
  BY LenProperties DEF Typed, SourceTypes, CursorTypes, ScanInv, Scanned, Covered
<1>5. Matches(k) => s \in MatchedIn(log, s)
  BY <1>4, <1>2 DEF MatchedIn
<1> HIDE DEF s, k, rest
<1>6. ASSUME RecordScan(s, k)
      PROVE  /\ matches' = matches \cup ms /\ scanned' \in {s, scanned}
             /\ scanned' \in Nat /\ s <= scanned' /\ scanned <= scanned' /\ scanned' <= Len(log)
             /\ cursor' = IF matches' = {} THEN scanned' ELSE Min(matches') - 1
             /\ Range(got) \cup matches' \subseteq MatchedIn(log, scanned')
  <2>1. /\ matches' = IF Matches(k) THEN matches \cup {s} ELSE matches
        /\ scanned' = IF s > scanned THEN s ELSE scanned
        /\ cursor' = IF matches' = {} THEN scanned' ELSE Min(matches') - 1
    BY <1>2, <1>6, RecordDoes
  <2>2. /\ scanned' \in {s, scanned} /\ scanned' \in Nat
        /\ s <= scanned' /\ scanned <= scanned' /\ scanned' <= Len(log) /\ s \in Nat
    BY <1>2, <1>4, <2>1
  <2>3. MatchedIn(log, scanned) \subseteq MatchedIn(log, scanned')
        /\ MatchedIn(log, s) \subseteq MatchedIn(log, scanned')
    BY <1>4, <2>2, MatchedNested
  <2> QED BY <1>4, <1>5, <2>1, <2>2, <2>3
<1>7. CASE /\ k # "bad" /\ RecordScan(s, k) /\ todo' = Tail(todo)
           /\ captured' = IF Matches(k) THEN Append(captured, <<s>>) ELSE captured
           /\ UNCHANGED <<phase, ingress, live, replay, pending, error, closed,
                          brokerClosed, subscribed>>
  <2>1. Range(todo') = rest /\ Increasing(todo')
    BY <1>2, <1>7 DEF rest
  <2>2. /\ Sorted(captured) /\ captured \in Seq(Items) /\ Increasing(got)
        /\ Sorted(replay) /\ Sorted(live) /\ Sorted(batch) /\ Sorted(ingress)
        /\ InLine(Carried(captured), Range(todo), {}, {}, Carried(ingress))
    BY <1>3 DEF ScanInv, Ordered, Lined, OnLoop, Typed, OpenTypes
  <2>3. Before(Carried(captured), {s})
    BY <1>2, <2>2 DEF InLine, Before
  <2>4. Sorted(captured') /\ Carried(captured') = Carried(captured) \cup ms
    BY <1>2, <1>7, <2>2, <2>3, AppendCarries
  <2>5. InLine(Carried(captured'), rest, {}, {}, Carried(ingress))
    <3>1. ms \subseteq {s}
      OBVIOUS
    <3> QED BY <1>2, <2>2, <2>4, <3>1 DEF InLine, Before
  <2>6. Ordered'
    BY <1>1, <1>3, <1>7, <2>1, <2>2, <2>4, <2>5 DEF Ordered, Lined, OnLoop
  <2>7. Kept'
    <3>1. matches = Buffered => matches' = Buffered'
      BY <1>1, <1>3, <1>6, <1>7, <2>4 DEF Buffered, OnLoop
    <3>2. Dropped => Dropped'
      BY <1>1, <1>7 DEF Dropped
    <3> QED BY <1>1, <1>7, <3>1, <3>2 DEF Kept, ScanInv
  <2>8. Scanned'
    <3>1. Before(Range(got), matches' \cup Range(todo'))
      BY <1>2, <1>4, <1>6, <1>7, <2>1 DEF Before
    <3> QED BY <1>1, <1>2, <1>4, <1>6, <1>7, <2>1, <3>1 DEF Scanned
  <2>9. Covered'
    <3>1. ASSUME NEW x \in {scanned'} \cup rest
          PROVE  \A y \in MatchedIn(log, x) : \/ y \in Range(got) \cup matches' \cup rest
                                              \/ error # "none" /\ \E m \in matches' : m < y
      <4>1. \A y \in MatchedIn(log, x) : \/ y \in Range(got) \cup matches \cup {s} \cup rest
                                         \/ error # "none" /\ \E m \in matches : m < y
        BY <1>2, <1>4, <1>6, <1>7
      <4>2. s \in MatchedIn(log, x) => Matches(k)
        BY DEF MatchedIn, k
      <4> QED BY <1>6, <1>7, <4>1, <4>2
    <3>2. Len(log) \in {scanned} \cup Range(todo) => Len(log) \in {scanned'} \cup rest
      BY <1>2, <1>4, <1>6, <1>7
    <3> QED BY <1>1, <1>7, <2>1, <3>1, <3>2 DEF Covered, ScanInv
  <2>10. Settled'
    BY <1>1, <1>7 DEF Settled, ScanInv, Shape
  <2> QED BY <2>6, <2>7, <2>8, <2>9, <2>10 DEF ScanInv
<1>8. CASE /\ todo' = <<>> /\ captured' = <<>> /\ EnterFails
           /\ \/ Quit
              \/ Fail("projection")
  <2>1. ingress' = <<>> /\ live' = <<>> /\ replay' = <<>> /\ closed' = TRUE
    BY <1>8 DEF Quit, Fail
  <2> QED BY <1>1, <1>8, <2>1, EnterFailsScans
<1>9. CASE /\ subscribed' = FALSE /\ todo' = <<>> /\ captured' = <<>>
           /\ error # "none" /\ RecordScan(s, k)
           /\ UNCHANGED <<phase, ingress, live, replay, pending, error, closed, brokerClosed>>
           /\ k = "bad"
  <2>1. Matches(k) /\ matches' = matches \cup {s}
    BY <1>6, <1>9 DEF Matches
  <2>2. Range(todo') = {} /\ Increasing(todo') /\ Carried(captured') = {} /\ Sorted(captured')
    BY <1>9, CarriedNone DEF Range, Increasing
  <2>3. ingress = <<>> /\ closed /\ Carried(ingress) = {}
    BY <1>9, CarriedNone DEF Shape
  <2>4. Ordered'
    <3>1. /\ Increasing(got) /\ Sorted(replay) /\ Sorted(live) /\ Sorted(batch) /\ Sorted(ingress)
      BY DEF ScanInv, Ordered
    <3> QED BY <1>1, <1>3, <1>9, <2>2, <2>3, <3>1 DEF Ordered, Lined, OnLoop, InLine, Before
  <2>5. Kept'
    <3>1. closed' /\ error' # "none" /\ ingress' = <<>> /\ live' = <<>> /\ replay' = <<>>
      BY <1>3, <1>9, <2>3
    <3> QED BY <3>1 DEF Kept, Dropped
  <2>6. Scanned'
    <3>1. Before(Range(got), matches' \cup Range(todo'))
      BY <1>2, <1>4, <2>1, <2>2 DEF Before
    <3> QED BY <1>1, <1>2, <1>4, <1>6, <1>9, <2>2, <3>1 DEF Scanned
  <2>7. Covered'
    <3>1. ASSUME NEW x \in {scanned'}, NEW y \in MatchedIn(log, x)
          PROVE  \/ y \in Range(got) \cup matches'
                 \/ error # "none" /\ \E m \in matches' : m < y
      <4>1. \/ y \in Range(got) \cup matches \cup {s} \cup rest
            \/ error # "none" /\ \E m \in matches : m < y
        BY <1>2, <1>4, <1>6, <1>9, <3>1
      <4>2. y \in rest => s < y
        BY <1>2 DEF Before
      <4> QED BY <1>9, <2>1, <4>1, <4>2
    <3> QED BY <1>1, <1>9, <2>2, <2>3, <3>1 DEF Covered
  <2>8. Settled'
    BY <1>1, <1>9 DEF Settled, ScanInv, Shape
  <2> QED BY <2>4, <2>5, <2>6, <2>7, <2>8 DEF ScanInv
<1> QED BY <1>7, <1>8, <1>9, Zenon DEF Project, s, k
\* The enter is over: what was captured is published.
LEMMA OpenedScans ==
    ASSUME Typed, Shape, ScanInv, Opened
    PROVE  ScanInv'
<1>1. /\ phase = "opening" /\ todo = <<>> /\ phase' = "open" /\ captured' = <<>>
      /\ replay' = IF closed \/ error # "none" THEN <<>> ELSE captured
      /\ UNCHANGED <<log, got, todo, subscribed, ingress, live, batch, error, closed, brokerClosed,
                     cursor, scanned, matches, consumer>>
  BY DEF Opened, sourceVars, endVars, cursorVars, consumerVars
<1>2. /\ live = <<>> /\ replay = <<>> /\ consumer = "ready" /\ Carried(replay) = {}
      /\ Sorted(<<>>) /\ Carried(captured') = {}
  BY <1>1, CarriedNone DEF Shape
<1>3. Scanned' /\ Covered' /\ Settled'
  BY <1>1, <1>2 DEF ScanInv, Scanned, Covered, Settled
<1>4. /\ Sorted(captured) /\ Sorted(live) /\ Sorted(batch) /\ Sorted(ingress)
      /\ Increasing(got) /\ Increasing(todo) /\ Lined /\ Kept
  BY DEF ScanInv, Ordered
<1>5. CASE replay' = captured /\ error = "none"
  <2>1. OnLoop' = OnLoop
    BY <1>2, <1>5 DEF OnLoop
  <2>2. Ordered'
    BY <1>1, <1>2, <1>4, <1>5, <2>1 DEF Ordered, Lined
  <2>3. Kept'
    BY <1>1, <1>4, <1>5, <2>1 DEF Kept, Buffered, Dropped
  <2> QED BY <1>3, <2>2, <2>3 DEF ScanInv
<1>6. CASE replay' = <<>> /\ error # "none"
  <2>1. closed /\ ingress = <<>>
    BY <1>6 DEF Shape
  <2>2. OnLoop' = {}
    BY <1>2, <1>6, CarriedNone DEF OnLoop
  <2>3. Ordered'
    BY <1>1, <1>2, <1>4, <1>6, <2>2 DEF Ordered, Lined, InLine, Before
  <2>4. Kept'
    BY <1>1, <1>2, <1>6, <2>1 DEF Kept, Dropped
  <2> QED BY <1>3, <2>3, <2>4 DEF ScanInv
<1>7. closed => error # "none"
  BY <1>1, <1>4 DEF Kept
<1> QED BY <1>1, <1>5, <1>6, <1>7

\* The order of a stream whose buffers are thrown away.
LEMMA DroppedOrder ==
    ASSUME ScanInv, ingress' = <<>>, live' = <<>>, replay' = <<>>,
           captured' \in {captured, <<>>}, batch' \in {batch, <<>>}, UNCHANGED <<got, todo>>
    PROVE  Ordered'
<1>1. /\ Sorted(captured) /\ Sorted(batch) /\ Increasing(got) /\ Increasing(todo) /\ Lined
  BY DEF ScanInv, Ordered
<1>2. /\ Carried(ingress') = {} /\ Carried(live') = {} /\ Carried(replay') = {}
      /\ Sorted(ingress') /\ Sorted(live') /\ Sorted(replay')
  BY CarriedNone
<1>3. /\ Sorted(captured') /\ Carried(captured') \subseteq Carried(captured)
      /\ Sorted(batch') /\ Carried(batch') \subseteq Carried(batch)
  BY <1>1, CarriedNone
<1> QED BY <1>1, <1>2, <1>3 DEF Ordered, Lined, InLine, OnLoop, Before

\* An event that is not of the stream: the stream is over, or does not exist.
LEMMA UnseenScans ==
    ASSUME Typed, Shape, ScanInv, NEW k, ~ended, log' = Append(log, k),
           ~subscribed \/ closed \/ brokerClosed,
           UNCHANGED <<ended, subscribed, openVars, bufferVars, error, closed, brokerClosed,
                       cursorVars, consumerVars>>
    PROVE  ScanInv'
<1>1. /\ UNCHANGED <<phase, after, todo, captured, ingress, live, replay, batch, got, consumer,
                     scanned, cursor, matches, error, closed, subscribed, brokerClosed>>
  BY DEF openVars, bufferVars, cursorVars, consumerVars
<1>2. /\ Len(log) \in Nat /\ Len(log') = Len(log) + 1 /\ scanned \in Nat /\ after \in Nat
      /\ \A n \in Nat : n <= Len(log) => MatchedIn(log', n) = MatchedIn(log, n)
  BY MatchedStays DEF Typed, CursorTypes, OpenTypes
<1>3. scanned <= Len(log) /\ Range(todo) \subseteq 1 .. Len(log)
      /\ Ordered /\ Kept /\ Scanned /\ Covered /\ Settled
  BY DEF ScanInv, Scanned
<1>4. closed \/ (~subscribed /\ ~brokerClosed)
  BY DEF Shape
<1>5. Ordered'
  BY <1>1, <1>3 DEF Ordered, Lined, OnLoop
<1>6. Kept'
  BY <1>1, <1>3 DEF Kept, Buffered, OnLoop, Dropped
<1>7. MatchedIn(log', scanned) = MatchedIn(log, scanned)
      /\ \A x \in Range(todo) : MatchedIn(log', x) = MatchedIn(log, x)
  BY <1>2, <1>3
<1>8. Scanned'
  <2>1. scanned' <= Len(log') /\ Range(todo') \subseteq 1 .. Len(log')
    BY <1>1, <1>2, <1>3
  <2> QED BY <1>1, <1>3, <1>7, <2>1 DEF Scanned
<1>9. Covered'
  BY <1>1, <1>3, <1>4, <1>7 DEF Covered
<1>10. Settled'
  <2>1. phase = "opening" => after <= Len(log') /\ MatchedIn(log', after) = MatchedIn(log, after)
    BY <1>2, <1>3 DEF Settled
  <2>2. ~(consumer = "eof" /\ ~closed)
    BY DEF Shape
  <2> QED BY <1>1, <1>3, <2>1, <2>2 DEF Settled
<1> QED BY <1>5, <1>6, <1>8, <1>9, <1>10 DEF ScanInv
\* An event that the filter does not pass is scanned.
LEMMA HiddenScans ==
    ASSUME Typed, Shape, ScanInv, NEW k, ~ended, log' = Append(log, k), Len(log) < MaxSeq,
           ~Matches(k), subscribed, ~closed, ~brokerClosed, RecordScan(Len(log) + 1, k),
           UNCHANGED <<ended, subscribed, openVars, bufferVars, error, closed, brokerClosed,
                       consumerVars>>
    PROVE  ScanInv'
<1> DEFINE s == Len(log) + 1
<1>1. /\ UNCHANGED <<phase, after, todo, captured, ingress, live, replay, batch, got, consumer,
                     error, closed, subscribed, brokerClosed>>
  BY DEF openVars, bufferVars, consumerVars
<1>2. /\ Len(log) \in Nat /\ Len(log') = Len(log) + 1 /\ scanned \in Nat /\ after \in Nat
      /\ \A n \in Nat : n <= Len(log) => MatchedIn(log', n) = MatchedIn(log, n)
      /\ MatchedIn(log', s) = MatchedIn(log, Len(log))
  <2>1. Len(log) \in Nat /\ s \in Nat /\ scanned \in Nat /\ after \in Nat
    BY LenProperties DEF Typed, CursorTypes, OpenTypes, SourceTypes
  <2>2. MatchedIn(log', s) = MatchedIn(log, Len(log))
    <3>1. MatchedIn(log', s) = MatchedIn(log, Len(log)) \cup IF Matches(k) THEN {s} ELSE {}
      BY <2>1, MatchedStays
    <3>2. MatchedIn(log', s) = MatchedIn(log, Len(log)) \cup {}
      BY <3>1
    <3> QED BY <3>2
  <2>3. \A n \in Nat : n <= Len(log) => MatchedIn(log', n) = MatchedIn(log, n)
    BY MatchedStays
  <2> QED BY <2>1, <2>2, <2>3, MatchedStays
<1>3. /\ scanned <= Len(log) /\ Range(todo) \subseteq 1 .. Len(log)
      /\ Range(got) \cup matches \subseteq MatchedIn(log, scanned)
      /\ Before(Range(got), matches \cup Range(todo))
      /\ Ordered /\ Kept /\ Covered /\ Settled /\ phase # "idle"
  BY DEF ScanInv, Scanned, Shape
<1>4. /\ matches' = matches /\ scanned' = s
      /\ cursor' = IF matches' = {} THEN scanned' ELSE Min(matches') - 1
  <2>1. s \in 1 .. MaxSeq
    BY <1>2
  <2>2. /\ matches' = IF Matches(k) THEN matches \cup {s} ELSE matches
        /\ scanned' = IF s > scanned THEN s ELSE scanned
        /\ cursor' = IF matches' = {} THEN scanned' ELSE Min(matches') - 1
    BY <2>1, RecordDoes
  <2> QED BY <1>2, <1>3, <2>2
<1>5. Ordered'
  BY <1>1, <1>3 DEF Ordered, Lined, OnLoop
<1>6. Kept'
  BY <1>1, <1>3, <1>4 DEF Kept, Buffered, OnLoop, Dropped
<1>7. MatchedIn(log', scanned') = MatchedIn(log, Len(log))
      /\ \A x \in Range(todo) : MatchedIn(log', x) = MatchedIn(log, x)
  BY <1>2, <1>3, <1>4
<1>8. Scanned'
  <2>1. scanned' <= Len(log') /\ Range(todo') \subseteq 1 .. Len(log')
    BY <1>1, <1>2, <1>3, <1>4
  <2>2. MatchedIn(log, scanned) \subseteq MatchedIn(log, Len(log))
    BY <1>2, <1>3, MatchedNested
  <2> QED BY <1>1, <1>3, <1>4, <1>7, <2>1, <2>2 DEF Scanned
<1>9. Covered'
  <2>1. Len(log) \in {scanned} \cup Range(todo)
    BY <1>3 DEF Covered
  <2>2. \A x \in {Len(log)} \cup Range(todo) : \A y \in MatchedIn(log, x) :
           \/ y \in Range(got) \cup matches \cup Range(todo)
           \/ error # "none" /\ \E m \in matches : m < y
    BY <1>3, <2>1 DEF Covered
  <2>3. Len(log') = scanned'
    BY <1>2, <1>4
  <2> QED BY <1>1, <1>4, <1>7, <2>2, <2>3 DEF Covered
<1>10. Settled'
  <2>1. phase = "opening" => after <= Len(log') /\ MatchedIn(log', after) = MatchedIn(log, after)
    BY <1>2, <1>3 DEF Settled
  <2>2. ~(consumer = "eof" /\ ~closed)
    BY DEF Shape
  <2> QED BY <1>1, <1>3, <2>1, <2>2 DEF Settled
<1> QED BY <1>5, <1>6, <1>8, <1>9, <1>10 DEF ScanInv

\* Where a matching event goes, it is behind the others.
LEMMA TakenIsLined ==
    ASSUME Typed, Shape, ScanInv, NEW s \in 1 .. MaxSeq, matches = Buffered,
           Before(matches \cup Range(todo), {s}), error = "none",
           Takes(s), batch' = batch, ~overtaken', UNCHANGED <<got, todo, captured>>
    PROVE  Ordered' /\ (Buffered' = Buffered \cup {s} \/ (Dropped' /\ error' # "none"))
<1>1. /\ Sorted(captured) /\ Sorted(replay) /\ Sorted(live) /\ Sorted(batch) /\ Sorted(ingress)
      /\ Increasing(got) /\ Increasing(todo) /\ Lined
      /\ ingress \in Seq(Items) /\ live \in Seq(Items)
  BY DEF ScanInv, Ordered, Typed, BufferTypes
<1>2. /\ Before(OnLoop, {s}) /\ Before(Range(todo), {s}) /\ Before(Carried(live), {s})
      /\ Before(Carried(batch), {s}) /\ Before(Carried(ingress), {s})
  BY DEF Buffered, Before
<1>3. CASE /\ Sorted(ingress') /\ Carried(ingress') = Carried(ingress) \cup {s}
           /\ UNCHANGED <<live, replay>>
  <2>1. OnLoop' = OnLoop
    BY <1>3 DEF OnLoop
  <2>2. Ordered'
    <3>1. InLine(OnLoop, Range(todo), Carried(live), Carried(batch), Carried(ingress'))
      BY <1>1, <1>2, <1>3 DEF Lined, InLine, Before
    <3> QED BY <1>1, <1>3, <2>1, <3>1 DEF Ordered, Lined
  <2> QED BY <1>3, <2>1, <2>2 DEF Buffered
<1>4. CASE /\ ingress' = Append(ingress, <<s>>) /\ UNCHANGED <<live, replay>>
  BY <1>1, <1>2, <1>3, <1>4, AppendCarries
<1>5. CASE ingress # <<>> /\ ingress' = Fold(ingress, s) /\ UNCHANGED <<live, replay>>
  BY <1>1, <1>2, <1>3, <1>5, FoldCarries
<1>6. CASE /\ ingress = <<>> /\ live # <<>> /\ live' = Fold(live, s) /\ batch = <<>>
           /\ UNCHANGED <<ingress, replay>>
  <2>1. Sorted(live') /\ Carried(live') = Carried(live) \cup {s}
    BY <1>1, <1>2, <1>6, FoldCarries
  <2>2. Carried(batch) = {} /\ Carried(ingress) = {} /\ OnLoop' = OnLoop
    BY <1>6, CarriedNone DEF OnLoop
  <2>3. InLine(OnLoop, Range(todo), Carried(live'), {}, {})
    BY <1>1, <1>2, <2>1 DEF Lined, InLine, Before
  <2>4. Ordered'
    BY <1>1, <1>6, <2>1, <2>2, <2>3 DEF Ordered, Lined
  <2> QED BY <1>6, <2>1, <2>2, <2>4 DEF Buffered
<1>7. CASE Fail("overflow")
  <2>1. /\ error' = "overflow" /\ closed' = TRUE
        /\ ingress' = <<>> /\ live' = <<>> /\ replay' = <<>>
    BY <1>7 DEF Fail
  <2>2. Ordered'
    BY <2>1, DroppedOrder
  <2> QED BY <2>1, <2>2 DEF Dropped
<1> QED BY <1>4, <1>5, <1>6, <1>7, Zenon DEF Takes
\* An event that the filter passes is scanned and taken.
LEMMA TakenScans ==
    ASSUME Typed, Shape, ScanInv, NEW k, ~ended, log' = Append(log, k), Len(log) < MaxSeq,
           Matches(k), subscribed, ~closed, ~brokerClosed, RecordScan(Len(log) + 1, k),
           Takes(Len(log) + 1), batch' = batch, ~overtaken',
           UNCHANGED <<ended, subscribed, openVars, brokerClosed, consumerVars>>
    PROVE  ScanInv'
<1> DEFINE s == Len(log) + 1
<1>1. /\ UNCHANGED <<phase, after, todo, captured, got, consumer, subscribed, brokerClosed>>
  BY DEF openVars, consumerVars
<1>2. /\ Len(log) \in Nat /\ Len(log') = Len(log) + 1 /\ scanned \in Nat /\ after \in Nat
      /\ \A n \in Nat : n <= Len(log) => MatchedIn(log', n) = MatchedIn(log, n)
      /\ MatchedIn(log', s) = MatchedIn(log, Len(log)) \cup {s}
      /\ s \in 1 .. MaxSeq /\ s \in Nat
  <2>1. Len(log) \in Nat /\ s \in Nat /\ scanned \in Nat /\ after \in Nat
    BY LenProperties DEF Typed, CursorTypes, OpenTypes, SourceTypes
  <2>2. MatchedIn(log', s) = MatchedIn(log, Len(log)) \cup {s}
    <3>1. MatchedIn(log', s) = MatchedIn(log, Len(log)) \cup IF Matches(k) THEN {s} ELSE {}
      BY <2>1, MatchedStays
    <3> QED BY <3>1
  <2>3. \A n \in Nat : n <= Len(log) => MatchedIn(log', n) = MatchedIn(log, n)
    BY MatchedStays
  <2> QED BY <2>1, <2>2, <2>3, MatchedStays
<1>3. /\ scanned <= Len(log) /\ Range(todo) \subseteq 1 .. Len(log)
      /\ Range(got) \cup matches \subseteq MatchedIn(log, scanned)
      /\ Before(Range(got), matches \cup Range(todo))
      /\ Ordered /\ Covered /\ Settled /\ phase # "idle"
      /\ matches = Buffered /\ error = "none"
  BY DEF ScanInv, Scanned, Shape, Kept, Dropped
<1>4. /\ matches' = matches \cup {s} /\ scanned' = s
      /\ cursor' = IF matches' = {} THEN scanned' ELSE Min(matches') - 1
  <2>1. /\ matches' = IF Matches(k) THEN matches \cup {s} ELSE matches
        /\ scanned' = IF s > scanned THEN s ELSE scanned
        /\ cursor' = IF matches' = {} THEN scanned' ELSE Min(matches') - 1
    BY <1>2, RecordDoes
  <2> QED BY <1>2, <1>3, <2>1
<1>5. MatchedIn(log, scanned) \subseteq MatchedIn(log, Len(log))
      /\ MatchedIn(log, Len(log)) \subseteq 1 .. Len(log)
  BY <1>2, <1>3, MatchedNested
<1> HIDE DEF s
<1>6. /\ \A x \in 1 .. Len(log) : x < s
      /\ Before(Range(got) \cup matches \cup Range(todo), {s})
  <2>1. \A x \in 1 .. Len(log) : x < s
    BY <1>2 DEF s
  <2> QED BY <1>3, <1>5, <2>1 DEF Before
<1>7. Ordered' /\ (Buffered' = Buffered \cup {s} \/ (Dropped' /\ error' # "none"))
  <2>1. Before(matches \cup Range(todo), {s})
    BY <1>6 DEF Before
  <2>2. Takes(s)
    BY DEF s
  <2> QED BY <1>1, <1>2, <1>3, <2>1, <2>2, TakenIsLined
<1>8. Kept'
  <2>1. closed' => error' # "none"
    BY <1>3 DEF Takes, Fail
  <2> QED BY <1>3, <1>4, <1>7, <2>1 DEF Kept
<1>9. MatchedIn(log', scanned') = MatchedIn(log, Len(log)) \cup {s}
      /\ \A x \in Range(todo) : MatchedIn(log', x) = MatchedIn(log, x)
  BY <1>2, <1>3, <1>4
<1>10. Scanned'
  <2>1. scanned' <= Len(log') /\ Range(todo') \subseteq 1 .. Len(log')
    BY <1>1, <1>2, <1>3, <1>4 DEF s
  <2>2. Range(got) \cup matches' \subseteq MatchedIn(log', scanned')
    BY <1>3, <1>4, <1>5, <1>9
  <2>3. Before(Range(got), matches' \cup Range(todo))
    BY <1>3, <1>4, <1>6 DEF Before
  <2> QED BY <1>1, <1>4, <2>1, <2>2, <2>3 DEF Scanned
<1>11. Covered'
  <2>1. Len(log) \in {scanned} \cup Range(todo)
    BY <1>3 DEF Covered
  <2>2. \A x \in {Len(log)} \cup Range(todo) : \A y \in MatchedIn(log, x) :
           y \in Range(got) \cup matches \cup Range(todo)
    BY <1>3, <2>1 DEF Covered
  <2>3. \A x \in {scanned'} \cup Range(todo) : \A y \in MatchedIn(log', x) :
           y \in Range(got) \cup matches' \cup Range(todo)
    BY <1>4, <1>9, <2>2
  <2>4. Len(log') = scanned'
    BY <1>2, <1>4 DEF s
  <2> QED BY <1>1, <2>3, <2>4 DEF Covered
<1>12. Settled'
  <2>1. phase = "opening" => after <= Len(log') /\ MatchedIn(log', after) = MatchedIn(log, after)
    BY <1>2, <1>3 DEF Settled
  <2>2. ~(consumer = "eof" /\ ~closed)
    BY DEF Shape
  <2>3. ~(consumer = "eof")
    BY <2>2
  <2> QED BY <1>1, <1>3, <2>1, <2>3 DEF Settled
<1> QED BY <1>7, <1>8, <1>10, <1>11, <1>12 DEF ScanInv

\* The broker's next event.
LEMMA EmitScans ==
    ASSUME Typed, Shape, ScanInv, NEW k \in EventKinds, Emit(k), ~overtaken'
    PROVE  ScanInv'
<1>1. /\ ~ended /\ Len(log) < MaxSeq /\ log' = Append(log, k)
      /\ UNCHANGED <<ended, subscribed, openVars, draining, available, raised,
                     brokerClosed, consumerVars>>
  BY DEF Emit
<1>2. CASE ~subscribed
  <2>1. UNCHANGED <<bufferVars, drainScheduled, error, closed, cursorVars, overtaken>>
    BY <1>2 DEF Emit
  <2> QED BY <1>1, <1>2, <2>1, UnseenScans
<1>3. CASE subscribed
  <2> DEFINE s == Len(log) + 1
  <2>1. Ingest(s, k) /\ pending \in Nat
    BY <1>3 DEF Emit, Typed, BufferTypes
  <2> HIDE DEF s
  <2>2. \/ /\ closed \/ brokerClosed
           /\ UNCHANGED <<bufferVars, drainScheduled, error, closed, overtaken, cursorVars>>
        \/ /\ ~closed /\ ~brokerClosed /\ ~Matches(k) /\ RecordScan(s, k)
           /\ UNCHANGED <<bufferVars, drainScheduled, error, closed, overtaken>>
        \/ /\ ~closed /\ ~brokerClosed /\ Matches(k) /\ RecordScan(s, k)
           /\ drainScheduled' = TRUE /\ batch' = batch /\ Takes(s)
    BY <2>1, IngestIs
  <2>3. CASE /\ closed \/ brokerClosed
             /\ UNCHANGED <<bufferVars, drainScheduled, error, closed, overtaken, cursorVars>>
    BY <1>1, <2>3, UnseenScans
  <2>4. CASE /\ ~closed /\ ~brokerClosed /\ ~Matches(k) /\ RecordScan(s, k)
             /\ UNCHANGED <<bufferVars, drainScheduled, error, closed, overtaken>>
    BY <1>1, <1>3, <2>4, HiddenScans DEF s
  <2>5. CASE /\ ~closed /\ ~brokerClosed /\ Matches(k) /\ RecordScan(s, k)
             /\ drainScheduled' = TRUE /\ batch' = batch /\ Takes(s)
    BY <1>1, <1>3, <2>5, TakenScans DEF s
  <2> QED BY <2>2, <2>3, <2>4, <2>5, Zenon
<1> QED BY <1>2, <1>3
\* The session closes, or the stream is closed: nothing moves.
LEMMA EndingScans ==
    ASSUME Typed, Shape, ScanInv,
           \/ BrokerClose
           \/ Close
    PROVE  ScanInv'
<1>1. /\ UNCHANGED <<log, phase, after, todo, captured, ingress, live, replay, batch, got,
                     scanned, cursor, matches, error>>
      /\ closed' \in {closed, TRUE} /\ (closed' => closed \/ phase = "open")
      /\ (subscribed' \/ brokerClosed' => subscribed \/ brokerClosed)
      /\ consumer' \in {consumer, "ready"}
  <2> USE DEF sourceVars, openVars, bufferVars, cursorVars, consumerVars, endVars
  <2>1. CASE BrokerClose
    <3>1. UNCHANGED <<log, phase, after, todo, captured, ingress, live, replay, batch, got,
                      scanned, cursor, matches, error, closed, consumer>>
      BY <2>1 DEF BrokerClose
    <3>2. subscribed' \/ brokerClosed' => subscribed \/ brokerClosed
      BY <2>1 DEF BrokerClose
    <3> QED BY <3>1, <3>2
  <2>2. CASE Close
    BY <2>2 DEF Close
  <2> QED BY <2>1, <2>2
<1>2. Ordered /\ Kept /\ Scanned /\ Covered /\ Settled
  BY DEF ScanInv
<1>3. Ordered' /\ Scanned'
  BY <1>1, <1>2 DEF Ordered, Lined, OnLoop, Scanned
<1>4. Kept'
  BY <1>1, <1>2 DEF Kept, Buffered, OnLoop, Dropped
<1>5. closed => closed'
  BY <1>1
<1>6. Covered' /\ Settled'
  BY <1>1, <1>2, <1>5 DEF Covered, Settled
<1> QED BY <1>2, <1>3, <1>4, <1>6 DEF ScanInv

\* The buffers of a stream that has failed or is given up are thrown away.
LEMMA DroppedScans ==
    ASSUME Typed, Shape, ScanInv, phase = "open", closed',
           ingress' = <<>>, live' = <<>>, replay' = <<>>, batch' \in {batch, <<>>},
           error' = "none" => batch' = <<>>, error # "none" => error' # "none",
           phase' # "opening", UNCHANGED <<log, got, todo, captured, scanned, cursor, matches>>
    PROVE  ScanInv'
<1>1. Ordered'
  BY DroppedOrder
<1>2. Kept' /\ Settled'
  BY DEF Kept, Dropped, Settled
<1>3. Scanned /\ Covered
  BY DEF ScanInv
<1>4. Scanned' /\ Covered'
  BY <1>3 DEF Scanned, Covered
<1> QED BY <1>1, <1>2, <1>4 DEF ScanInv

\* The first half of a drain: the ingress becomes the batch, or nothing moves.
LEMMA TakeScans ==
    ASSUME Typed, Shape, ScanInv, DrainTake
    PROVE  ScanInv'
<1>1. /\ phase # "opening" /\ batch = <<>> /\ Carried(batch) = {} /\ Sorted(<<>>)
      /\ UNCHANGED <<log, ended, phase, after, todo, captured, got, scanned, cursor, matches,
                     error, closed, brokerClosed, consumer>>
  BY CarriedNone DEF DrainTake, LoopFree, Shape, Typed, DrainTypes, sourceVars, openVars, endVars,
                     cursorVars, consumerVars
<1>2. Ordered /\ Kept /\ Scanned /\ Covered /\ Settled
  BY DEF ScanInv
<1>3. (subscribed' => subscribed) /\ Scanned' /\ Settled'
  BY <1>1, <1>2 DEF DrainTake, Scanned, Settled
<1>4. Covered'
  BY <1>1, <1>2, <1>3 DEF Covered
<1>5. CASE batch' = ingress /\ ingress' = <<>> /\ UNCHANGED <<live, replay>>
  <2>1. Carried(batch') = Carried(ingress) /\ Carried(ingress') = {} /\ OnLoop' = OnLoop
    BY <1>1, <1>5, CarriedNone DEF OnLoop
  <2>2. Ordered'
    BY <1>1, <1>2, <1>5, <2>1 DEF Ordered, Lined, InLine, Before
  <2>3. Buffered' = Buffered
    BY <1>1, <1>5, <2>1 DEF Buffered
  <2>4. Dropped => Dropped'
    BY <1>1, <1>5 DEF Dropped
  <2>5. Kept'
    BY <1>1, <1>2, <2>3, <2>4 DEF Kept
  <2> QED BY <1>3, <1>4, <2>2, <2>5 DEF ScanInv
<1>6. CASE error # "none" /\ ingress' = <<>> /\ live' = <<>> /\ replay' = <<>> /\ batch' = batch
  <2>1. Ordered'
    BY <1>1, <1>6, DroppedOrder
  <2>2. Kept'
    BY <1>1, <1>6 DEF Kept, Dropped, Shape
  <2> QED BY <1>3, <1>4, <2>1, <2>2 DEF ScanInv
<1>7. CASE UNCHANGED <<ingress, live, replay, batch>>
  <2>1. Ordered' /\ Kept'
    BY <1>1, <1>2, <1>7 DEF Ordered, Lined, OnLoop, Kept, Buffered, Dropped
  <2> QED BY <1>3, <1>4, <2>1 DEF ScanInv
<1> QED BY <1>5, <1>6, <1>7 DEF DrainTake

\* The second half: the batch joins the live events, or is lost with the stream.
LEMMA CommitScans ==
    ASSUME Typed, Shape, ScanInv, DrainCommit
    PROVE  ScanInv'
<1>1. /\ phase = "open" /\ batch' = <<>> /\ Carried(batch') = {} /\ Sorted(<<>>)
      /\ captured = <<>> /\ Carried(captured) = {} /\ todo = <<>> /\ Range(todo) = {}
      /\ UNCHANGED <<log, ended, phase, after, todo, captured, got, scanned, cursor, matches, consumer>>
      /\ live \in Seq(Items) /\ batch \in Seq(Items)
  BY CarriedNone DEF DrainCommit, Shape, Typed, DrainTypes, BufferTypes, sourceVars, openVars,
                     cursorVars, consumerVars, Range
<1>2. Ordered /\ Kept /\ Scanned /\ Covered /\ Settled
  BY DEF ScanInv
<1>3. CASE Fail("projection") \/ Quit
  <2>1. /\ ingress' = <<>> /\ live' = <<>> /\ replay' = <<>> /\ closed'
        /\ (error # "none" => error' # "none")
    BY <1>3 DEF Fail, Quit
  <2> QED BY <1>1, <2>1, DroppedScans
<1>4. CASE /\ live' = IF error = "none" THEN live \o batch ELSE live
           /\ subscribed' = (subscribed /\ error = "none")
           /\ UNCHANGED <<ingress, replay, pending, error, closed, brokerClosed>>
  <2>1. Scanned' /\ Covered' /\ Settled'
    BY <1>1, <1>2, <1>4 DEF Scanned, Covered, Settled
  <2>2. CASE error = "none"
    <3>1. Sorted(live') /\ Carried(live') = Carried(live) \cup Carried(batch)
      BY <1>1, <1>2, <1>4, <2>2, ConcatCarries DEF Ordered, Lined, InLine
    <3>2. OnLoop' = OnLoop
      BY <1>1, <1>4 DEF OnLoop
    <3>3. Ordered'
      BY <1>1, <1>2, <1>4, <3>1, <3>2 DEF Ordered, Lined, InLine, Before
    <3>4. Buffered' = Buffered
      BY <1>1, <1>4, <3>1, <3>2 DEF Buffered
    <3>5. Dropped => Dropped'
      <4>1. <<>> \o <<>> = <<>>
        OBVIOUS
      <4> QED BY <1>1, <1>4, <2>2, <4>1 DEF Dropped
    <3>6. Kept'
      BY <1>1, <1>2, <1>4, <3>4, <3>5 DEF Kept
    <3> QED BY <2>1, <3>3, <3>6 DEF ScanInv
  <2>3. CASE error # "none"
    <3>1. closed /\ ingress = <<>> /\ live = <<>> /\ replay = <<>>
      BY <2>3 DEF Shape
    <3> QED BY <1>1, <1>4, <2>3, <3>1, DroppedScans
  <2> QED BY <2>2, <2>3
<1>5. (Fail("projection") /\ UNCHANGED brokerClosed) \/ Quit \/
      /\ live' = IF error = "none" THEN live \o batch ELSE live
      /\ subscribed' = (subscribed /\ error = "none")
      /\ UNCHANGED <<ingress, replay, pending, error, closed, brokerClosed>>
  BY Zenon DEF DrainCommit
<1> QED BY <1>3, <1>4, <1>5
\* An event is delivered: the consumer has it, and it is no longer pending.
LEMMA DeliverScans ==
    ASSUME Typed, Shape, ScanInv, phase = "open", Deliver,
           UNCHANGED <<log, phase, after, todo, captured, ingress, batch, error, closed, brokerClosed>>
    PROVE  ScanInv'
<1>1. /\ Increasing(got) /\ Increasing(todo) /\ Lined
      /\ Sorted(captured) /\ Sorted(replay) /\ Sorted(live) /\ Sorted(batch) /\ Sorted(ingress)
      /\ Kept /\ Scanned /\ Covered /\ got \in Seq(1 .. MaxSeq) /\ consumer' = "ready"
      /\ replay \in Seq(Items) /\ live \in Seq(Items) /\ subscribed' = subscribed
      /\ scanned \in Nat /\ matches \subseteq 1 .. MaxSeq
  BY DEF ScanInv, Ordered, Typed, ConsumerTypes, BufferTypes, CursorTypes, Deliver
<1>2. /\ captured = <<>> /\ Carried(captured) = {} /\ todo = <<>> /\ Range(todo) = {}
      /\ Carried(<<>>) = {}
  BY CarriedNone DEF Shape, Range
<1>3. error = "none" /\ (replay # <<>> \/ live # <<>>)
  BY DEF Deliver, Shape
<1>4. matches = Buffered
  BY <1>1, <1>3 DEF Kept, Dropped
<1>5. PICK b \in Seq(Items) :
          /\ b # <<>> /\ Sorted(b) /\ got' = got \o Head(b) /\ MarkDelivered(Last(Head(b)))
          /\ \/ b = replay /\ replay' = Tail(b) /\ live' = live
             \/ replay = <<>> /\ replay' = <<>> /\ b = live /\ live' = Tail(b)
  <2>1. CASE /\ replay # <<>> /\ replay' = Tail(replay) /\ got' = got \o Head(replay)
             /\ MarkDelivered(Last(Head(replay))) /\ live' = live
    BY <1>1, <2>1
  <2>2. CASE /\ replay = <<>> /\ live # <<>> /\ live' = Tail(live) /\ got' = got \o Head(live)
             /\ MarkDelivered(Last(Head(live))) /\ replay' = replay
    BY <1>1, <2>2
  <2> QED BY <2>1, <2>2, Zenon DEF Deliver
<1> DEFINE h == Head(b)
           s == Last(h)
           rest == Carried(Tail(b)) \cup (IF b = replay THEN Carried(live) ELSE {})
                       \cup Carried(batch) \cup Carried(ingress)
<1>6. /\ h \in Items /\ Increasing(h) /\ Carried(b) = Range(h) \cup Carried(Tail(b))
      /\ Sorted(Tail(b)) /\ Before(Range(h), Carried(Tail(b)))
  BY <1>5, TailCarries
<1>7. s \in Range(h) /\ Range(h) \subseteq Nat /\ \A x \in Range(h) : x <= s
  BY <1>6, LastIsGreatest
<1>8. h \in Seq(1 .. MaxSeq) /\ s \in 1 .. MaxSeq
  BY <1>6, ItemsAre
<1> HIDE DEF h, s
<1>9. OnLoop = Carried(replay) /\ OnLoop' = Carried(replay')
  BY <1>2 DEF OnLoop
<1>10. /\ Buffered = Range(h) \cup rest /\ Buffered' = rest /\ Before(Range(h), rest)
       /\ Sorted(replay') /\ Sorted(live')
       /\ InLine(Carried(replay'), {}, Carried(live'), Carried(batch), Carried(ingress))
  <2>0. InLine(Carried(replay), {}, Carried(live), Carried(batch), Carried(ingress))
    BY <1>1, <1>2, <1>9 DEF Lined
  <2>1. CASE b = replay /\ replay' = Tail(b) /\ live' = live
    BY <1>1, <1>6, <1>9, <2>0, <2>1 DEF Buffered, InLine, Before
  <2>2. CASE replay = <<>> /\ replay' = <<>> /\ b = live /\ live' = Tail(b)
    <3>1. b # replay
      BY <1>5, <2>2
    <3> QED BY <1>1, <1>2, <1>6, <1>9, <2>0, <2>2, <3>1, CarriedNone DEF Buffered, InLine, Before
  <2> QED BY <1>5, <2>1, <2>2
<1> HIDE DEF rest
<1>11. {m \in matches : m > s} = rest
  <2>1. matches \subseteq Nat /\ s \in Nat
    BY <1>1, <1>8
  <2>2. \A m \in Range(h) : ~(m > s)
    BY <1>7
  <2>3. \A m \in rest : m > s
    BY <1>4, <1>7, <1>10, <2>1 DEF Before
  <2> QED BY <1>4, <1>10, <2>2, <2>3
<1>12. s <= scanned
  <2>1. s \in MatchedIn(log, scanned)
    BY <1>1, <1>4, <1>7, <1>10 DEF Scanned
  <2> QED BY <1>1, <2>1 DEF MatchedIn
<1>13. /\ matches' = rest /\ scanned' = scanned
       /\ cursor' = IF matches' = {} THEN scanned' ELSE Min(matches') - 1
  <2>1. Advance(s, rest)
    BY <1>5, <1>11 DEF MarkDelivered, s, h
  <2>2. rest \subseteq Nat /\ 0 \notin rest /\ s \in Nat
    <3>1. rest \subseteq 1 .. MaxSeq
      BY <1>1, <1>11
    <3> QED BY <1>8, <3>1
  <2>3. /\ matches' = rest /\ scanned' = IF s > scanned THEN s ELSE scanned
        /\ cursor' = IF rest = {} THEN scanned' ELSE Min(rest) - 1
    BY <1>1, <2>1, <2>2, AdvanceDoes
  <2>4. ~(s > scanned)
    BY <1>1, <1>12, <2>2
  <2> QED BY <2>3, <2>4
<1>14. Increasing(got') /\ Range(got') = Range(got) \cup Range(h)
  <2>1. Before(Range(got), Range(h))
    BY <1>1, <1>4, <1>10 DEF Scanned, Before
  <2>2. got' = got \o h
    BY <1>5 DEF h
  <2> QED BY <1>1, <1>6, <1>8, <2>1, <2>2, ConcatIncreases
<1>15. Ordered'
  BY <1>1, <1>2, <1>9, <1>10, <1>14 DEF Ordered, Lined
<1>16. Kept'
  BY <1>1, <1>10, <1>13 DEF Kept
<1>17. Scanned'
  <2>1. Range(got') \cup matches' = Range(got) \cup matches
    BY <1>4, <1>10, <1>13, <1>14
  <2>2. Before(Range(got'), matches' \cup Range(todo))
    BY <1>1, <1>2, <1>4, <1>10, <1>13, <1>14 DEF Scanned, Before
  <2> QED BY <1>1, <1>13, <2>1, <2>2 DEF Scanned
<1>18. Covered'
  <2>1. Range(got') \cup matches' = Range(got) \cup matches
    BY <1>4, <1>10, <1>13, <1>14
  <2> QED BY <1>1, <1>3, <1>13, <2>1 DEF Covered
<1>19. Settled'
  BY <1>1 DEF Settled
<1> QED BY <1>15, <1>16, <1>17, <1>18, <1>19 DEF ScanInv

\* An iteration that ends without an error has given everything.
LEMMA EndScans ==
    ASSUME Typed, Shape, ScanInv, phase = "open", ~draining,
           RaiseError \/ EndOrWait,
           UNCHANGED <<log, phase, after, todo, captured, ingress, batch, error, closed,
                       brokerClosed, drainScheduled>>
    PROVE  ScanInv'
<1>1. /\ UNCHANGED <<live, replay, scanned, cursor, matches, got>> /\ (subscribed' => subscribed)
  BY DEF RaiseError, EndOrWait, cursorVars
<1>2. Ordered /\ Kept /\ Scanned /\ Covered /\ Settled
  BY DEF ScanInv
<1>3. Ordered' /\ Kept' /\ Scanned'
  BY <1>1, <1>2 DEF Ordered, Lined, OnLoop, Kept, Buffered, Dropped, Scanned
<1>4. Covered'
  BY <1>1, <1>2 DEF Covered
<1>5. Settled'
  <2>1. CASE consumer' = "eof" /\ error = "none" /\ ~closed
    <3>1. /\ EndOrWait /\ Terminated
      BY <2>1 DEF RaiseError, EndOrWait
    <3>2. /\ brokerClosed /\ ingress = <<>> /\ live = <<>> /\ replay = <<>> /\ batch = <<>>
          /\ captured = <<>> /\ todo = <<>>
      BY <2>1, <3>1 DEF Terminated, EndOrWait, Shape, Typed, DrainTypes
    <3>3. matches = {} /\ Range(todo) = {}
      BY <1>2, <2>1, <3>2, CarriedNone DEF Kept, Dropped, Buffered, OnLoop, Range
    <3>4. Len(log) = scanned
      BY <1>2, <2>1, <3>2, <3>3 DEF Covered
    <3> QED BY <1>1, <1>2, <3>3, <3>4 DEF Settled, Scanned
  <2>2. CASE ~(consumer' = "eof" /\ error = "none" /\ ~closed)
    BY <1>1, <2>2 DEF Settled
  <2> QED BY <2>1, <2>2
<1> QED BY <1>2, <1>3, <1>4, <1>5 DEF ScanInv
\* Every step of a stream that no delta has overtaken keeps the scan.
LEMMA ScanStep ==
    ASSUME Typed, Shape, ~overtaken => ScanInv, [Next]_vars
    PROVE  (~overtaken => ScanInv)'
<1> SUFFICES ASSUME ~overtaken' PROVE ScanInv'
  OBVIOUS
<1>1. ~overtaken
  <2>1. UNCHANGED overtaken \/ \E k \in EventKinds : Emit(k)
    BY Zenon DEF Next, vars, Open, Project, Opened, BrokerClose, DrainTake, DrainCommit, Anext,
                 Close, Leave
  <2>2. CASE \E k \in EventKinds : Emit(k)
    <3>1. overtaken' = overtaken \/ overtaken' = (overtaken \/ batch # <<>>)
      BY <2>2, Zenon DEF Emit, Ingest, AtBound
    <3> QED BY <3>1
  <2> QED BY <2>1, <2>2
<1>2. ScanInv
  BY <1>1
<1>3. CASE UNCHANGED vars
  BY <1>2, <1>3 DEF vars, ScanInv, Ordered, Lined, OnLoop, Kept, Buffered, Dropped, Scanned,
                    Covered, Settled
<1>4. CASE Open
  BY <1>2, <1>4, OpenScans
<1>5. CASE Project
  BY <1>2, <1>5, ProjectScans
<1>6. CASE Opened
  BY <1>2, <1>6, OpenedScans
<1>7. CASE \E k \in EventKinds : Emit(k)
  BY <1>2, <1>7, EmitScans
<1>8. CASE BrokerClose \/ Close
  BY <1>2, <1>8, EndingScans
<1>9. CASE DrainTake
  BY <1>2, <1>9, TakeScans
<1>10. CASE DrainCommit
  BY <1>2, <1>10, CommitScans
<1>11. CASE Anext
  <2>1. /\ phase = "open" /\ ~draining
        /\ UNCHANGED <<sourceVars, openVars, ingress, batch, draining,
                       drainScheduled, error, closed, brokerClosed, overtaken>>
    BY <1>11 DEF Anext
  <2>2. UNCHANGED <<log, phase, after, todo, captured, ingress, batch, error, closed,
                    brokerClosed, drainScheduled>>
    BY <2>1 DEF sourceVars, openVars
  <2>3. CASE Deliver
    BY <1>2, <2>1, <2>2, <2>3, DeliverScans
  <2>4. CASE RaiseError \/ EndOrWait
    BY <1>2, <2>1, <2>2, <2>4, EndScans
  <2> QED BY <1>11, <2>3, <2>4 DEF Anext
<1>12. CASE Leave
  <2>1. /\ phase = "open" /\ closed /\ ~draining /\ phase' = "idle"
        /\ ingress' = <<>> /\ live' = <<>> /\ replay' = <<>>
        /\ UNCHANGED <<log, got, todo, captured, scanned, cursor, matches, batch, error, closed>>
    BY <1>12 DEF Leave, sourceVars, endVars, cursorVars, consumerVars
  <2>2. batch = <<>>
    BY <2>1 DEF Shape
  <2> QED BY <1>2, <2>1, <2>2, DroppedScans
<1> QED
  BY <1>3, <1>4, <1>5, <1>6, <1>7, <1>8, <1>9, <1>10, <1>11, <1>12 DEF Next

\* A stream starts with nothing to scan.
LEMMA ScanInit == Init => ScanInv
<1> SUFFICES ASSUME Init PROVE ScanInv
  OBVIOUS
<1>1. /\ log = <<>> /\ phase = "idle" /\ todo = <<>> /\ captured = <<>>
      /\ ingress = <<>> /\ live = <<>> /\ replay = <<>> /\ batch = <<>>
      /\ cursor = 0 /\ scanned = 0 /\ matches = {} /\ consumer = "ready" /\ got = <<>>
  BY DEF Init
<1>2. Carried(<<>>) = {} /\ Sorted(<<>>) /\ Len(<<>>) = 0
  BY CarriedNone
<1>3. Range(<<>>) = {} /\ Increasing(<<>>) /\ 1 .. 0 = {}
  BY DEF Range, Increasing
<1>4. MatchedIn(log, 0) = {}
  BY <1>3 DEF MatchedIn
<1>5. Ordered /\ Kept
  BY <1>1, <1>2, <1>3 DEF Ordered, Lined, InLine, OnLoop, Before, Kept, Buffered
<1>6. Scanned
  <2>1. scanned <= Len(log)
    BY <1>1, <1>2
  <2> QED BY <1>1, <1>3, <2>1 DEF Scanned, Before
<1>7. Covered /\ Settled
  BY <1>1, <1>3, <1>4 DEF Covered, Settled
<1> QED BY <1>5, <1>6, <1>7 DEF ScanInv

\* The cursor that a stream reports is exactly what the consumer has: the text of
\* every event that the filter passes up to it, once and in order, and nothing
\* after it; through folding, overflow, failed projections and the resumption of a
\* new stream from it, unless a delta has overtaken the batch of a running drain.
\* An iteration that ends without an error has delivered everything.
THEOREM CursorsAreDelivered == Spec => []CursorIsDelivered
<1>1. Typed /\ Shape /\ (~overtaken => ScanInv) => CursorIsDelivered
  <2> SUFFICES ASSUME Typed, Shape, ScanInv
               PROVE  /\ phase # "opening" => Increasing(got) /\ Range(got) = MatchedUpTo(cursor)
                      /\ consumer = "eof" /\ error = "none" /\ ~closed => cursor = Len(log)
    BY DEF CursorIsDelivered
  <2>1. phase # "opening" => Increasing(got) /\ Range(got) = MatchedIn(log, cursor)
    BY CursorIs
  <2>2. MatchedUpTo(cursor) = MatchedIn(log, cursor)
    BY DEF MatchedUpTo, MatchedIn
  <2>3. consumer = "eof" /\ error = "none" /\ ~closed => cursor = Len(log)
    BY DEF ScanInv, Settled
  <2> QED BY <2>1, <2>2, <2>3
<1>2. Init => (~overtaken => ScanInv)
  BY ScanInit
<1> QED BY <1>1, <1>2, ShapeInvariant, ScanStep, PTL DEF Spec
=============================================================================
