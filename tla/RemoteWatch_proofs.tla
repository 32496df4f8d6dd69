------------------------ MODULE RemoteWatch_proofs ------------------------
(***************************************************************************)
(* Theorems about the remote watch, for every queue size, number of         *)
(* attempts and number of events, and for every way in which the connection *)
(* is lost and replaced.                                                   *)
(***************************************************************************)
EXTENDS RemoteWatch, Integers, SequenceTheorems, WellFoundedInduction, TLAPS

USE RemoteWatchAssumption
-----------------------------------------------------------------------------
(* The events that pass the filter.                                        *)

\* Min picks an element of a nonempty set of naturals.
LEMMA MinIsElement ==
    ASSUME NEW S, S \subseteq Nat, S # {}
    PROVE  Min(S) \in S /\ \A s \in S : Min(S) <= s
<1> DEFINE Less == {ss \in Nat \X Nat : ss[1] < ss[2]}
<1>1. IsWellFoundedOn(Less, Nat)
  BY NatLessThanWellFounded, Zenon DEF OpToRel
<1> HIDE DEF Less
<1>2. PICK n \in S : \A s \in S : ~(<<s, n>> \in Less)
  BY <1>1, WFMin
<1>3. ASSUME NEW s \in S PROVE n <= s
  <2>1. s < n => <<s, n>> \in Less
    BY DEF Less
  <2>2. ~(s < n)
    BY <1>2, <2>1
  <2> QED BY <2>2
<1> QED BY <1>2, <1>3 DEF Min

\* The events of q up to n that pass the filter.
ShownIn(q, n) == {i \in 1 .. n : q[i] = "shown"}

\* The next event that passes the filter, and that there is none in between.
LEMMA NextShownIs ==
    ASSUME NEW s \in Nat, Len(log) \in Nat
    PROVE  /\ NextShown(s) \in Nat /\ NextShown(s) <= Len(log) + 1
           /\ NextShown(s) <= Len(log) => s < NextShown(s) /\ log[NextShown(s)] = "shown"
           /\ \A i \in Nat : s < i /\ i < NextShown(s) /\ i <= Len(log) => log[i] # "shown"
<1> DEFINE S == {i \in s + 1 .. Len(log) : log[i] = "shown"} \cup {Len(log) + 1}
           n == NextShown(s)
<1>1. S \subseteq Nat /\ S # {}
  OBVIOUS
<1>2. n = Min(S)
  BY DEF NextShown
<1> HIDE DEF S, n
<1>3. n \in S /\ \A i \in S : n <= i
  BY <1>1, <1>2, MinIsElement
<1>4. n \in Nat /\ n <= Len(log) + 1 /\ (n <= Len(log) => s < n /\ log[n] = "shown")
  BY <1>3 DEF S
<1>5. ASSUME NEW i \in Nat, s < i, i < n, i <= Len(log) PROVE log[i] # "shown"
  <2>1. i \notin S
    BY <1>3, <1>4, <1>5
  <2> QED BY <1>5, <2>1 DEF S
<1> QED BY <1>4, <1>5 DEF n

\* A stream that moves from s past the next event moves past that one only.
LEMMA NextShownCovers ==
    ASSUME Len(log) \in Nat, NEW s \in Nat, NEW c \in Nat, NextShown(s) <= Len(log),
           NextShown(s) <= c, c < NextShown(NextShown(s))
    PROVE  /\ s < NextShown(s) /\ c <= Len(log) /\ NextShown(s) \in Nat
           /\ ShownIn(log, c) = ShownIn(log, s) \cup {NextShown(s)}
<1> DEFINE n == NextShown(s)
           m == NextShown(n)
<1>1. n \in Nat /\ s < n /\ log[n] = "shown" /\ n <= Len(log)
  BY NextShownIs
<1>2. \A i \in Nat : s < i /\ i < n => log[i] # "shown"
  BY <1>1, NextShownIs
<1>3. m \in Nat /\ m <= Len(log) + 1
  BY <1>1, NextShownIs
<1>4. c <= Len(log)
  BY <1>3
<1>5. \A i \in Nat : n < i /\ i <= c => log[i] # "shown"
  <2>1. \A i \in Nat : n < i /\ i < m /\ i <= Len(log) => log[i] # "shown"
    BY <1>1, NextShownIs
  <2>2. c < m
    OBVIOUS
  <2> HIDE DEF m
  <2> QED BY <1>3, <1>4, <2>1, <2>2
<1>6. n <= c
  OBVIOUS
<1> HIDE DEF n, m
<1>7. ShownIn(log, c) \subseteq ShownIn(log, s) \cup {n}
  <2> SUFFICES ASSUME NEW i \in 1 .. c, log[i] = "shown", i # n PROVE i \in 1 .. s
    BY DEF ShownIn
  <2>1. ~(s < i /\ i < n) /\ ~(n < i)
    BY <1>2, <1>5
  <2> QED BY <1>1, <2>1
<1>8. ShownIn(log, s) \cup {n} \subseteq ShownIn(log, c)
  BY <1>1, <1>6 DEF ShownIn
<1> QED BY <1>1, <1>4, <1>7, <1>8 DEF n

\* The events up to n pass the filter or not whatever comes after them.
LEMMA ShownStays ==
    ASSUME log \in Seq(EventKinds), NEW k, log' = Append(log, k)
    PROVE  /\ Len(log) \in Nat /\ Len(log') = Len(log) + 1
           /\ \A i \in 1 .. Len(log) : log'[i] = log[i]
           /\ \A n \in Nat : n <= Len(log) => ShownIn(log', n) = ShownIn(log, n)
<1>1. /\ Len(log) \in Nat /\ Len(log') = Len(log) + 1
      /\ \A i \in 1 .. Len(log) : log'[i] = log[i]
  BY LenProperties, AppendProperties
<1>2. ASSUME NEW n \in Nat, n <= Len(log) PROVE ShownIn(log', n) = ShownIn(log, n)
  <2>1. \A i \in 1 .. n : log'[i] = log[i]
    BY <1>1, <1>2
  <2> QED BY <2>1 DEF ShownIn
<1> QED BY <1>1, <1>2
-----------------------------------------------------------------------------
(* Types and the order of the steps.                                       *)

Frames == [type : {"event", "complete", "error"}, seq : 0 .. MaxSeq, cursor : 0 .. MaxSeq]

SourceTypes == log \in Seq(EventKinds) /\ Len(log) <= MaxSeq /\ ended \in BOOLEAN
ServerTypes ==
    /\ up \in BOOLEAN /\ final \in BOOLEAN /\ mute \in BOOLEAN
    /\ chan \in Seq(Frames) /\ sent \in 0 .. MaxSeq
ReaderTypes ==
    /\ reader \in {"none", "reading", "backoff", "completing", "failing", "done"}
    /\ attempts \in 0 .. MaxAttempts
    /\ terminal \in {"none", "complete", "error", "closed"}
    /\ failure \in Failures \cup {"none"}
    /\ silent \in BOOLEAN
QueueTypes == queue \in Seq(0 .. MaxSeq) /\ got \in Seq(1 .. MaxSeq) /\ cursor \in 0 .. MaxSeq
LeaseTypes ==
    /\ lease \in {"new", "entered", "closing", "closed"}
    /\ consumer \in {"ready", "waiting", "error", "eof"} /\ cut \in BOOLEAN

Typed == SourceTypes /\ ServerTypes /\ ReaderTypes /\ QueueTypes /\ LeaseTypes

\* What the outcome of a watch says of its reader, its lease and its consumer.
Phases ==
    /\ reader \in {"none", "reading", "backoff"} => terminal = "none" /\ attempts < MaxAttempts
    /\ reader = "completing" => terminal = "complete"
    /\ reader = "failing" => terminal = "error"
    /\ reader = "none" => lease \in {"new", "closed"} /\ queue = <<>> /\ got = <<>> /\ cursor = 0
    /\ lease = "new" => reader = "none"
    /\ lease = "closing" => reader = "done"
    /\ consumer = "eof" => terminal # "none"

\* The marker is behind every event, and there is none before the outcome.
Marked == \A i \in DOMAIN queue : queue[i] = End => i = Len(queue) /\ terminal # "none"

\* What a step leaves alone keeps its type.
LEMMA FrameTypes ==
    ASSUME Typed
    PROVE  /\ UNCHANGED <<log, ended>> => SourceTypes'
           /\ UNCHANGED <<up, chan, sent, final, mute>> => ServerTypes'
           /\ UNCHANGED <<reader, attempts, terminal, failure, silent>> => ReaderTypes'
           /\ UNCHANGED <<queue, got, cursor>> => QueueTypes'
           /\ UNCHANGED <<lease, consumer, cut>> => LeaseTypes'
<1>1. UNCHANGED <<log, ended>> => SourceTypes'
  BY DEF Typed, SourceTypes
<1>2. UNCHANGED <<up, chan, sent, final, mute>> => ServerTypes'
  BY DEF Typed, ServerTypes
<1>3. UNCHANGED <<reader, attempts, terminal, failure, silent>> => ReaderTypes'
  BY DEF Typed, ReaderTypes
<1>4. UNCHANGED <<queue, got, cursor>> => QueueTypes'
  BY DEF Typed, QueueTypes
<1>5. UNCHANGED <<lease, consumer, cut>> => LeaseTypes'
  BY DEF Typed, LeaseTypes
<1> QED BY <1>1, <1>2, <1>3, <1>4, <1>5

\* The frames that a server sends.
LEMMA FramesAre ==
    /\ \A s, c \in 0 .. MaxSeq : Event(s, c) \in Frames
    /\ Complete \in Frames /\ Gone \in Frames /\ <<>> \in Seq(Frames)
    /\ \A m \in Frames : m.seq \in 0 .. MaxSeq /\ m.cursor \in 0 .. MaxSeq
<1>1. 0 \in 0 .. MaxSeq
  OBVIOUS
<1> QED BY <1>1, EmptySeq DEF Event, Complete, Gone, Frames
\* Every step keeps the types.
LEMMA TypesStep ==
    ASSUME Typed, Phases, [Next]_vars
    PROVE  Typed'
<1> USE DEF serverVars, readerVars
<1>0. /\ SourceTypes /\ ServerTypes /\ ReaderTypes /\ QueueTypes /\ LeaseTypes /\ Len(log) \in Nat
  BY LenProperties DEF Typed, SourceTypes
<1>a. ASSUME NEW f \in Failures, Fail(f), attempts' \in 0 .. MaxAttempts, silent' = silent
      PROVE  ReaderTypes' /\ up' \in BOOLEAN /\ chan' \in Seq(Frames)
  BY <1>0, <1>a, FramesAre DEF Fail, ReaderTypes
<1>b. ASSUME Opens, UNCHANGED <<attempts, terminal, failure, silent>>
      PROVE  ReaderTypes' /\ ServerTypes'
  <2>1. ReaderTypes'
    BY <1>0, <1>b DEF Opens, ReaderTypes
  <2>2. sent' \in 0 .. MaxSeq /\ up' \in BOOLEAN /\ final' \in BOOLEAN
        /\ mute' \in BOOLEAN /\ chan' \in Seq(Frames)
    BY <1>0, <1>b, FramesAre DEF Opens, QueueTypes
  <2> QED BY <2>1, <2>2 DEF ServerTypes
<1>c. ASSUME UNCHANGED <<sent, final, mute>>, up' \in BOOLEAN, chan' \in Seq(Frames) PROVE ServerTypes'
  BY <1>0, <1>c DEF ServerTypes
<1>1. CASE UNCHANGED vars
  BY <1>1, FrameTypes DEF vars, Typed
<1>2. ASSUME NEW k \in EventKinds, Emit(k) PROVE Typed'
  <2>1. SourceTypes'
    BY <1>0, <1>2, AppendProperties DEF Emit, SourceTypes
  <2> QED BY <1>2, <2>1, FrameTypes DEF Emit, Typed
<1>3. CASE SessionEnds
  <2>1. SourceTypes'
    BY <1>0, <1>3 DEF SessionEnds, SourceTypes
  <2> QED BY <1>3, <2>1, FrameTypes DEF SessionEnds, Typed
<1>4. CASE PumpEvent
  <2>1. PICK c \in NextShown(sent) .. NextShown(NextShown(sent)) - 1 :
            /\ chan' = Append(chan, Event(NextShown(sent), c)) /\ sent' = c
    BY <1>4 DEF PumpEvent
  <2>2. NextShown(sent) <= Len(log) /\ sent \in Nat
    BY <1>0, <1>4 DEF PumpEvent, ServerTypes
  <2>3. NextShown(sent) \in Nat /\ NextShown(NextShown(sent)) \in Nat /\ sent < NextShown(sent)
        /\ NextShown(NextShown(sent)) <= Len(log) + 1
    BY <1>0, <2>2, NextShownIs
  <2>4. c \in 0 .. MaxSeq /\ NextShown(sent) \in 0 .. MaxSeq
    BY <1>0, <2>1, <2>2, <2>3 DEF SourceTypes
  <2>5. Event(NextShown(sent), c) \in Frames
    BY <2>4, FramesAre
  <2>6. ServerTypes'
    BY <1>0, <1>4, <2>1, <2>4, <2>5, AppendProperties DEF PumpEvent, ServerTypes
  <2> QED BY <1>4, <2>6, FrameTypes DEF PumpEvent, Typed
<1>5. CASE PumpComplete
  <2>1. chan' \in Seq(Frames)
    BY <1>0, <1>5, FramesAre, AppendProperties DEF PumpComplete, ServerTypes
  <2>2. ServerTypes'
    BY <1>0, <1>5, <2>1 DEF PumpComplete, ServerTypes
  <2> QED BY <1>5, <2>2, FrameTypes DEF PumpComplete, Typed
<1>6. CASE PumpError
  <2>1. chan' \in Seq(Frames)
    BY <1>0, <1>6, FramesAre, AppendProperties DEF PumpError, ServerTypes
  <2>2. ServerTypes'
    BY <1>0, <1>6, <2>1 DEF PumpError, ServerTypes
  <2> QED BY <1>6, <2>2, FrameTypes DEF PumpError, Typed
<1>6a. CASE PumpStops
  <2>1. ServerTypes'
    BY <1>0, <1>6a DEF PumpStops, ServerTypes
  <2> QED BY <1>6a, <2>1, FrameTypes DEF PumpStops, Typed
<1>7. CASE Lose
  <2>1. PICK n \in 0 .. Len(chan) : chan' = SubSeq(chan, 1, n)
    BY <1>7 DEF Lose
  <2>2. chan \in Seq(Frames) /\ Len(chan) \in Nat
    BY <1>0, LenProperties DEF ServerTypes
  <2>3. chan' \in Seq(Frames)
    <3>1. \A i \in 1 .. n : chan[i] \in Frames
      BY <2>2, ElementOfSeq
    <3> QED BY <2>1, <2>2, <3>1, SubSeqProperties
  <2> QED BY <1>0, <1>7, <1>c, <2>3, FrameTypes DEF Lose, Typed
<1>8. CASE Enter
  <2>1. UNCHANGED <<log, ended, attempts, cursor, queue, terminal, failure, consumer, got,
                    silent, cut>>
    BY <1>8 DEF Enter
  <2>2. LeaseTypes'
    BY <1>0, <1>8 DEF Enter, LeaseTypes
  <2>3. ReaderTypes' /\ ServerTypes'
    BY <1>8, <1>b, <2>1, FrameTypes DEF Enter
  <2> QED BY <2>1, <2>2, <2>3, FrameTypes DEF Typed
<1>9. CASE Receive
  <2> DEFINE m == Head(chan)
  <2>1. /\ reader = "reading" /\ chan # <<>>
        /\ UNCHANGED <<log, ended, sent, final, mute, attempts, lease, consumer, got, silent, cut>>
        /\ ReceiveEvent(m) \/ ReceiveComplete(m) \/ ReceiveError(m)
    BY <1>9 DEF Receive
  <2>2. m \in Frames /\ Tail(chan) \in Seq(Frames)
    BY <1>0, <2>1, HeadTailProperties DEF ServerTypes
  <2> HIDE DEF m
  <2>3. CASE UNCHANGED <<queue, cursor>> /\ \E f \in Failures : Fail(f)
    <3>1. PICK f \in Failures : Fail(f)
      BY <2>3
    <3>2. ReaderTypes' /\ up' \in BOOLEAN /\ chan' \in Seq(Frames)
      BY <1>0, <1>a, <2>1, <3>1 DEF ReaderTypes
    <3> QED BY <1>c, <2>1, <2>3, <3>2, FrameTypes DEF Typed
  <2>5. CASE /\ queue' = Append(queue, m.seq) /\ cursor' = m.cursor /\ chan' = Tail(chan)
             /\ UNCHANGED <<terminal, failure, reader, up>>
    <3>1. m.seq \in 0 .. MaxSeq /\ m.cursor \in 0 .. MaxSeq
      BY <2>2, FramesAre
    <3>2. QueueTypes'
      BY <1>0, <2>1, <2>5, <3>1, AppendProperties DEF QueueTypes
    <3>3. ServerTypes'
      BY <1>0, <2>1, <2>2, <2>5 DEF ServerTypes
    <3> QED BY <2>1, <2>5, <3>2, <3>3, FrameTypes DEF Typed
  <2>6. CASE ReceiveComplete(m)
    <3>1. ReaderTypes'
      BY <1>0, <2>1, <2>6 DEF ReceiveComplete, ReaderTypes
    <3>2. up' \in BOOLEAN /\ chan' \in Seq(Frames) /\ UNCHANGED <<queue, cursor>>
      BY <2>6, FramesAre DEF ReceiveComplete
    <3> QED BY <1>c, <2>1, <3>1, <3>2, FrameTypes DEF Typed
  <2>7. {"protocol", "overflow", "subscription"} \subseteq Failures
    BY DEF Failures
  <2> QED BY <2>1, <2>3, <2>5, <2>6, <2>7, Zenon DEF ReceiveEvent, ReceiveError
<1>10. CASE ReceiveFails
  <2>1. /\ reader = "reading" /\ attempts' = attempts + 1 /\ attempts' \in 0 .. MaxAttempts
        /\ UNCHANGED <<log, ended, sent, final, mute, cursor, queue, lease, consumer, got, silent, cut>>
    BY <1>0, <1>10 DEF ReceiveFails, Phases, ReaderTypes
  <2>2. CASE Fail("lost")
    <3>1. ReaderTypes' /\ up' \in BOOLEAN /\ chan' \in Seq(Frames)
      BY <1>a, <2>1, <2>2 DEF Failures
    <3> QED BY <1>c, <2>1, <3>1, FrameTypes DEF Typed
  <2>3. CASE reader' = "backoff" /\ UNCHANGED <<terminal, failure, up, chan>>
    <3>1. ReaderTypes'
      BY <1>0, <2>1, <2>3 DEF ReaderTypes
    <3> QED BY <2>1, <2>3, <3>1, FrameTypes DEF Typed
  <2> QED BY <1>10, <2>2, <2>3 DEF ReceiveFails
<1>11. CASE Reconnect
  <2>1. /\ reader = "backoff"
        /\ UNCHANGED <<log, ended, cursor, queue, lease, consumer, got, cut>>
    BY <1>11 DEF Reconnect
  <2>2. CASE Opens /\ UNCHANGED <<attempts, terminal, failure, silent>>
    BY <1>b, <2>1, <2>2, FrameTypes DEF Typed
  <2>3. CASE /\ \E f \in Failures : Fail(f)
             /\ UNCHANGED <<sent, final, mute, silent>> /\ attempts' \in {attempts, attempts + 1}
    <3>1. PICK f \in Failures : Fail(f)
      BY <2>3
    <3>2. attempts' \in 0 .. MaxAttempts
      BY <1>0, <2>1, <2>3 DEF Phases, ReaderTypes
    <3>3. ReaderTypes' /\ up' \in BOOLEAN /\ chan' \in Seq(Frames)
      BY <1>a, <2>3, <3>1, <3>2
    <3> QED BY <1>c, <2>1, <2>3, <3>3, FrameTypes DEF Typed
  <2>4. CASE /\ attempts' = attempts + 1 /\ reader' = "done" /\ silent' = TRUE
             /\ UNCHANGED <<up, chan, sent, final, mute, terminal, failure>>
    <3>1. ReaderTypes'
      BY <1>0, <2>1, <2>4 DEF ReaderTypes, Phases
    <3> QED BY <2>1, <2>4, <3>1, FrameTypes DEF Typed
  <2>5. {"refused", "gap", "subscription", "protocol", "lost"} \subseteq Failures
    BY DEF Failures
  <2> QED BY <1>11, <2>2, <2>3, <2>4, <2>5, Zenon DEF Reconnect
<1>12. CASE Completed
  <2>1. queue' \in Seq(0 .. MaxSeq)
    <3>1. <<End>> \in Seq(0 .. MaxSeq)
      BY DEF End
    <3>2. queue' \in {queue, <<End>>}
      BY <1>12 DEF Completed
    <3> QED BY <1>0, <3>1, <3>2 DEF QueueTypes
  <2>2. QueueTypes' /\ ReaderTypes'
    BY <1>0, <1>12, <2>1 DEF Completed, QueueTypes, ReaderTypes
  <2> QED BY <1>12, <2>2, FrameTypes DEF Completed, Typed
<1>13. CASE Failed
  <2>1. queue' \in Seq(0 .. MaxSeq)
    BY <1>0, <1>13 DEF Failed, QueueTypes, End
  <2>2. QueueTypes' /\ ReaderTypes'
    BY <1>0, <1>13, <2>1 DEF Failed, QueueTypes, ReaderTypes
  <2> QED BY <1>13, <2>2, FrameTypes DEF Failed, Typed
<1>14. CASE Anext
  <2>1. UNCHANGED <<log, ended, up, chan, sent, final, mute, reader, attempts, cursor, terminal, lease,
                    silent, cut>>
    BY <1>14 DEF Anext
  <2>2. consumer' \in {"ready", "waiting", "error", "eof"} /\ failure' \in {failure, "none"}
    BY <1>14 DEF Anext, Finish
  <2>3. \/ UNCHANGED <<queue, got>>
        \/ queue # <<>> /\ queue' = Tail(queue) /\ UNCHANGED got
        \/ /\ queue # <<>> /\ queue' = Tail(queue) /\ Head(queue) # End
           /\ got' = Append(got, Head(queue))
    BY <1>14, Zenon DEF Anext, Finish
  <2>4. QueueTypes'
    <3>1. queue # <<>> => Head(queue) \in 0 .. MaxSeq /\ Tail(queue) \in Seq(0 .. MaxSeq)
      BY <1>0, HeadTailProperties DEF QueueTypes
    <3>2. queue # <<>> /\ Head(queue) # End => Head(queue) \in 1 .. MaxSeq
      BY <3>1 DEF End
    <3>3. queue' \in Seq(0 .. MaxSeq)
      BY <1>0, <2>3, <3>1 DEF QueueTypes
    <3>4. got' \in Seq(1 .. MaxSeq)
      <4>1. CASE got' = got
        BY <1>0, <4>1 DEF QueueTypes
      <4>2. CASE queue # <<>> /\ Head(queue) # End /\ got' = Append(got, Head(queue))
        <5>1. Head(queue) \in 1 .. MaxSeq /\ got \in Seq(1 .. MaxSeq)
          BY <1>0, <3>2, <4>2 DEF QueueTypes
        <5> QED BY <4>2, <5>1, AppendProperties
      <4> QED BY <2>3, <4>1, <4>2
    <3> QED BY <1>0, <2>1, <3>3, <3>4 DEF QueueTypes
  <2>5. ReaderTypes' /\ LeaseTypes'
    BY <1>0, <2>1, <2>2 DEF ReaderTypes, LeaseTypes
  <2> QED BY <2>1, <2>4, <2>5, FrameTypes DEF Typed
<1>15. CASE CancelAnext
  <2>1. LeaseTypes'
    BY <1>0, <1>15 DEF CancelAnext, LeaseTypes
  <2> QED BY <1>15, <2>1, FrameTypes DEF CancelAnext, Typed
<1>16. CASE AClose
  <2>1. LeaseTypes' /\ ReaderTypes'
    BY <1>0, <1>16 DEF AClose, LeaseTypes, ReaderTypes
  <2> QED BY <1>16, <2>1, FrameTypes DEF AClose, Typed
<1>17. CASE AClosed
  <2>1. LeaseTypes' /\ ReaderTypes'
    BY <1>0, <1>17 DEF AClosed, LeaseTypes, ReaderTypes
  <2>2. queue' \in {queue, Append(queue, End)} /\ UNCHANGED <<got, cursor>>
    BY <1>17 DEF AClosed
  <2>3. QueueTypes'
    <3>1. Append(queue, End) \in Seq(0 .. MaxSeq)
      BY <1>0, AppendProperties DEF QueueTypes, End
    <3> QED BY <1>0, <2>2, <3>1 DEF QueueTypes
  <2> QED BY <1>17, <1>c, <2>1, <2>3, FramesAre, FrameTypes DEF AClosed, Typed
<1> QED
  BY <1>1, <1>2, <1>3, <1>4, <1>5, <1>6, <1>6a, <1>7, <1>8, <1>9, <1>10, <1>11, <1>12, <1>13, <1>14,
     <1>15, <1>16, <1>17 DEF Next
\* Every step keeps the order of a watch's steps and the place of its marker.
LEMMA PhasesStep ==
    ASSUME Typed, Phases, Marked, [Next]_vars
    PROVE  Phases' /\ Marked'
<1> USE DEF serverVars, readerVars
<1>0. /\ queue \in Seq(0 .. MaxSeq) /\ Len(queue) \in Nat /\ DOMAIN queue = 1 .. Len(queue)
      /\ attempts \in 0 .. MaxAttempts
  BY LenProperties DEF Typed, QueueTypes, ReaderTypes
<1>a. ASSUME UNCHANGED queue, terminal # "none" => terminal' # "none" PROVE Marked'
  BY <1>a DEF Marked
<1>b. ASSUME NEW e \in 1 .. MaxSeq, queue' = Append(queue, e), terminal = "none" PROVE Marked'
  <2>1. \A i \in DOMAIN queue : queue[i] # End
    BY <1>b DEF Marked
  <2>2. /\ DOMAIN queue' = 1 .. Len(queue) + 1 /\ queue'[Len(queue) + 1] = e
        /\ \A i \in 1 .. Len(queue) : queue'[i] = queue[i]
    BY <1>0, <1>b
  <2>3. \A i \in DOMAIN queue' : queue'[i] # End
    BY <1>0, <2>1, <2>2 DEF End
  <2> QED BY <2>3 DEF Marked
<1>c. ASSUME NEW f, Fail(f), UNCHANGED <<queue, cursor, lease, consumer>>, lease # "closing", lease # "new"
      PROVE  Phases' /\ Marked'
  BY <1>a, <1>c DEF Fail, Phases
<1>1. CASE UNCHANGED vars
  BY <1>1 DEF vars, Phases, Marked
<1>2. CASE \/ \E k \in EventKinds : Emit(k)
           \/ SessionEnds \/ PumpEvent \/ PumpComplete \/ PumpError \/ PumpStops \/ Lose
  <2>1. UNCHANGED <<readerVars, lease, consumer, got>>
    BY <1>2, Zenon DEF Emit, SessionEnds, PumpEvent, PumpComplete, PumpError, PumpStops, Lose
  <2> QED BY <1>a, <2>1 DEF Phases
<1>3. CASE Enter
  <2>1. /\ lease = "new" /\ UNCHANGED <<attempts, queue, cursor, terminal, consumer, got>>
        /\ \/ lease' = "entered" /\ reader' = "reading"
           \/ lease' = "closed" /\ reader' = reader
    BY <1>3 DEF Enter, Opens
  <2> QED BY <1>a, <2>1 DEF Phases
<1>4. CASE Receive
  <2> DEFINE m == Head(chan)
  <2>1. /\ reader = "reading" /\ chan # <<>> /\ lease # "closing" /\ lease # "new" /\ terminal = "none"
        /\ UNCHANGED <<attempts, lease, consumer, got>>
        /\ ReceiveEvent(m) \/ ReceiveComplete(m) \/ ReceiveError(m)
    BY <1>4 DEF Receive, Phases
  <2>2. m \in Frames
    BY <2>1, HeadTailProperties DEF Typed, ServerTypes
  <2> HIDE DEF m
  <2>3. CASE UNCHANGED <<queue, cursor>> /\ \E f \in Failures : Fail(f)
    BY <1>c, <2>1, <2>3
  <2>4. CASE /\ queue' = Append(queue, m.seq) /\ m.seq = m.cursor /\ m.cursor > cursor
             /\ UNCHANGED <<terminal, reader>>
    <3>1. m.seq \in 1 .. MaxSeq
      <4>1. m.seq \in 0 .. MaxSeq /\ cursor \in Nat
        BY <2>2, FramesAre DEF Typed, QueueTypes
      <4> QED BY <2>4, <4>1
    <3>2. Marked'
      BY <1>b, <2>1, <2>4, <3>1
    <3> QED BY <2>1, <2>4, <3>2 DEF Phases
  <2>5. CASE ReceiveComplete(m)
    BY <1>a, <2>1, <2>5 DEF ReceiveComplete, Phases
  <2>6. {"protocol", "overflow", "subscription"} \subseteq Failures
    BY DEF Failures
  <2>7. ReceiveEvent(m) => \/ UNCHANGED <<queue, cursor>> /\ \E f \in Failures : Fail(f)
                           \/ /\ queue' = Append(queue, m.seq) /\ m.seq = m.cursor /\ m.cursor > cursor
                              /\ UNCHANGED <<terminal, reader>>
    <3>1. cursor \in Nat /\ m.cursor \in Nat
      BY <2>2, FramesAre DEF Typed, QueueTypes
    <3>2. ~(m.cursor <= cursor) => m.cursor > cursor
      BY <3>1
    <3> QED BY <2>6, <3>2, Zenon DEF ReceiveEvent
  <2> QED BY <2>1, <2>3, <2>4, <2>5, <2>6, <2>7, Zenon DEF ReceiveError
<1>5. CASE ReceiveFails
  <2>1. /\ reader = "reading" /\ attempts' = attempts + 1 /\ terminal = "none"
        /\ lease # "closing" /\ lease # "new"
        /\ UNCHANGED <<cursor, queue, lease, consumer, got>>
    BY <1>5 DEF ReceiveFails, Phases
  <2>2. CASE Fail("lost")
    BY <1>c, <2>1, <2>2
  <2>3. CASE attempts' < MaxAttempts /\ reader' = "backoff" /\ UNCHANGED terminal
    BY <1>a, <2>1, <2>3 DEF Phases
  <2>4. CASE ~(attempts' >= MaxAttempts)
    <3>1. attempts' < MaxAttempts
      BY <1>0, <2>1, <2>4
    <3> QED BY <1>5, <2>3, <2>4, <3>1 DEF ReceiveFails
  <2> QED BY <1>5, <2>2, <2>4 DEF ReceiveFails
<1>6. CASE Reconnect
  <2>1. /\ reader = "backoff" /\ terminal = "none" /\ attempts < MaxAttempts
        /\ lease # "closing" /\ lease # "new"
        /\ UNCHANGED <<cursor, queue, lease, consumer, got>>
    BY <1>6 DEF Reconnect, Phases
  <2>2. CASE reader' = "reading" /\ UNCHANGED <<attempts, terminal>>
    BY <1>a, <2>1, <2>2 DEF Phases
  <2>3. CASE \E f \in {"refused", "gap", "subscription", "protocol", "lost"} : Fail(f)
    BY <1>c, <2>1, <2>3
  <2>4. CASE reader' = "done" /\ UNCHANGED terminal
    BY <1>a, <2>1, <2>4 DEF Phases
  <2> QED BY <1>6, <2>2, <2>3, <2>4, Zenon DEF Reconnect, Opens
<1>7. CASE Completed
  <2>1. /\ reader = "completing" /\ terminal = "complete" /\ reader' = "done"
        /\ UNCHANGED <<terminal, lease, consumer, got, cursor, attempts>>
        /\ queue' \in {queue, <<End>>}
    BY <1>7 DEF Completed, Phases
  <2>2. Marked'
    <3>1. CASE queue' = <<End>>
      BY <2>1, <3>1 DEF Marked
    <3>2. CASE queue' = queue
      BY <1>a, <2>1, <3>2
    <3> QED BY <2>1, <3>1, <3>2
  <2> QED BY <2>1, <2>2 DEF Phases
<1>8. CASE Failed
  <2>1. /\ reader = "failing" /\ terminal = "error" /\ reader' = "done" /\ queue' = <<End>>
        /\ UNCHANGED <<terminal, lease, consumer, got, cursor, attempts>>
    BY <1>8 DEF Failed, Phases
  <2>2. Marked'
    BY <2>1 DEF Marked
  <2> QED BY <2>1, <2>2 DEF Phases
<1>9. CASE Anext
  <2>1. UNCHANGED <<reader, attempts, cursor, terminal, lease>> /\ reader # "none"
    BY <1>9 DEF Anext
  <2>2. CASE queue = <<>>
    <3>1. queue' = queue /\ (consumer' = "eof" => terminal # "none")
      BY <1>9, <2>2 DEF Anext, Finish
    <3> QED BY <1>a, <2>1, <3>1 DEF Phases
  <2>3. CASE queue # <<>>
    <3>1. queue' = Tail(queue) /\ (consumer' = "eof" => Head(queue) = End)
      BY <1>9, <2>3 DEF Anext, Finish
    <3>2. /\ 1 \in DOMAIN queue /\ Head(queue) = queue[1] /\ Len(queue') = Len(queue) - 1
          /\ DOMAIN queue' = 1 .. Len(queue) - 1
          /\ \A i \in DOMAIN queue' : queue'[i] = queue[i + 1] /\ i + 1 \in DOMAIN queue
      BY <1>0, <2>3, <3>1, EmptySeq
    <3>3. consumer' = "eof" => terminal # "none"
      BY <3>1, <3>2 DEF Marked
    <3>4. Marked'
      <4> SUFFICES ASSUME NEW i \in DOMAIN queue', queue'[i] = End
                   PROVE  i = Len(queue') /\ terminal' # "none"
        BY DEF Marked
      <4>1. i + 1 = Len(queue) /\ terminal # "none"
        BY <3>2 DEF Marked
      <4> QED BY <1>0, <2>1, <3>2, <4>1
    <3> QED BY <2>1, <3>3, <3>4 DEF Phases
  <2> QED BY <2>2, <2>3
<1>10. CASE CancelAnext
  BY <1>a, <1>10 DEF CancelAnext, Phases
<1>11. CASE AClose
  <2>1. /\ UNCHANGED <<attempts, cursor, queue, terminal, consumer, got>>
        /\ lease' = IF lease = "new" THEN "closed" ELSE "closing"
        /\ reader' = IF reader = "none" THEN "none" ELSE "done"
        /\ lease \in {"new", "entered"}
    BY <1>11 DEF AClose
  <2> QED BY <1>a, <2>1 DEF Phases
<1>12. CASE AClosed
  <2>1. /\ lease = "closing" /\ lease' = "closed" /\ reader = "done" /\ reader' = "done"
        /\ terminal' # "none"
        /\ UNCHANGED <<attempts, cursor, consumer, got>>
    BY <1>12 DEF AClosed, Phases
  <2>2. CASE queue' = queue
    BY <1>a, <2>1, <2>2 DEF Phases
  <2>3. CASE terminal = "none" /\ queue' = Append(queue, End)
    <3>1. \A i \in DOMAIN queue : queue[i] # End
      BY <2>3 DEF Marked
    <3>2. /\ DOMAIN queue' = 1 .. Len(queue) + 1 /\ Len(queue') = Len(queue) + 1
          /\ \A i \in 1 .. Len(queue) : queue'[i] = queue[i]
      BY <1>0, <2>3 DEF End
    <3>3. Marked'
      BY <1>0, <2>1, <3>1, <3>2 DEF Marked
    <3> QED BY <2>1, <3>3 DEF Phases
  <2> QED BY <1>12, <2>2, <2>3 DEF AClosed
<1> QED
  BY <1>1, <1>2, <1>3, <1>4, <1>5, <1>6, <1>7, <1>8, <1>9, <1>10, <1>11, <1>12 DEF Next

\* A watch starts with its types, and with no marker.
LEMMA TypesInit == Init => Typed /\ Phases /\ Marked
<1> SUFFICES ASSUME Init PROVE Typed /\ Phases /\ Marked
  OBVIOUS
<1>1. /\ log = <<>> /\ ended = FALSE /\ up = FALSE /\ chan = <<>> /\ sent = 0 /\ final = FALSE
      /\ mute = FALSE
      /\ reader = "none" /\ attempts = 0 /\ cursor = 0 /\ queue = <<>>
      /\ terminal = "none" /\ failure = "none"
      /\ lease = "new" /\ consumer = "ready" /\ got = <<>> /\ silent = FALSE /\ cut = FALSE
  BY DEF Init
<1>2. /\ <<>> \in Seq(EventKinds) /\ <<>> \in Seq(Frames) /\ <<>> \in Seq(0 .. MaxSeq)
      /\ <<>> \in Seq(1 .. MaxSeq) /\ Len(<<>>) = 0
  BY EmptySeq
<1>3. SourceTypes
  <2>1. Len(log) <= MaxSeq
    BY <1>1, <1>2
  <2> QED BY <1>1, <1>2, <2>1 DEF SourceTypes
<1>4. ServerTypes /\ ReaderTypes /\ QueueTypes /\ LeaseTypes
  <2>1. sent \in 0 .. MaxSeq /\ cursor \in 0 .. MaxSeq /\ attempts \in 0 .. MaxAttempts
    BY <1>1
  <2> QED BY <1>1, <1>2, <2>1 DEF ServerTypes, ReaderTypes, QueueTypes, LeaseTypes
<1>5. Phases
  BY <1>1 DEF Phases
<1>6. Marked
  BY <1>1 DEF Marked
<1> QED BY <1>3, <1>4, <1>5, <1>6 DEF Typed

\* The types, the phases and the marker hold throughout.
LEMMA TypesInvariant == Spec => [](Typed /\ Phases /\ Marked)
BY TypesInit, TypesStep, PhasesStep, PTL DEF Spec

\* Every field of the watch keeps its type: the attempts stay within the budget and
\* a frame under way carries numbers of the session.
THEOREM TypesHold == Spec => []TypeOK
<1>1. Typed => TypeOK
  <2> SUFFICES ASSUME Typed PROVE TypeOK
    OBVIOUS
  <2>1. log \in Seq(EventKinds) /\ {ended, up, final, mute, silent, cut} \subseteq BOOLEAN
    BY DEF Typed, SourceTypes, ServerTypes, ReaderTypes, LeaseTypes
  <2>2. /\ chan \in Seq(Frames) /\ {sent, cursor} \subseteq 0 .. MaxSeq
        /\ queue \in Seq(0 .. MaxSeq) /\ got \in Seq(1 .. MaxSeq)
    BY DEF Typed, ServerTypes, QueueTypes
  <2>3. /\ terminal \in {"none", "complete", "error", "closed"} /\ attempts \in 0 .. MaxAttempts
        /\ reader \in {"none", "reading", "backoff", "completing", "failing", "done"}
        /\ failure \in Failures \cup {"none"}
    BY DEF Typed, ReaderTypes
  <2>4. /\ lease \in {"new", "entered", "closing", "closed"}
        /\ consumer \in {"ready", "waiting", "error", "eof"}
    BY DEF Typed, LeaseTypes
  <2> QED BY <2>1, <2>2, <2>3, <2>4 DEF TypeOK, Frames
<1> QED BY <1>1, TypesInvariant, PTL
-----------------------------------------------------------------------------
(* The frames under way continue the stream from the cursor of the client. *)

\* The cursor before the i-th frame of the frames ch that follow the cursor cu.
Prev(cu, ch, i) == IF i = 1 THEN cu ELSE ch[i - 1].cursor

\* The frame m takes a stream of q from p past its next event.
Advances(q, p, m) ==
    /\ p < m.seq /\ m.seq <= m.cursor /\ m.cursor <= Len(q)
    /\ ShownIn(q, m.cursor) = ShownIn(q, p) \cup {m.seq}

Chained ==
    \A i \in DOMAIN chan :
        /\ chan[i].type = "event" => Advances(log, Prev(cursor, chan, i), chan[i])
        /\ chan[i].type # "event" => i = Len(chan) /\ final
        /\ chan[i].type = "complete" =>
               ended /\ ShownIn(log, Prev(cursor, chan, i)) = ShownIn(log, Len(log))

\* The server goes on from the last frame.
Joined == up /\ ~final => sent = Prev(cursor, chan, Len(chan) + 1)

ChanInv == cursor <= Len(log) /\ sent <= Len(log) /\ Chained /\ Joined

\* The cursors of the frames are numbers.
LEMMA PrevIs ==
    ASSUME Typed
    PROVE  /\ chan \in Seq(Frames) /\ Len(chan) \in Nat /\ DOMAIN chan = 1 .. Len(chan)
           /\ Len(log) \in Nat /\ cursor \in Nat /\ sent \in Nat
           /\ \A i \in DOMAIN chan : chan[i] \in Frames /\ chan[i].seq \in Nat /\ chan[i].cursor \in Nat
           /\ \A i \in 1 .. Len(chan) + 1 : Prev(cursor, chan, i) \in Nat
<1>1. /\ chan \in Seq(Frames) /\ Len(chan) \in Nat /\ DOMAIN chan = 1 .. Len(chan)
      /\ Len(log) \in Nat /\ cursor \in Nat /\ sent \in Nat
  BY LenProperties DEF Typed, ServerTypes, QueueTypes, SourceTypes
<1>2. \A i \in DOMAIN chan : chan[i] \in Frames /\ chan[i].seq \in Nat /\ chan[i].cursor \in Nat
  <2>1. \A i \in DOMAIN chan : chan[i] \in Frames
    BY <1>1, ElementOfSeq
  <2>2. \A m \in Frames : m.seq \in Nat /\ m.cursor \in Nat
    BY FramesAre
  <2> QED BY <2>1, <2>2
<1>3. ASSUME NEW i \in 1 .. Len(chan) + 1 PROVE Prev(cursor, chan, i) \in Nat
  <2>1. CASE i = 1
    BY <1>1, <2>1 DEF Prev
  <2>2. CASE i # 1
    <3>1. i - 1 \in 1 .. Len(chan)
      BY <1>1, <2>2
    <3> QED BY <1>1, <1>2, <2>2, <3>1 DEF Prev
  <2> QED BY <2>1, <2>2
<1> QED BY <1>1, <1>2, <1>3

\* An event is added to the session: what is under way stays what it is.
LEMMA EmitChains ==
    ASSUME Typed, ChanInv, NEW k \in EventKinds, Emit(k)
    PROVE  ChanInv'
<1>1. /\ ~ended /\ log' = Append(log, k) /\ UNCHANGED <<ended, up, chan, sent, final, cursor>>
      /\ cursor <= Len(log) /\ sent <= Len(log) /\ Chained /\ Joined
  BY DEF Emit, readerVars, ChanInv
<1>2. /\ Len(log) \in Nat /\ Len(log') = Len(log) + 1
      /\ \A n \in Nat : n <= Len(log) => ShownIn(log', n) = ShownIn(log, n)
  BY <1>1, ShownStays DEF Typed, SourceTypes
<1>3. /\ DOMAIN chan = 1 .. Len(chan) /\ Len(chan) \in Nat /\ cursor \in Nat /\ sent \in Nat
      /\ \A i \in DOMAIN chan : chan[i].seq \in Nat /\ chan[i].cursor \in Nat
      /\ \A i \in 1 .. Len(chan) + 1 : Prev(cursor, chan, i) \in Nat
  BY PrevIs
<1>4. Chained'
  <2> SUFFICES ASSUME NEW i \in DOMAIN chan
               PROVE  /\ chan[i].type = "event" => Advances(log', Prev(cursor, chan, i), chan[i])
                      /\ chan[i].type # "event" => i = Len(chan) /\ final
                      /\ chan[i].type # "complete"
    BY <1>1 DEF Chained
  <2>1. ASSUME chan[i].type = "event" PROVE Advances(log', Prev(cursor, chan, i), chan[i])
    <3> DEFINE p == Prev(cursor, chan, i)
               m == chan[i]
    <3>1. Advances(log, p, m)
      BY <1>1, <2>1 DEF Chained
    <3>2. p \in Nat /\ m.seq \in Nat /\ m.cursor \in Nat
      BY <1>3
    <3> HIDE DEF p, m
    <3>3. p < m.seq /\ m.seq <= m.cursor /\ m.cursor <= Len(log) /\ p <= Len(log)
      BY <1>2, <3>1, <3>2 DEF Advances
    <3>4. ShownIn(log', m.cursor) = ShownIn(log, m.cursor) /\ ShownIn(log', p) = ShownIn(log, p)
      BY <1>2, <3>2, <3>3
    <3>5. Advances(log', p, m)
      BY <1>2, <3>1, <3>2, <3>3, <3>4 DEF Advances
    <3> QED BY <3>5 DEF p, m
  <2> QED BY <1>1, <2>1 DEF Chained
<1>5. Joined' /\ cursor' <= Len(log') /\ sent' <= Len(log')
  BY <1>1, <1>2, <1>3 DEF Joined
<1> QED BY <1>4, <1>5 DEF ChanInv

\* Another frame is sent.
LEMMA SendChains ==
    ASSUME Typed, ChanInv, up, ~final, NEW m \in Frames, chan' = Append(chan, m),
           UNCHANGED <<log, ended, cursor>>, sent' <= Len(log),
           m.type = "event" => Advances(log, sent, m) /\ sent' = m.cursor,
           m.type # "event" => final',
           m.type = "complete" => ended /\ ShownIn(log, sent) = ShownIn(log, Len(log))
    PROVE  ChanInv'
<1> DEFINE n == Len(chan) + 1
<1>1. cursor <= Len(log) /\ Chained /\ sent = Prev(cursor, chan, n)
  BY DEF ChanInv, Joined
<1>2. /\ DOMAIN chan = 1 .. Len(chan) /\ Len(chan) \in Nat /\ chan \in Seq(Frames)
  BY PrevIs
<1>3. /\ DOMAIN chan' = 1 .. n /\ Len(chan') = n /\ chan'[n] = m
      /\ \A i \in 1 .. Len(chan) : chan'[i] = chan[i]
  BY <1>2
<1> HIDE DEF n
<1>4. \A i \in 1 .. n : Prev(cursor', chan', i) = Prev(cursor, chan, i)
  <2> SUFFICES ASSUME NEW i \in 1 .. n, i # 1 PROVE chan'[i - 1].cursor = chan[i - 1].cursor
    BY DEF Prev
  <2>1. i - 1 \in 1 .. Len(chan)
    BY <1>2 DEF n
  <2> QED BY <1>3, <2>1
<1>5. \A i \in 1 .. Len(chan) : chan[i].type = "event"
  BY <1>1, <1>2 DEF Chained
<1>6. Chained'
  <2> SUFFICES ASSUME NEW i \in 1 .. n
               PROVE  /\ chan'[i].type = "event" => Advances(log, Prev(cursor, chan, i), chan'[i])
                      /\ chan'[i].type # "event" => i = n /\ final'
                      /\ chan'[i].type = "complete" =>
                            ended /\ ShownIn(log, Prev(cursor, chan, i)) = ShownIn(log, Len(log))
    BY <1>3, <1>4 DEF Chained
  <2>1. CASE i = n
    BY <1>1, <1>3, <2>1
  <2>2. CASE i \in 1 .. Len(chan)
    BY <1>1, <1>2, <1>3, <1>5, <2>2 DEF Chained
  <2> QED BY <1>2, <2>1, <2>2 DEF n
<1>7. Joined'
  <2>1. ~final' => m.type = "event" /\ sent' = m.cursor
    OBVIOUS
  <2>2. Prev(cursor', chan', n + 1) = m.cursor
    <3>1. n + 1 # 1 /\ (n + 1) - 1 = n
      BY <1>2 DEF n
    <3> QED BY <1>3, <3>1 DEF Prev
  <2> QED BY <1>3, <2>1, <2>2 DEF Joined
<1> QED BY <1>1, <1>6, <1>7 DEF ChanInv

\* The connection is lost with the last frames.
LEMMA LoseChains ==
    ASSUME Typed, ChanInv, Lose
    PROVE  ChanInv'
<1>1. /\ up' = FALSE /\ UNCHANGED <<log, ended, sent, final, cursor>>
      /\ cursor <= Len(log) /\ sent <= Len(log) /\ Chained
  BY DEF Lose, readerVars, ChanInv
<1>2. PICK n \in 0 .. Len(chan) : chan' = SubSeq(chan, 1, n)
  BY DEF Lose
<1>3. /\ DOMAIN chan = 1 .. Len(chan) /\ Len(chan) \in Nat /\ \A i \in 1 .. Len(chan) : chan[i] \in Frames
  BY PrevIs
<1>4. DOMAIN chan' = 1 .. n /\ Len(chan') = n /\ \A i \in 1 .. n : chan'[i] = chan[i]
  <2>1. \A i \in 1 .. n : chan[i] \in Frames
    BY <1>3
  <2>2. chan' \in Seq(Frames) /\ Len(chan') = n /\ \A i \in 1 .. n : chan'[i] = chan[i]
    BY <1>2, <1>3, <2>1, SubSeqProperties
  <2> QED BY <2>2, LenProperties
<1>5. \A i \in 1 .. n : Prev(cursor', chan', i) = Prev(cursor, chan, i)
  <2> SUFFICES ASSUME NEW i \in 1 .. n, i # 1 PROVE chan'[i - 1].cursor = chan[i - 1].cursor
    BY <1>1 DEF Prev
  <2>1. i - 1 \in 1 .. n
    BY <1>2, <1>3
  <2> QED BY <1>4, <2>1
<1>6. Chained'
  <2> SUFFICES ASSUME NEW i \in 1 .. n
               PROVE  /\ chan[i].type = "event" => Advances(log, Prev(cursor, chan, i), chan[i])
                      /\ chan[i].type # "event" => i = n /\ final
                      /\ chan[i].type = "complete" =>
                            ended /\ ShownIn(log, Prev(cursor, chan, i)) = ShownIn(log, Len(log))
    BY <1>1, <1>4, <1>5 DEF Chained
  <2>1. i \in 1 .. Len(chan) /\ (i = Len(chan) => i = n)
    <3> DEFINE l == Len(chan)
    <3>1. l \in Nat /\ n \in 0 .. l
      BY <1>3
    <3> HIDE DEF l
    <3>2. i \in 1 .. l /\ (i = l => i = n)
      BY <3>1
    <3> QED BY <3>2 DEF l
  <2> QED BY <1>1, <1>3, <2>1 DEF Chained
<1> QED BY <1>1, <1>6 DEF ChanInv, Joined

\* A connection that has been closed, and one that has just been opened.
LEMMA EmptyChains ==
    ASSUME Typed, ChanInv, UNCHANGED <<log, cursor>>, chan' = <<>>,
           (~up' /\ sent' = sent) \/ sent' = cursor
    PROVE  ChanInv'
<1>1. Len(chan') = 0 /\ DOMAIN chan' = {}
  BY EmptySeq
<1>2. Prev(cursor', chan', Len(chan') + 1) = cursor
  BY <1>1 DEF Prev
<1>3. Chained' /\ Joined'
  BY <1>1, <1>2 DEF Chained, Joined
<1> QED BY <1>3 DEF ChanInv

\* The first frame is an event that the client takes: the rest continues from it.
LEMMA TakeChains ==
    ASSUME Typed, ChanInv, chan # <<>>, Head(chan).type = "event", chan' = Tail(chan),
           cursor' = Head(chan).cursor, UNCHANGED <<log, ended, up, sent, final>>
    PROVE  ChanInv'
<1> DEFINE n == Len(chan)
<1>1. /\ DOMAIN chan = 1 .. n /\ n \in Nat /\ n # 0 /\ chan \in Seq(Frames)
  BY PrevIs, EmptySeq
<1>2. /\ DOMAIN chan' = 1 .. n - 1 /\ Len(chan') = n - 1 /\ Head(chan) = chan[1]
      /\ \A i \in 1 .. n - 1 : chan'[i] = chan[i + 1]
  BY <1>1
<1>3. cursor <= Len(log) /\ sent <= Len(log) /\ Chained /\ Joined
  BY DEF ChanInv
<1> HIDE DEF n
<1>4. \A i \in 1 .. n : Prev(cursor', chan', i) = Prev(cursor, chan, i + 1)
  <2> TAKE i \in 1 .. n
  <2>1. i + 1 # 1 /\ (i + 1) - 1 = i
    BY <1>1
  <2>2. Prev(cursor, chan, i + 1) = chan[i].cursor
    BY <2>1 DEF Prev
  <2>3. CASE i = 1
    BY <1>2, <2>2, <2>3 DEF Prev
  <2>4. CASE i # 1
    <3>1. i - 1 \in 1 .. n - 1 /\ (i - 1) + 1 = i
      BY <1>1, <2>4
    <3>2. chan'[i - 1] = chan[i]
      BY <1>2, <3>1
    <3> QED BY <2>2, <2>4, <3>2 DEF Prev
  <2> QED BY <2>3, <2>4
<1>5. Chained'
  <2> SUFFICES ASSUME NEW i \in 1 .. n - 1
               PROVE  /\ chan[i + 1].type = "event" => Advances(log, Prev(cursor, chan, i + 1), chan[i + 1])
                      /\ chan[i + 1].type # "event" => i = n - 1 /\ final
                      /\ chan[i + 1].type = "complete" =>
                            ended /\ ShownIn(log, Prev(cursor, chan, i + 1)) = ShownIn(log, Len(log))
    <3>1. \A i \in 1 .. n - 1 : i \in 1 .. n
      BY <1>1
    <3> QED BY <1>2, <1>4, <3>1 DEF Chained
  <2>1. i + 1 \in DOMAIN chan /\ (i + 1 = n => i = n - 1)
    BY <1>1
  <2> QED BY <1>3, <2>1 DEF Chained, n
<1>6. Joined'
  <2>1. n \in 1 .. n /\ Len(chan') + 1 = n
    BY <1>1, <1>2
  <2>2. Prev(cursor', chan', Len(chan') + 1) = Prev(cursor, chan, n + 1)
    BY <1>4, <2>1
  <2> QED BY <1>3, <2>2 DEF Joined, n
<1>7. cursor' <= Len(log)
  <2>1. 1 \in DOMAIN chan
    BY <1>1
  <2> QED BY <1>2, <1>3, <2>1 DEF Chained, Advances
<1> QED BY <1>3, <1>5, <1>6, <1>7 DEF ChanInv
\* Every step keeps the chain of the frames.
LEMMA ChanStep ==
    ASSUME Typed, ChanInv, [Next]_vars
    PROVE  ChanInv'
<1> USE DEF serverVars, readerVars
<1>0. /\ Len(log) \in Nat /\ cursor \in Nat /\ sent \in Nat /\ sent <= Len(log)
  BY PrevIs DEF ChanInv
<1>a. ASSUME UNCHANGED <<log, ended, up, chan, sent, final, cursor>> PROVE ChanInv'
  BY <1>a DEF ChanInv, Chained, Joined
<1>b. ASSUME UNCHANGED <<log, sent, cursor>>, up' = FALSE, chan' = <<>> PROVE ChanInv'
  BY <1>b, EmptyChains
<1>1. CASE UNCHANGED vars
  BY <1>1, <1>a DEF vars
<1>2. CASE \E k \in EventKinds : Emit(k)
  BY <1>2, EmitChains
<1>3. CASE SessionEnds
  <2>1. ended' = TRUE /\ UNCHANGED <<log, up, chan, sent, final, cursor>>
    BY <1>3 DEF SessionEnds
  <2> QED BY <2>1 DEF ChanInv, Chained, Joined
<1>4. CASE PumpEvent
  <2>1. PICK c \in NextShown(sent) .. NextShown(NextShown(sent)) - 1 :
            /\ chan' = Append(chan, Event(NextShown(sent), c)) /\ sent' = c
    BY <1>4 DEF PumpEvent
  <2> DEFINE n == NextShown(sent)
             m == Event(n, c)
  <2>2. /\ up /\ ~final /\ n <= Len(log) /\ UNCHANGED <<log, ended, cursor>>
    BY <1>4 DEF PumpEvent
  <2>3. n \in Nat /\ NextShown(n) \in Nat /\ c \in Nat /\ n <= c /\ c < NextShown(n)
    <3>1. n \in Nat
      BY <1>0, NextShownIs
    <3>2. NextShown(n) \in Nat
      BY <1>0, <3>1, NextShownIs
    <3> HIDE DEF n
    <3> QED BY <2>1, <3>1, <3>2 DEF n
  <2>4. sent < n /\ c <= Len(log) /\ ShownIn(log, c) = ShownIn(log, sent) \cup {n}
    BY <1>0, <2>2, <2>3, NextShownCovers
  <2>5. m \in Frames /\ m.type = "event" /\ m.seq = n /\ m.cursor = c
    <3>1. n \in 0 .. MaxSeq /\ c \in 0 .. MaxSeq
      BY <1>0, <2>2, <2>3, <2>4 DEF Typed, SourceTypes
    <3> HIDE DEF n
    <3> QED BY <3>1, FramesAre DEF Event
  <2>6. Advances(log, sent, m) /\ sent' = m.cursor /\ sent' <= Len(log)
    BY <2>1, <2>3, <2>4, <2>5 DEF Advances
  <2>7. chan' = Append(chan, m)
    BY <2>1
  <2> HIDE DEF m, n
  <2> QED BY <2>2, <2>5, <2>6, <2>7, SendChains
<1>5. CASE PumpComplete
  <2>1. /\ up /\ ~final /\ ended /\ NextShown(sent) > Len(log)
        /\ chan' = Append(chan, Complete) /\ final' = TRUE /\ UNCHANGED <<log, ended, sent, cursor>>
    BY <1>5 DEF PumpComplete
  <2>2. ShownIn(log, sent) = ShownIn(log, Len(log))
    <3>1. \A i \in Nat : sent < i /\ i <= Len(log) => log[i] # "shown"
      <4>1. \A i \in Nat : sent < i /\ i < NextShown(sent) /\ i <= Len(log) => log[i] # "shown"
        BY <1>0, NextShownIs
      <4>2. NextShown(sent) \in Nat
        BY <1>0, NextShownIs
      <4> QED BY <1>0, <2>1, <4>1, <4>2
    <3> QED BY <1>0, <3>1 DEF ShownIn
  <2>3. Complete \in Frames /\ Complete.type = "complete"
    BY FramesAre DEF Complete
  <2> QED BY <1>0, <2>1, <2>2, <2>3, SendChains
<1>6. CASE PumpError
  <2>1. /\ up /\ ~final
        /\ chan' = Append(chan, Gone) /\ final' = TRUE /\ UNCHANGED <<log, ended, sent, cursor>>
    BY <1>6 DEF PumpError
  <2>2. Gone \in Frames /\ Gone.type = "error"
    BY FramesAre DEF Gone
  <2> QED BY <1>0, <2>1, <2>2, SendChains
<1>6a. CASE PumpStops
  <2>1. final' = TRUE /\ UNCHANGED <<log, ended, up, chan, sent, cursor>>
    BY <1>6a DEF PumpStops
  <2> QED BY <2>1 DEF ChanInv, Chained, Joined
<1>7. CASE Lose
  BY <1>7, LoseChains
<1>8. CASE Opens /\ UNCHANGED <<log, cursor>>
  BY <1>8, EmptyChains DEF Opens
<1>9. CASE Enter
  <2>1. CASE Opens
    BY <1>8, <1>9, <2>1 DEF Enter
  <2>2. CASE UNCHANGED <<up, chan, sent, final, reader>>
    BY <1>9, <1>a, <2>2 DEF Enter
  <2> QED BY <1>9, <2>1, <2>2 DEF Enter
<1>10. CASE Receive
  <2> DEFINE m == Head(chan)
  <2>1. /\ chan # <<>> /\ UNCHANGED <<log, ended, sent, final>>
        /\ ReceiveEvent(m) \/ ReceiveComplete(m) \/ ReceiveError(m)
    BY <1>10 DEF Receive
  <2>2. CASE up' = FALSE /\ chan' = <<>> /\ cursor' = cursor
    BY <1>b, <2>1, <2>2
  <2>3. CASE m.type = "event" /\ chan' = Tail(chan) /\ cursor' = m.cursor /\ up' = up
    BY <2>1, <2>3, TakeChains
  <2> QED BY <2>1, <2>2, <2>3, Zenon DEF ReceiveEvent, ReceiveComplete, ReceiveError, Fail
<1>11. CASE ReceiveFails
  <2>1. UNCHANGED <<log, ended, sent, final, cursor>>
    BY <1>11 DEF ReceiveFails
  <2>2. (up' = FALSE /\ chan' = <<>>) \/ UNCHANGED <<up, chan>>
    BY <1>11 DEF ReceiveFails, Fail
  <2> QED BY <1>a, <1>b, <2>1, <2>2
<1>12. CASE Reconnect
  <2>1. UNCHANGED <<log, ended, cursor>>
    BY <1>12 DEF Reconnect
  <2>2. CASE Opens
    BY <1>8, <2>1, <2>2
  <2>3. CASE sent' = sent /\ final' = final
             /\ ((up' = FALSE /\ chan' = <<>>) \/ UNCHANGED <<up, chan>>)
    BY <1>a, <1>b, <2>1, <2>3
  <2> QED BY <1>12, <2>2, <2>3, Zenon DEF Reconnect, Fail
<1>13. CASE Completed \/ Failed \/ Anext \/ CancelAnext \/ AClose
  <2>1. UNCHANGED <<log, ended, up, chan, sent, final, cursor>>
    BY <1>13, Zenon DEF Completed, Failed, Anext, CancelAnext, AClose
  <2> QED BY <1>a, <2>1
<1>14. CASE AClosed
  BY <1>14, <1>b DEF AClosed
<1> QED
  BY <1>1, <1>2, <1>3, <1>4, <1>5, <1>6, <1>6a, <1>7, <1>9, <1>10, <1>11, <1>12, <1>13, <1>14 DEF Next
-----------------------------------------------------------------------------
(* What the consumer has received and what waits for it.                   *)

\* An entry is added to the queue, the marker or an event behind the others.
LEMMA QueueGrows ==
    ASSUME NEW q \in Seq(0 .. MaxSeq), NEW e \in 0 .. MaxSeq, InOrder(q),
           e # End => \A x \in Range(q) : x < e
    PROVE  Range(Append(q, e)) = Range(q) \cup {e} /\ InOrder(Append(q, e))
<1> DEFINE n == Len(q)
           r == Append(q, e)
<1>1. /\ n \in Nat /\ DOMAIN q = 1 .. n /\ DOMAIN r = 1 .. n + 1 /\ r[n + 1] = e
      /\ \A i \in 1 .. n : r[i] = q[i]
  BY LenProperties
<1> HIDE DEF n, r
<1>2. Range(r) = Range(q) \cup {e}
  <2>1. \A i \in 1 .. n + 1 : i = n + 1 \/ i \in 1 .. n
    BY <1>1
  <2>2. n + 1 \in 1 .. n + 1 /\ \A i \in 1 .. n : i \in 1 .. n + 1
    BY <1>1
  <2>3. \A i \in DOMAIN r : r[i] \in Range(q) \cup {e}
    BY <1>1, <2>1 DEF Range
  <2>4. \A i \in DOMAIN q : q[i] \in Range(r)
    BY <1>1, <2>2 DEF Range
  <2>5. e \in Range(r)
    BY <1>1, <2>2 DEF Range
  <2> QED BY <2>3, <2>4, <2>5 DEF Range
<1>3. InOrder(r)
  <2> SUFFICES ASSUME NEW i \in 1 .. n + 1, NEW j \in 1 .. n + 1, i < j, r[j] # End
               PROVE  r[i] < r[j]
    BY <1>1 DEF InOrder
  <2>1. i \in 1 .. n /\ i \in DOMAIN q
    BY <1>1
  <2>2. r[i] = q[i] /\ q[i] \in Range(q)
    BY <1>1, <2>1 DEF Range
  <2>3. CASE j = n + 1
    BY <1>1, <2>2, <2>3
  <2>4. CASE j # n + 1
    <3>1. j \in 1 .. n
      BY <1>1, <2>4
    <3>2. j \in DOMAIN q /\ r[j] = q[j]
      BY <1>1, <3>1
    <3>3. q[i] < q[j]
      BY <2>1, <3>2 DEF InOrder
    <3> QED BY <2>2, <3>2, <3>3
  <2> QED BY <2>3, <2>4
<1> QED BY <1>2, <1>3 DEF r

\* The first entry is taken from the queue.
LEMMA QueueShrinks ==
    ASSUME NEW q \in Seq(0 .. MaxSeq), q # <<>>, InOrder(q)
    PROVE  /\ Range(q) = {Head(q)} \cup Range(Tail(q)) /\ InOrder(Tail(q))
           /\ Head(q) \in 0 .. MaxSeq
           /\ \A y \in Range(Tail(q)) : y # End => Head(q) < y
<1> DEFINE n == Len(q)
           r == Tail(q)
<1>1. /\ n \in Nat /\ n # 0 /\ DOMAIN q = 1 .. n /\ DOMAIN r = 1 .. n - 1 /\ Head(q) = q[1]
      /\ \A i \in 1 .. n - 1 : r[i] = q[i + 1] /\ Head(q) \in 0 .. MaxSeq
  BY LenProperties, EmptySeq
<1>2. Head(q) \in 0 .. MaxSeq
  BY HeadTailProperties
<1> HIDE DEF n, r
<1>3. \A i \in DOMAIN r : i + 1 \in DOMAIN q /\ r[i] = q[i + 1] /\ 1 < i + 1
  BY <1>1
<1>4. 1 \in DOMAIN q
  BY <1>1
<1>5. Range(q) = {q[1]} \cup Range(r)
  <2>1. ASSUME NEW i \in DOMAIN q, i # 1 PROVE q[i] \in Range(r)
    <3>1. i - 1 \in 1 .. n - 1 /\ (i - 1) + 1 = i
      BY <1>1, <2>1
    <3>2. i - 1 \in DOMAIN r /\ r[i - 1] = q[i]
      BY <1>1, <3>1
    <3> QED BY <3>2 DEF Range
  <2>2. \A i \in DOMAIN r : r[i] \in Range(q)
    BY <1>3 DEF Range
  <2>3. q[1] \in Range(q)
    BY <1>4 DEF Range
  <2> QED BY <2>1, <2>2, <2>3 DEF Range
<1>6. \A y \in Range(r) : y # End => q[1] < y
  BY <1>3, <1>4 DEF Range, InOrder
<1>7. InOrder(r)
  <2> SUFFICES ASSUME NEW i \in DOMAIN r, NEW j \in DOMAIN r, i < j, r[j] # End PROVE r[i] < r[j]
    BY DEF InOrder
  <2>1. i + 1 < j + 1
    BY <1>1
  <2> QED BY <1>3, <2>1 DEF InOrder
<1> QED BY <1>1, <1>2, <1>5, <1>6, <1>7 DEF r

\* What the consumer has and will get is the session's stream up to the cursor, in
\* order; after an error it is a beginning of it.
Flowing == reader \in {"none", "reading", "backoff", "completing"}

FlowInv ==
    /\ InOrder(got) /\ InOrder(queue)
    /\ \A x \in Range(got), y \in Waiting : x < y
    /\ Received \subseteq ShownIn(log, cursor)
    /\ \A x \in ShownIn(log, cursor), y \in Received : x < y => x \in Received
    /\ Flowing => Received = ShownIn(log, cursor)

\* A complete stream is complete, its consumer ends with nothing left, and only a
\* filter makes a protocol error.
HonestInv ==
    /\ terminal = "complete" => ended /\ Received = ShownIn(log, Len(log))
    /\ consumer = "eof" /\ terminal = "complete" => Waiting = {}
    /\ failure = "protocol" => \E i \in DOMAIN log : log[i] = "hidden"

\* The types that the order needs.
LEMMA FlowTypes ==
    ASSUME Typed
    PROVE  /\ queue \in Seq(0 .. MaxSeq) /\ got \in Seq(1 .. MaxSeq) /\ cursor \in Nat
           /\ Range(got) \subseteq 1 .. MaxSeq /\ Waiting \subseteq 1 .. MaxSeq
           /\ Range(queue) \subseteq 0 .. MaxSeq
           /\ Len(log) \in Nat /\ DOMAIN log = 1 .. Len(log) /\ log \in Seq(EventKinds)
<1>1. /\ queue \in Seq(0 .. MaxSeq) /\ got \in Seq(1 .. MaxSeq) /\ cursor \in Nat
      /\ Len(log) \in Nat /\ DOMAIN log = 1 .. Len(log) /\ log \in Seq(EventKinds)
  BY LenProperties DEF Typed, QueueTypes, SourceTypes
<1>2. Range(got) \subseteq 1 .. MaxSeq /\ Range(queue) \subseteq 0 .. MaxSeq
  BY <1>1, ElementOfSeq DEF Range
<1>3. Waiting \subseteq 1 .. MaxSeq
  BY <1>2 DEF Waiting, End
<1> QED BY <1>1, <1>2, <1>3

\* The order does not depend on the rest.
LEMMA FlowFrame ==
    ASSUME FlowInv, UNCHANGED <<got, queue, cursor>>,
           ShownIn(log', cursor) = ShownIn(log, cursor), Flowing' => Flowing
    PROVE  FlowInv' /\ Received' = Received /\ Waiting' = Waiting
<1>1. Received' = Received /\ Waiting' = Waiting
  BY DEF Received, Waiting
<1> QED BY <1>1 DEF FlowInv

\* An event is queued: it is the next one.
LEMMA QueuedFlows ==
    ASSUME Typed, FlowInv, Flowing, NEW e \in 1 .. MaxSeq, cursor < e,
           ShownIn(log, e) = ShownIn(log, cursor) \cup {e},
           queue' = Append(queue, e), cursor' = e, UNCHANGED <<log, got>>
    PROVE  FlowInv'
<1>1. /\ queue \in Seq(0 .. MaxSeq) /\ cursor \in Nat /\ Received = ShownIn(log, cursor)
      /\ Range(got) \subseteq 1 .. MaxSeq /\ Waiting \subseteq 1 .. MaxSeq
      /\ InOrder(queue) /\ InOrder(got) /\ e \in 0 .. MaxSeq /\ e # End
      /\ \A x \in Range(got), y \in Waiting : x < y
  BY FlowTypes DEF FlowInv, End
<1>2. \A x \in Received : x < e
  BY <1>1 DEF ShownIn
<1>3. \A x \in Range(queue) : x < e
  BY <1>1, <1>2 DEF Received, Waiting, End
<1>4. Range(queue') = Range(queue) \cup {e} /\ InOrder(queue')
  BY <1>1, <1>3, QueueGrows
<1>5. Waiting' = Waiting \cup {e} /\ Received' = Received \cup {e}
  BY <1>1, <1>4 DEF Waiting, Received
<1>6. Received' = ShownIn(log', cursor')
  BY <1>1, <1>5
<1>7. \A x \in Range(got), y \in Waiting' : x < y
  BY <1>1, <1>2, <1>5 DEF Received
<1> QED BY <1>1, <1>4, <1>6, <1>7 DEF FlowInv

\* The marker is queued behind the rest, or instead of it.
LEMMA MarkedFlows ==
    ASSUME Typed, FlowInv, queue' \in {Append(queue, End), <<End>>}, UNCHANGED <<log, got, cursor>>,
           ~Flowing'
    PROVE  /\ FlowInv'
           /\ queue' = Append(queue, End) \/ queue = <<>> => Waiting' = Waiting /\ Received' = Received
<1>1. /\ queue \in Seq(0 .. MaxSeq) /\ InOrder(queue) /\ InOrder(got) /\ End \in 0 .. MaxSeq
      /\ Range(got) \subseteq Nat /\ Waiting \subseteq Nat
      /\ \A x \in Range(got), y \in Waiting : x < y
      /\ Received \subseteq ShownIn(log, cursor)
      /\ \A x \in ShownIn(log, cursor), y \in Received : x < y => x \in Received
  BY FlowTypes DEF FlowInv, End
<1>2. CASE queue' = Append(queue, End)
  <2>1. Range(queue') = Range(queue) \cup {End} /\ InOrder(queue')
    BY <1>1, <1>2, QueueGrows
  <2>2. Waiting' = Waiting /\ Received' = Received
    BY <2>1 DEF Waiting, Received
  <2> QED BY <1>1, <2>1, <2>2 DEF FlowInv
<1>3. CASE queue' = <<End>>
  <2>1. Range(queue') = {End} /\ InOrder(queue')
    BY <1>3 DEF Range, InOrder
  <2>2. Waiting' = {} /\ Received' = Range(got)
    BY <2>1 DEF Waiting, Received
  <2>3. \A x \in ShownIn(log, cursor), y \in Range(got) : x < y => x \in Range(got)
    <3> SUFFICES ASSUME NEW x \in ShownIn(log, cursor), NEW y \in Range(got), x < y
                 PROVE  x \in Range(got)
      OBVIOUS
    <3>1. x \in Received
      BY <1>1 DEF Received
    <3>2. x \notin Waiting
      <4> SUFFICES ASSUME x \in Waiting PROVE FALSE
        OBVIOUS
      <4>1. y < x /\ x \in Nat /\ y \in Nat
        BY <1>1
      <4> QED BY <4>1
    <3> QED BY <3>1, <3>2 DEF Received
  <2>4. FlowInv'
    BY <1>1, <2>1, <2>2, <2>3 DEF FlowInv, Received
  <2>5. queue = <<>> => Waiting = {} /\ Received = Range(got)
    BY DEF Waiting, Received, Range
  <2>6. queue' = Append(queue, End) => Waiting' = Waiting /\ Received' = Received
    BY <1>2
  <2> QED BY <2>2, <2>4, <2>5, <1>2
<1> QED BY <1>2, <1>3

\* The consumer takes the first entry.
LEMMA TakenFlows ==
    ASSUME Typed, FlowInv, queue # <<>>, queue' = Tail(queue), UNCHANGED <<log, cursor, reader>>,
           got' = IF Head(queue) = End THEN got ELSE Append(got, Head(queue))
    PROVE  FlowInv' /\ Received' = Received
<1> DEFINE h == Head(queue)
<1>1. /\ queue \in Seq(0 .. MaxSeq) /\ got \in Seq(1 .. MaxSeq) /\ InOrder(queue) /\ InOrder(got)
      /\ Range(got) \subseteq 1 .. MaxSeq /\ Waiting \subseteq 1 .. MaxSeq
      /\ \A x \in Range(got), y \in Waiting : x < y
  BY FlowTypes DEF FlowInv
<1>2. /\ Range(queue) = {h} \cup Range(queue') /\ InOrder(queue') /\ h \in 0 .. MaxSeq
      /\ \A y \in Range(queue') : y # End => h < y
  BY <1>1, QueueShrinks
<1> HIDE DEF h
<1>3. CASE h = End
  <2>1. got' = got /\ Waiting' = Waiting /\ Received' = Received
    BY <1>2, <1>3 DEF h, Waiting, Received
  <2> QED BY <1>2, <2>1 DEF FlowInv, Flowing
<1>4. CASE h # End
  <2>1. got' = Append(got, h) /\ h \in Waiting /\ Waiting = {h} \cup Waiting'
    BY <1>2, <1>4 DEF h, Waiting
  <2>2. Range(got') = Range(got) \cup {h} /\ InOrder(got')
    <3>1. got \in Seq(0 .. MaxSeq)
      BY <1>1, ElementOfSeq, LenProperties
    <3>2. \A x \in Range(got) : x < h
      BY <1>1, <2>1
    <3> QED BY <1>1, <1>2, <2>1, <3>1, <3>2, QueueGrows
  <2>3. Received' = Received
    BY <2>1, <2>2 DEF Received
  <2>4. \A x \in Range(got'), y \in Waiting' : x < y
    BY <1>1, <1>2, <2>1, <2>2 DEF Waiting
  <2> QED BY <1>2, <2>2, <2>3, <2>4 DEF FlowInv, Flowing
<1> QED BY <1>3, <1>4
\* Every step keeps the order of what the consumer receives.
LEMMA FlowStep ==
    ASSUME Typed, Phases, Marked, ChanInv, FlowInv, [Next]_vars
    PROVE  FlowInv'
<1> USE DEF serverVars, readerVars
<1>a. ASSUME UNCHANGED <<log, got, queue, cursor>>, Flowing' => Flowing PROVE FlowInv'
  BY <1>a, FlowFrame
<1>b. ASSUME UNCHANGED <<log, got, queue, cursor, reader>> PROVE FlowInv'
  BY <1>a, <1>b DEF Flowing
<1>1. CASE UNCHANGED vars
  BY <1>1, <1>b DEF vars
<1>2. ASSUME NEW k \in EventKinds, Emit(k) PROVE FlowInv'
  <2>1. log' = Append(log, k) /\ UNCHANGED <<got, queue, cursor, reader>>
    BY <1>2 DEF Emit
  <2>2. ShownIn(log', cursor) = ShownIn(log, cursor)
    <3>1. cursor \in Nat /\ cursor <= Len(log) /\ log \in Seq(EventKinds)
      BY FlowTypes DEF ChanInv
    <3> QED BY <2>1, <3>1, ShownStays
  <2> QED BY <2>1, <2>2, FlowFrame DEF Flowing
<1>3. CASE \/ SessionEnds \/ PumpEvent \/ PumpComplete \/ PumpError \/ PumpStops \/ Lose \/ CancelAnext
  <2>1. UNCHANGED <<log, got, queue, cursor, reader>>
    BY <1>3, Zenon DEF SessionEnds, PumpEvent, PumpComplete, PumpError, PumpStops, Lose, CancelAnext
  <2> QED BY <2>1, <1>b
<1>4. CASE Enter
  <2>1. UNCHANGED <<log, got, queue, cursor>> /\ lease = "new"
    BY <1>4 DEF Enter
  <2>2. Flowing
    BY <2>1 DEF Phases, Flowing
  <2> QED BY <2>1, <2>2, <1>a
<1>5. CASE Receive
  <2> DEFINE m == Head(chan)
  <2>1. /\ reader = "reading" /\ chan # <<>> /\ UNCHANGED <<log, got>> /\ Flowing
        /\ ReceiveEvent(m) \/ ReceiveComplete(m) \/ ReceiveError(m)
    BY <1>5 DEF Receive, Flowing
  <2>2. CASE UNCHANGED <<queue, cursor>>
    BY <1>a, <2>1, <2>2
  <2>3. CASE m.type = "event" /\ m.seq = m.cursor /\ queue' = Append(queue, m.seq) /\ cursor' = m.cursor
    <3>1. 1 \in DOMAIN chan /\ chan[1] = m /\ m.seq \in Nat
      <4>1. Len(chan) \in Nat /\ DOMAIN chan = 1 .. Len(chan) /\ chan \in Seq(Frames)
            /\ \A i \in DOMAIN chan : chan[i].seq \in Nat
        BY PrevIs
      <4>2. 1 \in DOMAIN chan
        BY <2>1, <4>1, EmptySeq
      <4> QED BY <4>1, <4>2
    <3>2. Advances(log, cursor, m)
      BY <2>3, <3>1 DEF ChanInv, Chained, Prev
    <3> HIDE DEF m
    <3>3. cursor < m.seq /\ m.seq <= Len(log) /\ ShownIn(log, m.seq) = ShownIn(log, cursor) \cup {m.seq}
      BY <2>3, <3>2 DEF Advances
    <3>4. m.seq \in 1 .. MaxSeq
      BY <3>1, <3>3, FlowTypes DEF Typed, SourceTypes
    <3> QED BY <2>1, <2>3, <3>3, <3>4, QueuedFlows
  <2> QED BY <2>1, <2>2, <2>3, Zenon DEF ReceiveEvent, ReceiveComplete, ReceiveError
<1>6. CASE ReceiveFails
  <2>1. UNCHANGED <<log, got, queue, cursor>> /\ reader = "reading"
    BY <1>6 DEF ReceiveFails
  <2> QED BY <2>1, <1>a DEF Flowing
<1>7. CASE Reconnect
  <2>1. UNCHANGED <<log, got, queue, cursor>> /\ reader = "backoff"
    BY <1>7 DEF Reconnect
  <2> QED BY <2>1, <1>a DEF Flowing
<1>8. CASE Completed
  <2>1. reader = "completing" /\ reader' = "done" /\ UNCHANGED <<log, got, cursor>>
        /\ queue' \in {queue, <<End>>}
    BY <1>8 DEF Completed
  <2>2. Flowing /\ ~Flowing'
    BY <2>1 DEF Flowing
  <2>3. CASE queue' = queue
    BY <1>a, <2>1, <2>2, <2>3
  <2>4. CASE queue' = <<End>>
    BY <2>1, <2>2, <2>4, MarkedFlows
  <2> QED BY <2>1, <2>3, <2>4
<1>9. CASE Failed
  <2>1. reader' = "done" /\ UNCHANGED <<log, got, cursor>> /\ queue' = <<End>>
    BY <1>9 DEF Failed
  <2> QED BY <2>1, MarkedFlows DEF Flowing
<1>10. CASE Anext
  <2>1. UNCHANGED <<log, cursor, reader>>
    BY <1>10 DEF Anext
  <2>2. CASE queue = <<>>
    <3>1. UNCHANGED <<got, queue>>
      BY <1>10, <2>2 DEF Anext, Finish
    <3> QED BY <2>1, <3>1, <1>b
  <2>3. CASE queue # <<>>
    <3>1. queue' = Tail(queue) /\ got' = IF Head(queue) = End THEN got ELSE Append(got, Head(queue))
      BY <1>10, <2>3 DEF Anext, Finish
    <3> QED BY <2>1, <2>3, <3>1, TakenFlows
  <2> QED BY <2>2, <2>3
<1>11. CASE AClose
  <2>1. UNCHANGED <<log, got, queue, cursor>>
        /\ reader' = IF reader = "none" THEN "none" ELSE "done"
    BY <1>11 DEF AClose
  <2> QED BY <2>1, <1>a DEF Flowing
<1>12. CASE AClosed
  <2>1. UNCHANGED <<log, got, cursor, reader>> /\ reader = "done" /\ queue' \in {queue, Append(queue, End)}
    BY <1>12 DEF AClosed, Phases
  <2>2. CASE queue' = queue
    BY <1>b, <2>1, <2>2
  <2>3. CASE queue' = Append(queue, End)
    BY <2>1, <2>3, MarkedFlows DEF Flowing
  <2> QED BY <2>1, <2>2, <2>3
<1> QED
  BY <1>1, <1>2, <1>3, <1>4, <1>5, <1>6, <1>7, <1>8, <1>9, <1>10, <1>11, <1>12 DEF Next

\* A cursor that the server does not confirm has an event behind it that the
\* filter hides.
LEMMA Unconfirmed ==
    ASSUME Typed, NEW c \in Nat, c <= Len(log), NextShown(c) # c + 1
    PROVE  c + 1 \in DOMAIN log /\ log[c + 1] = "hidden"
<1>1. Len(log) \in Nat /\ DOMAIN log = 1 .. Len(log) /\ log \in Seq(EventKinds)
  BY FlowTypes
<1>2. /\ NextShown(c) \in Nat /\ NextShown(c) <= Len(log) + 1
      /\ NextShown(c) <= Len(log) => c < NextShown(c)
      /\ \A i \in Nat : c < i /\ i < NextShown(c) /\ i <= Len(log) => log[i] # "shown"
  BY <1>1, NextShownIs
<1>3. c + 1 < NextShown(c) /\ c + 1 <= Len(log)
  BY <1>1, <1>2
<1>4. c + 1 \in Nat /\ c < c + 1 /\ c + 1 \in DOMAIN log
  BY <1>1, <1>3
<1>5. log[c + 1] # "shown"
  BY <1>2, <1>3, <1>4
<1>6. log[c + 1] \in EventKinds
  BY <1>1, <1>4, ElementOfSeq
<1> QED BY <1>4, <1>5, <1>6

\* An event whose cursor is further than its number stands before one that the
\* filter hides.
LEMMA Skipped ==
    ASSUME Typed, NEW p \in Nat, NEW m \in Frames, Advances(log, p, m), m.seq # m.cursor
    PROVE  m.cursor \in DOMAIN log /\ log[m.cursor] = "hidden"
<1>1. Len(log) \in Nat /\ DOMAIN log = 1 .. Len(log) /\ log \in Seq(EventKinds)
  BY FlowTypes
<1>2. /\ p < m.seq /\ m.seq < m.cursor /\ m.cursor <= Len(log) /\ m.cursor \in Nat
      /\ ShownIn(log, m.cursor) = ShownIn(log, p) \cup {m.seq}
  <2>1. m.seq \in Nat /\ m.cursor \in Nat
    BY FramesAre
  <2> QED BY <2>1 DEF Advances
<1>3. m.seq \in Nat
  BY FramesAre
<1>4. m.cursor \in DOMAIN log /\ m.cursor \in 1 .. m.cursor
  BY <1>1, <1>2, <1>3
<1>5. m.cursor \notin ShownIn(log, p)
  BY <1>2, <1>3 DEF ShownIn
<1>6. log[m.cursor] # "shown"
  BY <1>2, <1>4, <1>5 DEF ShownIn
<1>7. log[m.cursor] \in EventKinds
  BY <1>1, <1>4, ElementOfSeq
<1> QED BY <1>4, <1>6, <1>7
\* Every step keeps what the end of a watch says.
LEMMA HonestStep ==
    ASSUME Typed, Phases, Marked, ChanInv, FlowInv, HonestInv, [Next]_vars
    PROVE  HonestInv'
<1> USE DEF serverVars, readerVars
<1>a. ASSUME UNCHANGED <<log, got, queue, terminal, consumer>>, ended => ended',
             failure' = "protocol" => \E i \in DOMAIN log : log[i] = "hidden"
      PROVE  HonestInv'
  <2>1. Received' = Received /\ Waiting' = Waiting
    BY <1>a DEF Received, Waiting
  <2> QED BY <1>a, <2>1 DEF HonestInv
<1>b. ASSUME UNCHANGED <<log, got, queue, terminal, consumer, failure>>, ended => ended' PROVE HonestInv'
  BY <1>a, <1>b DEF HonestInv
<1>c. ASSUME UNCHANGED log, terminal' # "complete",
             failure' = "protocol" => \E i \in DOMAIN log : log[i] = "hidden"
      PROVE  HonestInv'
  BY <1>c DEF HonestInv
<1>1. CASE UNCHANGED vars
  BY <1>1, <1>b DEF vars
<1>2. ASSUME NEW k \in EventKinds, Emit(k) PROVE HonestInv'
  <2>1. /\ ~ended /\ log' = Append(log, k) /\ terminal' = terminal /\ failure' = failure
    BY <1>2 DEF Emit
  <2>2. terminal' # "complete"
    BY <2>1 DEF HonestInv
  <2>3. ASSUME NEW i \in DOMAIN log, log[i] = "hidden" PROVE i \in DOMAIN log' /\ log'[i] = "hidden"
    BY <2>1, <2>3, FlowTypes
  <2>4. failure' = "protocol" => \E i \in DOMAIN log' : log'[i] = "hidden"
    BY <2>1, <2>3 DEF HonestInv
  <2> QED BY <2>2, <2>4 DEF HonestInv
<1>3. CASE \/ SessionEnds \/ PumpEvent \/ PumpComplete \/ PumpError \/ PumpStops \/ Lose \/ AClose
  <2>1. UNCHANGED <<log, got, queue, terminal, consumer, failure>>
    BY <1>3, Zenon DEF SessionEnds, PumpEvent, PumpComplete, PumpError, PumpStops, Lose, AClose
  <2>2. ended' = ended \/ ended' = TRUE
    BY <1>3, Zenon DEF SessionEnds, PumpEvent, PumpComplete, PumpError, PumpStops, Lose, AClose
  <2> QED BY <2>1, <2>2, <1>b
<1>4. CASE Enter
  BY <1>4, <1>b DEF Enter
<1>5. CASE Receive
  <2> DEFINE m == Head(chan)
  <2>1. /\ reader = "reading" /\ chan # <<>> /\ UNCHANGED <<log, ended, got, consumer>>
        /\ terminal = "none" /\ consumer # "eof"
        /\ ReceiveEvent(m) \/ ReceiveComplete(m) \/ ReceiveError(m)
    BY <1>5 DEF Receive, Phases
  <2>2. /\ 1 \in DOMAIN chan /\ chan[1] = m /\ m \in Frames /\ cursor \in Nat
    <3>1. Len(chan) \in Nat /\ DOMAIN chan = 1 .. Len(chan) /\ chan \in Seq(Frames) /\ cursor \in Nat
          /\ \A i \in DOMAIN chan : chan[i] \in Frames
      BY PrevIs
    <3>2. 1 \in DOMAIN chan
      BY <2>1, <3>1, EmptySeq
    <3> QED BY <3>1, <3>2
  <2>3. /\ m.type = "event" => Advances(log, cursor, m)
        /\ m.type = "complete" => ended /\ ShownIn(log, cursor) = ShownIn(log, Len(log))
    BY <2>2 DEF ChanInv, Chained, Prev
  <2> HIDE DEF m
  <2>4. CASE ReceiveEvent(m)
    <3>1. CASE Fail("protocol")
      <4>1. ~(m.cursor <= cursor)
        <5>1. m.seq \in Nat /\ m.cursor \in Nat
          BY <2>2, FramesAre
        <5> QED BY <2>2, <2>3, <2>4, <5>1 DEF ReceiveEvent, Advances
      <4>2. m.type = "event" /\ (m.seq # m.cursor \/ UNCHANGED failure)
        BY <2>4, <3>1, <4>1 DEF ReceiveEvent, Fail
      <4>3. failure' = "protocol" => \E i \in DOMAIN log : log[i] = "hidden"
        BY <2>2, <2>3, <4>2, Skipped DEF HonestInv
      <4> QED BY <1>c, <2>1, <3>1, <4>3 DEF Fail
    <3>2. CASE Fail("overflow")
      BY <1>c, <2>1, <3>2 DEF Fail
    <3>3. CASE UNCHANGED <<terminal, failure>>
      BY <1>c, <2>1, <3>3 DEF HonestInv
    <3> QED BY <2>4, <3>1, <3>2, <3>3, Zenon DEF ReceiveEvent
  <2>5. CASE ReceiveComplete(m)
    <3>1. m.type = "complete" /\ terminal' = "complete" /\ UNCHANGED <<queue, cursor, failure>>
      BY <2>5 DEF ReceiveComplete
    <3>2. Received' = Received /\ Received = ShownIn(log, Len(log)) /\ ended'
      BY <2>1, <2>3, <3>1 DEF FlowInv, Flowing, Received, Waiting
    <3> QED BY <2>1, <3>1, <3>2 DEF HonestInv
  <2>6. CASE ReceiveError(m)
    BY <1>c, <2>1, <2>6 DEF ReceiveError, Fail
  <2> QED BY <2>1, <2>4, <2>5, <2>6
<1>6. CASE ReceiveFails
  <2>1. UNCHANGED log /\ terminal = "none"
    BY <1>6 DEF ReceiveFails, Phases
  <2>2. Fail("lost") \/ UNCHANGED <<terminal, failure>>
    BY <1>6 DEF ReceiveFails
  <2> QED BY <1>c, <2>1, <2>2 DEF Fail, HonestInv
<1>7. CASE Reconnect
  <2>1. UNCHANGED log /\ terminal = "none"
    BY <1>7 DEF Reconnect, Phases
  <2>2. CASE Fail("protocol") /\ ~CursorConfirmed
    <3>1. cursor \in Nat /\ cursor <= Len(log)
      BY FlowTypes DEF ChanInv
    <3>2. cursor + 1 \in DOMAIN log /\ log[cursor + 1] = "hidden"
      BY <2>2, <3>1, Unconfirmed DEF CursorConfirmed
    <3> QED BY <1>c, <2>1, <2>2, <3>2 DEF Fail
  <2>3. CASE \E f \in {"refused", "gap", "subscription", "lost"} : Fail(f)
    BY <1>c, <2>1, <2>3 DEF Fail
  <2>4. CASE UNCHANGED <<terminal, failure>>
    BY <1>c, <2>1, <2>4 DEF HonestInv
  <2> QED BY <1>7, <2>2, <2>3, <2>4, Zenon DEF Reconnect
<1>8. CASE Completed
  <2>1. /\ queue' = (IF queue = <<>> THEN <<End>> ELSE queue)
        /\ UNCHANGED <<log, ended, got, cursor, terminal, consumer, failure>> /\ reader' = "done"
    BY <1>8 DEF Completed
  <2>2. CASE queue # <<>>
    BY <1>b, <2>1, <2>2
  <2>3. CASE queue = <<>>
    <3>1. Waiting' = Waiting /\ Received' = Received
      BY <2>1, <2>3, MarkedFlows DEF Flowing
    <3> QED BY <2>1, <3>1 DEF HonestInv
  <2> QED BY <2>2, <2>3
<1>9. CASE Failed
  <2>1. terminal' = "error" /\ UNCHANGED <<log, failure>>
    BY <1>9 DEF Failed, Phases
  <2> QED BY <1>c, <2>1 DEF HonestInv
<1>10. CASE Anext
  <2>1. UNCHANGED <<log, ended, cursor, reader, terminal>> /\ failure' \in {failure, "none"}
        /\ consumer # "eof"
    BY <1>10 DEF Anext, Finish
  <2>2. CASE queue = <<>>
    <3>1. UNCHANGED <<got, queue>>
      BY <1>10, <2>2 DEF Anext, Finish
    <3>2. Received' = Received /\ Waiting' = {}
      BY <2>2, <3>1 DEF Received, Waiting, Range
    <3> QED BY <2>1, <3>2 DEF HonestInv
  <2>3. CASE queue # <<>>
    <3>1. queue' = Tail(queue) /\ got' = IF Head(queue) = End THEN got ELSE Append(got, Head(queue))
      BY <1>10, <2>3 DEF Anext, Finish
    <3>2. Received' = Received
      BY <2>1, <2>3, <3>1, TakenFlows
    <3>3. consumer' = "eof" => Head(queue) = End
      BY <1>10, <2>3 DEF Anext
    <3>4. Head(queue) = End => Waiting' = {}
      <4> SUFFICES ASSUME Head(queue) = End PROVE Waiting' = {}
        OBVIOUS
      <4>1. queue \in Seq(0 .. MaxSeq) /\ Len(queue) \in Nat /\ DOMAIN queue = 1 .. Len(queue)
        BY FlowTypes, LenProperties
      <4>2. 1 \in DOMAIN queue /\ queue[1] = End
        BY <2>3, <4>1, EmptySeq
      <4>3. Len(queue) = 1
        BY <4>2 DEF Marked
      <4>4. DOMAIN queue' = {}
        BY <2>3, <3>1, <4>1, <4>3
      <4> QED BY <4>4 DEF Waiting, Range
    <3> QED BY <2>1, <3>2, <3>3, <3>4 DEF HonestInv
  <2> QED BY <2>2, <2>3
<1>11. CASE CancelAnext
  <2>1. UNCHANGED <<log, ended, got, queue, terminal, failure>> /\ consumer' = "ready"
    BY <1>11 DEF CancelAnext
  <2>2. Received' = Received
    BY <2>1 DEF Received, Waiting
  <2> QED BY <2>1, <2>2 DEF HonestInv
<1>12. CASE AClosed
  <2>1. UNCHANGED <<log, ended, got, consumer, failure>>
    BY <1>12 DEF AClosed
  <2>2. CASE terminal = "none"
    BY <1>12, <1>c, <2>1, <2>2 DEF AClosed, HonestInv
  <2>3. CASE terminal # "none"
    BY <1>12, <1>b, <2>1, <2>3 DEF AClosed
  <2> QED BY <2>2, <2>3
<1> QED
  BY <1>1, <1>2, <1>3, <1>4, <1>5, <1>6, <1>7, <1>8, <1>9, <1>10, <1>11, <1>12 DEF Next

\* A watch starts with nothing under way and nothing received.
LEMMA FlowInit == Init => ChanInv /\ FlowInv /\ HonestInv
<1> SUFFICES ASSUME Init PROVE ChanInv /\ FlowInv /\ HonestInv
  OBVIOUS
<1>1. /\ log = <<>> /\ ended = FALSE /\ up = FALSE /\ chan = <<>> /\ sent = 0
      /\ reader = "none" /\ cursor = 0 /\ queue = <<>> /\ terminal = "none" /\ failure = "none"
      /\ consumer = "ready" /\ got = <<>>
  BY DEF Init
<1>2. Len(<<>>) = 0 /\ DOMAIN <<>> = {}
  BY EmptySeq
<1>3. Waiting = {} /\ Received = {} /\ ShownIn(log, 0) = {} /\ Range(got) = {}
  BY <1>1, <1>2 DEF Waiting, Received, ShownIn, Range
<1>4. ChanInv
  <2>1. cursor <= Len(log) /\ sent <= Len(log)
    BY <1>1, <1>2
  <2> QED BY <1>1, <1>2, <2>1 DEF ChanInv, Chained, Joined
<1>5. InOrder(<<>>)
  BY <1>2 DEF InOrder
<1> QED BY <1>1, <1>3, <1>4, <1>5 DEF FlowInv, HonestInv

\* The chain of the frames, the order and the honesty hold throughout.
LEMMA WatchInvariant == Spec => [](Typed /\ ChanInv /\ FlowInv /\ HonestInv)
BY TypesInvariant, FlowInit, ChanStep, FlowStep, HonestStep, PTL DEF Spec

\* However often the connection of a watch is lost and replaced, and with whatever
\* tail of its frames, the consumer of _RemoteEventStream gets the session's stream
\* without a loss, a repetition or a change of order, up to the cursor from which
\* _open_generation resumes.
THEOREM WatchesAreContinuous == Spec => []WatchContinuous
<1>1. FlowInv => WatchContinuous
  BY DEF FlowInv, Flowing, WatchContinuous, ShownUpTo, ShownIn
<1> QED BY <1>1, WatchInvariant, PTL

\* An iteration that ends without an error and without an aclose has delivered the
\* whole stream of a session that has ended; a protocol error needs a filter.
THEOREM EndsAreHonest == Spec => []EndIsHonest
<1>1. HonestInv => EndIsHonest
  BY DEF HonestInv, EndIsHonest, Received, ShownUpTo, ShownIn
<1> QED BY <1>1, WatchInvariant, PTL
=============================================================================
